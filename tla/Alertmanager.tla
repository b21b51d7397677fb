---------------------------- MODULE Alertmanager ----------------------------
(* The Alertmanager the operator talks to: the silences it holds, the       *)
(* listing the client asks for, and how the server answers its requests.    *)
EXTENDS Environment, SilenceTypes, Tenancy

CONSTANTS
  SilenceIds,      \* bound: ids of silences alive at the same time
  NoId,            \* the empty ID of a silence that is not stored yet
  UserComments,    \* comments of the silences people write by hand,
  UserTenants,     \* and the tenants they write them for
  InvalidNames,    \* texts that are no names of labels, the empty one among them
  InvalidRegexes,  \* texts that are no regular expressions
  EmptyRegexes     \* regular expressions that match the empty text

ASSUME AlertmanagerAssumption ==
  /\ UserComments \subseteq Comment /\ UserTenants \subseteq Text
  /\ "" \in InvalidNames

VARIABLE silences  \* the silence stored under each id

AlertmanagerTypeOK == silences \in [SilenceIds -> Silence]

Unexpired(i) == now < silences[i].endsAt

---------------------------------------------------------------------------
(* The client's view.  The order of a listing is the server's, so its first *)
(* match is any match.                                                      *)
ListSilences_NoHeader(tenant) ==   \* mutant: X-Scope-OrgID is not set
  {i \in SilenceIds : Unexpired(i) /\ silences[i].tenant = TenantId}

ListSilences(tenant) ==
  {i \in SilenceIds : Unexpired(i) /\ silences[i].tenant = EffectiveTenant(tenant)}

GetSilenceByComment_First(comment, tenant) ==   \* mutant: any silence matches
  ListSilences(tenant)

GetSilenceByComment(comment, tenant) ==
  {i \in ListSilences(tenant) : silences[i].comment = comment}

OwnByComment(comment, tenant) ==
  {i \in GetSilenceByComment(comment, tenant) : silences[i].createdBy = CreatedBy}

---------------------------------------------------------------------------
(* The server.  An id whose silence expired stands for a new one too, once  *)
(* no request in flight names it: no listing tells them apart.              *)
Fresh(i, held) == ~Unexpired(i) /\ i \notin held

ValidMatcher(m) ==
  m.name \notin InvalidNames /\ (m.isRegex => m.value \notin InvalidRegexes)

\* The values with which a matcher matches alerts that lack the label.
EmptyTexts(isRegex) == IF isRegex THEN EmptyRegexes ELSE {""}

MatchesEmpty(m) == m.isEqual /\ m.value \in EmptyTexts(m.isRegex)

(* One matcher at least has to ask for something; it is the start that was  *)
(* sent that has to be before the end.                                      *)
Accepts(s) ==
  /\ \A j \in DOMAIN s.matchers : ValidMatcher(s.matchers[j])
  /\ \E j \in DOMAIN s.matchers : ~MatchesEmpty(s.matchers[j])
  /\ s.startsAt < s.endsAt /\ now <= s.endsAt

Stored(s, tenant, startsAt) ==
  [s EXCEPT !.tenant = EffectiveTenant(tenant), !.startsAt = startsAt]

\* A new silence does not start in the past.
NotPast(time) == IF time < now THEN now ELSE time

PostNew(s, tenant, held) ==
  /\ Accepts(s)
  /\ \E i \in SilenceIds :
       /\ Fresh(i, held)
       /\ silences' = [silences EXCEPT ![i] = Stored(s, tenant, NotPast(s.startsAt))]

(* Other matchers need another silence, and so does another start of one    *)
(* that has begun, or a start in the past of one that has not.              *)
CanUpdate(old, s) ==
  /\ s.matchers = old.matchers
  /\ IF now < old.startsAt THEN now <= s.startsAt ELSE s.startsAt = old.startsAt

(* A silence posted under an id changes the one that is there or, when the  *)
(* server cannot (it expired, or what changed needs a new one), expires it  *)
(* and gets another id.                                                     *)
PostOver(id, s, tenant, held) ==
  /\ Accepts(s)
  /\ \/ /\ Unexpired(id) /\ CanUpdate(silences[id], s)
        /\ silences' = [silences EXCEPT ![id] = Stored(s, tenant, s.startsAt)]
     \/ \E i \in SilenceIds :
          /\ ~(Unexpired(id) /\ CanUpdate(silences[id], s))
          /\ Fresh(i, held)
          /\ silences' = [j \in SilenceIds |->
                            CASE j = i -> Stored(s, tenant, NotPast(s.startsAt))
                              [] j = id /\ j # i /\ Unexpired(j) ->
                                   [silences[j] EXCEPT !.endsAt = now]
                              [] OTHER -> silences[j]]

Expire(id) == Unexpired(id) /\ silences' = [silences EXCEPT ![id].endsAt = now]

---------------------------------------------------------------------------
(* People use the same server: they expire any silence, the operator's too, *)
(* and write their own.                                                     *)
UserExpires(i) == UserActs("expire") /\ Expire(i)

UserSilences(i, comment, tenant, held) ==
  /\ UserActs("silence")
  /\ Fresh(i, held)
  /\ comment \in UserComments
  /\ silences' = [silences EXCEPT ![i] =
       [NoSilence EXCEPT !.comment = comment, !.createdBy = "user",
                         !.tenant = tenant, !.startsAt = now, !.endsAt = MaxTime + 1]]
=============================================================================
