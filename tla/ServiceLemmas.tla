--------------------------- MODULE ServiceLemmas ----------------------------
(* What the proofs about the service and its callers share: what its        *)
(* operators return, what one request does to the silences Alertmanager     *)
(* holds, and what the caller may conclude.                                 *)
EXTENDS SilenceService, Conversion, TLAPS

---------------------------------------------------------------------------
(* Types.  First what the operators return.                                 *)

\* The comment of an object is a comment.
LEMMA CommentType ==
  ASSUME NEW o \in Object
  PROVE  SilenceComment(o) \in Comment
<1>2. o.namespace \in Seq(Text) /\ o.name \in Seq(Text)
  BY DEF Object, Comment
<1>3. CreatedBy \in Text
  BY LiteralAssumption
<1>4. <<CreatedBy>> \in Seq(Text)
  BY <1>3
<1>5. <<CreatedBy>> \o o.namespace \in Seq(Text)
  BY <1>2, <1>4
<1> QED
  BY <1>2, <1>5 DEF SilenceComment, Comment

\* Either conversion of matchers returns a sequence of matchers.
LEMMA MatchersType ==
  ASSUME NEW o \in Object, NEW spec, Admitted(o, spec)
  PROVE  /\ o.api = "v1alpha1" => MatchersV1(spec.matchers) \in Seq(Matcher)
         /\ o.api = "v1alpha2" => convertMatchers(spec.matchers) \in Seq(Matcher)
<1>1. ASSUME NEW M \in Seq(MatcherV1)
      PROVE  MatchersV1(M) \in Seq(Matcher)
  <2>1. ASSUME NEW m \in MatcherV1
        PROVE  [name |-> m.name, value |-> m.value, isRegex |-> m.isRegex,
                isEqual |-> m.isEqual # FALSE] \in Matcher
    <3>1. m.name \in Text /\ m.value \in Text /\ m.isRegex \in BOOLEAN
      BY Zenon DEF MatcherV1
    <3>2. (m.isEqual # FALSE) \in BOOLEAN
      BY SMT
    <3> QED
      BY <3>1, <3>2, Zenon DEF Matcher
  <2>2. \A j \in 1..Len(M) : M[j] \in MatcherV1
    OBVIOUS
  <2> DEFINE e(j) == [name |-> M[j].name, value |-> M[j].value,
                      isRegex |-> M[j].isRegex, isEqual |-> M[j].isEqual # FALSE]
  <2>3. \A j \in 1..Len(M) : e(j) \in Matcher
    BY <2>1, <2>2
  <2> HIDE DEF e
  <2>4. [j \in 1..Len(M) |-> e(j)] \in Seq(Matcher)
    BY <2>3
  <2> QED
    BY <2>4 DEF MatchersV1, e
<1>2. ASSUME NEW M \in Seq(MatcherV2)
      PROVE  convertMatchers(M) \in Seq(Matcher)
  <2>1. ASSUME NEW m \in MatcherV2
        PROVE  [name |-> m.name, value |-> m.value,
                isRegex |-> m.matchType \in {MatchRegexMatch, MatchRegexNotMatch},
                isEqual |-> m.matchType \in {"", MatchEqual, MatchRegexMatch}] \in Matcher
    <3>1. m.name \in Text /\ m.value \in Text
      BY DEF MatcherV2
    <3>2. /\ (m.matchType \in {MatchRegexMatch, MatchRegexNotMatch}) \in BOOLEAN
          /\ (m.matchType \in {"", MatchEqual, MatchRegexMatch}) \in BOOLEAN
      BY SMT
    <3> QED
      BY <3>1, <3>2, Zenon DEF Matcher
  <2>2. \A j \in 1..Len(M) : M[j] \in MatcherV2
    OBVIOUS
  <2> DEFINE e(j) ==
        [name |-> M[j].name, value |-> M[j].value,
         isRegex |-> M[j].matchType \in {MatchRegexMatch, MatchRegexNotMatch},
         isEqual |-> M[j].matchType \in {"", MatchEqual, MatchRegexMatch}]
  <2>3. \A j \in 1..Len(M) : e(j) \in Matcher
    BY <2>1, <2>2
  <2> HIDE DEF e
  <2>4. [j \in 1..Len(M) |-> e(j)] \in Seq(Matcher)
    BY <2>3
  <2> QED
    BY <2>4 DEF convertMatchers, e
<1>3. o.api = "v1alpha1" => spec.matchers \in Seq(MatcherV1)
  BY DEF Admitted, SpecV1
<1>4. o.api = "v1alpha2" => spec.matchers \in Seq(MatcherV2)
  BY DEF Admitted, SpecV2
<1> QED
  BY <1>1, <1>2, <1>3, <1>4

\* The silence built for an admitted object is a silence.
LEMMA ConversionType ==
  ASSUME NEW o \in Object, NEW created \in Nat, NEW spec, Admitted(o, spec),
         ~ConversionFails(o, created, spec)
  PROVE  /\ getSilenceFromCR(o, created, spec) \in Silence
         /\ getSilenceFromCR(o, created, spec).comment = SilenceComment(o)
         /\ getSilenceFromCR(o, created, spec).createdBy = CreatedBy
<1> DEFINE s == getSilenceFromCR(o, created, spec)
<1>1. o.api \in {"v1alpha1", "v1alpha2"}
  BY DEF Object
<1>2. spec.validUntil \in ValidUntil
  BY <1>1 DEF Admitted, SpecV1, SpecV2
<1>3. SilenceEndsAt(created, spec.validUntil) \in Nat
  BY <1>2, HundredYearsAssumption DEF SilenceEndsAt, ValidUntil
<1>4. o.api = "v1alpha2" =>
        /\ StartsAt(created, spec) \in Nat
        /\ EndsAt(created, spec) \in Nat
  <2> HAVE o.api = "v1alpha2"
  <2>1. spec \in SpecV2
    BY DEF Admitted
  <2>2. /\ spec.startsAt # Unset => spec.startsAt \in Nat
        /\ spec.endsAt # Unset => spec.endsAt \in Nat
    BY <2>1, Zenon DEF SpecV2
  <2>3. StartsAt(created, spec) \in Nat
    BY <2>2 DEF StartsAt
  <2>4. spec.endsAt = Unset /\ spec.duration # Unset =>
          StartsAt(created, spec) + spec.duration \in Nat
    <3>1. spec.endsAt = Unset => spec.duration # Overflow
      BY DEF ConversionFails, TimesFail
    <3>2. spec.duration \in {Unset, Overflow} \/ spec.duration \in Nat
      BY <2>1, Zenon DEF SpecV2
    <3> QED
      BY <2>3, <3>1, <3>2
  <2>5. EndsAt(created, spec) \in Nat
    BY <1>3, <2>2, <2>4, Zenon DEF EndsAt
  <2> QED
    BY <2>3, <2>5
<1>5. s.startsAt \in Nat /\ s.endsAt \in Nat
  BY <1>1, <1>3, <1>4 DEF getSilenceFromCR
<1>6. s.matchers \in Seq(Matcher)
  BY <1>1, MatchersType DEF getSilenceFromCR
<1>7. s.comment = SilenceComment(o) /\ s.createdBy = CreatedBy /\ s.tenant = ""
  BY DEF getSilenceFromCR
<1>8. s = [comment |-> s.comment, createdBy |-> s.createdBy, tenant |-> s.tenant,
           matchers |-> s.matchers, startsAt |-> s.startsAt, endsAt |-> s.endsAt]
  BY DEF getSilenceFromCR
<1>9. s.comment \in Comment /\ s.createdBy \in Text /\ s.tenant \in Text
  BY <1>7, CommentType, LiteralAssumption
<1> HIDE DEF s
<1> QED
  BY <1>5, <1>6, <1>7, <1>8, <1>9 DEF Silence, s

\* An empty slot is a silence.
LEMMA NoSilenceType == NoSilence \in Silence
<1>1. <<>> \in Comment /\ <<>> \in Seq(Matcher)
  BY DEF Comment
<1> QED
  BY <1>1, LiteralAssumption DEF NoSilence, Silence


---------------------------------------------------------------------------
(* Types: the parts of steps.                                               *)

\* A failure is counted.
LEMMA FaultType ==
  ASSUME EnvironmentTypeOK, NEW kind, Fault(kind)
  PROVE  EnvironmentTypeOK'
  BY DEF EnvironmentTypeOK, Fault

\* A change of a user is counted.
LEMMA UserActsType ==
  ASSUME EnvironmentTypeOK, NEW kind, UserActs(kind)
  PROVE  EnvironmentTypeOK'
  BY DEF EnvironmentTypeOK, UserActs

\* What the server stores for a silence is a silence.
LEMMA StoredType ==
  ASSUME NEW s \in Silence, NEW tenant \in Text, NEW startsAt \in Nat
  PROVE  Stored(s, tenant, startsAt) \in Silence
<1>1. EffectiveTenant(tenant) \in Text
  BY TenancyAssumption DEF EffectiveTenant
<1> QED
  BY <1>1 DEF Stored, Silence

\* A silence that is expired early is a silence.
LEMMA EndedType ==
  ASSUME NEW s \in Silence, NEW time \in Nat
  PROVE  [s EXCEPT !.endsAt = time] \in Silence
  BY DEF Silence

\* Whatever the server does with a silence it accepts, it stores silences.
LEMMA PostType ==
  ASSUME AlertmanagerTypeOK, EnvironmentTypeOK,
         NEW s \in Silence, NEW tenant \in Text, NEW held, NEW id,
         PostNew(s, tenant, held) \/ PostOver(id, s, tenant, held)
  PROVE  AlertmanagerTypeOK'
<1> DEFINE t == Stored(s, tenant, NotPast(s.startsAt))
           u == Stored(s, tenant, s.startsAt)
<1>1. t \in Silence /\ u \in Silence
  <2>1. s.startsAt \in Nat /\ NotPast(s.startsAt) \in Nat
    BY DEF Silence, NotPast, EnvironmentTypeOK
  <2> QED
    BY <2>1, StoredType
<1>2. \A j \in SilenceIds : /\ silences[j] \in Silence
                            /\ [silences[j] EXCEPT !.endsAt = now] \in Silence
  BY EndedType DEF AlertmanagerTypeOK, EnvironmentTypeOK
<1> HIDE DEF t, u
<1>3. CASE \E i \in SilenceIds : silences' = [silences EXCEPT ![i] = t]
  BY <1>1, <1>3 DEF AlertmanagerTypeOK
<1>4. CASE silences' = [silences EXCEPT ![id] = u]
  BY <1>1, <1>4 DEF AlertmanagerTypeOK
<1>5. CASE \E i \in SilenceIds :
             silences' = [j \in SilenceIds |->
                            CASE j = i -> t
                              [] j = id /\ j # i /\ Unexpired(j) ->
                                   [silences[j] EXCEPT !.endsAt = now]
                              [] OTHER -> silences[j]]
  BY <1>1, <1>2, <1>5 DEF AlertmanagerTypeOK
<1> QED
  BY <1>3, <1>4, <1>5 DEF PostNew, PostOver, t, u

\* Expiring a silence keeps the type of the store.
LEMMA ExpireType ==
  ASSUME AlertmanagerTypeOK, EnvironmentTypeOK, NEW id \in SilenceIds, Expire(id)
  PROVE  AlertmanagerTypeOK'
<1>1. [silences[id] EXCEPT !.endsAt = now] \in Silence
  BY EndedType DEF AlertmanagerTypeOK, EnvironmentTypeOK
<1>2. silences' = [silences EXCEPT ![id] = [silences[id] EXCEPT !.endsAt = now]]
  BY DEF Expire
<1> QED
  BY <1>1, <1>2 DEF AlertmanagerTypeOK

\* A call that moves on is a call.
LEMMA GoToType ==
  ASSUME CallTypeOK, NEW c \in Callers, NEW step \in Steps, GoTo(c, step)
  PROVE  CallTypeOK'
  BY DEF CallTypeOK, GoTo

\* A call that moves on with an id is a call.
LEMMA GoToIdType ==
  ASSUME CallTypeOK, NEW c \in Callers, NEW step \in Steps,
         NEW i \in SilenceIds, GoToId(c, step, i)
  PROVE  CallTypeOK'
  BY DEF CallTypeOK, GoToId

\* No call is a value of the type of calls.
LEMMA NoCallType ==
  NoCall \in [step : Steps, op : {"none", "sync", "delete"}, silence : Silence,
              tenant : Text, now : Nat, id : SilenceIds \cup {NoId}]
  BY NoSilenceType, LiteralAssumption DEF NoCall, Steps

\* What it holds.
LEMMA NoCallFields ==
  /\ NoCall.step = "none" /\ NoCall.op = "none" /\ NoCall.now = 0
  BY DEF NoCall

\* A call that is collected leaves none.
LEMMA CollectType ==
  ASSUME CallTypeOK, NEW c \in Callers, Collect(c)
  PROVE  CallTypeOK'
  BY NoCallType DEF CallTypeOK, Collect

\* Starting SyncSilence keeps the types of the service.
LEMMA SyncSilenceType ==
  ASSUME ServiceTypeOK, NEW c \in Callers, NEW s \in Silence, NEW tenant \in Text,
         SyncSilence(c, s, tenant)
  PROVE  ServiceTypeOK'
<1>1. CallTypeOK'
  BY DEF ServiceTypeOK, EnvironmentTypeOK, CallTypeOK, SyncSilence, Steps
<1> QED
  BY <1>1 DEF ServiceTypeOK, SyncSilence, environment, EnvironmentTypeOK,
              AlertmanagerTypeOK

\* Starting DeleteSilence keeps the types of the service.
LEMMA DeleteSilenceType ==
  ASSUME ServiceTypeOK, NEW c \in Callers, NEW comment \in Comment,
         NEW tenant \in Text, DeleteSilence(c, comment, tenant)
  PROVE  ServiceTypeOK'
<1>1. [NoSilence EXCEPT !.comment = comment] \in Silence
  BY NoSilenceType DEF Silence
<1>2. CallTypeOK'
  BY <1>1 DEF ServiceTypeOK, CallTypeOK, DeleteSilence, Steps
<1> QED
  BY <1>2 DEF ServiceTypeOK, DeleteSilence, environment, EnvironmentTypeOK,
              AlertmanagerTypeOK

\* One request of a call keeps the types of the service.
LEMMA RequestType ==
  ASSUME ServiceTypeOK, NEW c \in Callers, Request(c)
  PROVE  ServiceTypeOK'
<1> USE DEF ServiceTypeOK
<1>1. /\ call[c].silence \in Silence
      /\ call[c].tenant \in Text
      /\ call[c].id \in SilenceIds \cup {NoId}
  BY DEF CallTypeOK
<1>2. ASSUME UNCHANGED environment
      PROVE  EnvironmentTypeOK'
  BY <1>2 DEF environment, EnvironmentTypeOK
<1>3. ASSUME UNCHANGED silences
      PROVE  AlertmanagerTypeOK'
  BY <1>3 DEF AlertmanagerTypeOK
<1>4. ASSUME Reply(c)
      PROVE  CallTypeOK' /\ EnvironmentTypeOK'
  BY <1>2, <1>4, GoToType, FaultType DEF Reply, Steps
<1>5. CASE RequestFails(c)
  BY <1>2, <1>3, <1>5, GoToType, FaultType DEF RequestFails, Steps
<1>6. CASE SyncNotFound(c)
  BY <1>2, <1>3, <1>6, GoToType DEF SyncNotFound, Steps
<1>7. CASE SyncFound(c)
  <2>1. PICK i \in SilenceIds :
          GoToId(c, "deleteByID", i) \/ GoToId(c, "update", i) \/ GoTo(c, "ok")
    BY <1>7 DEF SyncFound, GetSilenceByComment, ListSilences
  <2> QED
    BY <1>2, <1>3, <1>7, <2>1, GoToType, GoToIdType DEF SyncFound, Steps
<1>8. CASE DeleteNotFound(c)
  BY <1>2, <1>3, <1>8, GoToType DEF DeleteNotFound, Steps
<1>9. CASE DeleteFound(c)
  BY <1>2, <1>3, <1>9, GoToIdType
     DEF DeleteFound, OwnByComment, GetSilenceByComment, ListSilences, Steps
<1>10. CASE CreateSilence(c)
  BY <1>1, <1>4, <1>10, PostType DEF CreateSilence
<1>11. CASE UpdateSilence(c)
  BY <1>1, <1>4, <1>11, PostType DEF UpdateSilence
<1>12. CASE DeleteSilenceByID(c)
  <2>1. AlertmanagerTypeOK'
    <3>1. CASE call[c].id \in SilenceIds
      BY <1>12, <3>1, ExpireType DEF DeleteSilenceByID
    <3>2. CASE call[c].id \notin SilenceIds
      BY <1>12, <3>2 DEF DeleteSilenceByID, Expire, AlertmanagerTypeOK
    <3> QED
      BY <3>1, <3>2
  <2> QED
    BY <1>4, <1>12, <2>1 DEF DeleteSilenceByID
<1>13. CASE DeleteStatusIgnored(c)
  BY <1>2, <1>3, <1>13, GoToType, FaultType DEF DeleteStatusIgnored, Steps
<1> QED
  BY <1>5, <1>6, <1>7, <1>8, <1>9, <1>10, <1>11, <1>12, <1>13 DEF Request

\* The clock and the people who use Alertmanager keep the types of the service.
LEMMA OthersType ==
  ASSUME ServiceTypeOK, Others, UNCHANGED call
  PROVE  ServiceTypeOK'
<1> USE DEF ServiceTypeOK
<1>1. CallTypeOK'
  BY DEF CallTypeOK
<1>2. CASE Passes /\ UNCHANGED silences
  BY <1>1, <1>2 DEF Passes, EnvironmentTypeOK, AlertmanagerTypeOK
<1>3. CASE \E i \in SilenceIds : UserExpires(i)
  BY <1>1, <1>3, ExpireType, UserActsType DEF UserExpires
<1>4. CASE \E i \in SilenceIds, comment \in UserComments, tenant \in UserTenants :
             UserSilences(i, comment, tenant, Held)
  <2>1. PICK i \in SilenceIds, comment \in UserComments, tenant \in UserTenants :
          UserSilences(i, comment, tenant, Held)
    BY <1>4
  <2>2. comment \in Comment /\ tenant \in Text
    BY AlertmanagerAssumption
  <2>3. now \in Nat /\ MaxTime + 1 \in Nat
    BY EnvironmentAssumption DEF EnvironmentTypeOK
  <2>4. [NoSilence EXCEPT !.comment = comment, !.createdBy = "user",
                          !.tenant = tenant, !.startsAt = now,
                          !.endsAt = MaxTime + 1] \in Silence
    BY <2>2, <2>3, NoSilenceType, LiteralAssumption DEF Silence
  <2>5. AlertmanagerTypeOK'
    BY <2>1, <2>4 DEF UserSilences, AlertmanagerTypeOK
  <2> QED
    BY <1>1, <2>1, <2>5, UserActsType DEF UserSilences
<1> QED
  BY <1>2, <1>3, <1>4 DEF Others

\* Nothing changes the service.
LEMMA ServiceStutter ==
  ASSUME ServiceTypeOK, UNCHANGED <<environment, service>>
  PROVE  ServiceTypeOK'
  BY DEF ServiceTypeOK, EnvironmentTypeOK, AlertmanagerTypeOK, CallTypeOK,
         environment, service

---------------------------------------------------------------------------
(* Requests.                                                                *)

\* What is written to Alertmanager, slot by slot.
Ended(i) == silences'[i] = [silences[i] EXCEPT !.endsAt = now]

\* Requests leave the clock alone.
LEMMA RequestClock ==
  ASSUME NEW c \in Callers, Request(c)
  PROVE  now' = now
  BY DEF Request, RequestFails, SyncNotFound, SyncFound, DeleteNotFound, DeleteFound,
         CreateSilence, UpdateSilence, DeleteSilenceByID, DeleteStatusIgnored, Reply,
         Fault, environment

\* The calls after a call moved on.
LEMMA GoToFields ==
  ASSUME CallTypeOK, NEW c \in Callers, NEW step, GoTo(c, step)
  PROVE  /\ call'[c] = [call[c] EXCEPT !.step = step, !.id = call[c].id]
         /\ \A d \in Callers \ {c} : call'[d] = call[d]
  BY DEF CallTypeOK, GoTo

LEMMA GoToIdFields ==
  ASSUME CallTypeOK, NEW c \in Callers, NEW step, NEW i, GoToId(c, step, i)
  PROVE  /\ call'[c] = [call[c] EXCEPT !.step = step, !.id = i]
         /\ \A d \in Callers \ {c} : call'[d] = call[d]
  BY DEF CallTypeOK, GoToId

(* The steps of a call and its end touch no other field of it but the id,   *)
(* which a listing shows; only what has ended is deleted by a sync.         *)
LEMMA RequestFields ==
  ASSUME CallTypeOK, NEW c \in Callers, Request(c)
  PROVE  /\ call[c].step \notin {"none", "ok", "failed"}
         /\ call'[c].step # "none"
         /\ call'[c].silence = call[c].silence /\ call'[c].tenant = call[c].tenant
         /\ call'[c].op = call[c].op /\ call'[c].now = call[c].now
         /\ call'[c].step \in {"create", "update"} => call[c].op = "sync"
         /\ call'[c].step \in {"update", "deleteByID"} =>
              /\ UNCHANGED silences
              /\ call'[c].id \in SilenceIds
              /\ call'[c].id \in GetSilenceByComment(call[c].silence.comment, call[c].tenant)
              /\ call'[c].id \in OwnByComment(call[c].silence.comment, call[c].tenant)
                   \/ call[c].op = "sync"
         /\ call'[c].step = "deleteByID" /\ call[c].op = "sync" =>
              call[c].silence.endsAt < call[c].now
         /\ \A d \in Callers \ {c} : call'[d] = call[d]
<1> DEFINE R(step, i) ==
      /\ call'[c] = [call[c] EXCEPT !.step = step, !.id = i]
      /\ \A d \in Callers \ {c} : call'[d] = call[d]
           get == GetSilenceByComment(call[c].silence.comment, call[c].tenant)
           own == OwnByComment(call[c].silence.comment, call[c].tenant)
<1>1. call[c] \in [step : Steps, op : {"none", "sync", "delete"},
                   silence : Silence, tenant : Text, now : Nat,
                   id : SilenceIds \cup {NoId}]
  BY DEF CallTypeOK
<1>2. ASSUME NEW step, GoTo(c, step) PROVE R(step, call[c].id)
  BY <1>2, GoToFields
<1>3. ASSUME NEW step, NEW i, GoToId(c, step, i) PROVE R(step, i)
  BY <1>3, GoToIdFields
<1>4. own \subseteq get /\ get \subseteq SilenceIds
  BY DEF OwnByComment, GetSilenceByComment, ListSilences
<1> HIDE DEF R, get, own
<1>5. PICK step, i :
        /\ R(step, i)
        /\ call[c].step \notin {"none", "ok", "failed"}
        /\ step # "none"
        /\ step \in {"create", "update"} => call[c].op = "sync"
        /\ step \in {"update", "deleteByID"} =>
             UNCHANGED silences /\ i \in get /\ (i \in own \/ call[c].op = "sync")
        /\ step = "deleteByID" /\ call[c].op = "sync" =>
             call[c].silence.endsAt < call[c].now
  <2>1. CASE RequestFails(c)
    BY <1>2, <2>1 DEF RequestFails, InFlight, Steps
  <2>2. CASE SyncNotFound(c)
    BY <1>2, <2>2 DEF SyncNotFound
  <2>3. CASE SyncFound(c)
    <3>1. \/ \E j \in get : \/ GoToId(c, "deleteByID", j) /\ call[c].silence.endsAt < call[c].now
                            \/ GoToId(c, "update", j)
          \/ GoTo(c, "ok")
      BY <2>3 DEF SyncFound, get
    <3> QED
      BY <1>2, <1>3, <2>3, <3>1 DEF SyncFound
  <2>4. CASE DeleteNotFound(c)
    BY <1>2, <2>4 DEF DeleteNotFound
  <2>5. CASE DeleteFound(c)
    <3>1. \E j \in own : GoToId(c, "deleteByID", j)
      BY <2>5 DEF DeleteFound, own
    <3> QED
      BY <1>3, <1>4, <2>5, <3>1 DEF DeleteFound
  <2>6. CASE CreateSilence(c) \/ UpdateSilence(c) \/ DeleteSilenceByID(c)
    BY <1>2, <2>6 DEF CreateSilence, UpdateSilence, DeleteSilenceByID, Reply
  <2>7. CASE DeleteStatusIgnored(c)
    BY <1>2, <2>7 DEF DeleteStatusIgnored
  <2> QED
    BY <2>1, <2>2, <2>3, <2>4, <2>5, <2>6, <2>7 DEF Request
<1>6. /\ call'[c].step = step /\ call'[c].id = i
      /\ call'[c].silence = call[c].silence /\ call'[c].tenant = call[c].tenant
      /\ call'[c].op = call[c].op /\ call'[c].now = call[c].now
      /\ \A d \in Callers \ {c} : call'[d] = call[d]
  BY <1>1, <1>5 DEF R
<1> QED
  BY <1>4, <1>5, <1>6 DEF get, own

\* What the server makes of a silence it accepts: the start may be moved.
Keeps(t, s, tenant) ==
  /\ t.comment = s.comment /\ t.createdBy = s.createdBy
  /\ t.tenant = EffectiveTenant(tenant)
  /\ t.matchers = s.matchers /\ t.endsAt = s.endsAt
  /\ t = Stored(s, tenant, t.startsAt)
  /\ t.startsAt \in {s.startsAt, NotPast(s.startsAt)}

LEMMA StoredKeeps ==
  ASSUME NEW s \in Silence, NEW tenant,
         NEW startsAt \in {s.startsAt, NotPast(s.startsAt)}
  PROVE  Keeps(Stored(s, tenant, startsAt), s, tenant)
<1>1. PICK t : t = Stored(s, tenant, startsAt)
  OBVIOUS
<1>2. /\ t.comment = s.comment /\ t.createdBy = s.createdBy
      /\ t.tenant = EffectiveTenant(tenant)
      /\ t.matchers = s.matchers /\ t.endsAt = s.endsAt /\ t.startsAt = startsAt
  BY <1>1 DEF Stored, Silence
<1> QED
  BY <1>1, <1>2 DEF Keeps

\* A silence that is ended early keeps everything else.
LEMMA EndedFields ==
  ASSUME AlertmanagerTypeOK, NEW i \in SilenceIds, Ended(i)
  PROVE  /\ silences'[i].comment = silences[i].comment
         /\ silences'[i].createdBy = silences[i].createdBy
         /\ silences'[i].tenant = silences[i].tenant
         /\ silences'[i].endsAt = now
  BY DEF AlertmanagerTypeOK, Silence, Ended

\* A new silence gets a slot nobody uses.
LEMMA PostNewWrites ==
  ASSUME AlertmanagerTypeOK, NEW s \in Silence, NEW tenant, NEW held,
         PostNew(s, tenant, held)
  PROVE  \E i \in SilenceIds :
           /\ Keeps(silences'[i], s, tenant)
           /\ Fresh(i, held)
           /\ \A j \in SilenceIds \ {i} : silences'[j] = silences[j]
<1>1. PICK t : t = Stored(s, tenant, NotPast(s.startsAt))
  OBVIOUS
<1>2. Keeps(t, s, tenant)
  BY <1>1, StoredKeeps
<1>3. PICK i \in SilenceIds : Fresh(i, held) /\ silences' = [silences EXCEPT ![i] = t]
  BY <1>1 DEF PostNew
<1>4. silences'[i] = t /\ \A j \in SilenceIds \ {i} : silences'[j] = silences[j]
  BY <1>3 DEF AlertmanagerTypeOK
<1> QED
  BY <1>2, <1>3, <1>4

\* A silence posted under an id gets that slot, or ends it and gets a new one.
LEMMA PostOverWrites ==
  ASSUME AlertmanagerTypeOK, NEW s \in Silence, NEW tenant, NEW held,
         NEW id \in SilenceIds, PostOver(id, s, tenant, held)
  PROVE  \E i \in SilenceIds :
           /\ Keeps(silences'[i], s, tenant)
           /\ Fresh(i, held) \/ (i = id /\ Unexpired(i))
           /\ \A j \in SilenceIds \ {i} :
                IF j = id /\ Unexpired(j) THEN Ended(j) ELSE silences'[j] = silences[j]
<1>1. PICK t, u : t = Stored(s, tenant, NotPast(s.startsAt)) /\ u = Stored(s, tenant, s.startsAt)
  OBVIOUS
<1>2. silences \in [SilenceIds -> Silence] /\ Keeps(t, s, tenant) /\ Keeps(u, s, tenant)
  BY <1>1, StoredKeeps DEF AlertmanagerTypeOK
<1>3. CASE Unexpired(id) /\ silences' = [silences EXCEPT ![id] = u]
  <2>1. silences'[id] = u /\ \A j \in SilenceIds \ {id} : silences'[j] = silences[j]
    BY <1>2, <1>3
  <2> QED
    BY <1>2, <1>3, <2>1
<1>4. CASE \E i \in SilenceIds :
             /\ Fresh(i, held)
             /\ silences' = [j \in SilenceIds |->
                               CASE j = i -> t
                                 [] j = id /\ j # i /\ Unexpired(j) ->
                                      [silences[j] EXCEPT !.endsAt = now]
                                 [] OTHER -> silences[j]]
  <2>1. PICK i \in SilenceIds :
          /\ Fresh(i, held)
          /\ silences' = [j \in SilenceIds |->
                            CASE j = i -> t
                              [] j = id /\ j # i /\ Unexpired(j) ->
                                   [silences[j] EXCEPT !.endsAt = now]
                              [] OTHER -> silences[j]]
    BY <1>4
  <2>2. /\ silences'[i] = t
        /\ \A j \in SilenceIds \ {i} :
             IF j = id /\ Unexpired(j) THEN Ended(j) ELSE silences'[j] = silences[j]
    BY <1>2, <2>1 DEF Ended
  <2> QED
    BY <1>2, <2>1, <2>2
<1> QED
  BY <1>1, <1>3, <1>4 DEF PostOver

\* An expiry ends one slot.
LEMMA ExpireWrites ==
  ASSUME AlertmanagerTypeOK, NEW id \in SilenceIds, Expire(id)
  PROVE  /\ Unexpired(id) /\ Ended(id)
         /\ \A j \in SilenceIds \ {id} : silences'[j] = silences[j]
  BY DEF AlertmanagerTypeOK, Expire, Ended

(* A call as it was made: what names a silence has its id, only SyncSilence *)
(* posts, and it deletes what had ended when it read the clock.             *)
Formed(c) ==
  /\ call[c].step \in {"update", "deleteByID"} => call[c].id \in SilenceIds
  /\ call[c].step \in {"create", "update"} => call[c].op = "sync"
  /\ call[c].step = "deleteByID" /\ call[c].op = "sync" =>
       call[c].silence.endsAt < call[c].now
  /\ call[c].now <= now

\* A call that is as it was, at a later time.
LEMMA FormedKept ==
  ASSUME ServiceTypeOK, NEW c \in Callers, Formed(c), call'[c] = call[c],
         now' \in Nat, now <= now'
  PROVE  Formed(c)'
<1>1. now \in Nat /\ call[c].now \in Nat
  BY DEF ServiceTypeOK, EnvironmentTypeOK, CallTypeOK
<1> QED
  BY <1>1 DEF Formed

\* A request keeps the call in form.
LEMMA RequestFormed ==
  ASSUME ServiceTypeOK, NEW c \in Callers, Formed(c), Request(c)
  PROVE  Formed(c)'
<1>1. CallTypeOK /\ now' = now
  BY RequestClock DEF ServiceTypeOK
<1> QED
  BY <1>1, RequestFields DEF Formed

\* No call, and a call that begins, are in form.
LEMMA NewFormed ==
  ASSUME ServiceTypeOK, NEW c \in Callers, now' = now,
         \/ call'[c] = NoCall
         \/ \E s, tenant : SyncSilence(c, s, tenant)
         \/ \E comment, tenant : DeleteSilence(c, comment, tenant)
  PROVE  Formed(c)'
<1>1. now \in Nat /\ c \in DOMAIN call
  BY DEF ServiceTypeOK, EnvironmentTypeOK, CallTypeOK
<1>2. call'[c].step \in {"none", "list"} /\ call'[c].now \in {0, now}
  <2>1. CASE call'[c] = NoCall
    BY <2>1, NoCallFields
  <2>2. ASSUME NEW s, NEW tenant, SyncSilence(c, s, tenant)
        PROVE  call'[c].step = "list" /\ call'[c].now = now
    BY <1>1, <2>2 DEF SyncSilence
  <2>3. ASSUME NEW comment, NEW tenant, DeleteSilence(c, comment, tenant)
        PROVE  call'[c].step = "list" /\ call'[c].now = 0
    <3>1. PICK s : s = [NoSilence EXCEPT !.comment = comment]
      OBVIOUS
    <3> QED
      BY <1>1, <2>3, <3>1 DEF DeleteSilence
  <2> QED
    BY <2>1, <2>2, <2>3
<1> QED
  BY <1>1, <1>2 DEF Formed

\* What one request writes: its own silence, or the end of the one it names.
LEMMA RequestWrites ==
  ASSUME ServiceTypeOK, NEW c \in Callers, Request(c), Formed(c)
  PROVE  \A i \in SilenceIds :
           \/ silences'[i] = silences[i]
           \/ /\ Ended(i) /\ Unexpired(i) /\ i = call[c].id
              /\ call[c].step \in {"update", "deleteByID"}
           \/ /\ Keeps(silences'[i], call[c].silence, call[c].tenant)
              /\ \/ call[c].step \in {"create", "update"} /\ Fresh(i, Held)
                 \/ call[c].step = "update" /\ i = call[c].id /\ Unexpired(i)
<1>1. AlertmanagerTypeOK /\ call[c].silence \in Silence
  BY DEF ServiceTypeOK, CallTypeOK
<1>2. CASE CreateSilence(c)
  <2>1. call[c].step = "create" /\ PostNew(call[c].silence, call[c].tenant, Held)
    BY <1>2 DEF CreateSilence
  <2> QED
    BY <1>1, <2>1, PostNewWrites
<1>3. CASE UpdateSilence(c)
  <2>1. /\ call[c].step = "update" /\ call[c].id \in SilenceIds
        /\ PostOver(call[c].id, call[c].silence, call[c].tenant, Held)
    BY <1>3 DEF UpdateSilence, Formed
  <2>2. PICK i \in SilenceIds :
           /\ Keeps(silences'[i], call[c].silence, call[c].tenant)
           /\ Fresh(i, Held) \/ (i = call[c].id /\ Unexpired(i))
           /\ \A j \in SilenceIds \ {i} :
                IF j = call[c].id /\ Unexpired(j) THEN Ended(j)
                                                 ELSE silences'[j] = silences[j]
    BY <1>1, <2>1, PostOverWrites
  <2> QED
    BY <2>1, <2>2
<1>4. CASE DeleteSilenceByID(c)
  <2>1. call[c].step = "deleteByID" /\ call[c].id \in SilenceIds /\ Expire(call[c].id)
    BY <1>4 DEF DeleteSilenceByID, Formed
  <2> QED
    BY <1>1, <2>1, ExpireWrites
<1>5. CASE UNCHANGED silences
  BY <1>5
<1> QED
  BY <1>2, <1>3, <1>4, <1>5
     DEF Request, RequestFails, SyncNotFound, SyncFound, DeleteNotFound, DeleteFound,
         DeleteStatusIgnored

\* What the clock and people do: they end silences and write under their comments.
LEMMA OthersWrite ==
  ASSUME ServiceTypeOK, Others
  PROVE  /\ now' \in Nat /\ now <= now'
         /\ \A i \in SilenceIds :
              \/ silences'[i] = silences[i]
              \/ Ended(i) /\ Unexpired(i) /\ now' = now /\ "expire" \in UserKinds
              \/ /\ Fresh(i, Held) /\ now' = now
                 /\ silences'[i].comment \in UserComments
                 /\ silences'[i].createdBy = "user"
<1>1. now \in Nat /\ silences \in [SilenceIds -> Silence] /\ AlertmanagerTypeOK
  BY DEF ServiceTypeOK, EnvironmentTypeOK, AlertmanagerTypeOK
<1>2. CASE Passes /\ UNCHANGED silences
  BY <1>1, <1>2 DEF Passes
<1>3. ASSUME NEW i \in SilenceIds, UserExpires(i)
      PROVE  /\ now' = now /\ "expire" \in UserKinds /\ Ended(i) /\ Unexpired(i)
             /\ \A j \in SilenceIds \ {i} : silences'[j] = silences[j]
  BY <1>1, <1>3, ExpireWrites DEF UserExpires, UserActs
<1>4. ASSUME NEW i \in SilenceIds, NEW comment \in UserComments,
             NEW tenant \in UserTenants, UserSilences(i, comment, tenant, Held)
      PROVE  /\ now' = now /\ Fresh(i, Held)
             /\ \A j \in SilenceIds \ {i} : silences'[j] = silences[j]
             /\ silences'[i].comment = comment /\ silences'[i].createdBy = "user"
  <2> DEFINE s == [NoSilence EXCEPT !.comment = comment, !.createdBy = "user",
                     !.tenant = tenant, !.startsAt = now, !.endsAt = MaxTime + 1]
  <2>1. s.comment = comment /\ s.createdBy = "user"
    BY DEF NoSilence
  <2> HIDE DEF s
  <2>2. /\ now' = now /\ Fresh(i, Held)
        /\ silences' = [silences EXCEPT ![i] = s]
    BY <1>4 DEF UserSilences, UserActs, s
  <2> QED
    BY <1>1, <2>1, <2>2
<1>5. CASE \E i \in SilenceIds : UserExpires(i)
  BY <1>1, <1>3, <1>5
<1>6. CASE \E i \in SilenceIds, comment \in UserComments, tenant \in UserTenants :
             UserSilences(i, comment, tenant, Held)
  BY <1>1, <1>4, <1>6
<1> QED
  BY <1>2, <1>5, <1>6 DEF Others

---------------------------------------------------------------------------
(* What a listing told a caller stays true until it acts on it.             *)

\* A silence in effect after a step that kept its slot was in effect before.
LEMMA WasUnexpired ==
  ASSUME ServiceTypeOK, now' \in Nat, now <= now', NEW i \in SilenceIds,
         Unexpired(i)', silences'[i] = silences[i] \/ Ended(i)
  PROVE  silences'[i] = silences[i] /\ Unexpired(i)
<1>1. now \in Nat /\ AlertmanagerTypeOK /\ silences[i] \in Silence
  BY DEF ServiceTypeOK, EnvironmentTypeOK, AlertmanagerTypeOK
<1>2. silences[i].endsAt \in Nat /\ now' < silences'[i].endsAt
  BY <1>1 DEF Silence, Unexpired
<1>3. ~Ended(i)
  BY <1>1, <1>2, EndedFields
<1> QED
  BY <1>1, <1>2, <1>3 DEF Unexpired

\* Silences that are kept, ended or given to others make none of this comment.
LEMMA OwnKept ==
  ASSUME ServiceTypeOK, NEW comment, NEW tenant, now' \in Nat, now <= now',
         \A i \in SilenceIds : \/ silences'[i] = silences[i] \/ Ended(i)
                               \/ silences'[i].comment # comment
                               \/ silences'[i].createdBy # CreatedBy
  PROVE  /\ OwnByComment(comment, tenant)' \subseteq OwnByComment(comment, tenant)
         /\ \A i \in OwnByComment(comment, tenant)' : silences'[i] = silences[i]
<1> SUFFICES ASSUME NEW i \in OwnByComment(comment, tenant)'
             PROVE  i \in OwnByComment(comment, tenant) /\ silences'[i] = silences[i]
  OBVIOUS
<1>1. /\ i \in SilenceIds /\ now' < silences'[i].endsAt
      /\ silences'[i].comment = comment /\ silences'[i].createdBy = CreatedBy
      /\ silences'[i].tenant = EffectiveTenant(tenant)
  BY DEF OwnByComment, GetSilenceByComment, ListSilences, Unexpired
<1>2. now \in Nat /\ silences[i] \in Silence /\ AlertmanagerTypeOK
  BY <1>1 DEF ServiceTypeOK, EnvironmentTypeOK, AlertmanagerTypeOK
<1>3. silences[i].endsAt \in Nat
  BY <1>2 DEF Silence
<1>4. ~Ended(i)
  BY <1>1, <1>2, <1>3, EndedFields
<1>5. silences'[i] = silences[i]
  BY <1>1, <1>4
<1> QED
  BY <1>1, <1>2, <1>3, <1>5
     DEF OwnByComment, GetSilenceByComment, ListSilences, Unexpired

\* After a create that found none, the silence is the only one.
LEMMA CreatedOwn ==
  ASSUME ServiceTypeOK, NEW s \in Silence, NEW tenant, NEW held, now' = now,
         PostNew(s, tenant, held), OwnByComment(s.comment, tenant) = {}
  PROVE  \E i \in SilenceIds :
           /\ Keeps(silences'[i], s, tenant)
           /\ OwnByComment(s.comment, tenant)' \subseteq {i}
<1>1. AlertmanagerTypeOK
  BY DEF ServiceTypeOK
<1>2. PICK i \in SilenceIds :
        /\ Keeps(silences'[i], s, tenant)
        /\ \A j \in SilenceIds \ {i} : silences'[j] = silences[j]
  BY <1>1, PostNewWrites
<1>3. ASSUME NEW j \in OwnByComment(s.comment, tenant)', j # i PROVE FALSE
  BY <1>2, <1>3 DEF OwnByComment, GetSilenceByComment, ListSilences, Unexpired
<1> QED
  BY <1>2, <1>3

\* After an update of the only one, the silence is the only one.
LEMMA UpdatedOwn ==
  ASSUME ServiceTypeOK, NEW s \in Silence, NEW tenant, NEW held, now' = now,
         NEW id \in SilenceIds, PostOver(id, s, tenant, held),
         OwnByComment(s.comment, tenant) \subseteq {id}
  PROVE  \E i \in SilenceIds :
           /\ Keeps(silences'[i], s, tenant)
           /\ OwnByComment(s.comment, tenant)' \subseteq {i}
<1>1. AlertmanagerTypeOK /\ now \in Nat
  BY DEF ServiceTypeOK, EnvironmentTypeOK
<1>2. PICK i \in SilenceIds :
        /\ Keeps(silences'[i], s, tenant)
        /\ \A j \in SilenceIds \ {i} :
             IF j = id /\ Unexpired(j) THEN Ended(j) ELSE silences'[j] = silences[j]
  BY <1>1, PostOverWrites
<1>3. ASSUME NEW j \in OwnByComment(s.comment, tenant)', j # i PROVE FALSE
  <2>1. j \in SilenceIds /\ now < silences'[j].endsAt
    BY DEF OwnByComment, GetSilenceByComment, ListSilences, Unexpired
  <2>2. CASE j = id /\ Unexpired(j)
    BY <1>1, <1>2, <1>3, <2>1, <2>2, EndedFields
  <2>3. CASE ~(j = id /\ Unexpired(j))
    <3>1. silences'[j] = silences[j]
      BY <1>2, <1>3, <2>1, <2>3
    <3>2. j \in OwnByComment(s.comment, tenant)
      BY <3>1 DEF OwnByComment, GetSilenceByComment, ListSilences, Unexpired
    <3> QED
      BY <2>3, <3>2 DEF OwnByComment, GetSilenceByComment, ListSilences
  <2> QED
    BY <2>2, <2>3
<1> QED
  BY <1>2, <1>3

\* After the only one expired there is none.
LEMMA ExpiredOwn ==
  ASSUME ServiceTypeOK, NEW comment, NEW tenant, now' = now,
         NEW id \in SilenceIds, Expire(id),
         OwnByComment(comment, tenant) \subseteq {id}
  PROVE  OwnByComment(comment, tenant)' = {}
<1>1. AlertmanagerTypeOK /\ now \in Nat
  BY DEF ServiceTypeOK, EnvironmentTypeOK
<1>2. Ended(id) /\ \A j \in SilenceIds \ {id} : silences'[j] = silences[j]
  BY <1>1, ExpireWrites
<1>3. ASSUME NEW j \in OwnByComment(comment, tenant)' PROVE FALSE
  <2>1. j \in SilenceIds /\ now < silences'[j].endsAt
    BY DEF OwnByComment, GetSilenceByComment, ListSilences, Unexpired
  <2>2. CASE j = id
    BY <1>1, <1>2, <2>1, <2>2, EndedFields
  <2>3. CASE j # id
    BY <1>2, <2>1, <2>3 DEF OwnByComment, GetSilenceByComment, ListSilences, Unexpired
  <2> QED
    BY <2>2, <2>3
<1> QED
  BY <1>3

\* The silences a call is about, and whether there is at most one.
OwnOfCall(c) == OwnByComment(call[c].silence.comment, call[c].tenant)

Single(own) == \A i, j \in own : i = j

\* What the listing of a call told, and what its deletion achieved.
Looked(c) ==
  /\ call[c].step = "create" => OwnOfCall(c) = {}
  /\ call[c].step \in {"update", "deleteByID"} => OwnOfCall(c) \subseteq {call[c].id}
  /\ call[c].op = "delete" /\ call[c].step = "ok" /\ "status" \notin FaultKinds
       => OwnOfCall(c) = {}

\* A listing shows no silence with the comment that somebody else wrote.
Shown(c) ==
  GetSilenceByComment(call[c].silence.comment, call[c].tenant) \subseteq OwnOfCall(c)

\* As long as no silence of its comment appears, what a call knows is true.
LEMMA LookedKept ==
  ASSUME NEW c \in Callers, Looked(c), call'[c] = call[c],
         NEW comment, comment = call[c].silence.comment,
         NEW tenant, tenant = call[c].tenant,
         OwnByComment(comment, tenant)' \subseteq OwnByComment(comment, tenant)
  PROVE  Looked(c)'
<1>1. OwnOfCall(c)' \subseteq OwnOfCall(c)
  BY DEF OwnOfCall, OwnByComment, GetSilenceByComment, ListSilences, Unexpired
<1> QED
  BY <1>1 DEF Looked

\* What is a listing is the same after a step that writes nothing.
LEMMA OwnUnchanged ==
  ASSUME UNCHANGED <<now, silences>>, NEW comment, NEW tenant
  PROVE  OwnByComment(comment, tenant)' = OwnByComment(comment, tenant)
  BY DEF OwnByComment, GetSilenceByComment, ListSilences, Unexpired

\* A request leaves at most one silence, and its caller knows which.
LEMMA RequestLooked ==
  ASSUME ServiceTypeOK, NEW c \in Callers, Request(c), Formed(c), Looked(c),
         Shown(c), Single(OwnOfCall(c))
  PROVE  Looked(c)' /\ Single(OwnOfCall(c))'
<1>1. PICK s : s = call[c].silence
  OBVIOUS
<1>2. PICK tenant : tenant = call[c].tenant
  OBVIOUS
<1> DEFINE own == OwnByComment(s.comment, tenant)
           get == GetSilenceByComment(s.comment, tenant)
<1>3. s \in Silence /\ AlertmanagerTypeOK /\ CallTypeOK /\ now' = now
  BY <1>1, RequestClock DEF ServiceTypeOK, CallTypeOK
<1>4. OwnOfCall(c) = own /\ get \subseteq own /\ own \subseteq get
  BY <1>1, <1>2 DEF OwnOfCall, Shown, OwnByComment
<1>5. call'[c].silence = s /\ call'[c].tenant = tenant /\ call'[c].op = call[c].op
  BY <1>1, <1>2, <1>3, RequestFields
<1>6. OwnOfCall(c)' = own'
  BY <1>5 DEF OwnOfCall, OwnByComment, GetSilenceByComment, ListSilences, Unexpired
<1> HIDE DEF own, get
<1>7. ASSUME NEW i, own' \subseteq {i}, call'[c].step \in {"ok", "failed"},
             call[c].op # "delete" \/ own' = {}
      PROVE  Looked(c)' /\ Single(OwnOfCall(c))'
  BY <1>5, <1>6, <1>7 DEF Looked, Single
<1>8. CASE CreateSilence(c) /\ call[c].op # "delete"
  <2>1. PostNew(s, tenant, Held) /\ own = {} /\ Reply(c)
    BY <1>1, <1>2, <1>4, <1>8 DEF CreateSilence, Looked
  <2>2. call'[c].step \in {"ok", "failed"}
    BY <1>3, <2>1 DEF Reply, GoTo, CallTypeOK
  <2>3. \E i \in SilenceIds : own' \subseteq {i}
    BY <1>3, <2>1, CreatedOwn DEF own
  <2> QED
    BY <1>7, <1>8, <2>2, <2>3
<1>9. CASE UpdateSilence(c) /\ call[c].op # "delete"
  <2>1. PICK id \in SilenceIds : id = call[c].id
    BY <1>9 DEF UpdateSilence, Formed
  <2>2. PostOver(id, s, tenant, Held) /\ own \subseteq {id} /\ Reply(c)
    BY <1>1, <1>2, <1>4, <1>9, <2>1 DEF UpdateSilence, Looked
  <2>3. call'[c].step \in {"ok", "failed"}
    BY <1>3, <2>2 DEF Reply, GoTo, CallTypeOK
  <2>4. \E i \in SilenceIds : own' \subseteq {i}
    BY <1>3, <2>2, UpdatedOwn DEF own
  <2> QED
    BY <1>7, <1>9, <2>3, <2>4
<1>10. CASE DeleteSilenceByID(c)
  <2>1. PICK id \in SilenceIds : id = call[c].id
    BY <1>10 DEF DeleteSilenceByID, Formed
  <2>2. Expire(id) /\ own \subseteq {id} /\ Reply(c)
    BY <1>4, <1>10, <2>1 DEF DeleteSilenceByID, Looked
  <2>3. call'[c].step \in {"ok", "failed"}
    BY <1>3, <2>2 DEF Reply, GoTo, CallTypeOK
  <2>4. own' = {}
    BY <1>3, <2>2, ExpiredOwn DEF own
  <2> QED
    BY <1>7, <2>3, <2>4
<1>11. ASSUME UNCHANGED silences,
              \/ call'[c].step = "failed"
              \/ call'[c].step = "create" /\ own = {}
              \/ call'[c].step \in {"update", "deleteByID"} /\ call'[c].id \in own
              \/ call'[c].step = "ok" /\ (own = {} \/ call[c].op = "sync" \/ "status" \in FaultKinds)
       PROVE  Looked(c)' /\ Single(OwnOfCall(c))'
  <2>1. own' = own
    BY <1>3, <1>11, OwnUnchanged DEF own
  <2> QED
    BY <1>4, <1>5, <1>6, <1>11, <2>1 DEF Looked, Single
<1>12. CASE RequestFails(c)
  <2>1. call'[c].step = "failed" /\ UNCHANGED silences
    BY <1>3, <1>12 DEF RequestFails, GoTo, CallTypeOK
  <2> QED
    BY <1>11, <2>1
<1>13. CASE SyncNotFound(c)
  <2>1. own = {} /\ call[c].op = "sync" /\ UNCHANGED silences
    BY <1>1, <1>2, <1>4, <1>13 DEF SyncNotFound, get
  <2>2. \E step \in {"create", "ok"} : GoTo(c, step)
    BY <1>13 DEF SyncNotFound
  <2>3. call'[c].step \in {"create", "ok"}
    BY <1>3, <2>2 DEF GoTo, CallTypeOK
  <2> QED
    BY <1>11, <2>1, <2>3
<1>14. CASE SyncFound(c)
  <2>1. /\ call[c].op = "sync" /\ UNCHANGED silences
        /\ \E i \in get : GoToId(c, "deleteByID", i) \/ GoToId(c, "update", i) \/ GoTo(c, "ok")
    BY <1>1, <1>2, <1>14 DEF SyncFound, get
  <2>2. \/ call'[c].step = "ok"
        \/ call'[c].step \in {"update", "deleteByID"} /\ call'[c].id \in own
    BY <1>3, <1>4, <2>1 DEF GoTo, GoToId, CallTypeOK
  <2> QED
    BY <1>11, <2>1, <2>2
<1>15. CASE DeleteNotFound(c)
  <2>1. own = {} /\ UNCHANGED silences /\ call'[c].step = "ok"
    BY <1>1, <1>2, <1>3, <1>15 DEF DeleteNotFound, own, GoTo, CallTypeOK
  <2> QED
    BY <1>11, <2>1
<1>16. CASE DeleteFound(c)
  <2>1. /\ UNCHANGED silences /\ \E i \in own : GoToId(c, "deleteByID", i)
    BY <1>1, <1>2, <1>16 DEF DeleteFound, own
  <2>2. call'[c].step = "deleteByID" /\ call'[c].id \in own
    BY <1>3, <2>1 DEF GoToId, CallTypeOK
  <2> QED
    BY <1>11, <2>1, <2>2
<1>17. CASE DeleteStatusIgnored(c)
  <2>1. /\ UNCHANGED silences /\ call'[c].step = "ok"
        /\ ~Unexpired(call[c].id) \/ "status" \in FaultKinds
    BY <1>3, <1>17 DEF DeleteStatusIgnored, Fault, GoTo, CallTypeOK
  <2>2. ~Unexpired(call[c].id) => own = {}
    BY <1>4, <1>17 DEF DeleteStatusIgnored, Looked, own, OwnByComment, GetSilenceByComment,
       ListSilences
  <2> QED
    BY <1>11, <2>1, <2>2
<1>18. CreateSilence(c) \/ UpdateSilence(c) => call[c].op # "delete"
  BY DEF CreateSilence, UpdateSilence, Formed
<1> QED
  BY <1>8, <1>9, <1>10, <1>12, <1>13, <1>14, <1>15, <1>16, <1>17, <1>18 DEF Request

---------------------------------------------------------------------------
(* What a caller may conclude from nil.                                     *)

\* The ways SyncSilence returns nil.
LEMMA SyncReturns ==
  ASSUME ServiceTypeOK, NEW c \in Callers, Request(c), Formed(c),
         call[c].op = "sync", call'[c].step = "ok",
         NEW s, s = call[c].silence, NEW tenant, tenant = call[c].tenant
  PROVE  \/ /\ UNCHANGED silences /\ s.endsAt <= now
            /\ GetSilenceByComment(s.comment, tenant) = {}
         \/ /\ UNCHANGED silences
            /\ \E i \in GetSilenceByComment(s.comment, tenant) :
                 silences[i].matchers = s.matchers /\ silences[i].endsAt = s.endsAt
         \/ call[c].step = "create" /\ PostNew(s, tenant, Held)
         \/ call[c].step = "update" /\ PostOver(call[c].id, s, tenant, Held)
         \/ /\ call[c].step = "deleteByID" /\ s.endsAt < now
            /\ \/ Expire(call[c].id)
               \/ /\ UNCHANGED silences
                  /\ ~Unexpired(call[c].id) \/ "status" \in FaultKinds
<1>1. CallTypeOK /\ now \in Nat /\ s \in Silence /\ call[c].now \in Nat
  BY DEF ServiceTypeOK, EnvironmentTypeOK, CallTypeOK
<1>2. s.endsAt \in Nat /\ call[c].now <= now
  BY <1>1 DEF Silence, Formed
<1>3. ASSUME NEW step, GoTo(c, step) PROVE step = "ok"
  <2>1. call'[c].step = step
    BY <1>1, <1>3 DEF GoTo, CallTypeOK
  <2> QED
    BY <2>1
<1>4. ASSUME NEW step, NEW i, GoToId(c, step, i) PROVE step = "ok"
  <2>1. call'[c].step = step
    BY <1>1, <1>4 DEF GoToId, CallTypeOK
  <2> QED
    BY <2>1
<1>5. CASE RequestFails(c)
  BY <1>3, <1>5 DEF RequestFails
<1>6. CASE SyncNotFound(c)
  <2>1. /\ UNCHANGED silences /\ GetSilenceByComment(s.comment, tenant) = {}
        /\ GoTo(c, IF s.endsAt > call[c].now THEN "create" ELSE "ok")
    BY <1>6 DEF SyncNotFound
  <2>2. ~(s.endsAt > call[c].now)
    BY <1>3, <2>1
  <2> QED
    BY <1>1, <1>2, <2>1, <2>2
<1>7. CASE SyncFound(c)
  <2>1. PICK i \in GetSilenceByComment(s.comment, tenant) :
          CASE s.endsAt < call[c].now -> GoToId(c, "deleteByID", i)
            [] s.endsAt >= call[c].now /\ UpdateNeeded(silences[i], s) ->
                 GoToId(c, "update", i)
            [] OTHER -> GoTo(c, "ok")
    BY <1>7 DEF SyncFound
  <2>2. ~UpdateNeeded(silences[i], s)
    BY <1>1, <1>2, <1>4, <2>1
  <2> QED
    BY <1>7, <2>2 DEF UpdateNeeded, SyncFound
<1>8. CASE DeleteNotFound(c) \/ DeleteFound(c)
  BY <1>8 DEF DeleteNotFound, DeleteFound
<1>9. CASE CreateSilence(c) \/ UpdateSilence(c)
  BY <1>9 DEF CreateSilence, UpdateSilence
<1>10. CASE DeleteSilenceByID(c) \/ DeleteStatusIgnored(c)
  <2>1. call[c].step = "deleteByID" /\ s.endsAt < call[c].now
    BY <1>10 DEF DeleteSilenceByID, DeleteStatusIgnored, Formed
  <2>2. s.endsAt < now
    BY <1>1, <1>2, <2>1
  <2> QED
    BY <1>10, <2>1, <2>2 DEF DeleteSilenceByID, DeleteStatusIgnored, Fault
<1> QED
  BY <1>5, <1>6, <1>7, <1>8, <1>9, <1>10 DEF Request

\* When SyncSilence returns nil the silence is there, or gone if it ended.
LEMMA SyncEnds ==
  ASSUME ServiceTypeOK, NEW c \in Callers, Request(c), Formed(c), Looked(c),
         Shown(c), Single(OwnOfCall(c)), call[c].op = "sync", call'[c].step = "ok",
         NEW s, s = call[c].silence, s.createdBy = CreatedBy,
         NEW tenant, tenant = call[c].tenant
  PROVE  /\ s.endsAt > now =>
              \E i \in OwnByComment(s.comment, tenant)' :
                /\ OwnByComment(s.comment, tenant)' = {i}
                /\ silences'[i].matchers = s.matchers /\ silences'[i].endsAt = s.endsAt
         /\ s.endsAt <= now /\ "status" \notin FaultKinds =>
              OwnByComment(s.comment, tenant)' = {}
<1> DEFINE own == OwnByComment(s.comment, tenant)
           get == GetSilenceByComment(s.comment, tenant)
<1>1. s \in Silence /\ AlertmanagerTypeOK /\ now' = now /\ now \in Nat
  BY RequestClock DEF ServiceTypeOK, CallTypeOK, EnvironmentTypeOK
<1>2. s.endsAt \in Nat
  BY <1>1 DEF Silence
<1>3. own = OwnOfCall(c) /\ own = get
  BY DEF OwnOfCall, Shown, OwnByComment
<1>4. Single(own)
  BY <1>3
<1>5. UNCHANGED silences => own' = own
  BY <1>1, OwnUnchanged
<1>6. own = OwnByComment(s.comment, tenant) /\ get = GetSilenceByComment(s.comment, tenant)
  OBVIOUS
<1>7. \A i \in get : i \in SilenceIds /\ now < silences[i].endsAt
  BY DEF GetSilenceByComment, ListSilences, Unexpired
<1>8. ASSUME NEW i \in SilenceIds, Keeps(silences'[i], s, tenant), own' \subseteq {i}
      PROVE  /\ s.endsAt > now => /\ own' = {i}
                                  /\ silences'[i].matchers = s.matchers
                                  /\ silences'[i].endsAt = s.endsAt
             /\ s.endsAt <= now => own' = {}
  <2>1. /\ silences'[i].comment = s.comment /\ silences'[i].createdBy = CreatedBy
        /\ silences'[i].tenant = EffectiveTenant(tenant)
        /\ silences'[i].matchers = s.matchers /\ silences'[i].endsAt = s.endsAt
    BY <1>1, <1>8 DEF Keeps
  <2>2. i \in own' <=> now < s.endsAt
    BY <1>1, <2>1 DEF OwnByComment, GetSilenceByComment, ListSilences, Unexpired
  <2> QED
    BY <1>1, <1>2, <1>8, <2>1, <2>2
<1> HIDE DEF own, get
<1>9. CASE UNCHANGED silences /\ s.endsAt <= now /\ get = {}
  BY <1>1, <1>2, <1>3, <1>5, <1>9 DEF own
<1>10. CASE UNCHANGED silences /\ \E i \in get :
             silences[i].matchers = s.matchers /\ silences[i].endsAt = s.endsAt
  <2>1. PICK i \in get : silences[i].matchers = s.matchers /\ silences[i].endsAt = s.endsAt
    BY <1>10
  <2>2. now < s.endsAt /\ own' = {i} /\ silences'[i] = silences[i]
    BY <1>3, <1>4, <1>5, <1>7, <1>10, <2>1 DEF Single
  <2> QED
    BY <1>1, <1>2, <2>1, <2>2 DEF own
<1>11. CASE call[c].step = "create" /\ PostNew(s, tenant, Held)
  <2>1. own = {}
    BY <1>3, <1>11 DEF Looked
  <2>2. PICK i \in SilenceIds : Keeps(silences'[i], s, tenant) /\ own' \subseteq {i}
    BY <1>1, <1>11, <2>1, CreatedOwn DEF own
  <2> QED
    BY <1>8, <2>2 DEF own
<1>12. CASE call[c].step = "update" /\ PostOver(call[c].id, s, tenant, Held)
  <2>1. PICK id \in SilenceIds : id = call[c].id
    BY <1>12 DEF Formed
  <2>2. own \subseteq {id} /\ PostOver(id, s, tenant, Held)
    BY <1>3, <1>12, <2>1 DEF Looked
  <2>3. PICK i \in SilenceIds : Keeps(silences'[i], s, tenant) /\ own' \subseteq {i}
    BY <1>1, <2>2, UpdatedOwn DEF own
  <2> QED
    BY <1>8, <2>3 DEF own
<1>13. CASE /\ call[c].step = "deleteByID" /\ s.endsAt < now
            /\ \/ Expire(call[c].id)
               \/ /\ UNCHANGED silences
                  /\ ~Unexpired(call[c].id) \/ "status" \in FaultKinds
  <2>1. PICK id \in SilenceIds : id = call[c].id
    BY <1>13 DEF Formed
  <2>2. own \subseteq {id}
    BY <1>3, <1>13, <2>1 DEF Looked
  <2>3. CASE Expire(id)
    <3>1. own' = {}
      BY <1>1, <2>2, <2>3, ExpiredOwn DEF own
    <3> QED
      BY <1>1, <1>2, <1>13, <3>1 DEF own
  <2>4. CASE UNCHANGED silences /\ (~Unexpired(id) \/ "status" \in FaultKinds)
    <3>1. ~Unexpired(id) => own' = {}
      BY <1>3, <1>5, <1>7, <2>2, <2>4 DEF Unexpired
    <3> QED
      BY <1>1, <1>2, <1>13, <2>4, <3>1 DEF own
  <2> QED
    BY <1>13, <2>1, <2>3, <2>4
<1> QED
  BY <1>9, <1>10, <1>11, <1>12, <1>13, SyncReturns DEF get

---------------------------------------------------------------------------
(* An id in a request in flight names the silence the listing showed.       *)

Named(c) ==
  call[c].step \in {"update", "deleteByID"} /\ Unexpired(call[c].id) =>
    /\ silences[call[c].id].comment = call[c].silence.comment
    /\ silences[call[c].id].tenant = EffectiveTenant(call[c].tenant)

\* A request that names an id took it from the listing just before.
LEMMA RequestNamed ==
  ASSUME ServiceTypeOK, NEW c \in Callers, Request(c)
  PROVE  Named(c)'
<1>1. CallTypeOK
  BY DEF ServiceTypeOK
<1>2. PICK comment : comment = call[c].silence.comment
  OBVIOUS
<1>3. PICK tenant : tenant = call[c].tenant
  OBVIOUS
<1>4. call'[c].silence.comment = comment /\ call'[c].tenant = tenant
  BY <1>1, <1>2, <1>3, RequestFields
<1>5. call'[c].step \in {"update", "deleteByID"} =>
        UNCHANGED silences /\ call'[c].id \in GetSilenceByComment(comment, tenant)
  BY <1>1, <1>2, <1>3, RequestFields
<1> QED
  BY <1>4, <1>5 DEF Named, GetSilenceByComment, ListSilences

\* As long as the request is in flight its id is not given to anybody else.
LEMMA NamedKept ==
  ASSUME ServiceTypeOK, NEW c \in Callers, Formed(c), Named(c), call'[c] = call[c],
         now' \in Nat, now <= now',
         \A i \in SilenceIds :
           \/ silences'[i] = silences[i] \/ Ended(i) \/ Fresh(i, Held)
           \/ i # call[c].id \/ call[c].step \notin {"update", "deleteByID"}
  PROVE  Named(c)'
<1> SUFFICES ASSUME call[c].step \in {"update", "deleteByID"}, Unexpired(call[c].id)'
             PROVE  /\ silences'[call[c].id].comment = call[c].silence.comment
                    /\ silences'[call[c].id].tenant = EffectiveTenant(call[c].tenant)
  BY DEF Named
<1>1. PICK i \in SilenceIds : i = call[c].id
  BY DEF Formed
<1>2. i \in Held
  BY <1>1 DEF Held, InFlight, Steps
<1>3. now \in Nat /\ AlertmanagerTypeOK /\ silences[i] \in Silence
  BY DEF ServiceTypeOK, EnvironmentTypeOK, AlertmanagerTypeOK
<1>4. now' < silences'[i].endsAt
  BY <1>1 DEF Unexpired
<1>5. ~Ended(i)
  BY <1>3, <1>4, EndedFields
<1>6. silences'[i] = silences[i]
  BY <1>1, <1>2, <1>5 DEF Fresh
<1>7. silences[i].endsAt \in Nat
  BY <1>3 DEF Silence
<1>8. Unexpired(i)
  BY <1>3, <1>4, <1>6, <1>7 DEF Unexpired
<1> QED
  BY <1>1, <1>6, <1>8 DEF Named
=============================================================================
