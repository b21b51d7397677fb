------------------------------- MODULE Edits --------------------------------
(* One object and every content a user may give it, from the validation of  *)
(* its definition over the conversion to the answer of Alertmanager: which  *)
(* contents are never mirrored, and which edits are never sent.             *)
EXTENDS SilenceService, Migration

CONSTANTS
  Items,       \* the objects to choose from
  Specs        \* what users may try to write

ASSUME EditsAssumption == Items \subseteq Object

VARIABLES
  item,        \* the object
  created,     \* when it was created
  spec         \* what its users last wrote

object == <<item, created, spec>>
vars == <<environment, service, object>>

Init ==
  /\ EnvironmentInit
  /\ ServiceInit
  /\ item \in Items
  /\ created = now
  /\ spec \in {s \in Specs : Admitted(item, s)}

Edit ==
  /\ UserActs("edit")
  /\ spec' \in {s \in Specs : Admitted(item, s)} \ {spec}
  /\ UNCHANGED <<service, item, created>>

Sync(c) ==
  /\ ~ConversionFails(item, created, spec)
  /\ SyncSilence(c, getSilenceFromCR(item, created, spec), "")
  /\ UNCHANGED object

Serve(c) == Request(c) /\ UNCHANGED object

Take(c) == Collect(c) /\ UNCHANGED <<environment, silences, object>>

Interfere == Others /\ UNCHANGED <<call, object>>

Next ==
  \/ Edit
  \/ \E c \in Callers : Sync(c) \/ Serve(c) \/ Take(c)
  \/ Interfere

Spec == Init /\ [][Next]_vars

---------------------------------------------------------------------------
\* What the users said of a matcher, in the words of either definition.
Regex(o, m) ==
  IF o.api = "v1alpha1" THEN m.isRegex
                        ELSE m.matchType \in {MatchRegexMatch, MatchRegexNotMatch}

Negative(o, m) ==
  IF o.api = "v1alpha1" THEN m.isEqual = FALSE
                        ELSE m.matchType \in {MatchNotEqual, MatchRegexNotMatch}

(* Matchers the definitions admit and no Alertmanager accepts: a name or an *)
(* expression nobody looked at, or none that asks for anything - in v1alpha1*)
(* no matchers at all, too.                                                 *)
UnacceptableMatchers(o, matchers) ==
  \/ \E j \in DOMAIN matchers :
       \/ matchers[j].name \in InvalidNames
       \/ Regex(o, matchers[j]) /\ matchers[j].value \in InvalidRegexes
  \/ \A j \in DOMAIN matchers :
       ~Negative(o, matchers[j]) /\ matchers[j].value \in EmptyTexts(Regex(o, matchers[j]))

(* Times: in v1alpha2 a start, given, that is not before an end the         *)
(* definition does not compare it with: that of an empty duration, of the   *)
(* annotation or of the default.                                            *)
UnacceptableTimes(o, s) ==
  /\ o.api = "v1alpha2"
  /\ s.startsAt # Unset /\ s.endsAt = Unset
  /\ \/ s.duration = 0
     \/ s.duration = Unset /\ s.startsAt >= SilenceEndsAt(created, s.validUntil)

Unacceptable(o, s) == UnacceptableMatchers(o, s.matchers) \/ UnacceptableTimes(o, s)

(* What is admitted, converted and then refused by the checks of            *)
(* Alertmanager (Accepts), on every attempt as long as the silence would not*)
(* have ended, is what Unacceptable lists, no less and no more: a reconcile *)
(* of anything else fails of the failures of requests only, although the    *)
(* checks of the definitions, of getSilenceFromCR and of Alertmanager know  *)
(* nothing of each other.                                                   *)
OnlyTheseAreRefused ==
  ~ConversionFails(item, created, spec) =>
    LET s == getSilenceFromCR(item, created, spec) IN
    s.endsAt > now => (~Accepts(s) <=> Unacceptable(item, spec))

---------------------------------------------------------------------------
Succeeds(c) == ~Returned(c) /\ call'[c].step = "ok"

\* From now on t does what s asks for: what has begun has begun.
InEffectAs(t, s, tenant) ==
  /\ t = Stored(s, tenant, t.startsAt)
  /\ NotPast(t.startsAt) = NotPast(s.startsAt)

\* What the object may have asked for since it was created.
Asked ==
  {getSilenceFromCR(item, created, s) :
     s \in {u \in Specs : Admitted(item, u) /\ ~ConversionFails(item, created, u)}}

(* When SyncSilence returns nil, and its silence has not ended, Alertmanager*)
(* holds one with its matchers and its end that is in effect as some content*)
(* of the object asked for.  So an edit that changes matchers or end arrives*)
(* whole, a v1alpha1 silence, all of whose contents start when the object   *)
(* was created, is in effect as it asks, and a v1alpha2 one that is not     *)
(* differs in the start alone.                                              *)
EditsMirrored ==
  [][\A c \in Callers :
       LET s == call[c].silence IN
       Succeeds(c) /\ s.endsAt > now =>
         \E i \in SilenceIds : \E w \in Asked :
           /\ w.matchers = s.matchers /\ w.endsAt = s.endsAt
           /\ InEffectAs(silences'[i], w, call[c].tenant)]_vars

(* api/v1alpha2/silence_types.go: "StartsAt defines when the silence becomes*)
(* active."  When SyncSilence returns nil, and its silence has not ended,   *)
(* Alertmanager holds it with the start that was asked for, or one that has *)
(* passed like it.                                                          *)
StartMirrored ==
  [][\A c \in Callers :
       LET s == call[c].silence IN
       Succeeds(c) /\ s.endsAt > now =>
         \E i \in SilenceIds : InEffectAs(silences'[i], s, call[c].tenant)]_vars

(* MIGRATION.md: the valid-until annotation is "preserved", and isRegex and *)
(* isEqual map to a matchType.  What the migration script is to make of a   *)
(* v1alpha1 silence, the v1alpha2 controller turns into the same silence:   *)
(* the same alerts, to the same end if the user gave one; and the API       *)
(* server admits it unless there are no matchers or one has no name.        *)
MigrationKeepsMeaning ==
  item.api = "v1alpha1" =>
    LET o == Migrated(item, <<"team">>)
        s == MigratedSpec(spec, Converted(spec))
    IN  /\ Admitted(o, s) <=>
             /\ spec.matchers # <<>>
             /\ \A j \in DOMAIN spec.matchers : spec.matchers[j].name # ""
        /\ ConversionFails(o, created, s) <=> ConversionFails(item, created, spec)
        /\ ~ConversionFails(item, created, spec) =>
             /\ getSilenceFromCR(o, created, s).matchers =
                  getSilenceFromCR(item, created, spec).matchers
             /\ \A later \in created..MaxTime : spec.validUntil.layout # "absent" =>
                  getSilenceFromCR(o, later, s).endsAt =
                    getSilenceFromCR(item, created, spec).endsAt
=============================================================================
