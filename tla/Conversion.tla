----------------------------- MODULE Conversion -----------------------------
(* From a custom resource to the silence the operator wants in Alertmanager:*)
(* getSilenceFromCR of both controllers, with the rules the custom resource *)
(* definitions impose on what the API server admits.  Time is in hours.     *)
EXTENDS SilenceTypes

CONSTANTS
  Unset,          \* an optional field that is absent
  Overflow,       \* a duration of the right form that is too long to be one
  HundredYears    \* the life of a silence nobody gave an end

ASSUME UnsetAssumption == Unset \notin Nat
ASSUME OverflowAssumption == Overflow \notin Nat /\ Overflow # Unset
ASSUME HundredYearsAssumption == HundredYears \in Nat \ {0}

---------------------------------------------------------------------------
(* What a user writes.  The valid-until annotation is the layout its text   *)
(* parses with and the hour, or the day, it names.                          *)
ValidUntil == [layout : {"absent", "RFC3339", "date", "other"}, at : Nat]

MatchEqual == "="
MatchNotEqual == "!="
MatchRegexMatch == "=~"
MatchRegexNotMatch == "!~"
MatchTypes == {MatchEqual, MatchNotEqual, MatchRegexMatch, MatchRegexNotMatch}

MatcherV1 ==
  [name : Text, value : Text, isRegex : BOOLEAN, isEqual : {Unset} \cup BOOLEAN]

MatcherV2 == [name : Text, value : Text, matchType : Text]

SpecV1 == [matchers : Seq(MatcherV1), validUntil : ValidUntil]

SpecV2 ==
  [matchers : Seq(MatcherV2), startsAt : {Unset} \cup Nat,
   endsAt : {Unset} \cup Nat, duration : {Unset, Overflow} \cup Nat,
   validUntil : ValidUntil]

Admitted_NoOrder(o, spec) ==   \* mutant: the rule on the order of the times is gone
  CASE o.api = "v1alpha1" -> spec \in SpecV1
    [] o.api = "v1alpha2" ->
         /\ spec \in SpecV2
         /\ spec.matchers # <<>>
         /\ \A j \in DOMAIN spec.matchers :
              /\ spec.matchers[j].name # ""
              /\ spec.matchers[j].matchType \in MatchTypes
         /\ Unset \in {spec.endsAt, spec.duration}

(* The validation of the two definitions.  v1alpha1 asks for matchers but   *)
(* admits an empty list of them.                                            *)
Admitted(o, spec) ==
  CASE o.api = "v1alpha1" -> spec \in SpecV1
    [] o.api = "v1alpha2" ->
         /\ spec \in SpecV2
         /\ spec.matchers # <<>>
         /\ \A j \in DOMAIN spec.matchers :
              /\ spec.matchers[j].name # ""
              /\ spec.matchers[j].matchType \in MatchTypes
         /\ Unset \in {spec.endsAt, spec.duration}
         /\ Unset \notin {spec.startsAt, spec.endsAt} => spec.startsAt < spec.endsAt

---------------------------------------------------------------------------
\* An annotation that parses with neither layout is an error of the reconcile.
SilenceEndsAtFails(validUntil) == validUntil.layout = "other"

\* A bare date ends at eight in the morning, UTC.
SilenceEndsAt(created, validUntil) ==
  CASE validUntil.layout = "RFC3339" -> validUntil.at
    [] validUntil.layout = "date" -> 24 * validUntil.at + 8
    [] OTHER -> created + HundredYears

\* isEqual is true unless the user says otherwise.
MatchersV1(matchers) ==
  [j \in 1..Len(matchers) |->
     [name |-> matchers[j].name, value |-> matchers[j].value,
      isRegex |-> matchers[j].isRegex, isEqual |-> matchers[j].isEqual # FALSE]]

convertMatchersFails(matchers) ==
  \E j \in 1..Len(matchers) : matchers[j].matchType \notin MatchTypes \cup {""}

convertMatchers(matchers) ==
  [j \in 1..Len(matchers) |->
     [name |-> matchers[j].name, value |-> matchers[j].value,
      isRegex |-> matchers[j].matchType \in {MatchRegexMatch, MatchRegexNotMatch},
      isEqual |-> matchers[j].matchType \in {"", MatchEqual, MatchRegexMatch}]]

(* calculateSilenceTimes: explicit times, then a duration, then the         *)
(* annotation and its default, counted from the creation of the object.     *)
StartsAt(created, spec) == IF spec.startsAt # Unset THEN spec.startsAt ELSE created

EndsAt(created, spec) ==
  CASE spec.endsAt # Unset -> spec.endsAt
    [] spec.endsAt = Unset /\ spec.duration # Unset ->
         StartsAt(created, spec) + spec.duration
    [] OTHER -> SilenceEndsAt(created, spec.validUntil)

(* The start is needed and the object has no creation time (the API server  *)
(* gives every object one), the duration is needed and does not parse, or   *)
(* the annotation is and does not.                                          *)
TimesFail(created, spec) ==
  \/ spec.startsAt = Unset /\ created = Unset
  \/ /\ spec.endsAt = Unset
     /\ \/ spec.duration = Overflow
        \/ spec.duration = Unset /\ SilenceEndsAtFails(spec.validUntil)

---------------------------------------------------------------------------
\* getSilenceFromCR returns an error and nothing is sent.
ConversionFails(o, created, spec) ==
  CASE o.api = "v1alpha1" -> SilenceEndsAtFails(spec.validUntil)
    [] o.api = "v1alpha2" -> convertMatchersFails(spec.matchers) \/ TimesFail(created, spec)

\* The tenant is filled in by Alertmanager, from the header of the request.
getSilenceFromCR(o, created, spec) ==
  [comment |-> SilenceComment(o),
   createdBy |-> CreatedBy,
   tenant |-> "",
   matchers |-> IF o.api = "v1alpha1" THEN MatchersV1(spec.matchers)
                                      ELSE convertMatchers(spec.matchers),
   startsAt |-> IF o.api = "v1alpha1" THEN created ELSE StartsAt(created, spec),
   endsAt |-> IF o.api = "v1alpha1" THEN SilenceEndsAt(created, spec.validUntil)
                                    ELSE EndsAt(created, spec)]
=============================================================================
