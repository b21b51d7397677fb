----------------------------- MODULE Migration ------------------------------
(* hack/migrate-silences.sh: v1alpha1 silences are read, one v1alpha2       *)
(* silence is made of each and handed to kubectl.                           *)
EXTENDS Conversion

\* What the provers do not know of literals.
ASSUME MatchTypesAssumption == MatchTypes \subseteq Text

---------------------------------------------------------------------------
convert_matcher_to_enum_Equal(m) ==   \* mutant: an isEqual that is absent is false
  [name |-> m.name, value |-> m.value,
   matchType |-> IF m.isEqual = TRUE THEN (IF m.isRegex THEN "=~" ELSE "=")
                                     ELSE (IF m.isRegex THEN "!~" ELSE "!=")]

convert_matcher_to_enum(m) ==
  [name |-> m.name, value |-> m.value,
   matchType |-> IF m.isEqual = FALSE THEN (IF m.isRegex THEN "!~" ELSE "!=")
                                      ELSE (IF m.isRegex THEN "=~" ELSE "=")]

\* The annotations of users are kept, valid-until is one of them.
MigratedSpec(spec, matchers) ==
  [matchers |-> matchers, startsAt |-> Unset, endsAt |-> Unset, duration |-> Unset,
   validUntil |-> spec.validUntil]

Migrated(o, namespace) == [api |-> "v1alpha2", namespace |-> namespace, name |-> o.name]

Converted(spec) == [j \in 1..Len(spec.matchers) |-> convert_matcher_to_enum(spec.matchers[j])]
=============================================================================
