-------------------------- MODULE MigrationScript ---------------------------
(* A run of hack/migrate-silences.sh.  Each side of a pipeline of the shell *)
(* is a process of its own, with its own copies of the variables.           *)
EXTENDS Migration

CONSTANTS
  Items,              \* the v1alpha1 silences kubectl lists, in their order
  TARGET_NAMESPACE,
  DRY_RUN

VARIABLES
  step,                 \* where the script is
  silences_json,        \* the silences that are left
  converted_matchers,   \* the variable of the loop over the silences,
  piped,                \* and the copy the loop over the matchers works on
  matchers,             \* the matchers that are left
  created               \* the v1alpha2 silences kubectl created

vars == <<step, silences_json, converted_matchers, piped, matchers, created>>

Init ==
  /\ step = "silences"
  /\ silences_json = Items
  /\ converted_matchers = <<>> /\ piped = <<>> /\ matchers = <<>>
  /\ created = {}

NextSilence ==
  /\ step = "silences" /\ silences_json # <<>>
  /\ converted_matchers' = <<>>
  /\ piped' = converted_matchers'
  /\ matchers' = Head(silences_json).spec.matchers
  /\ step' = "matchers"
  /\ UNCHANGED <<silences_json, created>>

ConvertMatcher ==
  /\ step = "matchers" /\ matchers # <<>>
  /\ piped' = Append(piped, convert_matcher_to_enum(Head(matchers)))
  /\ matchers' = Tail(matchers)
  /\ UNCHANGED <<step, silences_json, converted_matchers, created>>

\* The copy goes with the process that worked on it.
PipelineEnds ==
  /\ step = "matchers" /\ matchers = <<>>
  /\ step' = "apply"
  /\ piped' = <<>>
  /\ UNCHANGED <<silences_json, converted_matchers, matchers, created>>

(* Whatever kubectl apply does not create, because the API server refuses   *)
(* it or for any other reason, ends the script.                             *)
Apply ==
  LET item == Head(silences_json)
      o == Migrated(item.object, TARGET_NAMESPACE)
      spec == MigratedSpec(item.spec, converted_matchers)
  IN  /\ step = "apply"
      /\ \/ /\ DRY_RUN \/ Admitted(o, spec)
            /\ step' = "silences"
            /\ silences_json' = Tail(silences_json)
            /\ created' = IF DRY_RUN THEN created
                          ELSE created \cup {[object |-> o, spec |-> spec]}
         \/ ~DRY_RUN /\ step' = "failed" /\ UNCHANGED <<silences_json, created>>
      /\ UNCHANGED <<converted_matchers, piped, matchers>>

Complete ==
  /\ step = "silences" /\ silences_json = <<>>
  /\ step' = "completed"
  /\ UNCHANGED <<silences_json, converted_matchers, piped, matchers, created>>

Next == NextSilence \/ ConvertMatcher \/ PipelineEnds \/ Apply \/ Complete

Spec == Init /\ [][Next]_vars

---------------------------------------------------------------------------
(* MIGRATION.md: "This script automatically converts boolean fields         *)
(* (isRegex/isEqual) to the new matchType enum format."  What is handed to  *)
(* kubectl has the matchers of the silence, converted.                      *)
MatchersConverted ==
  step = "apply" => converted_matchers = Converted(Head(silences_json).spec)
=============================================================================
