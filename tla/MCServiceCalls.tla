--------------------------- MODULE MCServiceCalls ---------------------------
(* The service checked with two callers, each responsible for a comment, one*)
(* of them with three contents to choose from, and a person with a silence  *)
(* of her own in the same Alertmanager.                                     *)
EXTENDS ServiceCalls

Severity(value) ==
  <<[name |-> "severity", value |-> value, isRegex |-> FALSE, isEqual |-> TRUE]>>

Want(name, value, endsAt) ==
  [NoSilence EXCEPT !.comment = <<CreatedBy, name>>, !.createdBy = CreatedBy,
                    !.matchers = Severity(value), !.endsAt = endsAt]

MCWanted ==
  {Want("a", "page", 1), Want("a", "page", 9), Want("a", "notify", 9),
   Want("b", "page", 9)}
MCOneTenant == {"team"}
MCUserComments == {<<"maintenance">>}
=============================================================================
