----------------------------- MODULE MCFailover -----------------------------
(* Two processes and one object with two contents.  Which process is which, *)
(* and which id, makes no difference.                                       *)
EXTENDS Failover, TLC

MCWant(value) ==
  [NoSilence EXCEPT !.comment = <<CreatedBy, "a">>, !.createdBy = CreatedBy,
                    !.matchers = <<[name |-> "severity", value |-> value,
                                    isRegex |-> FALSE, isEqual |-> TRUE]>>,
                    !.endsAt = 100]

MCWanted == {MCWant("page"), MCWant("notify")}
MCSymmetry == Permutations(Callers) \cup Permutations(SilenceIds)
MCNoText == [form |-> "empty", requirements |-> {}]
=============================================================================
