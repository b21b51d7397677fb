---------------------------- MODULE SilenceTypes ----------------------------
(* The silence as the operator sends it to Alertmanager                     *)
(* (pkg/alertmanager/types.go) and the comment by which it finds it again.  *)
EXTENDS Integers, Sequences

\* The owner written into every silence of the operator.
CreatedBy == "silence-operator"

Text == STRING

\* What the provers do not know of literals.
ASSUME LiteralAssumption == {"", "user", CreatedBy} \subseteq Text

Matcher == [name : Text, value : Text, isRegex : BOOLEAN, isEqual : BOOLEAN]

(* A comment is the sequence of its segments, which the text joins with "-":*)
(* the names "a-b" and "a", "b" of two segments give the same comment, as   *)
(* they do in the text.                                                     *)
Comment == Seq(Text)

(* Alertmanager keeps the silences of each tenant apart; the tenant stands  *)
(* beside the fields of the JSON object.                                    *)
Silence ==
  [comment : Comment, createdBy : Text, tenant : Text,
   matchers : Seq(Matcher), startsAt : Nat, endsAt : Nat]

\* A slot nothing was stored in yet: it ended at the beginning of time.
NoSilence ==
  [comment |-> <<>>, createdBy |-> "", tenant |-> "", matchers |-> <<>>,
   startsAt |-> 0, endsAt |-> 0]

(* An object is a record [api, namespace, name]; namespace and name are     *)
(* sequences of segments, and the namespace of a cluster-scoped object is   *)
(* the empty one.                                                           *)
Object == [api : {"v1alpha1", "v1alpha2"}, namespace : Comment, name : Comment]

SilenceComment(o) == <<CreatedBy>> \o o.namespace \o o.name
=============================================================================
