---------------------------- MODULE Environment -----------------------------
(* What surrounds the operator: the clock, the users, the namespaces and    *)
(* the failures, each bounded for model checking.                           *)
EXTENDS Integers

CONSTANTS
  MaxTime,      \* bound: the clock stops there
  MaxEdits,     \* bound: changes users make, in Kubernetes and in Alertmanager
  UserKinds,    \* the changes they make
  MaxFaults,    \* bound: failures of requests and crashes of the operator
  FaultKinds,   \* the failures that may happen
  Namespaces,   \* the namespaces of Kubernetes,
  NamespaceLabels   \* and the labels they may have, or no longer have

(* "refused" the server does nothing: nobody answers, or it answers with an *)
(*           error status                                                   *)
(* "lost"    the server acted, the client never reads the reply             *)
(* "status"  the server answers a DELETE with an error status, as above, but*)
(*           the client makes something else of it                          *)
(* "crash"   the operator's process dies and starts again                   *)
AllFaults == {"refused", "lost", "status", "crash"}

(* "create", "edit" (the spec and whether the operator selects the object), *)
(* "relabel" (the tenant) and "delete" an object; create, label or delete a *)
(* "namespace"; "expire" a silence in Alertmanager and "silence" alerts     *)
(* there by hand                                                            *)
AllUserKinds ==
  {"create", "edit", "relabel", "delete", "namespace", "expire", "silence"}

ASSUME EnvironmentAssumption ==
  /\ {MaxTime, MaxEdits, MaxFaults} \subseteq Nat
  /\ UserKinds \subseteq AllUserKinds
  /\ FaultKinds \subseteq AllFaults

VARIABLES
  now,      \* the hour, on the one clock all parties read
  edits,    \* changes users made so far
  faults,   \* failures so far
  namespaces  \* the labels of each namespace, as the operator's client shows them

environment == <<now, edits, faults, namespaces>>

EnvironmentTypeOK ==
  /\ now \in Nat
  /\ edits \in Nat
  /\ faults \in Nat
  /\ namespaces \in [Namespaces -> NamespaceLabels]

EnvironmentInit ==
  /\ now = 0 /\ edits = 0 /\ faults = 0
  /\ namespaces \in [Namespaces -> NamespaceLabels]

Passes == now < MaxTime /\ now' = now + 1 /\ UNCHANGED <<edits, faults, namespaces>>

UserActs(kind) ==
  /\ kind \in UserKinds
  /\ edits < MaxEdits
  /\ edits' = edits + 1
  /\ UNCHANGED <<now, faults, namespaces>>

(* A namespace comes, goes or gets other labels, or the client's cache first*)
(* learns of it.  No event of a silence tells of it.                        *)
NamespaceChanges(n) ==
  /\ "namespace" \in UserKinds
  /\ edits < MaxEdits
  /\ edits' = edits + 1
  /\ \E labels \in NamespaceLabels : namespaces' = [namespaces EXCEPT ![n] = labels]
  /\ UNCHANGED <<now, faults>>

Fault(kind) ==
  /\ kind \in FaultKinds
  /\ faults < MaxFaults
  /\ faults' = faults + 1
  /\ UNCHANGED <<now, edits, namespaces>>
=============================================================================
