------------------------ MODULE SilenceControllerInv ------------------------
(* Why the operator leaves no silence behind: the inductive invariant under *)
(* NoOrphan and AtMostOneOwn, in three layers.  The lower ones hold without *)
(* the upper ones.                                                          *)
EXTENDS SilenceController

Holds(v) == v.exists /\ SilenceFinalizer \in v.finalizers

---------------------------------------------------------------------------
(* Layer one: the versions of an object.  The informer has, or will be told *)
(* of, the stored version; no version is newer than it; and a worker that   *)
(* has not updated the object yet holds nothing newer than the cache.  So   *)
(* an update that succeeds before any other finds everybody up to date.     *)
VersionInv(o) ==
  /\ api[o] \in {cache[o]} \cup watch[o]
  /\ \A v \in watch[o] : cache[o].rv < v.rv
  /\ \A v, w \in watch[o] : v.rv = w.rv => v = w
  /\ \A v \in Seen(o) :
       /\ v.rv <= api[o].rv
       /\ v.rv = api[o].rv => v = api[o]
  /\ Busy(o) /\ worker[ServedBy(o)].step \in
       {"reconcileDelete", "removeFinalizer", "addFinalizer"}
       => Copy(o).rv <= cache[o].rv

(* A worker is where Reconcile goes with the version it holds.              *)
StepInv(o) ==
  Busy(o) =>
    \/ worker[ServedBy(o)].step = NextStep(o, Copy(o))
    \/ /\ worker[ServedBy(o)].step = "removeFinalizer"
       /\ NextStep(o, Copy(o)) = "reconcileDelete"

(* Whoever sees the object alive with the finalizer can rely on it: only    *)
(* the worker takes the finalizer away, and it has then seen the deletion.  *)
(* Versions that hold the finalizer agree on the tenant.                    *)
FinalizerInv(o) ==
  \A v \in Seen(o) : Holds(v) =>
    /\ v.deleting \/ Holds(api[o])
    /\ Holds(api[o]) => Tenant(v) = Tenant(api[o])

KubeInv == \A o \in Objects : VersionInv(o) /\ StepInv(o) /\ FinalizerInv(o)

---------------------------------------------------------------------------
(* Layer two: a call in progress is the one its worker made, for the object *)
(* and the version the worker holds.                                        *)
CallOf(c) ==
  call[c].step # "none" =>
    /\ call[c].silence.comment = SilenceComment(worker[c].object)
    /\ call[c].tenant = Tenant(worker[c].copy)
    /\ \/ /\ worker[c].step = "reconcileDelete"
          /\ call[c].op = "delete"
          /\ call[c].step \notin {"create", "update"}
       \/ /\ worker[c].step = "reconcileCreate"
          /\ call[c].op = "sync"
          /\ call[c].silence.createdBy = CreatedBy

CallInv == \A c \in Callers : CallOf(c)

---------------------------------------------------------------------------
(* Layer three: the silences.  What a listing told a worker stays true until*)
(* it acts on it, because nobody else raises silences for its object.       *)
Plain == Objects \ LegacyObjects

NoneOf(o) == OwnOf(o) = {}

CreatorInv ==
  \A o \in Objects, i \in SilenceIds :
    silences[i].comment = SilenceComment(o) => silences[i].createdBy = CreatedBy

LookInv(o) ==
  LET c == ServedBy(o) IN
  /\ Busy(o) /\ call[c].step = "create" => NoneOf(o)
  /\ Busy(o) /\ call[c].step \in {"update", "deleteByID"} => OwnOf(o) \subseteq {call[c].id}
  /\ Busy(o) /\ call[c].op = "delete" /\ call[c].step = "ok" => NoneOf(o)
  /\ Busy(o) /\ worker[c].step = "removeFinalizer" => NoneOf(o)

GuardInv(o) ==
  /\ \A i \in OwnOf(o) : Holds(api[o]) /\ silences[i].tenant = TenantOf(o)
  /\ \A i, j \in OwnOf(o) : i = j

SilenceInv ==
  /\ CreatorInv
  /\ \A o \in Plain : LookInv(o) /\ GuardInv(o)

(* What the silences rely on in the surroundings of the operator: the labels*)
(* that name the tenant stay, Alertmanager does not answer a DELETE of a    *)
(* silence that is in effect with an error status, and no two objects, and  *)
(* no person, use the same comment.                                         *)
Undisturbed ==
  /\ "relabel" \notin UserKinds
  /\ "status" \notin FaultKinds
  /\ \A o, p \in Objects : SilenceComment(o) = SilenceComment(p) => o = p
  /\ \A o \in Objects : SilenceComment(o) \notin UserComments

(* The inductive invariant: everything the operator relies on between two   *)
(* of its requests.                                                         *)
IInv == TypeOK /\ KubeInv /\ CallInv /\ SilenceInv

---------------------------------------------------------------------------
(* The refinement mapping: an object is held by the finalizer of the        *)
(* operator in the stored version, and silenced by any silence in effect    *)
(* that came from it.                                                       *)
Guard == INSTANCE SilenceGuard
           WITH Items <- Plain,
                held <- [o \in Plain |-> Holds(api[o])],
                silenced <- [o \in Plain |-> OwnOf(o) # {}]

(* The operator implements the guard: whatever is cached, retried, lost or  *)
(* cut off by a crash, each step of the two reconcilers, the service, the   *)
(* users and the servers is a step of SilenceGuard or none at all.          *)
ImplementsGuard == Guard!Spec
=============================================================================
