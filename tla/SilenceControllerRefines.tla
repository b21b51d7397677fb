---------------------- MODULE SilenceControllerRefines ----------------------
(* The operator implements SilenceGuard, and it hands the legacy finalizer  *)
(* over without a gap.                                                      *)
EXTENDS SilenceControllerSafety

---------------------------------------------------------------------------
(* The two servers never change in one step.                                *)

\* One object is written and nothing else.
Wrote(o) ==
  /\ UNCHANGED <<silences, now>>
  /\ \E v \in Version : Write(o, v)

LEMMA UpdateWrites ==
  ASSUME TypeOK, NEW c \in Callers,
         AddFinalizer(c) \/ RemoveFinalizer(c) \/ CleanUpLegacyFinalizer(c)
  PROVE  UNCHANGED api \/ \E o \in Objects : Wrote(o)
<1>1. PICK F \in SUBSET Finalizers : Update(c, F) /\ worker[c].step # "idle"
  <2>1. worker[c].copy.finalizers \in SUBSET Finalizers
    BY DEF TypeOK, WorkerTypeOK, Version
  <2>2. SilenceFinalizer \in Finalizers
    BY DEF Finalizers
  <2> QED
    BY <2>1, <2>2 DEF AddFinalizer, RemoveFinalizer, CleanUpLegacyFinalizer
<1> DEFINE o == worker[c].object
           v == [worker[c].copy EXCEPT !.finalizers = F]
<1>2. o \in Objects /\ v \in Version
  BY <1>1, CopyType
<1>3. UNCHANGED <<silences, now>> /\ (Write(o, v) \/ UNCHANGED api)
  <2>1. UNCHANGED silences /\ (Write(o, v) \/ UNCHANGED api)
    BY <1>1, UpdateCases DEF service
  <2>2. UNCHANGED now
    BY <1>1, UpdateCases DEF environment, Fault
  <2> QED
    BY <2>1, <2>2
<1> QED
  BY <1>2, <1>3 DEF Wrote

LEMMA OneServerAtATime ==
  ASSUME TypeOK, [Next]_vars
  PROVE  UNCHANGED api \/ \E o \in Objects : Wrote(o)
<1>1. CASE \E o \in Objects : Reconcile(o)
  BY <1>1 DEF Reconcile
<1>2. CASE \E c \in Callers : Work(c)
  <2>1. PICK c \in Callers : Work(c)
    BY <1>2
  <2>2. CASE \/ ReconcileDelete(c) \/ DeleteReturned(c) \/ ReconcileCreate(c)
             \/ SyncReturned(c) \/ (Request(c) /\ UNCHANGED <<kube, worker>>)
    BY <2>2 DEF ReconcileDelete, DeleteReturned, ReconcileCreate, SyncReturned, kube
  <2>3. CASE AddFinalizer(c) \/ RemoveFinalizer(c) \/ CleanUpLegacyFinalizer(c)
    BY <2>3, UpdateWrites
  <2>4. \/ ReconcileDelete(c) \/ DeleteReturned(c) \/ ReconcileCreate(c)
        \/ SyncReturned(c) \/ (Request(c) /\ UNCHANGED <<kube, worker>>)
        \/ AddFinalizer(c) \/ RemoveFinalizer(c) \/ CleanUpLegacyFinalizer(c)
    BY <2>1, Zenon DEF Work
  <2> QED
    BY <2>2, <2>3, <2>4, Zenon
<1>3. CASE Restart
  BY <1>3 DEF Restart, Relist
<1>4. CASE KubeSteps
  <2>1. CASE UserWrites
    <3>1. PICK o \in Objects, v \in Version : Write(o, v) /\ \E kind : UserActs(kind)
      BY <2>1, UserWriteCases
    <3>2. UNCHANGED <<silences, now>>
      BY <1>4, <3>1 DEF KubeSteps, service, UserActs
    <3> QED
      BY <3>1, <3>2 DEF Wrote
  <2>2. CASE \E o \in Objects : Deliver(o) \/ Resync(o)
    BY <2>2 DEF Deliver, Resync
  <2> QED
    BY <1>4, <2>1, <2>2 DEF KubeSteps, kube
<1>5. CASE AlertmanagerSteps \/ UNCHANGED vars
  BY <1>5 DEF AlertmanagerSteps, vars, kube
<1> QED
  BY <1>1, <1>2, <1>3, <1>4, <1>5 DEF Next

---------------------------------------------------------------------------
(* The refinement.                                                          *)

\* A step that writes no object moves silences only, and only of held objects.
LEMMA ChangeStep ==
  ASSUME IInv', UNCHANGED api
  PROVE  Guard!Change
<1>1. \A o \in Plain : (OwnOf(o) # {})' => Holds(api[o])
  BY DEF IInv, SilenceInv, GuardInv, Holds
<1> QED
  BY <1>1 DEF Guard!Change, Holds

\* A step that writes an object takes it under guard, lets it go, or neither.
LEMMA WriteStep ==
  ASSUME TypeOK, IInv', NEW o \in Objects, Wrote(o)
  PROVE  [Guard!Next]_(Guard!guard)
<1>1. \A p \in Plain : OwnOf(p)' = OwnOf(p)
  BY DEF Wrote, OwnOf, Unexpired
<1>2. \A p \in Plain : p # o => api'[p] = api[p]
  BY DEF Wrote, Write, TypeOK, KubeTypeOK, Plain
<1>3. \A p \in Plain : OwnOf(p) # {} => Holds(api'[p])
  BY <1>1 DEF IInv, SilenceInv, GuardInv, Holds
<1> DEFINE H == [p \in Plain |-> Holds(api[p])]
           S == [p \in Plain |-> OwnOf(p) # {}]
           K == [p \in Plain |-> Holds(api'[p])]
<1>4. H' = K /\ S' = S
  BY <1>1 DEF Holds
<1>5. \A p \in Plain : H[p] \in BOOLEAN /\ K[p] \in BOOLEAN
  BY DEF Holds
<1>6. CASE o \notin Plain \/ H[o] = K[o]
  <2>1. K = H
    BY <1>2, <1>6
  <2> QED
    BY <1>4, <2>1 DEF Guard!guard
<1>7. CASE o \in Plain /\ H[o] # K[o]
  <2>1. K = [H EXCEPT ![o] = K[o]]
    BY <1>2, <1>7
  <2>2. S[o] => K[o]
    BY <1>3, <1>7
  <2>3. CASE K[o]
    BY <1>4, <1>5, <1>7, <2>1, <2>3 DEF Guard!Next, Guard!Hold
  <2>4. CASE ~K[o]
    BY <1>4, <1>5, <1>7, <2>1, <2>2, <2>4 DEF Guard!Next, Guard!Release
  <2> QED
    BY <2>3, <2>4
<1> QED
  BY <1>6, <1>7

\* At the beginning nothing is held and nothing is silenced.
LEMMA InitGuard ==
  ASSUME Undisturbed, Init
  PROVE  Guard!Init
<1>1. SilenceInv
  BY InitSilenceInv
<1>2. \A o \in Plain : ~Holds(api[o])
  <2>1. PICK body \in [LegacyObjects -> Bodies] :
          api = [o \in Objects |-> IF o \in LegacyObjects THEN Left(o, body[o]) ELSE Absent]
    BY DEF Init
  <2> QED
    BY <2>1 DEF Plain, Holds, Absent
<1>3. \A o \in Plain : OwnOf(o) = {}
  BY <1>1, <1>2 DEF SilenceInv, GuardInv
<1>4. [o \in Plain |-> Holds(api[o])] = [o \in Plain |-> FALSE]
  BY <1>2 DEF Holds
<1>5. [o \in Plain |-> OwnOf(o) # {}] = [o \in Plain |-> FALSE]
  BY <1>3
<1> QED
  BY <1>4, <1>5 DEF Guard!Init

(* ImplementsGuard: every behaviour of the operator is one of SilenceGuard, *)
(* for any objects, contents, failures and bounds.                          *)
THEOREM OperatorImplementsGuard ==
  ASSUME Undisturbed
  PROVE  Spec => ImplementsGuard
<1>1. Init => Guard!Init
  BY InitGuard
<1>2. IInv /\ IInv' /\ [Next]_vars => [Guard!Next]_(Guard!guard)
  <2> SUFFICES ASSUME IInv, IInv', [Next]_vars PROVE [Guard!Next]_(Guard!guard)
    OBVIOUS
  <2>1. TypeOK
    BY DEF IInv
  <2>2. CASE UNCHANGED api
    BY <2>2, ChangeStep DEF Guard!Next
  <2> QED
    BY <2>1, <2>2, OneServerAtATime, WriteStep
<1> QED
  BY <1>1, <1>2, Inductive, PTL DEF Spec, ImplementsGuard, Guard!Spec

---------------------------------------------------------------------------
(* The handover of the legacy finalizer, which needs none of the assumptions*)
(* above: labels may change, DELETEs may be answered with any status, and   *)
(* objects may share a comment.                                             *)

\* A worker is where Reconcile goes with the version it holds.
OnTrack(w) ==
  w.step # "idle" =>
    \/ w.step = NextStep(w.object, w.copy)
    \/ w.step = "removeFinalizer" /\ NextStep(w.object, w.copy) = "reconcileDelete"

HandInv ==
  /\ \A c \in Callers : OnTrack(worker[c])
  /\ \A o \in Objects : ~api[o].exists => api[o].finalizers = {}

LEMMA ContinueOnTrack ==
  ASSUME NEW c \in Callers, NEW o, NEW v, WorkerTypeOK, Continue(c, o, v),
         \A d \in Callers : OnTrack(worker[d])
  PROVE  \A d \in Callers : OnTrack(worker'[d])
<1> SUFFICES ASSUME NEW d \in Callers PROVE OnTrack(worker'[d])
  OBVIOUS
<1>1. CASE d # c
  BY <1>1 DEF Continue, WorkerTypeOK
<1>2. CASE d = c
  <2>1. worker'[c] = IF NextStep(o, v) = "idle" THEN Idle
                     ELSE [step |-> NextStep(o, v), object |-> o, copy |-> v]
    BY DEF Continue, WorkerTypeOK
  <2> QED
    BY <1>2, <2>1 DEF OnTrack, Idle
<1> QED
  BY <1>1, <1>2

LEMMA FinishOnTrack ==
  ASSUME NEW c \in Callers, WorkerTypeOK, Finish(c),
         \A d \in Callers : OnTrack(worker[d])
  PROVE  \A d \in Callers : OnTrack(worker'[d])
<1> SUFFICES ASSUME NEW d \in Callers PROVE OnTrack(worker'[d])
  OBVIOUS
<1>1. worker'[d] = worker[d] \/ worker'[d] = Idle
  BY DEF Finish, WorkerTypeOK
<1> QED
  BY <1>1 DEF OnTrack, Idle

\* What a worker that updates its object stores, and where it goes then.
LEMMA HandUpdate ==
  ASSUME TypeOK, HandInv, NEW c \in Callers,
         AddFinalizer(c) \/ RemoveFinalizer(c) \/ CleanUpLegacyFinalizer(c)
  PROVE  /\ \A d \in Callers : OnTrack(worker'[d])
         /\ \/ UNCHANGED api
            \/ \E o \in Objects, v \in Version :
                 Write(o, v) /\ (~v.deleting => v.finalizers # {})
<1>1. PICK F \in SUBSET Finalizers :
        /\ Update(c, F)
        /\ worker[c].step # "idle"
        /\ ~worker[c].copy.deleting => F # {}
  <2>1. worker[c].copy.finalizers \in SUBSET Finalizers
    BY DEF TypeOK, WorkerTypeOK, Version
  <2>2. SilenceFinalizer \in Finalizers /\ SilenceFinalizer # LegacyFinalizer
    BY DEF Finalizers, SilenceFinalizer, LegacyFinalizer
  <2>3. CASE AddFinalizer(c)
    BY <2>1, <2>2, <2>3 DEF AddFinalizer
  <2>4. CASE RemoveFinalizer(c)
    <3>1. NextStep(worker[c].object, worker[c].copy) \in {"removeFinalizer", "reconcileDelete"}
      BY <2>4 DEF RemoveFinalizer, HandInv, OnTrack
    <3>2. worker[c].copy.deleting
      BY <3>1 DEF NextStep
    <3> QED
      BY <2>1, <2>4, <3>2 DEF RemoveFinalizer
  <2>5. CASE CleanUpLegacyFinalizer(c)
    <3>1. NextStep(worker[c].object, worker[c].copy) = "cleanUpLegacyFinalizer"
      BY <2>5 DEF CleanUpLegacyFinalizer, HandInv, OnTrack
    <3>2. worker[c].copy.deleting \/ SilenceFinalizer \in worker[c].copy.finalizers
      BY <3>1 DEF NextStep
    <3> QED
      BY <2>1, <2>2, <2>5, <3>2 DEF CleanUpLegacyFinalizer
  <2> QED
    BY <2>3, <2>4, <2>5
<1> DEFINE o == worker[c].object
           v == [worker[c].copy EXCEPT !.finalizers = F]
<1>2. o \in Objects /\ v \in Version
  BY <1>1, CopyType
<1>3. v.deleting = worker[c].copy.deleting /\ v.finalizers = F
  BY DEF TypeOK, WorkerTypeOK, Version
<1>4. Write(o, v) \/ UNCHANGED api
  BY <1>1, UpdateCases
<1>5. Finish(c) \/ Continue(c, o, Persisted(o, v))
  BY <1>1, UpdateCases DEF Requeue
<1>6. \A d \in Callers : OnTrack(worker'[d])
  BY <1>5, ContinueOnTrack, FinishOnTrack DEF HandInv, TypeOK
<1> QED
  BY <1>1, <1>2, <1>3, <1>4, <1>6

\* What a step does to the objects and the workers.
LEMMA HandStep ==
  ASSUME TypeOK, HandInv, [Next]_vars
  PROVE  /\ \A d \in Callers : OnTrack(worker'[d])
         /\ \/ UNCHANGED api
            \/ \E o \in Objects, v \in Version :
                 /\ Write(o, v)
                 /\ ~v.deleting /\ api[o].finalizers # {} => v.finalizers # {}
<1> USE DEF HandInv
<1>1. CASE \E o \in Objects : Reconcile(o)
  <2>1. PICK o \in Objects : Reconcile(o)
    BY <1>1
  <2>2. UNCHANGED worker \/ Continue(ServedBy(o), o, cache[o])
    BY <2>1 DEF Reconcile
  <2>3. ServedBy(o) \in Callers
    BY ServedByType
  <2> QED
    BY <2>1, <2>2, <2>3, ContinueOnTrack DEF Reconcile, TypeOK
<1>2. CASE \E c \in Callers : Work(c)
  <2>1. PICK c \in Callers : Work(c)
    BY <1>2
  <2>2. CASE AddFinalizer(c) \/ RemoveFinalizer(c) \/ CleanUpLegacyFinalizer(c)
    BY <2>2, HandUpdate
  <2>3. CASE ReconcileDelete(c) \/ (Request(c) /\ UNCHANGED <<kube, worker>>)
    BY <2>3 DEF ReconcileDelete, kube
  <2>4. CASE ReconcileCreate(c) \/ SyncReturned(c)
    <3>1. UNCHANGED api /\ (UNCHANGED worker \/ Finish(c))
      BY <2>4 DEF ReconcileCreate, SyncReturned, Requeue, kube
    <3> QED
      BY <3>1, FinishOnTrack DEF TypeOK
  <2>5. CASE DeleteReturned(c)
    <3>1. /\ UNCHANGED api
          /\ Finish(c) \/ worker' = [worker EXCEPT ![c].step = "removeFinalizer"]
      BY <2>5 DEF DeleteReturned, Requeue, kube
    <3>2. CASE Finish(c)
      BY <3>1, <3>2, FinishOnTrack DEF TypeOK
    <3>3. CASE worker' = [worker EXCEPT ![c].step = "removeFinalizer"]
      <4>1. worker[c].step = "reconcileDelete"
        BY <2>5 DEF DeleteReturned
      <4>2. NextStep(worker[c].object, worker[c].copy) = "reconcileDelete"
        BY <4>1 DEF OnTrack
      <4>3. /\ \A d \in Callers : d # c => worker'[d] = worker[d]
            /\ worker'[c] = [worker[c] EXCEPT !.step = "removeFinalizer"]
        BY <3>3 DEF TypeOK, WorkerTypeOK
      <4>4. /\ worker'[c].step = "removeFinalizer"
            /\ worker'[c].object = worker[c].object /\ worker'[c].copy = worker[c].copy
        BY <4>3 DEF TypeOK, WorkerTypeOK
      <4>5. OnTrack(worker'[c])
        BY <4>2, <4>4 DEF OnTrack
      <4> QED
        BY <3>1, <4>3, <4>5
    <3> QED
      BY <3>1, <3>2, <3>3
  <2>6. \/ AddFinalizer(c) \/ RemoveFinalizer(c) \/ CleanUpLegacyFinalizer(c)
        \/ ReconcileDelete(c) \/ DeleteReturned(c) \/ ReconcileCreate(c)
        \/ SyncReturned(c) \/ (Request(c) /\ UNCHANGED <<kube, worker>>)
    BY <2>1, Zenon DEF Work
  <2> QED
    BY <2>2, <2>3, <2>4, <2>5, <2>6, Zenon
<1>3. CASE Restart
  BY <1>3 DEF Restart, Relist, OnTrack, Idle
<1>4. CASE KubeSteps
  <2>1. UNCHANGED worker
    BY <1>4 DEF KubeSteps
  <2>2. CASE UserWrites
    BY <2>1, <2>2, UserWriteCases
  <2>3. CASE \E o \in Objects : Deliver(o) \/ Resync(o)
    BY <2>1, <2>3 DEF Deliver, Resync
  <2> QED
    BY <1>4, <2>1, <2>2, <2>3 DEF KubeSteps, kube
<1>5. CASE AlertmanagerSteps \/ UNCHANGED vars
  BY <1>5 DEF AlertmanagerSteps, vars, kube
<1> QED
  BY <1>1, <1>2, <1>3, <1>4, <1>5 DEF Next

\* What a write makes of every object.
LEMMA Written ==
  ASSUME TypeOK, NEW o \in Objects, NEW v \in Version, Write(o, v)
  PROVE  /\ \A p \in Objects : p # o => api'[p] = api[p]
         /\ api'[o].finalizers = v.finalizers /\ api'[o].deleting = v.deleting
         /\ api'[o].exists = ~(v.deleting /\ v.finalizers = {})
<1>1. api' = [api EXCEPT ![o] = Persisted(o, v)]
  BY DEF Write
<1>2. api'[o] = Persisted(o, v) /\ \A p \in Objects : p # o => api'[p] = api[p]
  BY <1>1 DEF TypeOK, KubeTypeOK
<1>3. /\ Persisted(o, v).finalizers = v.finalizers
      /\ Persisted(o, v).deleting = v.deleting
      /\ Persisted(o, v).exists = ~(v.deleting /\ v.finalizers = {})
  BY DEF Persisted, Version
<1> QED
  BY <1>2, <1>3

(* LegacyHandover: whatever fails or crashes, an object that is not being   *)
(* deleted never loses its last finalizer (Reconcile removes the legacy one *)
(* after it has stored its own), for any objects, contents and bounds.      *)
THEOREM HandsOver == Spec => LegacyHandover
<1>1. Init => HandInv
  <2> SUFFICES ASSUME Init PROVE HandInv
    OBVIOUS
  <2>1. \A c \in Callers : worker[c] = Idle
    BY DEF Init
  <2>2. PICK body \in [LegacyObjects -> Bodies] :
          api = [o \in Objects |-> IF o \in LegacyObjects THEN Left(o, body[o]) ELSE Absent]
    BY DEF Init
  <2>3. \A o \in Objects : ~api[o].exists => api[o].finalizers = {}
    BY <2>2 DEF Left, Absent
  <2> QED
    BY <2>1, <2>3 DEF HandInv, OnTrack, Idle
<1>2. TypeOK /\ HandInv /\ [Next]_vars => HandInv'
  <2> SUFFICES ASSUME TypeOK, HandInv, [Next]_vars PROVE HandInv'
    OBVIOUS
  <2>1. CASE UNCHANGED api
    BY <2>1, HandStep DEF HandInv
  <2>2. CASE \E o \in Objects, v \in Version : Write(o, v)
    <3>1. PICK o \in Objects, v \in Version : Write(o, v)
      BY <2>2
    <3>2. \A p \in Objects : ~api'[p].exists => api'[p].finalizers = {}
      BY <3>1, Written DEF HandInv
    <3> QED
      BY <3>2, HandStep DEF HandInv
  <2> QED
    BY <2>1, <2>2, HandStep
<1>3. TypeOK /\ HandInv /\ [Next]_vars =>
        \A o \in Objects :
          api[o].finalizers # {} /\ ~api'[o].deleting => api'[o].finalizers # {}
  <2> SUFFICES ASSUME TypeOK, HandInv, [Next]_vars, NEW o \in Objects,
                      api[o].finalizers # {}, ~api'[o].deleting
               PROVE  api'[o].finalizers # {}
    OBVIOUS
  <2>1. CASE UNCHANGED api
    BY <2>1
  <2>2. CASE ~UNCHANGED api
    <3>1. PICK p \in Objects, v \in Version :
            Write(p, v) /\ (~v.deleting /\ api[p].finalizers # {} => v.finalizers # {})
      BY <2>2, HandStep
    <3> QED
      BY <3>1, Written
  <2> QED
    BY <2>1, <2>2
<1> QED
  BY <1>1, <1>2, <1>3, TypeCorrect, PTL DEF Spec, LegacyHandover
=============================================================================
