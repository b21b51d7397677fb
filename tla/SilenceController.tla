-------------------------- MODULE SilenceController -------------------------
(* The two reconcilers of internal/controller: from the events of the       *)
(* Kubernetes API to calls of the silence service.  One worker per          *)
(* controller; each request it makes is an action of its own.               *)
EXTENDS SilenceService, KubeApi

CONSTANTS
  LegacyObjects,    \* v1alpha1 objects an operatorkit release left behind
  NoObject          \* what an idle worker holds

ASSUME ControllerAssumption ==
  /\ {"silence", "silence-v2"} \subseteq Callers
  /\ LegacyObjects \subseteq {o \in Objects : o.api = "v1alpha1"}

VARIABLE worker     \* what the worker of each controller is doing

vars == <<environment, service, kube, worker>>

ServedBy(o) == IF o.api = "v1alpha1" THEN "silence" ELSE "silence-v2"

WorkerSteps ==
  {"idle", "reconcileDelete", "removeFinalizer", "addFinalizer",
   "cleanUpLegacyFinalizer", "reconcileCreate"}

Idle == [step |-> "idle", object |-> NoObject, copy |-> Absent]

---------------------------------------------------------------------------
NextStep_Early(o, v) ==   \* mutant: the silence is created before the finalizer
  CASE v.deleting /\ SilenceFinalizer \in v.finalizers -> "reconcileDelete"
    [] v.deleting /\ SilenceFinalizer \notin v.finalizers -> "idle"
    [] OTHER -> "reconcileCreate"

NextStep_Legacy(o, v) ==   \* mutant: the legacy finalizer goes first
  CASE LegacyFinalizer \in v.finalizers -> "cleanUpLegacyFinalizer"
    [] LegacyFinalizer \notin v.finalizers /\ v.deleting ->
         IF SilenceFinalizer \in v.finalizers THEN "reconcileDelete" ELSE "idle"
    [] OTHER ->
         IF SilenceFinalizer \in v.finalizers THEN "reconcileCreate" ELSE "addFinalizer"

(* Where Reconcile goes with a version in its hands: at the start with the  *)
(* cached one, after each successful update with the one it got back.       *)
NextStep(o, v) ==
  CASE v.deleting /\ SilenceFinalizer \in v.finalizers -> "reconcileDelete"
    [] ~v.deleting /\ SilenceFinalizer \notin v.finalizers -> "addFinalizer"
    [] OTHER ->
         IF o.api = "v1alpha1" /\ LegacyFinalizer \in v.finalizers
         THEN "cleanUpLegacyFinalizer"
         ELSE IF v.deleting THEN "idle" ELSE "reconcileCreate"

Continue(c, o, v) ==
  worker' = [worker EXCEPT ![c] =
    IF NextStep(o, v) = "idle" THEN Idle
    ELSE [step |-> NextStep(o, v), object |-> o, copy |-> v]]

Finish(c) == worker' = [worker EXCEPT ![c] = Idle]

Requeue_Dropped(c) ==   \* mutant: the error is logged and forgotten
  Finish(c) /\ UNCHANGED queue

\* An error returned by Reconcile puts the object back into the queue.
Requeue(c) ==
  /\ Finish(c)
  /\ queue' = queue \cup {worker[c].object}

---------------------------------------------------------------------------
Reconcile_Gone(o) ==   \* mutant: a not-found error is ignored
  /\ o \in queue
  /\ worker[ServedBy(o)].step = "idle"
  /\ queue' = queue \ {o}
  /\ Continue(ServedBy(o), o, IF cache[o].exists THEN cache[o] ELSE Absent)
  /\ UNCHANGED <<environment, service, api, watch, cache>>

Reconcile(o) ==
  /\ o \in queue
  /\ worker[ServedBy(o)].step = "idle"
  /\ queue' = queue \ {o}
  /\ IF cache[o].exists THEN Continue(ServedBy(o), o, cache[o])
                        ELSE UNCHANGED worker
  /\ UNCHANGED <<environment, service, api, watch, cache>>

(* client.Update of the copy with other finalizers: stored, refused for a   *)
(* newer version, or failed on the way there or back.                       *)
Update(c, finalizers) ==
  LET o == worker[c].object
      v == [worker[c].copy EXCEPT !.finalizers = finalizers]
  IN  /\ \/ /\ Current(o, v)
            /\ Write(o, v)
            /\ Continue(c, o, Persisted(o, v))
            /\ UNCHANGED <<queue, environment>>
         \/ /\ Current(o, v)
            /\ Write(o, v)
            /\ Fault("lost")
            /\ Requeue(c)
         \/ /\ (~Current(o, v) /\ UNCHANGED environment) \/ Fault("refused")
            /\ Requeue(c)
            /\ UNCHANGED <<api, watch>>
      /\ UNCHANGED <<cache, service>>

AddFinalizer(c) ==
  /\ worker[c].step = "addFinalizer"
  /\ Update(c, worker[c].copy.finalizers \cup {SilenceFinalizer})

RemoveFinalizer(c) ==
  /\ worker[c].step = "removeFinalizer"
  /\ Update(c, worker[c].copy.finalizers \ {SilenceFinalizer})

CleanUpLegacyFinalizer(c) ==
  /\ worker[c].step = "cleanUpLegacyFinalizer"
  /\ Update(c, worker[c].copy.finalizers \ {LegacyFinalizer})

---------------------------------------------------------------------------
ReconcileDelete(c) ==
  /\ worker[c].step = "reconcileDelete"
  /\ DeleteSilence(c, SilenceComment(worker[c].object), Tenant(worker[c].copy))
  /\ UNCHANGED <<kube, worker>>

DeleteReturned_Ignored(c) ==   \* mutant: the finalizer goes whatever was returned
  /\ worker[c].step = "reconcileDelete"
  /\ Collect(c)
  /\ worker' = [worker EXCEPT ![c].step = "removeFinalizer"]
  /\ UNCHANGED <<kube, environment, silences>>

DeleteReturned(c) ==
  /\ worker[c].step = "reconcileDelete"
  /\ Collect(c)
  /\ \/ /\ call[c].step = "ok"
        /\ worker' = [worker EXCEPT ![c].step = "removeFinalizer"]
        /\ UNCHANGED kube
     \/ call[c].step = "failed" /\ Requeue(c) /\ UNCHANGED <<api, watch, cache>>
  /\ UNCHANGED <<environment, silences>>

ReconcileCreate(c) ==
  LET o == worker[c].object
      v == worker[c].copy
  IN  /\ worker[c].step = "reconcileCreate"
      /\ call[c].step = "none"
      /\ \/ /\ ConversionFails(o, v.created, v.body.spec)
            /\ Requeue(c)
            /\ UNCHANGED <<api, watch, cache, environment, service>>
         \/ /\ ~ConversionFails(o, v.created, v.body.spec)
            /\ SyncSilence(c, getSilenceFromCR(o, v.created, v.body.spec), Tenant(v))
            /\ UNCHANGED <<kube, worker>>

SyncReturned(c) ==
  /\ worker[c].step = "reconcileCreate"
  /\ Collect(c)
  /\ \/ call[c].step = "ok" /\ Finish(c) /\ UNCHANGED kube
     \/ call[c].step = "failed" /\ Requeue(c) /\ UNCHANGED <<api, watch, cache>>
  /\ UNCHANGED <<environment, silences>>

---------------------------------------------------------------------------
\* A step of the worker that is in the middle of a reconcile.
Work(c) ==
  \/ AddFinalizer(c) \/ RemoveFinalizer(c) \/ CleanUpLegacyFinalizer(c)
  \/ ReconcileDelete(c) \/ DeleteReturned(c)
  \/ ReconcileCreate(c) \/ SyncReturned(c)
  \/ Request(c) /\ UNCHANGED <<kube, worker>>

(* The process dies between any two steps and another one takes over, with  *)
(* nothing but what the two servers hold.                                   *)
Restart ==
  /\ Fault("crash")
  /\ Relist
  /\ worker' = [c \in Callers |-> Idle]
  /\ call' = [c \in Callers |-> NoCall]
  /\ UNCHANGED silences

KubeSteps ==
  /\ \/ UserWrites
     \/ \E n \in Namespaces : NamespaceChanges(n) /\ UNCHANGED kube
     \/ \E o \in Objects : Deliver(o) \/ Resync(o)
  /\ UNCHANGED <<service, worker>>

AlertmanagerSteps == Others /\ UNCHANGED <<call, kube, worker>>

Tick == Passes /\ UNCHANGED <<service, kube, worker>>

---------------------------------------------------------------------------
\* An object the previous release left: it carries the legacy finalizer only.
Left(o, b) == [Absent EXCEPT !.exists = TRUE, !.rv = 1, !.body = b,
                             !.finalizers = {LegacyFinalizer}]

LeftSilence(o, b) ==
  LET s == getSilenceFromCR(o, 0, b.spec) IN
  Stored(s, ExtractTenant(b.labels), s.startsAt)

Init ==
  /\ EnvironmentInit
  /\ call = [c \in Callers |-> NoCall]
  /\ worker = [c \in Callers |-> Idle]
  /\ \E body \in [LegacyObjects -> Bodies], id \in [LegacyObjects -> SilenceIds] :
       /\ \A o \in LegacyObjects :
            /\ Admitted(o, body[o].spec)
            /\ ~ConversionFails(o, 0, body[o].spec)
            /\ \A p \in LegacyObjects : id[o] = id[p] => o = p
       /\ api = [o \in Objects |->
                   IF o \in LegacyObjects THEN Left(o, body[o]) ELSE Absent]
       /\ silences = [i \in SilenceIds |->
                        IF \E o \in LegacyObjects : id[o] = i
                        THEN LET o == CHOOSE o \in LegacyObjects : id[o] = i
                             IN  LeftSilence(o, body[o])
                        ELSE NoSilence]
  /\ cache = api
  /\ watch = [o \in Objects |-> {}]
  /\ queue = {o \in Objects : api[o].exists /\ Selected(o, api[o])}

Next ==
  \/ \E o \in Objects : Reconcile(o)
  \/ \E c \in Callers : Work(c)
  \/ Restart
  \/ KubeSteps
  \/ AlertmanagerSteps

Spec == Init /\ [][Next]_vars

(* The workqueue is first in, first out, so no object waits behind others   *)
(* for ever; a worker, a request and the watch carry on while they can; the *)
(* informer resyncs for ever and the clock does not stop.                   *)
Fairness ==
  /\ \A o \in Objects :
       /\ SF_vars(Reconcile(o))
       /\ WF_vars(Deliver(o) /\ UNCHANGED <<service, worker>>)
       /\ WF_vars(Resync(o) /\ UNCHANGED <<service, worker>>)
  /\ \A c \in Callers : WF_vars(Work(c))
  /\ WF_vars(Tick)

LiveSpec == Spec /\ Fairness

---------------------------------------------------------------------------
WorkerTypeOK ==
  worker \in [Callers ->
    [step : WorkerSteps, object : Objects \cup {NoObject}, copy : Version]]

\* The worker that serves o is in the middle of a reconcile of it.
Busy(o) ==
  /\ worker[ServedBy(o)].step # "idle"
  /\ worker[ServedBy(o)].object = o

Copy(o) == worker[ServedBy(o)].copy

\* Every version of o that somebody still holds.
Seen(o) ==
  {api[o], cache[o]} \cup watch[o] \cup (IF Busy(o) THEN {Copy(o)} ELSE {})

(* Whatever version is read passed the validation of its definition.        *)
Valid(o, v) == v.exists => v.body \in Bodies /\ Admitted(o, v.body.spec)

Validated == \A o \in Objects : \A v \in Seen(o) : Valid(o, v)

(* A worker has existing objects of its own controller.                     *)
Assigned ==
  \A c \in Callers : worker[c].step # "idle" =>
    /\ worker[c].object \in Objects
    /\ ServedBy(worker[c].object) = c
    /\ worker[c].copy.exists

(* Types, with what the API server's validation and the workqueue ensure    *)
(* of the versions that Reconcile works on.                                 *)
TypeOK == ServiceTypeOK /\ KubeTypeOK /\ WorkerTypeOK /\ Validated /\ Assigned

\* The unexpired silences of the operator that came from object o.
OwnOf(o) ==
  {i \in SilenceIds : /\ Unexpired(i)
                      /\ silences[i].comment = SilenceComment(o)
                      /\ silences[i].createdBy = CreatedBy}

TenantOf(o) == EffectiveTenant(Tenant(api[o]))

(* No silence of the operator outlives its object: as long as one is in     *)
(* effect its object is stored, holds the finalizer of the operator and     *)
(* names the tenant the silence is kept for - through crashes, lost         *)
(* replies, conflicts and a cache that lags behind (Reconcile deletes the   *)
(* silence before it removes the finalizer, and adds the finalizer before   *)
(* it creates the silence).                                                 *)
NoOrphan ==
  \A o \in Objects \ LegacyObjects : \A i \in OwnOf(o) :
    /\ api[o].exists
    /\ SilenceFinalizer \in api[o].finalizers
    /\ silences[i].tenant = TenantOf(o)

(* An object has at most one silence in effect: a create whose reply was    *)
(* lost, or that a crash cut off, is found again by its comment.            *)
AtMostOneOwn ==
  \A o \in Objects : \A i, j \in OwnOf(o) : i = j

(* An object that is not being deleted never loses its last finalizer: the  *)
(* legacy one is removed only when the new one is stored, whatever failed   *)
(* or crashed in between, so a deletion always finds one that holds it.     *)
LegacyHandover ==
  [][\A o \in Objects :
       api[o].finalizers # {} /\ ~api'[o].deleting => api'[o].finalizers # {}]_vars

(* README: the operator "ensures that the current Alertmanager silences     *)
(* match these objects".  An object an operatorkit release left behind is   *)
(* no exception: its silence is not in effect any more when it is gone.     *)
LegacySilenceDeleted ==
  \A o \in LegacyObjects : OwnOf(o) # {} => api[o].exists

---------------------------------------------------------------------------
(* Alertmanager holds for o what its object asks for: the matchers, the end *)
(* and the tenant, and nothing else.  The start is not compared.            *)
Mirrored(o) ==
  LET s == getSilenceFromCR(o, api[o].created, api[o].body.spec) IN
  IF s.endsAt > now
  THEN /\ OwnOf(o) # {}
       /\ \A i \in OwnOf(o) : /\ silences[i].matchers = s.matchers
                              /\ silences[i].endsAt = s.endsAt
                              /\ silences[i].tenant = TenantOf(o)
  ELSE OwnOf(o) = {}

\* Objects the operator is to serve and whose contents it can convert.
Served(o) ==
  /\ api[o].exists
  /\ Selected(o, api[o])
  /\ ~ConversionFails(o, api[o].created, api[o].body.spec)

Quiescent ==
  /\ queue = {}
  /\ \A o \in Objects : watch[o] = {}
  /\ \A c \in Callers : worker[c] = Idle

(* When nothing is left to do, nothing is left undone: no event was         *)
(* dropped, no failure forgotten and no result of a stale read kept, so     *)
(* without waiting for a resync every selected object is mirrored and none  *)
(* is stuck in its deletion.                                                *)
QuiescentMirrored ==
  Quiescent => \A o \in Objects : Served(o) => ~api[o].deleting /\ Mirrored(o)

(* MIGRATION.md: "Both API versions can coexist safely."  When nothing is   *)
(* left to do, what the objects of one definition ask for is in effect,     *)
(* whatever objects of the other one there are.                             *)
BothMirrored ==
  Quiescent => \A o \in Objects : Served(o) /\ ~api[o].deleting => Mirrored(o)

(* README: the operator "ensures that the current Alertmanager silences     *)
(* match these objects", and the tenant of a silence is the one its object  *)
(* names: when nothing is left to do, no other tenant is silenced for it.   *)
SilenceFollowsTenant ==
  Quiescent => \A o \in Objects : \A i \in OwnOf(o) : silences[i].tenant = TenantOf(o)

(* README: the operator "ensures that the current Alertmanager silences     *)
(* match these objects".  In the end they do, also when people expire       *)
(* silences of the operator by hand: a resync brings them back.             *)
EventuallyMirrored ==
  <>[](\A o \in Objects : Served(o) /\ ~api[o].deleting => Mirrored(o))

(* The deletion of a selected object completes: its finalizer does not hold *)
(* it for ever, whatever failed on the way.                                 *)
DeletionCompletes ==
  \A o \in Objects :
    (api[o].exists /\ api[o].deleting) ~> (~api[o].exists \/ ~Selected(o, api[o]))
=============================================================================
