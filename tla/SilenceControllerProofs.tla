----------------------- MODULE SilenceControllerProofs ----------------------
(* Proofs about the composed operator, for any objects, contents, silences, *)
(* callers and bounds.                                                      *)
EXTENDS SilenceControllerInv, ServiceLemmas

---------------------------------------------------------------------------
(* Types: Kubernetes and the workers.                                       *)


\* The tenant of an admitted version is a text, before and after the default.
LEMMA TenantType ==
  ASSUME NEW v, v.body \in Bodies
  PROVE  Tenant(v) \in Text /\ EffectiveTenant(Tenant(v)) \in Text
<1>1. Tenant(v) \in Text
  BY KubeAssumption, TenancyAssumption, LiteralAssumption DEF Tenant, ExtractTenant
<1> QED
  BY <1>1, TenancyAssumption DEF EffectiveTenant

\* What is not stored is a version too.
LEMMA AbsentType == Absent \in Version
  BY DEF Absent, Version

\* The parts of a record of the worker and of a version.
LEMMA VersionFields ==
  ASSUME NEW v \in Version
  PROVE  /\ v.exists \in BOOLEAN /\ v.rv \in Nat /\ v.deleting \in BOOLEAN
         /\ v.finalizers \subseteq Finalizers /\ v.created \in Nat
         /\ v.body \in Bodies \cup {NoBody}
  BY DEF Version

\* What the API server makes of a version it stores.
LEMMA PersistedType ==
  ASSUME NEW o \in Objects, NEW v \in Version, api \in [Objects -> Version]
  PROVE  /\ Persisted(o, v) \in Version
         /\ Persisted(o, v).body = v.body
         /\ Persisted(o, v).rv = api[o].rv + 1
         /\ Persisted(o, v).finalizers = v.finalizers
         /\ Persisted(o, v).deleting = v.deleting
         /\ Persisted(o, v).created = v.created
         /\ Persisted(o, v).exists = ~(v.deleting /\ v.finalizers = {})
<1>1. api[o].rv + 1 \in Nat
  BY DEF Version
<1>2. (~(v.deleting /\ v.finalizers = {})) \in BOOLEAN
  BY SMT
<1>3. \A n \in Nat, b \in BOOLEAN : [v EXCEPT !.rv = n, !.exists = b] \in Version
  BY DEF Version
<1>4. Persisted(o, v) \in Version
  BY <1>1, <1>2, <1>3, Zenon DEF Persisted
<1> DEFINE n == api[o].rv + 1
           b == ~(v.deleting /\ v.finalizers = {})
           w == [v EXCEPT !.rv = n, !.exists = b]
<1> HIDE DEF n, b
<1>5. w.body = v.body /\ w.rv = n /\ w.finalizers = v.finalizers
  BY DEF Version
<1>6. w.deleting = v.deleting /\ w.created = v.created
  BY DEF Version
<1>7. w.exists = b
  BY Zenon DEF Version
<1>8. Persisted(o, v) = w
  BY DEF Persisted, n, b
<1> HIDE DEF w
<1>9. Persisted(o, v).exists = b /\ Persisted(o, v).rv = n
  BY <1>5, <1>7, <1>8
<1> QED
  BY <1>4, <1>5, <1>6, <1>8, <1>9, Zenon DEF n, b

\* A write keeps the types of what is stored and announced.
LEMMA WriteType ==
  ASSUME KubeTypeOK, NEW o \in Objects, NEW v \in Version, Write(o, v)
  PROVE  api' \in [Objects -> Version] /\ watch' \in [Objects -> SUBSET Version]
<1>1. Persisted(o, v) \in Version
  BY PersistedType DEF KubeTypeOK
<1> QED
  BY <1>1 DEF KubeTypeOK, Write

\* What a write makes visible: the new version, and what was visible before.
LEMMA WriteSeen ==
  ASSUME KubeTypeOK, NEW o \in Objects, NEW v \in Version, Write(o, v),
         UNCHANGED <<cache, worker>>, NEW p \in Objects
  PROVE  Seen(p)' \subseteq Seen(p) \cup (IF p = o THEN {Persisted(o, v)} ELSE {})
  BY DEF KubeTypeOK, Write, Seen, Busy, Copy

\* A worker that goes on is a worker.
LEMMA ContinueType ==
  ASSUME WorkerTypeOK, NEW c \in Callers, NEW o \in Objects, NEW v \in Version,
         Continue(c, o, v)
  PROVE  WorkerTypeOK'
<1>1. NextStep(o, v) \in WorkerSteps
  BY DEF NextStep, WorkerSteps
<1>2. Idle \in [step : WorkerSteps, object : Objects \cup {NoObject}, copy : Version]
  BY AbsentType DEF Idle, WorkerSteps
<1> QED
  BY <1>1, <1>2 DEF Continue, WorkerTypeOK

\* A worker that is done is a worker.
LEMMA FinishType ==
  ASSUME WorkerTypeOK, NEW c \in Callers, Finish(c)
  PROVE  WorkerTypeOK'
  BY AbsentType DEF Finish, WorkerTypeOK, Idle, WorkerSteps

\* Every object has a controller.
LEMMA ServedByType ==
  ASSUME NEW o \in Objects
  PROVE  ServedBy(o) \in Callers
  BY ControllerAssumption DEF ServedBy

\* A worker that ends its reconcile leaves the others where they are.
LEMMA FinishBusy ==
  ASSUME WorkerTypeOK, NEW c \in Callers, Finish(c), NEW p \in Objects, Busy(p)'
  PROVE  /\ Busy(p) /\ ServedBy(p) # c
         /\ worker'[ServedBy(p)] = worker[ServedBy(p)]
  BY ServedByType DEF WorkerTypeOK, Finish, Busy, Idle

\* A worker that goes on has the version it goes on with.
LEMMA ContinueBusy ==
  ASSUME WorkerTypeOK, NEW o \in Objects, NEW v, Continue(ServedBy(o), o, v),
         NEW p \in Objects, Busy(p)'
  PROVE  \/ /\ p = o
            /\ worker'[ServedBy(p)] = [step |-> NextStep(o, v), object |-> o, copy |-> v]
            /\ NextStep(o, v) # "idle"
         \/ /\ p # o /\ Busy(p) /\ ServedBy(p) # ServedBy(o)
            /\ worker'[ServedBy(p)] = worker[ServedBy(p)]
  BY ServedByType DEF WorkerTypeOK, Continue, Busy, Idle

\* A worker goes on with an existing object of its own controller.
LEMMA ContinueAssigned ==
  ASSUME WorkerTypeOK, Assigned, NEW o \in Objects, NEW v,
         Continue(ServedBy(o), o, v), v.exists \/ NextStep(o, v) = "idle"
  PROVE  Assigned'
  BY ServedByType DEF WorkerTypeOK, Continue, Assigned, Idle

\* A worker that is done has no object.
LEMMA FinishAssigned ==
  ASSUME WorkerTypeOK, Assigned, NEW c \in Callers, Finish(c)
  PROVE  Assigned'
  BY DEF WorkerTypeOK, Finish, Assigned, Idle

\* An object that is gone leaves its worker nothing to do.
LEMMA GoneIsIdle ==
  ASSUME KubeTypeOK, NEW o \in Objects, NEW v \in Version, ~Persisted(o, v).exists
  PROVE  NextStep(o, Persisted(o, v)) = "idle"
<1>1. v.deleting /\ v.finalizers = {}
  BY PersistedType DEF KubeTypeOK
<1>2. Persisted(o, v).deleting /\ Persisted(o, v).finalizers = {}
  BY <1>1, PersistedType DEF KubeTypeOK
<1> QED
  BY <1>2 DEF NextStep

(* The version a busy worker holds, with other finalizers: what it sends.   *)
LEMMA CopyType ==
  ASSUME TypeOK, NEW c \in Callers, worker[c].step # "idle",
         NEW F, F \subseteq Finalizers
  PROVE  LET o == worker[c].object
             v == [worker[c].copy EXCEPT !.finalizers = F]
         IN  /\ o \in Objects /\ ServedBy(o) = c /\ Busy(o)
             /\ v \in Version /\ Valid(o, v) /\ v.exists
             /\ v.body = worker[c].copy.body /\ v.body \in Bodies
             /\ v.rv = worker[c].copy.rv /\ v.deleting = worker[c].copy.deleting
             /\ v.finalizers = F
<1> DEFINE o == worker[c].object
           u == worker[c].copy
           v == [u EXCEPT !.finalizers = F]
<1>1. o \in Objects /\ ServedBy(o) = c /\ u.exists
  BY DEF TypeOK, Assigned
<1>2. u \in Version
  BY DEF TypeOK, WorkerTypeOK
<1>3. Busy(o) /\ u \in Seen(o)
  BY <1>1 DEF Busy, Seen, Copy
<1>4. u.body \in Bodies /\ Admitted(o, u.body.spec)
  BY <1>1, <1>3 DEF TypeOK, Validated, Valid
<1>5. /\ v \in Version /\ v.body = u.body /\ v.rv = u.rv
      /\ v.deleting = u.deleting /\ v.finalizers = F /\ v.exists = u.exists
  BY <1>2 DEF Version
<1> HIDE DEF v, u, o
<1>6. Valid(o, v)
  BY <1>4, <1>5 DEF Valid
<1> QED
  BY <1>1, <1>3, <1>4, <1>5, <1>6 DEF v, u, o

---------------------------------------------------------------------------
(* Types: the steps.                                                        *)

\* What is stored after a write is valid when what was sent is.
LEMMA WriteValid ==
  ASSUME KubeTypeOK, Validated, NEW o \in Objects, NEW v \in Version, Valid(o, v),
         v.exists, Write(o, v), UNCHANGED cache,
         \A p \in Objects : Busy(p)' =>
           \/ Busy(p) /\ Copy(p)' = Copy(p)
           \/ p = o /\ Copy(p)' = Persisted(o, v)
  PROVE  Validated'
<1>1. Valid(o, Persisted(o, v))
  <2>1. ~(v.deleting /\ v.finalizers = {}) => v.body \in Bodies /\ Admitted(o, v.body.spec)
    BY DEF Valid
  <2> QED
    BY <2>1, PersistedType DEF KubeTypeOK, Valid
<1>2. ASSUME NEW p \in Objects, NEW w \in Seen(p)'
      PROVE  w \in Seen(p) \/ (p = o /\ w = Persisted(o, v))
  BY <1>2 DEF KubeTypeOK, Write, Seen
<1>3. ASSUME NEW p \in Objects, NEW w \in Seen(p)'
      PROVE  Valid(p, w)
  BY <1>1, <1>2, <1>3 DEF Validated
<1>4. \A p \in Objects : \A w \in Seen(p)' : Valid(p, w)'
  BY <1>3 DEF Valid
<1> QED
  BY <1>4 DEF Validated

\* What an update does, whatever becomes of it.
LEMMA UpdateCases ==
  ASSUME NEW c \in Callers, NEW F, Update(c, F)
  PROVE  LET o == worker[c].object
             v == [worker[c].copy EXCEPT !.finalizers = F]
         IN  /\ UNCHANGED <<cache, service>>
             /\ UNCHANGED environment \/ \E kind : Fault(kind)
             /\ \/ /\ Current(o, v) /\ Write(o, v) /\ UNCHANGED queue
                   /\ Continue(c, o, Persisted(o, v))
                \/ Current(o, v) /\ Write(o, v) /\ Requeue(c)
                \/ Requeue(c) /\ UNCHANGED <<api, watch>>
  BY DEF Update

\* Whether or not something failed, the surroundings keep their types.
LEMMA EnvironmentType ==
  ASSUME ServiceTypeOK, UNCHANGED service,
         UNCHANGED environment \/ \E kind : Fault(kind)
  PROVE  ServiceTypeOK'
  BY FaultType DEF ServiceTypeOK, EnvironmentTypeOK, AlertmanagerTypeOK, CallTypeOK,
                   environment, service

\* A worker that gives up puts a known object back.
LEMMA RequeueType ==
  ASSUME TypeOK, NEW c \in Callers, worker[c].step # "idle", Requeue(c)
  PROVE  /\ WorkerTypeOK' /\ Assigned' /\ queue' \subseteq Objects
         /\ \A p \in Objects : Busy(p)' => Busy(p) /\ Copy(p)' = Copy(p)
<1>1. Finish(c) /\ queue' = queue \cup {worker[c].object}
  BY DEF Requeue
<1>2. worker[c].object \in Objects
  BY DEF TypeOK, Assigned
<1>3. queue' \subseteq Objects
  BY <1>1, <1>2 DEF TypeOK, KubeTypeOK
<1>4. \A p \in Objects : Busy(p)' => Busy(p) /\ Copy(p)' = Copy(p)
  BY <1>1, FinishBusy DEF TypeOK, Copy
<1> QED
  BY <1>1, <1>3, <1>4, FinishType, FinishAssigned DEF TypeOK

\* Seeing no new version keeps every version valid.
LEMMA SeenValid ==
  ASSUME Validated, \A p \in Objects : Seen(p)' \subseteq Seen(p)
  PROVE  Validated'
  BY DEF Validated, Valid

\* An update keeps the types.
LEMMA UpdateType ==
  ASSUME TypeOK, NEW c \in Callers, worker[c].step # "idle",
         NEW F, F \subseteq Finalizers, Update(c, F)
  PROVE  TypeOK'
<1> DEFINE o == worker[c].object
           v == [worker[c].copy EXCEPT !.finalizers = F]
<1>1. /\ o \in Objects /\ ServedBy(o) = c
      /\ v \in Version /\ Valid(o, v) /\ v.exists
  BY CopyType
<1>2. /\ UNCHANGED <<cache, service>>
      /\ UNCHANGED environment \/ \E kind : Fault(kind)
      /\ \/ /\ Current(o, v) /\ Write(o, v) /\ UNCHANGED queue
            /\ Continue(c, o, Persisted(o, v))
         \/ Current(o, v) /\ Write(o, v) /\ Requeue(c)
         \/ Requeue(c) /\ UNCHANGED <<api, watch>>
  BY UpdateCases
<1> HIDE DEF o, v
<1>3. ServiceTypeOK'
  BY <1>2, EnvironmentType DEF TypeOK
<1>4. Persisted(o, v) \in Version
  BY <1>1, PersistedType DEF TypeOK, KubeTypeOK
<1>5. CASE Write(o, v) /\ UNCHANGED queue /\ Continue(c, o, Persisted(o, v))
  <2>1. WorkerTypeOK'
    BY <1>1, <1>4, <1>5, ContinueType DEF TypeOK
  <2>2. Assigned'
    BY <1>1, <1>5, ContinueAssigned, GoneIsIdle DEF TypeOK
  <2>3. \A p \in Objects : Busy(p)' =>
          \/ Busy(p) /\ Copy(p)' = Copy(p)
          \/ p = o /\ Copy(p)' = Persisted(o, v)
    <3> TAKE p \in Objects
    <3> HAVE Busy(p)'
    <3>1. Continue(ServedBy(o), o, Persisted(o, v))
      BY <1>1, <1>5
    <3>2. \/ /\ p = o
             /\ worker'[ServedBy(p)] = [step |-> NextStep(o, Persisted(o, v)),
                                       object |-> o, copy |-> Persisted(o, v)]
          \/ Busy(p) /\ worker'[ServedBy(p)] = worker[ServedBy(p)]
      BY <1>1, <3>1, ContinueBusy DEF TypeOK
    <3> QED
      BY <3>2 DEF Copy
  <2>4. Validated'
    BY <1>1, <1>2, <1>5, <2>3, WriteValid DEF TypeOK
  <2>5. KubeTypeOK'
    BY <1>1, <1>2, <1>5, WriteType DEF TypeOK, KubeTypeOK
  <2> QED
    BY <1>3, <2>1, <2>2, <2>4, <2>5 DEF TypeOK
<1>6. CASE Write(o, v) /\ Requeue(c)
  <2>1. Validated'
    BY <1>1, <1>2, <1>6, RequeueType, WriteValid DEF TypeOK
  <2>2. KubeTypeOK'
    BY <1>1, <1>2, <1>6, WriteType, RequeueType DEF TypeOK, KubeTypeOK
  <2> QED
    BY <1>3, <1>6, <2>1, <2>2, RequeueType DEF TypeOK
<1>7. CASE Requeue(c) /\ UNCHANGED <<api, watch>>
  <2>1. \A p \in Objects : Seen(p)' \subseteq Seen(p)
    BY <1>2, <1>7, RequeueType DEF Seen
  <2>2. KubeTypeOK'
    BY <1>2, <1>7, RequeueType DEF TypeOK, KubeTypeOK
  <2> QED
    BY <1>3, <1>7, <2>1, <2>2, SeenValid, RequeueType DEF TypeOK
<1> QED
  BY <1>2, <1>5, <1>6, <1>7

\* What touches neither Kubernetes nor the workers keeps their types.
LEMMA KubeStutter ==
  ASSUME KubeTypeOK, WorkerTypeOK, Validated, Assigned, UNCHANGED <<kube, worker>>
  PROVE  KubeTypeOK' /\ WorkerTypeOK' /\ Validated' /\ Assigned'
<1>1. KubeTypeOK' /\ WorkerTypeOK' /\ Assigned'
  BY DEF kube, KubeTypeOK, WorkerTypeOK, Assigned
<1>2. \A p \in Objects : Seen(p)' \subseteq Seen(p)
  BY DEF kube, Seen, Busy, Copy
<1> QED
  BY <1>1, <1>2, SeenValid

\* The start of a reconcile keeps the types.
LEMMA ReconcileType ==
  ASSUME TypeOK, NEW o \in Objects, Reconcile(o)
  PROVE  TypeOK'
<1>1. ServiceTypeOK'
  BY ServiceStutter DEF Reconcile, TypeOK
<1>2. KubeTypeOK'
  BY DEF Reconcile, TypeOK, KubeTypeOK
<1>3. CASE cache[o].exists /\ Continue(ServedBy(o), o, cache[o])
  <2>1. WorkerTypeOK' /\ Assigned'
    BY <1>3, ServedByType, ContinueType, ContinueAssigned DEF TypeOK, KubeTypeOK
  <2>2. \A p \in Objects : Seen(p)' \subseteq Seen(p)
    <3> TAKE p \in Objects
    <3>1. Busy(p)' => \/ p = o /\ Copy(p)' = cache[p]
                      \/ Busy(p) /\ Copy(p)' = Copy(p)
      <4> HAVE Busy(p)'
      <4>1. \/ /\ p = o
               /\ worker'[ServedBy(p)] = [step |-> NextStep(o, cache[o]),
                                         object |-> o, copy |-> cache[o]]
            \/ Busy(p) /\ worker'[ServedBy(p)] = worker[ServedBy(p)]
        BY <1>3, ContinueBusy DEF TypeOK
      <4>2. worker'[ServedBy(p)] = [step |-> NextStep(o, cache[o]),
                                    object |-> o, copy |-> cache[o]]
              => worker'[ServedBy(p)].copy = cache[o]
        OBVIOUS
      <4> QED
        BY <4>1, <4>2 DEF Copy
    <3> QED
      BY <3>1 DEF Seen, Reconcile
  <2> QED
    BY <1>1, <1>2, <2>1, <2>2, SeenValid DEF TypeOK
<1>4. CASE UNCHANGED worker
  <2>1. \A p \in Objects : Seen(p)' \subseteq Seen(p)
    BY <1>4 DEF Seen, Busy, Copy, Reconcile
  <2>2. WorkerTypeOK' /\ Assigned'
    BY <1>4 DEF TypeOK, WorkerTypeOK, Assigned
  <2> QED
    BY <1>1, <1>2, <2>1, <2>2, SeenValid DEF TypeOK
<1> QED
  BY <1>3, <1>4 DEF Reconcile

\* The start of a deletion keeps the types.
LEMMA ReconcileDeleteType ==
  ASSUME TypeOK, NEW c \in Callers, ReconcileDelete(c)
  PROVE  TypeOK'
<1> DEFINE o == worker[c].object
           v == worker[c].copy
<1>1. o \in Objects /\ v.body \in Bodies
  <2>1. worker[c].step # "idle"
    BY DEF ReconcileDelete
  <2>2. Busy(o) /\ o \in Objects /\ v.exists /\ v \in Seen(o)
    BY <2>1 DEF TypeOK, Assigned, Busy, Seen, Copy
  <2> QED
    BY <2>2 DEF TypeOK, Validated, Valid
<1>2. ServiceTypeOK'
  BY <1>1, KubeAssumption, CommentType, TenantType, DeleteSilenceType
     DEF ReconcileDelete, TypeOK
<1> QED
  BY <1>2, KubeStutter DEF ReconcileDelete, TypeOK

\* The conversion of an object and the start of a sync keep the types.
LEMMA ReconcileCreateType ==
  ASSUME TypeOK, NEW c \in Callers, ReconcileCreate(c)
  PROVE  TypeOK'
<1> DEFINE o == worker[c].object
           v == worker[c].copy
           s == getSilenceFromCR(o, v.created, v.body.spec)
<1>1. worker[c].step # "idle"
  BY DEF ReconcileCreate
<1>2. o \in Objects /\ v.body \in Bodies /\ Admitted(o, v.body.spec) /\ v.created \in Nat
  <2>1. Busy(o) /\ o \in Objects /\ v.exists /\ v \in Seen(o)
    BY <1>1 DEF TypeOK, Assigned, Busy, Seen, Copy
  <2>2. v \in Version
    BY DEF TypeOK, WorkerTypeOK
  <2> QED
    BY <2>1, <2>2, VersionFields DEF TypeOK, Validated, Valid
<1>3. CASE Requeue(c) /\ UNCHANGED <<api, watch, cache, environment, service>>
  <2>1. \A p \in Objects : Seen(p)' \subseteq Seen(p)
    BY <1>1, <1>3, RequeueType DEF Seen
  <2>2. KubeTypeOK'
    BY <1>1, <1>3, RequeueType DEF TypeOK, KubeTypeOK
  <2> QED
    BY <1>1, <1>3, <2>1, <2>2, SeenValid, RequeueType, ServiceStutter DEF TypeOK
<1>4. CASE /\ ~ConversionFails(o, v.created, v.body.spec)
           /\ SyncSilence(c, s, Tenant(v)) /\ UNCHANGED <<kube, worker>>
  <2>1. s \in Silence /\ Tenant(v) \in Text
    BY <1>2, <1>4, KubeAssumption, ConversionType, TenantType
  <2> HIDE DEF s, v
  <2>2. ServiceTypeOK'
    BY <1>4, <2>1, SyncSilenceType DEF TypeOK
  <2> QED
    BY <1>4, <2>2, KubeStutter DEF TypeOK
<1> QED
  BY <1>3, <1>4 DEF ReconcileCreate

\* Taking the result of a call.
LEMMA CollectServiceType ==
  ASSUME ServiceTypeOK, NEW c \in Callers, Collect(c), UNCHANGED <<environment, silences>>
  PROVE  ServiceTypeOK'
  BY CollectType DEF ServiceTypeOK, environment, EnvironmentTypeOK, AlertmanagerTypeOK

\* The end of a call keeps the types.
LEMMA ReturnedType ==
  ASSUME TypeOK, NEW c \in Callers, DeleteReturned(c) \/ SyncReturned(c)
  PROVE  TypeOK'
<1>1. ServiceTypeOK'
  BY CollectServiceType DEF DeleteReturned, SyncReturned, TypeOK
<1>2. worker[c].step # "idle"
  BY DEF DeleteReturned, SyncReturned
<1>3. CASE Requeue(c) /\ UNCHANGED <<api, watch, cache>>
  <2>1. \A p \in Objects : Seen(p)' \subseteq Seen(p)
    BY <1>2, <1>3, RequeueType DEF Seen
  <2>2. KubeTypeOK'
    BY <1>2, <1>3, RequeueType DEF TypeOK, KubeTypeOK
  <2> QED
    BY <1>1, <1>2, <1>3, <2>1, <2>2, SeenValid, RequeueType DEF TypeOK
<1>4. CASE Finish(c) /\ UNCHANGED kube
  <2>1. \A p \in Objects : Busy(p)' => Busy(p) /\ Copy(p)' = Copy(p)
    BY <1>4, FinishBusy DEF TypeOK, Copy
  <2>2. \A p \in Objects : Seen(p)' \subseteq Seen(p)
    BY <1>4, <2>1 DEF Seen, kube
  <2>3. KubeTypeOK'
    BY <1>4 DEF TypeOK, KubeTypeOK, kube
  <2> QED
    BY <1>1, <1>4, <2>2, <2>3, SeenValid, FinishType, FinishAssigned DEF TypeOK
<1>5. CASE worker' = [worker EXCEPT ![c].step = "removeFinalizer"] /\ UNCHANGED kube
  <2>1. WorkerTypeOK' /\ Assigned'
    BY <1>2, <1>5 DEF TypeOK, WorkerTypeOK, Assigned, WorkerSteps
  <2>2. \A p \in Objects : Busy(p)' => Busy(p) /\ Copy(p)' = Copy(p)
    BY <1>2, <1>5, ServedByType DEF TypeOK, WorkerTypeOK, Busy, Copy
  <2>3. \A p \in Objects : Seen(p)' \subseteq Seen(p)
    BY <1>5, <2>2 DEF Seen, kube
  <2>4. KubeTypeOK'
    BY <1>5 DEF TypeOK, KubeTypeOK, kube
  <2> QED
    BY <1>1, <2>1, <2>3, <2>4, SeenValid DEF TypeOK
<1> QED
  BY <1>3, <1>4, <1>5 DEF DeleteReturned, SyncReturned

\* A user writes a version that passed the validation.
LEMMA UserWriteCases ==
  ASSUME TypeOK, UserWrites
  PROVE  \E o \in Objects, v \in Version :
           /\ Valid(o, v) /\ v.exists /\ Write(o, v)
           /\ UNCHANGED <<cache, queue>> /\ \E kind : UserActs(kind)
           /\ \/ ~api[o].exists /\ v.finalizers = {}
              \/ /\ api[o].exists /\ v.finalizers = api[o].finalizers
                 /\ api[o].deleting => v.deleting
                 /\ "relabel" \notin UserKinds => Tenant(v) = Tenant(api[o])
<1>1. PICK o \in Objects : CreateObject(o) \/ EditObject(o) \/ DeleteObject(o)
  BY DEF UserWrites
<1>2. UNCHANGED <<cache, queue>>
  BY DEF UserWrites
<1>3. api[o] \in Version /\ api[o] \in Seen(o) /\ now \in Nat
  BY DEF TypeOK, KubeTypeOK, Seen, ServiceTypeOK, EnvironmentTypeOK
<1>4. Valid(o, api[o])
  BY <1>3 DEF TypeOK, Validated
<1>5. CASE CreateObject(o)
  <2>1. PICK b \in Bodies : Admitted(o, b.spec) /\
          Write(o, [Absent EXCEPT !.exists = TRUE, !.created = now, !.body = b])
    BY <1>5 DEF CreateObject
  <2> DEFINE v == [Absent EXCEPT !.exists = TRUE, !.created = now, !.body = b]
  <2>2. v \in Version /\ v.exists /\ v.body = b /\ v.finalizers = {}
    BY <1>3 DEF Absent, Version
  <2> HIDE DEF v
  <2>3. Valid(o, v)
    BY <2>1, <2>2 DEF Valid
  <2>4. Write(o, v)
    BY <2>1 DEF v
  <2>5. ~api[o].exists /\ \E kind : UserActs(kind)
    BY <1>5 DEF CreateObject
  <2> QED
    BY <1>2, <2>2, <2>3, <2>4, <2>5
<1>6. CASE EditObject(o)
  <2>1. PICK b \in Bodies : /\ Admitted(o, b.spec)
                           /\ UserActs(IF Tenant([api[o] EXCEPT !.body = b]) = Tenant(api[o])
                                       THEN "edit" ELSE "relabel")
                           /\ Write(o, [api[o] EXCEPT !.body = b])
    BY <1>6 DEF EditObject
  <2> DEFINE v == [api[o] EXCEPT !.body = b]
  <2>2. /\ v \in Version /\ v.exists = api[o].exists /\ v.body = b
        /\ v.finalizers = api[o].finalizers /\ v.deleting = api[o].deleting
    BY <1>3 DEF Version
  <2> HIDE DEF v
  <2>3. Valid(o, v)
    BY <2>1, <2>2 DEF Valid
  <2>4. Write(o, v)
    BY <2>1 DEF v
  <2>5. "relabel" \notin UserKinds => Tenant(v) = Tenant(api[o])
    BY <2>1 DEF UserActs, v
  <2>6. api[o].exists
    BY <1>6 DEF EditObject
  <2> QED
    BY <1>2, <2>1, <2>2, <2>3, <2>4, <2>5, <2>6
<1>7. CASE DeleteObject(o)
  <2> DEFINE v == [api[o] EXCEPT !.deleting = TRUE]
  <2>1. /\ v \in Version /\ v.exists = api[o].exists /\ v.body = api[o].body
        /\ v.finalizers = api[o].finalizers /\ v.deleting
    BY <1>3 DEF Version
  <2>2. Write(o, v) /\ api[o].exists /\ \E kind : UserActs(kind)
    BY <1>7 DEF DeleteObject
  <2> HIDE DEF v
  <2>3. Valid(o, v) /\ Tenant(v) = Tenant(api[o])
    BY <1>4, <2>1 DEF Valid, Tenant
  <2> QED
    BY <1>2, <2>1, <2>2, <2>3
<1> QED
  BY <1>1, <1>5, <1>6, <1>7

\* Users, the watch and the resync keep the types.
LEMMA KubeStepsType ==
  ASSUME TypeOK, KubeSteps
  PROVE  TypeOK'
<1>1. UNCHANGED <<service, worker>>
  BY DEF KubeSteps
<1>2. WorkerTypeOK' /\ Assigned'
  BY <1>1 DEF TypeOK, WorkerTypeOK, Assigned
<1>3. \A p \in Objects : /\ Busy(p)' <=> Busy(p)
                         /\ Copy(p)' = Copy(p)
  BY <1>1 DEF Busy, Copy
<1>4. CASE UserWrites
  <2>1. PICK o \in Objects, v \in Version :
          /\ Valid(o, v) /\ v.exists /\ Write(o, v)
          /\ UNCHANGED <<cache, queue>> /\ \E kind : UserActs(kind)
    BY <1>4, UserWriteCases
  <2>2. ServiceTypeOK'
    BY <1>1, <2>1, UserActsType
       DEF TypeOK, ServiceTypeOK, service, AlertmanagerTypeOK, CallTypeOK
  <2>3. Validated'
    BY <1>3, <2>1, WriteValid DEF TypeOK
  <2>4. KubeTypeOK'
    BY <2>1, WriteType DEF TypeOK, KubeTypeOK
  <2> QED
    BY <1>2, <2>2, <2>3, <2>4 DEF TypeOK
<1>5. CASE \E o \in Objects : Deliver(o) \/ Resync(o)
  <2>1. PICK o \in Objects : Deliver(o) \/ Resync(o)
    BY <1>5
  <2>2. UNCHANGED <<api, environment>>
    BY <2>1 DEF Deliver, Resync
  <2>3. KubeTypeOK'
    BY <2>1 DEF Deliver, Resync, TypeOK, KubeTypeOK
  <2>4. \A p \in Objects : Seen(p)' \subseteq Seen(p)
    BY <1>3, <2>1, <2>2 DEF Deliver, Resync, Seen, TypeOK, KubeTypeOK
  <2>5. ServiceTypeOK'
    BY <1>1, <2>2, ServiceStutter DEF TypeOK
  <2> QED
    BY <1>2, <2>3, <2>4, <2>5, SeenValid DEF TypeOK
<1>6. CASE \E n \in Namespaces : NamespaceChanges(n) /\ UNCHANGED kube
  <2>1. UNCHANGED kube /\ EnvironmentTypeOK'
    BY <1>6 DEF NamespaceChanges, EnvironmentTypeOK, TypeOK, ServiceTypeOK
  <2>2. ServiceTypeOK'
    BY <1>1, <2>1 DEF TypeOK, ServiceTypeOK, service, AlertmanagerTypeOK, CallTypeOK
  <2>3. KubeTypeOK' /\ \A p \in Objects : Seen(p)' \subseteq Seen(p)
    BY <1>3, <2>1 DEF kube, Seen, TypeOK, KubeTypeOK
  <2> QED
    BY <1>2, <2>2, <2>3, SeenValid DEF TypeOK
<1> QED
  BY <1>4, <1>5, <1>6 DEF KubeSteps

\* A new process starts with the types in place.
LEMMA RestartType ==
  ASSUME TypeOK, Restart
  PROVE  TypeOK'
<1>1. ServiceTypeOK'
  <2>1. CallTypeOK'
    BY NoCallType DEF Restart, CallTypeOK
  <2> QED
    BY <2>1, FaultType DEF Restart, TypeOK, ServiceTypeOK, AlertmanagerTypeOK
<1>2. KubeTypeOK'
  BY DEF Restart, Relist, TypeOK, KubeTypeOK
<1>3. \A c \in Callers : worker'[c] = Idle
  BY DEF Restart
<1>4. Idle \in [step : WorkerSteps, object : Objects \cup {NoObject}, copy : Version]
  BY AbsentType DEF Idle, WorkerSteps
<1>5. WorkerTypeOK'
  BY <1>4 DEF Restart, WorkerTypeOK
<1>6. Assigned' /\ \A p \in Objects : ~Busy(p)'
  BY <1>3, ServedByType DEF Assigned, Busy, Idle
<1>7. \A p \in Objects : Seen(p)' \subseteq Seen(p)
  BY <1>6 DEF Restart, Relist, Seen
<1> QED
  BY <1>1, <1>2, <1>5, <1>6, <1>7, SeenValid DEF TypeOK

\* The types hold in the beginning.
LEMMA InitType == Init => TypeOK
<1> SUFFICES ASSUME Init PROVE TypeOK
  OBVIOUS
<1>1. PICK body \in [LegacyObjects -> Bodies], id \in [LegacyObjects -> SilenceIds] :
        /\ \A o \in LegacyObjects : /\ Admitted(o, body[o].spec)
                                     /\ ~ConversionFails(o, 0, body[o].spec)
        /\ api = [o \in Objects |-> IF o \in LegacyObjects THEN Left(o, body[o])
                                                           ELSE Absent]
        /\ silences = [i \in SilenceIds |->
                         IF \E o \in LegacyObjects : id[o] = i
                         THEN LET o == CHOOSE o \in LegacyObjects : id[o] = i
                              IN  LeftSilence(o, body[o])
                         ELSE NoSilence]
  BY DEF Init
<1>2. ASSUME NEW o \in LegacyObjects
      PROVE  /\ o \in Objects /\ body[o] \in Bodies /\ Admitted(o, body[o].spec)
             /\ LeftSilence(o, body[o]) \in Silence
  <2>1. o \in Objects /\ body[o] \in Bodies /\ Admitted(o, body[o].spec)
    BY <1>1, ControllerAssumption
  <2>2. getSilenceFromCR(o, 0, body[o].spec) \in Silence
    BY <1>1, <2>1, KubeAssumption, ConversionType
  <2>3. ExtractTenant(body[o].labels) \in Text
    BY <2>1, KubeAssumption, TenancyAssumption, LiteralAssumption DEF ExtractTenant
  <2> QED
    BY <2>1, <2>2, <2>3, StoredType DEF LeftSilence, Silence
<1>3. AlertmanagerTypeOK
  BY <1>1, <1>2, NoSilenceType DEF AlertmanagerTypeOK
<1>4. ServiceTypeOK
  BY <1>3, NoCallType
     DEF Init, ServiceTypeOK, CallTypeOK, EnvironmentInit, EnvironmentTypeOK
<1>5. \A o \in Objects : api[o] \in Version /\ Valid(o, api[o])
  <2> TAKE o \in Objects
  <2>1. CASE o \notin LegacyObjects
    BY <1>1, <2>1, AbsentType DEF Valid, Absent
  <2>2. CASE o \in LegacyObjects
    <3>1. api[o] = Left(o, body[o])
      BY <1>1, <2>2
    <3>2. Left(o, body[o]) \in Version /\ Left(o, body[o]).body = body[o]
      BY <1>2, <2>2 DEF Left, Absent, Version, Finalizers
    <3> QED
      BY <1>2, <2>2, <3>1, <3>2 DEF Valid
  <2> QED
    BY <2>1, <2>2
<1>6. DOMAIN api = Objects /\ api = [o \in Objects |-> api[o]]
  BY <1>1
<1>7. KubeTypeOK
  BY <1>5, <1>6 DEF Init, KubeTypeOK
<1>8. WorkerTypeOK /\ Assigned
  BY AbsentType DEF Init, WorkerTypeOK, Assigned, Idle, WorkerSteps
<1>9. \A o \in Objects : Seen(o) = {api[o]}
  BY ServedByType DEF Init, Seen, Busy, Idle
<1> QED
  BY <1>4, <1>5, <1>7, <1>8, <1>9 DEF TypeOK, Validated

\* Every step of the operator and its surroundings keeps the types.
LEMMA NextType == TypeOK /\ [Next]_vars => TypeOK'
<1> SUFFICES ASSUME TypeOK, [Next]_vars PROVE TypeOK'
  OBVIOUS
<1>1. ASSUME NEW o \in Objects, Reconcile(o) PROVE TypeOK'
  BY <1>1, ReconcileType
<1>2. ASSUME NEW c \in Callers, Work(c) PROVE TypeOK'
  <2>1. ASSUME AddFinalizer(c) \/ RemoveFinalizer(c) \/ CleanUpLegacyFinalizer(c)
        PROVE  TypeOK'
    <3>1. worker[c].copy.finalizers \subseteq Finalizers
      BY DEF TypeOK, WorkerTypeOK, Version
    <3> QED
      BY <2>1, <3>1, UpdateType
         DEF AddFinalizer, RemoveFinalizer, CleanUpLegacyFinalizer, Finalizers
  <2>2. ASSUME Request(c), UNCHANGED <<kube, worker>>
        PROVE  TypeOK'
    BY <2>2, RequestType, KubeStutter DEF TypeOK
  <2> QED
    BY <1>2, <2>1, <2>2, ReconcileDeleteType, ReconcileCreateType, ReturnedType DEF Work
<1>3. CASE Restart
  BY <1>3, RestartType
<1>4. CASE KubeSteps
  BY <1>4, KubeStepsType
<1>5. CASE AlertmanagerSteps
  BY <1>5, OthersType, KubeStutter DEF AlertmanagerSteps, TypeOK
<1>6. CASE UNCHANGED vars
  BY <1>6, ServiceStutter, KubeStutter DEF vars, TypeOK
<1> QED
  BY <1>1, <1>2, <1>3, <1>4, <1>5, <1>6 DEF Next

(* TypeOK: every variable keeps its type, every version anybody reads       *)
(* passed the validation of its definition, and a worker only ever has      *)
(* existing objects of its own controller.                                  *)
THEOREM TypeCorrect == Spec => []TypeOK
<1>1. Init => TypeOK
  BY InitType
<1>2. TypeOK /\ [Next]_vars => TypeOK'
  BY NextType
<1> QED
  BY <1>1, <1>2, PTL DEF Spec
=============================================================================
