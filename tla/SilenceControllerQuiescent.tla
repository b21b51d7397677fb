--------------------- MODULE SilenceControllerQuiescent ---------------------
(* When the operator has nothing left to do, it has left nothing undone:    *)
(* no event is dropped, no failure forgotten, and no worker ends a reconcile*)
(* of a version that is not the stored one without another one to come.     *)
EXTENDS SilenceControllerSafety

(* What this takes beyond Undisturbed: no object of an older release, and   *)
(* nobody who ends silences of the operator or changes what the namespace   *)
(* selector sees, which no event of an object tells of.                     *)
Unattended ==
  /\ LegacyObjects = {}
  /\ "namespace" \notin UserKinds
  /\ "expire" \notin UserKinds

---------------------------------------------------------------------------
(* The invariant, on top of IInv.                                           *)

\* The finalizer of the operator is the only one, and it holds what is deleted.
Handled(v) ==
  /\ LegacyFinalizer \notin v.finalizers
  /\ v.exists /\ v.deleting => SilenceFinalizer \in v.finalizers

\* A sync asks for what the version in the hands of its worker says.
Asked(c) ==
  call[c].step # "none" /\ call[c].op = "sync" =>
    call[c].silence = getSilenceFromCR(worker[c].object, worker[c].copy.created,
                                       worker[c].copy.body.spec)

\* Nobody is owed anything: the worker has the stored version, or is done with it.
Attended(o) ==
  IF Busy(o) THEN Copy(o) = api[o] ELSE ~api[o].deleting /\ Mirrored(o)

\* The stored version will be told of, is queued, or is attended to.
Pending(o) ==
  Served(o) => api[o] \in watch[o] \/ o \in queue \/ Attended(o)

\* A sync of the stored version that succeeded is the truth until it returns.
SyncedInv(o) ==
  /\ Busy(o)
  /\ worker[ServedBy(o)].step = "reconcileCreate"
  /\ call[ServedBy(o)].step = "ok"
  /\ Copy(o) = api[o]
  /\ ~ConversionFails(o, api[o].created, api[o].body.spec)
  => Mirrored(o)

HandledInv == \A o \in Objects : Handled(api[o])

AskedInv == \A c \in Callers : Formed(c) /\ Named(c) /\ Asked(c)

PendingInv == \A o \in Objects : Pending(o) /\ SyncedInv(o)

QInv == HandledInv /\ AskedInv /\ PendingInv

---------------------------------------------------------------------------
(* What is mirrored stays mirrored.                                         *)

\* No silence of the object is touched, and none is added.
Foreign(o) ==
  \A i \in SilenceIds :
    silences'[i] = silences[i] \/ (i \notin OwnOf(o) /\ i \notin OwnOf(o)')

\* The silence a stored object asks for has an end.
LEMMA AskedEnds ==
  ASSUME TypeOK, NEW o \in Objects, api[o].exists,
         ~ConversionFails(o, api[o].created, api[o].body.spec)
  PROVE  getSilenceFromCR(o, api[o].created, api[o].body.spec).endsAt \in Nat
<1>1. api[o] \in Version /\ api[o] \in Seen(o) /\ o \in Object
  BY KubeAssumption DEF TypeOK, KubeTypeOK, Seen
<1>2. Admitted(o, api[o].body.spec) /\ api[o].created \in Nat
  BY <1>1 DEF TypeOK, Validated, Valid, Version
<1>3. getSilenceFromCR(o, api[o].created, api[o].body.spec) \in Silence
  BY <1>1, <1>2, ConversionType
<1> QED
  BY <1>3 DEF Silence

\* The clock ends a silence when its object says so.
LEMMA MirroredKept ==
  ASSUME TypeOK, NEW o \in Objects, api[o].exists, api'[o] = api[o], Foreign(o),
         now' \in Nat, now <= now', Mirrored(o),
         ~ConversionFails(o, api[o].created, api[o].body.spec)
  PROVE  Mirrored(o)'
<1>1. PICK s : s = getSilenceFromCR(o, api[o].created, api[o].body.spec)
  OBVIOUS
<1>2. s.endsAt \in Nat /\ now \in Nat
  BY <1>1, AskedEnds DEF TypeOK, ServiceTypeOK, EnvironmentTypeOK
<1>3. PICK own : own = OwnOf(o)
  OBVIOUS
<1>4. own \subseteq SilenceIds /\ \A i \in own : silences'[i] = silences[i]
  BY <1>3 DEF Foreign, OwnOf
<1>5. \A i \in SilenceIds : silences[i].endsAt \in Nat
  BY DEF TypeOK, ServiceTypeOK, AlertmanagerTypeOK, Silence
<1>6. OwnOf(o)' = {i \in own : now' < silences[i].endsAt}
  BY <1>2, <1>3, <1>4, <1>5 DEF Foreign, OwnOf, Unexpired
<1>7. PICK tenant : tenant = TenantOf(o) /\ tenant = TenantOf(o)'
  BY DEF TenantOf, Tenant
<1>8. IF s.endsAt > now
      THEN /\ own # {}
           /\ \A i \in own : /\ silences[i].matchers = s.matchers
                             /\ silences[i].endsAt = s.endsAt
                             /\ silences[i].tenant = tenant
      ELSE own = {}
  BY <1>1, <1>3, <1>7 DEF Mirrored
<1>9. IF s.endsAt > now'
      THEN /\ OwnOf(o)' # {}
           /\ \A i \in OwnOf(o)' : /\ silences'[i].matchers = s.matchers
                                   /\ silences'[i].endsAt = s.endsAt
                                   /\ silences'[i].tenant = tenant
      ELSE OwnOf(o)' = {}
  BY <1>2, <1>4, <1>5, <1>6, <1>8
<1> QED
  BY <1>1, <1>7, <1>9 DEF Mirrored

\* The worker of the object, if it is busy with it, does what it did.
Undistracted(o) ==
  /\ Busy(o)' <=> Busy(o)
  /\ Busy(o) => /\ worker'[ServedBy(o)] = worker[ServedBy(o)]
                /\ call'[ServedBy(o)] = call[ServedBy(o)]

\* What is seen of an object that nobody touched.
LEMMA ServedKept ==
  ASSUME NEW o \in Objects, api'[o] = api[o], UNCHANGED namespaces
  PROVE  Served(o)' <=> Served(o)
  BY DEF Served, Selected

\* A step that does not concern the object.
LEMMA NotConcerned ==
  ASSUME TypeOK, NEW o \in Objects, Pending(o), SyncedInv(o),
         api'[o] = api[o], UNCHANGED namespaces, Foreign(o), now' \in Nat, now <= now',
         Undistracted(o),
         api[o] \in watch[o] /\ Served(o) => api[o] \in watch'[o] \/ o \in queue',
         o \in queue => o \in queue'
  PROVE  Pending(o)' /\ SyncedInv(o)'
<1>1. Served(o)' <=> Served(o)
  BY ServedKept
<1>2. ASSUME Mirrored(o), api[o].exists,
             ~ConversionFails(o, api[o].created, api[o].body.spec)
      PROVE  Mirrored(o)'
  BY <1>2, MirroredKept
<1>3. Served(o) => api[o].exists /\ ~ConversionFails(o, api[o].created, api[o].body.spec)
  BY DEF Served
<1>4. Busy(o) => Copy(o)' = Copy(o)
  BY DEF Undistracted, Copy
<1>5. Attended(o) /\ Served(o) => Attended(o)'
  BY <1>2, <1>3, <1>4 DEF Attended, Undistracted
<1>6. Pending(o)'
  BY <1>1, <1>5 DEF Pending
<1>7. Busy(o) => Copy(o).exists
  BY ServedByType DEF TypeOK, Assigned, Busy, Copy
<1>8. SyncedInv(o)'
  BY <1>2, <1>4, <1>7 DEF SyncedInv, Undistracted
<1> QED
  BY <1>6, <1>8

---------------------------------------------------------------------------
(* The objects.                                                             *)

\* Writing without the legacy finalizer leaves objects that are handled.
LEMMA HandledWrite ==
  ASSUME TypeOK, NEW o \in Objects, NEW v \in Version, Write(o, v),
         LegacyFinalizer \notin v.finalizers, HandledInv
  PROVE  HandledInv'
<1>1. api'[o] = Persisted(o, v) /\ \A p \in Objects : p # o => api'[p] = api[p]
  BY DEF Write, TypeOK, KubeTypeOK
<1>2. /\ Persisted(o, v).finalizers = v.finalizers
      /\ Persisted(o, v).deleting = v.deleting
      /\ Persisted(o, v).exists = ~(v.deleting /\ v.finalizers = {})
  BY PersistedType DEF TypeOK, KubeTypeOK
<1>3. v.finalizers \subseteq {SilenceFinalizer, LegacyFinalizer}
  BY DEF Version, Finalizers
<1>4. Handled(api'[o])
  BY <1>1, <1>2, <1>3 DEF Handled
<1>5. \A p \in Objects : Handled(api'[p])
  BY <1>1, <1>4 DEF HandledInv
<1> QED
  BY <1>5 DEF HandledInv, Handled

\* Nobody holds the version that a write makes, and the informer is told of it.
LEMMA WriteIsNews ==
  ASSUME TypeOK, KubeInv, NEW o \in Objects, NEW v \in Version, Write(o, v)
  PROVE  /\ api'[o] \in watch'[o]
         /\ api'[o] = Persisted(o, v)
         /\ \A w \in Seen(o) : w # api'[o]
         /\ \A p \in Objects : p # o => api'[p] = api[p] /\ watch'[p] = watch[p]
<1>1. /\ api'[o] = Persisted(o, v) /\ Persisted(o, v) \in watch'[o]
      /\ \A p \in Objects : p # o => api'[p] = api[p] /\ watch'[p] = watch[p]
  BY DEF Write, TypeOK, KubeTypeOK
<1>2. api'[o].rv = api[o].rv + 1 /\ api[o].rv \in Nat
  BY <1>1, PersistedType DEF TypeOK, KubeTypeOK, Version
<1>3. ASSUME NEW w \in Seen(o) PROVE w # api'[o]
  <2>1. w \in Version
    BY SeenType DEF KubeOK, TypeOK
  <2>2. w.rv <= api[o].rv /\ w.rv \in Nat
    BY <2>1 DEF KubeInv, VersionInv, Version
  <2> QED
    BY <1>2, <2>2
<1> QED
  BY <1>1, <1>3

\* With handled objects a worker that goes on with the stored version is busy.
LEMMA NextIsBusy ==
  ASSUME NEW o, NEW v, v.exists, v.deleting \in BOOLEAN, Handled(v)
  PROVE  NextStep(o, v) # "idle"
  BY DEF Handled, NextStep

---------------------------------------------------------------------------
(* The workers.                                                             *)

\* Nothing is written to Alertmanager and no time passes.
Silent == UNCHANGED <<now, silences, namespaces>>

LEMMA SilentForeign ==
  ASSUME TypeOK, Silent
  PROVE  now' \in Nat /\ now <= now' /\ \A o \in Objects : Foreign(o)
  BY DEF Silent, Foreign, TypeOK, ServiceTypeOK, EnvironmentTypeOK

\* Mirrored says the same of the same servers.
LEMMA SilentMirrored ==
  ASSUME NEW o \in Objects, Silent, api'[o] = api[o]
  PROVE  Mirrored(o)' <=> Mirrored(o)
<1>1. OwnOf(o)' = OwnOf(o) /\ TenantOf(o)' = TenantOf(o)
  BY DEF Silent, OwnOf, Unexpired, TenantOf, Tenant
<1> QED
  BY <1>1 DEF Silent, Mirrored

\* A worker that turns to an object, or from one, does not distract the others.
LEMMA Elsewhere ==
  ASSUME NEW c \in Callers, NEW o \in Objects,
         \A d \in Callers \ {c} : worker'[d] = worker[d] /\ call'[d] = call[d],
         worker[c].step = "idle" \/ worker[c].object # o,
         worker'[c].step = "idle" \/ worker'[c].object # o
  PROVE  Undistracted(o)
<1>1. ServedBy(o) \in Callers
  BY ServedByType
<1> QED
  BY <1>1 DEF Undistracted, Busy

\* A worker that is busy with an object ends its reconcile.
LEMMA GiveUp ==
  ASSUME TypeOK, KubeInv, NEW c \in Callers, worker[c].step # "idle",
         Finish(c), Silent, \A d \in Callers \ {c} : call'[d] = call[d],
         PendingInv, queue \subseteq queue',
         NEW o \in Objects, o = worker[c].object,
         \A p \in Objects \ {o} : api'[p] = api[p] /\ watch'[p] = watch[p],
         \/ api'[o] \in watch'[o]
         \/ o \in queue'
         \/ /\ api'[o] = api[o] /\ watch'[o] = watch[o]
            /\ Served(o) /\ Copy(o) = api[o] => ~api[o].deleting /\ Mirrored(o)
  PROVE  PendingInv'
<1> SUFFICES \A p \in Objects : Pending(p)' /\ SyncedInv(p)'
  BY DEF PendingInv
<1>0. \A p \in Objects : Pending(p) /\ SyncedInv(p)
  BY DEF PendingInv
<1>1. /\ worker'[c] = Idle
      /\ \A d \in Callers \ {c} : worker'[d] = worker[d]
  BY DEF Finish, TypeOK, WorkerTypeOK
<1>2. worker'[c].step = "idle" /\ c = ServedBy(o) /\ Busy(o)
  BY <1>1 DEF Idle, TypeOK, Assigned, Busy
<1>3. ASSUME NEW p \in Objects \ {o} PROVE Pending(p)' /\ SyncedInv(p)'
  <2>1. Undistracted(p)
    BY <1>1, <1>2, Elsewhere
  <2>2. UNCHANGED namespaces
    BY DEF Silent
  <2>3. now' \in Nat /\ now <= now' /\ Foreign(p)
    BY SilentForeign
  <2> QED
    BY <1>0, <2>1, <2>2, <2>3, NotConcerned
<1>4. ~Busy(o)' /\ SyncedInv(o)'
  BY <1>2 DEF Busy, SyncedInv
<1>5. CASE api'[o] \in watch'[o] \/ o \in queue'
  <2>1. Pending(o)'
    BY <1>5 DEF Pending
  <2> QED
    BY <1>3, <1>4, <2>1
<1>6. CASE /\ api'[o] = api[o] /\ watch'[o] = watch[o]
           /\ Served(o) /\ Copy(o) = api[o] => ~api[o].deleting /\ Mirrored(o)
           /\ o \notin queue' /\ api'[o] \notin watch'[o]
  <2>1. Served(o)' => Served(o) /\ Copy(o) = api[o]
    BY <1>0, <1>2, <1>6, ServedKept DEF Pending, Attended, Silent
  <2>2. Served(o)' => Mirrored(o)'
    BY <1>6, <2>1, SilentMirrored
  <2>3. Pending(o)'
    BY <1>4, <1>6, <2>1, <2>2 DEF Pending, Attended
  <2> QED
    BY <1>3, <1>4, <2>3
<1> QED
  BY <1>5, <1>6

---------------------------------------------------------------------------
(* The steps of the workers.                                                *)

\* A reconcile that starts: the cache has the stored version, or will have.
LEMMA ReconcilePending ==
  ASSUME TypeOK, KubeInv, CallInv, HandledInv, PendingInv,
         NEW o \in Objects, Reconcile(o)
  PROVE  PendingInv'
<1> SUFFICES ASSUME NEW p \in Objects PROVE Pending(p)' /\ SyncedInv(p)'
  BY DEF PendingInv
<1>1. PICK c \in Callers : c = ServedBy(o)
  BY ServedByType
<1>2. /\ Silent /\ UNCHANGED <<api, watch, cache, call>> /\ queue' = queue \ {o}
      /\ worker[c].step = "idle"
  BY <1>1 DEF Reconcile, Silent, environment, service
<1>3. IF cache[o].exists THEN Continue(c, o, cache[o]) ELSE UNCHANGED worker
  BY <1>1 DEF Reconcile
<1>4. /\ \A d \in Callers \ {c} : worker'[d] = worker[d]
      /\ cache[o].exists =>
           worker'[c] = IF NextStep(o, cache[o]) = "idle" THEN Idle
                        ELSE [step |-> NextStep(o, cache[o]), object |-> o,
                              copy |-> cache[o]]
      /\ ~cache[o].exists => worker'[c] = worker[c]
  BY <1>3 DEF Continue, TypeOK, WorkerTypeOK
<1>5. CASE p # o
  <2>1. worker'[c].step = "idle" \/ worker'[c].object # p
    BY <1>2, <1>4, <1>5 DEF Idle
  <2>2. Undistracted(p)
    BY <1>2, <1>4, <2>1, Elsewhere
  <2>3. UNCHANGED namespaces /\ now' \in Nat /\ now <= now' /\ Foreign(p)
    BY <1>2, SilentForeign DEF Silent
  <2> QED
    BY <1>2, <1>5, <2>2, <2>3, NotConcerned DEF PendingInv
<1>6. CASE p = o
  <2>1. call'[c].step = "none"
    BY <1>2 DEF CallInv, CallOf
  <2>2. SyncedInv(o)'
    BY <1>1, <2>1 DEF SyncedInv
  <2>3. api[o] \in {cache[o]} \cup watch[o] /\ Handled(api[o])
    BY DEF KubeInv, VersionInv, HandledInv
  <2>4. CASE api[o] \in watch[o]
    <3>1. Pending(o)'
      BY <1>2, <2>4 DEF Pending
    <3> QED
      BY <1>6, <2>2, <3>1
  <2>5. CASE api[o] = cache[o] /\ Served(o)
    <3>1. api[o].exists /\ api[o].deleting \in BOOLEAN
      BY <2>5 DEF Served, TypeOK, KubeTypeOK, Version
    <3>2. NextStep(o, api[o]) # "idle"
      BY <2>3, <3>1, NextIsBusy
    <3>3. worker'[c] = [step |-> NextStep(o, api[o]), object |-> o, copy |-> api[o]]
      BY <1>4, <2>5, <3>1, <3>2
    <3>4. Busy(o)' /\ Copy(o)' = api'[o]
      BY <1>1, <1>2, <3>2, <3>3 DEF Busy, Copy
    <3>5. Pending(o)'
      BY <3>4 DEF Pending, Attended
    <3> QED
      BY <1>6, <2>2, <3>5
  <2>6. CASE ~Served(o)
    <3>1. ~Served(o)'
      BY <1>2, <2>6, ServedKept DEF Silent
    <3> QED
      BY <1>6, <2>2, <3>1 DEF Pending
  <2> QED
    BY <2>3, <2>4, <2>5, <2>6
<1> QED
  BY <1>5, <1>6

\* An update of the finalizers: told of when stored, queued when not.
LEMMA UpdatePending ==
  ASSUME TypeOK, KubeInv, CallInv, HandledInv, PendingInv, NEW c \in Callers,
         AddFinalizer(c) \/ RemoveFinalizer(c) \/ CleanUpLegacyFinalizer(c)
  PROVE  HandledInv' /\ PendingInv'
<1>1. PICK o \in Objects : o = worker[c].object /\ ServedBy(o) = c /\ Busy(o)
  <2>1. worker[c].step # "idle"
    BY DEF AddFinalizer, RemoveFinalizer, CleanUpLegacyFinalizer
  <2> QED
    BY <2>1 DEF TypeOK, Assigned, Busy
<1>2. PICK u \in Version : u = worker[c].copy /\ u \in Seen(o) /\ u = Copy(o)
  BY <1>1 DEF TypeOK, WorkerTypeOK, Seen, Copy
<1>3. PICK F \in SUBSET Finalizers :
        /\ Update(c, F)
        /\ worker[c].step \notin {"idle", "reconcileDelete", "reconcileCreate"}
        /\ F \subseteq u.finalizers \cup {SilenceFinalizer}
  <2>1. u.finalizers \in SUBSET Finalizers /\ SilenceFinalizer \in Finalizers
    BY DEF Version, Finalizers
  <2> QED
    BY <1>2, <2>1 DEF AddFinalizer, RemoveFinalizer, CleanUpLegacyFinalizer
<1>4. PICK v \in Version : /\ v = [u EXCEPT !.finalizers = F]
                           /\ v.rv = u.rv /\ v.finalizers = F
  <2>1. [u EXCEPT !.finalizers = F] \in Version
    BY <1>3 DEF Version
  <2> QED
    BY <2>1 DEF Version
<1>5. /\ UNCHANGED <<cache, service>>
      /\ UNCHANGED environment \/ \E kind : Fault(kind)
      /\ \/ /\ Current(o, v) /\ Write(o, v) /\ UNCHANGED queue
            /\ Continue(c, o, Persisted(o, v))
         \/ Current(o, v) /\ Write(o, v) /\ Requeue(c)
         \/ Requeue(c) /\ UNCHANGED <<api, watch>>
  BY <1>1, <1>2, <1>3, <1>4, UpdateCases
<1>6. Silent /\ UNCHANGED call /\ call[c].step = "none"
  BY <1>3, <1>5 DEF Silent, environment, service, Fault, CallInv, CallOf
<1>7. ASSUME Current(o, v) PROVE LegacyFinalizer \notin v.finalizers
  <2>1. u = api[o]
    BY <1>2, <1>4, <1>7 DEF Current, KubeInv, VersionInv
  <2>2. LegacyFinalizer \notin u.finalizers /\ LegacyFinalizer # SilenceFinalizer
    BY <2>1 DEF HandledInv, Handled, LegacyFinalizer, SilenceFinalizer
  <2> QED
    BY <1>3, <1>4, <2>2
<1>8. CASE Requeue(c) /\ UNCHANGED <<api, watch>>
  <2>1. Finish(c) /\ o \in queue' /\ queue \subseteq queue'
    BY <1>1, <1>8 DEF Requeue
  <2>2. PendingInv'
    BY <1>1, <1>3, <1>6, <1>8, <2>1, GiveUp
  <2> QED
    BY <1>8, <2>2 DEF HandledInv, Handled
<1>9. CASE Current(o, v) /\ Write(o, v) /\ Requeue(c)
  <2>1. Finish(c) /\ o \in queue' /\ queue \subseteq queue'
    BY <1>1, <1>9 DEF Requeue
  <2>2. PendingInv'
    BY <1>1, <1>3, <1>6, <1>9, <2>1, WriteIsNews, GiveUp
  <2> QED
    BY <1>7, <1>9, <2>2, HandledWrite
<1>10. CASE Current(o, v) /\ Write(o, v) /\ UNCHANGED queue /\ Continue(c, o, Persisted(o, v))
  <2>1. PICK w : w = Persisted(o, v)
    OBVIOUS
  <2>2. /\ \A d \in Callers \ {c} : worker'[d] = worker[d]
        /\ worker'[c] = IF NextStep(o, w) = "idle" THEN Idle
                        ELSE [step |-> NextStep(o, w), object |-> o, copy |-> w]
    BY <1>10, <2>1 DEF Continue, TypeOK, WorkerTypeOK
  <2>3. /\ api'[o] \in watch'[o]
        /\ \A p \in Objects : p # o => api'[p] = api[p] /\ watch'[p] = watch[p]
    BY <1>10, WriteIsNews
  <2>4. ASSUME NEW p \in Objects, p # o PROVE Pending(p)' /\ SyncedInv(p)'
    <3>1. worker'[c].step = "idle" \/ worker'[c].object # p
      BY <2>2, <2>4 DEF Idle
    <3>2. Undistracted(p)
      BY <1>1, <1>6, <2>2, <2>4, <3>1, Elsewhere
    <3>3. UNCHANGED namespaces /\ now' \in Nat /\ now <= now' /\ Foreign(p)
      BY <1>6, SilentForeign DEF Silent
    <3> QED
      BY <1>10, <2>3, <2>4, <3>2, <3>3, NotConcerned DEF PendingInv
  <2>5. Pending(o)' /\ SyncedInv(o)'
    BY <1>1, <1>6, <2>3 DEF Pending, SyncedInv
  <2>6. PendingInv'
    BY <2>4, <2>5 DEF PendingInv
  <2> QED
    BY <1>7, <1>10, <2>6, HandledWrite
<1> QED
  BY <1>5, <1>8, <1>9, <1>10

\* A call of a worker moves on; the worker keeps the object and its version.
LEMMA CallMoves ==
  ASSUME TypeOK, PendingInv, NEW c \in Callers,
         UNCHANGED <<api, watch, queue, namespaces>>, UNCHANGED now,
         \A d \in Callers \ {c} : worker'[d] = worker[d] /\ call'[d] = call[d],
         worker'[c].object = worker[c].object, worker'[c].copy = worker[c].copy,
         worker'[c].step = "idle" <=> worker[c].step = "idle",
         \A o \in Objects : \/ Foreign(o) /\ worker[c].object # o
                            \/ Busy(o) /\ ServedBy(o) = c /\ SyncedInv(o)'
  PROVE  PendingInv'
<1> SUFFICES ASSUME NEW o \in Objects PROVE Pending(o)' /\ SyncedInv(o)'
  BY DEF PendingInv
<1>1. Pending(o) /\ SyncedInv(o)
  BY DEF PendingInv
<1>2. CASE Foreign(o) /\ worker[c].object # o
  <2>1. Undistracted(o)
    BY <1>2, Elsewhere
  <2>2. now' \in Nat /\ now <= now'
    BY DEF TypeOK, ServiceTypeOK, EnvironmentTypeOK
  <2> QED
    BY <1>1, <1>2, <2>1, <2>2, NotConcerned
<1>3. CASE Busy(o) /\ ServedBy(o) = c /\ SyncedInv(o)'
  <2>1. Busy(o)' /\ Copy(o)' = Copy(o)
    BY <1>3 DEF Busy, Copy
  <2>2. Served(o)' <=> Served(o)
    BY ServedKept
  <2>3. Pending(o)'
    BY <1>1, <1>3, <2>1, <2>2 DEF Pending, Attended
  <2> QED
    BY <1>3, <2>3
<1> QED
  BY <1>2, <1>3

\* The beginning and the end of the calls.
LEMMA CallPending ==
  ASSUME TypeOK, KubeInv, CallInv, PendingInv, NEW c \in Callers,
         \/ ReconcileDelete(c) \/ DeleteReturned(c)
         \/ ReconcileCreate(c) \/ SyncReturned(c)
  PROVE  UNCHANGED api /\ PendingInv'
<1>1. Silent /\ UNCHANGED <<api, watch>> /\ queue \subseteq queue'
  BY DEF ReconcileDelete, DeleteReturned, ReconcileCreate, SyncReturned, DeleteSilence,
         SyncSilence, Requeue, Silent, environment, service, kube
<1>2. /\ worker[c].step \in {"reconcileDelete", "reconcileCreate"}
      /\ call \in [Callers -> [step : Steps, op : {"none", "sync", "delete"},
           silence : Silence, tenant : Text, now : Nat, id : SilenceIds \cup {NoId}]]
      /\ worker \in [Callers ->
           [step : WorkerSteps, object : Objects \cup {NoObject}, copy : Version]]
  BY DEF ReconcileDelete, DeleteReturned, ReconcileCreate, SyncReturned,
         TypeOK, ServiceTypeOK, CallTypeOK, WorkerTypeOK
<1>3. PICK o \in Objects : o = worker[c].object /\ ServedBy(o) = c /\ Busy(o)
  BY <1>2 DEF TypeOK, Assigned, Busy
<1>4. \A d \in Callers \ {c} : call'[d] = call[d]
  BY <1>2 DEF ReconcileDelete, DeleteReturned, ReconcileCreate, SyncReturned,
              DeleteSilence, SyncSilence, Collect, service
<1>5. CASE Requeue(c)
  <2>1. Finish(c) /\ o \in queue'
    BY <1>3, <1>5 DEF Requeue
  <2>2. PendingInv'
    BY <1>1, <1>2, <1>3, <1>4, <2>1, GiveUp
  <2> QED
    BY <1>1, <2>2
<1>6. CASE UNCHANGED <<worker, queue>> /\ call'[c].step # "ok"
  <2>1. SyncedInv(o)'
    BY <1>3, <1>6 DEF SyncedInv
  <2>2. \A p \in Objects : Foreign(p)
    BY <1>1, SilentForeign
  <2>3. PendingInv'
    BY <1>1, <1>3, <1>4, <1>6, <2>1, <2>2, CallMoves DEF Silent
  <2> QED
    BY <1>1, <2>3
<1>7. CASE DeleteReturned(c) /\ UNCHANGED queue
           /\ worker' = [worker EXCEPT ![c].step = "removeFinalizer"]
  <2>1. /\ \A d \in Callers \ {c} : worker'[d] = worker[d]
        /\ worker'[c].object = worker[c].object /\ worker'[c].copy = worker[c].copy
        /\ worker'[c].step = "removeFinalizer"
    BY <1>2, <1>7
  <2>2. SyncedInv(o)'
    BY <1>3, <2>1 DEF SyncedInv
  <2>3. \A p \in Objects : Foreign(p)
    BY <1>1, SilentForeign
  <2>4. PendingInv'
    BY <1>1, <1>2, <1>3, <1>4, <1>7, <2>1, <2>2, <2>3, CallMoves DEF Silent
  <2> QED
    BY <1>1, <2>4
<1>8. CASE SyncReturned(c) /\ call[c].step = "ok" /\ Finish(c)
  <2>1. worker[c].step = "reconcileCreate" /\ StepInv(o)
    BY <1>8 DEF SyncReturned, KubeInv
  <2>2. worker[c].step = NextStep(o, Copy(o))
    BY <1>3, <2>1 DEF StepInv
  <2>3. ~Copy(o).deleting
    BY <2>1, <2>2 DEF NextStep
  <2>4. Served(o) /\ Copy(o) = api[o] => Mirrored(o)
    BY <1>3, <1>8, <2>1 DEF PendingInv, SyncedInv, Served
  <2>5. PendingInv'
    BY <1>1, <1>2, <1>3, <1>4, <1>8, <2>3, <2>4, GiveUp
  <2> QED
    BY <1>1, <2>5
<1>9. CASE ReconcileDelete(c)
  <2>1. PICK s : s = [NoSilence EXCEPT !.comment = SilenceComment(worker[c].object)]
    OBVIOUS
  <2>2. call'[c].step = "list"
    BY <1>2, <1>9, <2>1 DEF ReconcileDelete, DeleteSilence
  <2> QED
    BY <1>6, <1>9, <2>2 DEF ReconcileDelete, kube
<1>10. CASE ReconcileCreate(c)
  <2>1. CASE SyncSilence(c, getSilenceFromCR(worker[c].object, worker[c].copy.created,
                           worker[c].copy.body.spec), Tenant(worker[c].copy))
             /\ UNCHANGED <<kube, worker>>
    <3>1. call'[c].step = "list"
      BY <1>2, <2>1 DEF SyncSilence
    <3> QED
      BY <1>6, <2>1, <3>1 DEF kube
  <2> QED
    BY <1>5, <1>10, <2>1 DEF ReconcileCreate
<1>11. CASE DeleteReturned(c)
  BY <1>5, <1>7, <1>11 DEF DeleteReturned, kube
<1>12. CASE SyncReturned(c)
  BY <1>5, <1>8, <1>12 DEF SyncReturned
<1> QED
  BY <1>9, <1>10, <1>11, <1>12

---------------------------------------------------------------------------
(* The requests.                                                            *)

\* A request touches no silence of another object than its own.
LEMMA RequestForeign ==
  ASSUME Undisturbed, TypeOK, CallInv, AskedInv, NEW c \in Callers, Request(c),
         NEW p \in Objects, p # worker[c].object
  PROVE  Foreign(p)
<1>1. ServiceTypeOK /\ CallTypeOK /\ Formed(c) /\ Named(c) /\ CallOf(c)
  BY DEF TypeOK, ServiceTypeOK, AskedInv, CallInv
<1>2. call[c].step \notin {"none", "ok", "failed"}
  BY <1>1, RequestFields
<1>3. PICK o \in Objects : o = worker[c].object
  BY <1>1, <1>2 DEF CallOf, TypeOK, Assigned
<1>4. PICK comment : comment = SilenceComment(p)
  OBVIOUS
<1>5. call[c].silence.comment # comment
  BY <1>1, <1>2, <1>3, <1>4 DEF CallOf, Undisturbed
<1>6. PICK written :
        \A i \in SilenceIds :
          i \in written <=> Keeps(silences'[i], call[c].silence, call[c].tenant)
  <2> WITNESS {i \in SilenceIds : Keeps(silences'[i], call[c].silence, call[c].tenant)}
  <2> QED
    OBVIOUS
<1>7. \A i \in SilenceIds : i \in written => silences'[i].comment # comment
  BY <1>5, <1>6 DEF Keeps
<1>8. \A i \in SilenceIds :
        \/ silences'[i] = silences[i]
        \/ Ended(i) /\ Unexpired(i) /\ i = call[c].id
           /\ call[c].step \in {"update", "deleteByID"}
        \/ /\ i \in written
           /\ \/ ~Unexpired(i)
              \/ call[c].step = "update" /\ i = call[c].id /\ Unexpired(i)
  BY <1>1, <1>6, RequestWrites DEF Fresh
<1> SUFFICES ASSUME NEW i \in SilenceIds, silences'[i] # silences[i]
             PROVE  i \notin OwnOf(p) /\ i \notin OwnOf(p)'
  BY DEF Foreign
<1>9. CASE Unexpired(i) /\ i = call[c].id /\ call[c].step \in {"update", "deleteByID"}
  <2>1. silences[i].comment # comment
    BY <1>1, <1>5, <1>9 DEF Named
  <2>2. silences'[i].comment = silences[i].comment \/ i \in written
    BY <1>1, <1>8, EndedFields DEF ServiceTypeOK, AlertmanagerTypeOK
  <2> QED
    BY <1>4, <1>7, <2>1, <2>2 DEF OwnOf
<1>10. CASE ~Unexpired(i) /\ i \in written
  BY <1>4, <1>7, <1>10 DEF OwnOf
<1> QED
  BY <1>8, <1>9, <1>10

\* What a sync that returns nil leaves for its object.
LEMMA SyncMirrors ==
  ASSUME Undisturbed, IInv, IInv', AskedInv, LegacyObjects = {},
         NEW c \in Callers, Request(c), UNCHANGED <<kube, worker>>,
         NEW o \in Objects, o = worker[c].object, ServedBy(o) = c, Busy(o),
         worker[c].step = "reconcileCreate", call'[c].step = "ok", Copy(o) = api[o]
  PROVE  Mirrored(o)'
<1>1. PICK s : s = call[c].silence
  OBVIOUS
<1>2. PICK tenant : tenant = call[c].tenant
  OBVIOUS
<1>3. TypeOK /\ KubeInv /\ CallInv /\ SilenceInv /\ o \in Plain
  BY DEF IInv, Plain
<1>4. ServiceTypeOK /\ CallTypeOK /\ Formed(c) /\ Asked(c) /\ CallOf(c)
  BY <1>3 DEF TypeOK, ServiceTypeOK, AskedInv, CallInv
<1>5. /\ call[c].step # "none" /\ call'[c].step # "none"
      /\ call'[c].silence = s /\ call'[c].tenant = tenant
  BY <1>1, <1>2, <1>4, RequestFields
<1>6. call[c].op = "sync" /\ s.createdBy = CreatedBy
  BY <1>1, <1>4, <1>5 DEF CallOf
<1>7. s = getSilenceFromCR(o, api[o].created, api[o].body.spec)
  BY <1>1, <1>4, <1>5, <1>6 DEF Asked, Copy
<1>8. /\ OwnOf(o) \subseteq OwnByComment(s.comment, tenant)
      /\ GetSilenceByComment(s.comment, tenant) \subseteq OwnOf(o)
      /\ OwnByComment(s.comment, tenant) \subseteq GetSilenceByComment(s.comment, tenant)
  BY <1>1, <1>2, <1>3, <1>5, ListingShowsOwn
<1>9. LookInv(o) /\ GuardInv(o)
  BY <1>3 DEF SilenceInv
<1>10. OwnOfCall(c) = OwnOf(o)
  BY <1>1, <1>2, <1>8 DEF OwnOfCall
<1>11. Shown(c) /\ Single(OwnOfCall(c))
  BY <1>1, <1>2, <1>8, <1>9, <1>10 DEF Shown, Single, GuardInv
<1>12. Looked(c)
  BY <1>6, <1>9, <1>10 DEF Looked, LookInv, NoneOf
<1>13. PICK own : own = OwnByComment(s.comment, tenant)'
  OBVIOUS
<1>14. /\ s.endsAt > now => \E i \in own :
            own = {i} /\ silences'[i].matchers = s.matchers /\ silences'[i].endsAt = s.endsAt
       /\ s.endsAt <= now => own = {}
  <2>1. "status" \notin FaultKinds
    BY DEF Undisturbed
  <2> QED
    BY <1>1, <1>2, <1>4, <1>6, <1>11, <1>12, <1>13, <2>1, SyncEnds
<1>15. OwnOf(o)' = own
  <2>1. EffectiveTenant(tenant) = TenantOf(o) /\ s.comment = SilenceComment(o)
    BY <1>1, <1>2, <1>3, <1>5, TenantAgrees
  <2>2. TenantOf(o)' = TenantOf(o)
    BY LabelsTenant DEF kube
  <2>3. \A i \in OwnOf(o)' : silences'[i].tenant = EffectiveTenant(tenant)
    BY <1>3, <2>1, <2>2 DEF IInv, SilenceInv, GuardInv
  <2>4. OwnOf(o)' \subseteq own
    BY <1>13, <2>1, <2>3 DEF OwnOf, OwnByComment, GetSilenceByComment, ListSilences, Unexpired
  <2>5. own \subseteq OwnOf(o)'
    BY <1>13, <2>1 DEF OwnOf, OwnByComment, GetSilenceByComment, ListSilences, Unexpired
  <2> QED
    BY <2>4, <2>5
<1>16. now' = now /\ now \in Nat /\ s.endsAt \in Nat
  BY <1>1, <1>4, RequestClock DEF ServiceTypeOK, EnvironmentTypeOK, CallTypeOK, Silence
<1>17. \A i \in own : silences'[i].tenant = TenantOf(o)'
  BY <1>3, <1>15 DEF IInv, SilenceInv, GuardInv
<1>18. IF s.endsAt > now'
       THEN /\ own # {}
            /\ \A i \in own : /\ silences'[i].matchers = s.matchers
                              /\ silences'[i].endsAt = s.endsAt
                              /\ silences'[i].tenant = TenantOf(o)'
       ELSE own = {}
  BY <1>14, <1>16, <1>17
<1>19. s = getSilenceFromCR(o, api[o].created, api[o].body.spec)'
  BY <1>7 DEF kube
<1> QED
  BY <1>15, <1>18, <1>19 DEF Mirrored

\* A request keeps every object attended to.
LEMMA RequestPending ==
  ASSUME Undisturbed, IInv, IInv', AskedInv, PendingInv, LegacyObjects = {},
         NEW c \in Callers, Request(c), UNCHANGED <<kube, worker>>
  PROVE  PendingInv'
<1>1. TypeOK /\ CallInv /\ CallOf(c) /\ CallTypeOK
  BY DEF IInv, CallInv, TypeOK, ServiceTypeOK
<1>2. call[c].step # "none" /\ \A d \in Callers \ {c} : call'[d] = call[d]
  BY <1>1, RequestFields
<1>3. PICK o \in Objects : o = worker[c].object /\ ServedBy(o) = c /\ Busy(o)
  BY <1>1, <1>2 DEF CallOf, TypeOK, Assigned, Busy
<1>4. \A p \in Objects : p # o => Foreign(p) /\ worker[c].object # p
  BY <1>1, <1>3, RequestForeign
<1>5. SyncedInv(o)'
  <2> SUFFICES ASSUME worker[c].step = "reconcileCreate", call'[c].step = "ok",
                      Copy(o) = api[o]
               PROVE  Mirrored(o)'
    BY <1>3 DEF SyncedInv, Busy, Copy, kube
  <2> QED
    BY <1>3, SyncMirrors
<1>6. UNCHANGED <<api, watch, queue, namespaces>> /\ UNCHANGED now
  BY DEF kube, Request, RequestFails, SyncNotFound, SyncFound, DeleteNotFound, DeleteFound,
         CreateSilence, UpdateSilence, DeleteSilenceByID, DeleteStatusIgnored, Reply,
         Fault, environment
<1> QED
  BY <1>1, <1>2, <1>3, <1>4, <1>5, <1>6, CallMoves

---------------------------------------------------------------------------
(* The other steps.                                                         *)

\* A new process queues everything it is to serve.
LEMMA RestartPending ==
  ASSUME TypeOK, Restart
  PROVE  UNCHANGED api /\ PendingInv'
<1> SUFFICES ASSUME NEW o \in Objects PROVE Pending(o)' /\ SyncedInv(o)'
  BY DEF PendingInv, Restart, Relist
<1>1. Served(o)' => o \in queue'
  BY DEF Restart, Relist, Served, Selected, Fault
<1>2. ~Busy(o)'
  BY ServedByType DEF Restart, Busy, Idle
<1> QED
  BY <1>1, <1>2 DEF Pending, SyncedInv

\* Users, the watch and the resync.
LEMMA KubePending ==
  ASSUME Unattended, TypeOK, KubeInv, HandledInv, PendingInv, KubeSteps
  PROVE  HandledInv' /\ PendingInv'
<1>1. UNCHANGED <<silences, call, worker>>
  BY DEF KubeSteps, service
<1>2. ASSUME Silent, NEW p \in Objects, api'[p] = api[p],
             api[p] \in watch[p] /\ Served(p) => api[p] \in watch'[p] \/ p \in queue',
             p \in queue => p \in queue'
      PROVE  Pending(p)' /\ SyncedInv(p)'
  <2>1. Undistracted(p)
    BY <1>1 DEF Undistracted, Busy
  <2>2. UNCHANGED namespaces /\ now' \in Nat /\ now <= now' /\ Foreign(p)
    BY <1>2, SilentForeign DEF Silent
  <2> QED
    BY <1>2, <2>1, <2>2, NotConcerned DEF PendingInv
<1>3. CASE UserWrites
  <2>1. PICK o \in Objects, v \in Version :
           /\ Write(o, v) /\ UNCHANGED <<cache, queue>> /\ \E kind : UserActs(kind)
           /\ v.finalizers = {} \/ v.finalizers = api[o].finalizers
    BY <1>3, UserWriteCases
  <2>2. Silent
    BY <1>1, <2>1 DEF Silent, UserActs
  <2>3. LegacyFinalizer \notin v.finalizers
    BY <2>1 DEF HandledInv, Handled
  <2>4. /\ api'[o] \in watch'[o] /\ \A w \in Seen(o) : w # api'[o]
        /\ \A p \in Objects : p # o => api'[p] = api[p] /\ watch'[p] = watch[p]
    BY <2>1, WriteIsNews
  <2>5. Pending(o)'
    BY <2>4 DEF Pending
  <2>6. Busy(o)' => Copy(o)' # api'[o]
    BY <1>1, <2>4 DEF Busy, Copy, Seen
  <2>7. SyncedInv(o)'
    BY <2>6 DEF SyncedInv
  <2>8. ASSUME NEW p \in Objects, p # o PROVE Pending(p)' /\ SyncedInv(p)'
    BY <1>2, <2>1, <2>2, <2>4, <2>8
  <2>9. PendingInv'
    BY <2>5, <2>7, <2>8 DEF PendingInv
  <2> QED
    BY <2>1, <2>3, <2>9, HandledWrite
<1>4. ASSUME NEW o \in Objects, Deliver(o) PROVE HandledInv' /\ PendingInv'
  <2>1. PICK v \in watch[o] :
          /\ watch' = [watch EXCEPT ![o] = @ \ {v}]
          /\ queue' = IF Selected(o, v) THEN queue \cup {o} ELSE queue
          /\ UNCHANGED <<api, environment>>
    BY <1>4 DEF Deliver
  <2>2. Silent /\ \A p \in Objects : api'[p] = api[p]
    BY <1>1, <2>1 DEF Silent, environment
  <2>3. watch'[o] = watch[o] \ {v} /\ \A p \in Objects : p # o => watch'[p] = watch[p]
    BY <2>1 DEF TypeOK, KubeTypeOK
  <2>4. v = api[o] /\ Served(o) => o \in queue'
    BY <2>1 DEF Served
  <2>5. \A p \in Objects : Pending(p)' /\ SyncedInv(p)'
    BY <1>2, <2>1, <2>2, <2>3, <2>4
  <2> QED
    BY <2>1, <2>5 DEF PendingInv, HandledInv, Handled
<1>5. ASSUME NEW o \in Objects, Resync(o) PROVE HandledInv' /\ PendingInv'
  <2>1. Silent /\ UNCHANGED <<api, watch>> /\ queue \subseteq queue'
    BY <1>1, <1>5 DEF Resync, Silent, environment
  <2>2. \A p \in Objects : Pending(p)' /\ SyncedInv(p)'
    BY <1>2, <2>1
  <2> QED
    BY <2>1, <2>2 DEF PendingInv, HandledInv, Handled
<1>6. ~ \E n \in Namespaces : NamespaceChanges(n)
  BY DEF Unattended, NamespaceChanges
<1> QED
  BY <1>3, <1>4, <1>5, <1>6 DEF KubeSteps

\* The clock, and the people who use Alertmanager.
LEMMA OthersPending ==
  ASSUME Undisturbed, Unattended, TypeOK, PendingInv, AlertmanagerSteps
  PROVE  UNCHANGED api /\ PendingInv'
<1>1. UNCHANGED <<call, api, watch, queue, worker>> /\ Others
  BY DEF AlertmanagerSteps, kube
<1>2. UNCHANGED namespaces
  BY <1>1 DEF Others, Passes, UserExpires, UserSilences, UserActs
<1>3. /\ now' \in Nat /\ now <= now'
      /\ \A i \in SilenceIds :
           \/ silences'[i] = silences[i]
           \/ ~Unexpired(i) /\ silences'[i].comment \in UserComments
  BY <1>1, OthersWrite DEF TypeOK, Unattended, Fresh
<1>4. ASSUME NEW o \in Objects PROVE Pending(o)' /\ SyncedInv(o)'
  <2>1. Foreign(o)
    BY <1>3 DEF Foreign, OwnOf, Undisturbed
  <2>2. Undistracted(o)
    BY <1>1 DEF Undistracted, Busy
  <2> QED
    BY <1>1, <1>2, <1>3, <2>1, <2>2, NotConcerned DEF PendingInv
<1> QED
  BY <1>1, <1>4 DEF PendingInv

---------------------------------------------------------------------------
(* The calls.                                                               *)

\* Calls that go on, end or begin, while Alertmanager is left alone.
LEMMA AskedKept ==
  ASSUME TypeOK, AskedInv, UNCHANGED <<now, silences>>,
         \A c \in Callers :
           \/ call'[c] = call[c] /\ (call[c].step = "none" \/ worker'[c] = worker[c])
           \/ call'[c] = NoCall
           \/ \E comment, tenant : DeleteSilence(c, comment, tenant)
           \/ /\ \E tenant : SyncSilence(c, getSilenceFromCR(worker[c].object,
                   worker[c].copy.created, worker[c].copy.body.spec), tenant)
              /\ worker'[c] = worker[c]
  PROVE  AskedInv'
<1> SUFFICES ASSUME NEW c \in Callers PROVE Formed(c)' /\ Named(c)' /\ Asked(c)'
  BY DEF AskedInv
<1>1. /\ ServiceTypeOK /\ DOMAIN call = Callers /\ now' \in Nat /\ now <= now'
      /\ Formed(c) /\ Named(c) /\ Asked(c)
  BY DEF TypeOK, ServiceTypeOK, CallTypeOK, EnvironmentTypeOK, AskedInv
<1>2. CASE call'[c] = call[c] /\ (call[c].step = "none" \/ worker'[c] = worker[c])
  <2>1. Formed(c)'
    BY <1>1, <1>2, FormedKept
  <2>2. Named(c)'
    BY <1>1, <1>2, NamedKept
  <2>3. Asked(c)'
    BY <1>1, <1>2 DEF Asked
  <2> QED
    BY <2>1, <2>2, <2>3
<1>3. CASE call'[c] = NoCall
  BY <1>1, <1>3, NewFormed, NoCallFields DEF Named, Asked
<1>4. ASSUME NEW comment, NEW tenant, DeleteSilence(c, comment, tenant)
      PROVE  Formed(c)' /\ Named(c)' /\ Asked(c)'
  <2>1. PICK s : s = [NoSilence EXCEPT !.comment = comment]
    OBVIOUS
  <2>2. call'[c].step = "list" /\ call'[c].op = "delete"
    BY <1>1, <1>4, <2>1 DEF DeleteSilence
  <2>3. Formed(c)'
    BY <1>1, <1>4, NewFormed
  <2> QED
    BY <2>2, <2>3 DEF Named, Asked
<1>5. ASSUME NEW tenant, SyncSilence(c, getSilenceFromCR(worker[c].object,
               worker[c].copy.created, worker[c].copy.body.spec), tenant),
             worker'[c] = worker[c]
      PROVE  Formed(c)' /\ Named(c)' /\ Asked(c)'
  <2>1. PICK s : s = getSilenceFromCR(worker[c].object, worker[c].copy.created,
                                      worker[c].copy.body.spec)
    OBVIOUS
  <2>2. call'[c].step = "list" /\ call'[c].silence = s
    BY <1>1, <1>5, <2>1 DEF SyncSilence
  <2>3. Formed(c)'
    BY <1>1, <1>5, NewFormed
  <2> QED
    BY <1>5, <2>1, <2>2, <2>3 DEF Named, Asked
<1> QED
  BY <1>2, <1>3, <1>4, <1>5

\* A request, seen by its caller and by the others.
LEMMA RequestAsked ==
  ASSUME Undisturbed, TypeOK, CallInv, AskedInv, NEW c \in Callers, Request(c),
         UNCHANGED worker
  PROVE  AskedInv'
<1> SUFFICES ASSUME NEW d \in Callers PROVE Formed(d)' /\ Named(d)' /\ Asked(d)'
  BY DEF AskedInv
<1>1. /\ ServiceTypeOK /\ CallTypeOK /\ Formed(c) /\ Named(c) /\ Asked(c)
      /\ Formed(d) /\ Named(d) /\ Asked(d) /\ CallOf(c) /\ CallOf(d)
  BY DEF TypeOK, ServiceTypeOK, AskedInv, CallInv
<1>2. now' = now /\ now' \in Nat /\ now <= now'
  BY <1>1, RequestClock DEF ServiceTypeOK, EnvironmentTypeOK
<1>3. CASE d = c
  <2>1. Formed(c)' /\ Named(c)'
    BY <1>1, RequestFormed, RequestNamed
  <2>2. Asked(c)'
    BY <1>1, RequestFields DEF Asked
  <2> QED
    BY <1>3, <2>1, <2>2
<1>4. CASE d # c
  <2>1. call'[d] = call[d] /\ call[c].step # "none"
    BY <1>1, <1>4, RequestFields
  <2>2. ASSUME NEW i \in SilenceIds, i = call[d].id,
               call[d].step \in {"update", "deleteByID"}
        PROVE  silences'[i] = silences[i] \/ Ended(i) \/ Fresh(i, Held)
    <3>1. SilenceComment(worker[c].object) # SilenceComment(worker[d].object)
      <4>1. worker[c].step # "idle" /\ worker[d].step # "idle"
        BY <1>1, <2>1, <2>2 DEF CallOf
      <4>2. /\ worker[c].object \in Objects /\ worker[d].object \in Objects
            /\ worker[c].object # worker[d].object
        BY <1>4, <4>1 DEF TypeOK, Assigned
      <4> QED
        BY <4>2 DEF Undisturbed
    <3>2. call[c].silence.comment # call[d].silence.comment
      BY <1>1, <2>1, <2>2, <3>1 DEF CallOf
    <3>3. ~(Unexpired(i) /\ i = call[c].id /\ call[c].step = "update")
      BY <1>1, <2>2, <3>2 DEF Named
    <3> QED
      BY <1>1, <3>3, RequestWrites
  <2>3. Named(d)'
    BY <1>1, <1>2, <2>1, <2>2, NamedKept
  <2>4. Formed(d)'
    BY <1>1, <1>2, <2>1, FormedKept
  <2>5. Asked(d)'
    BY <1>1, <2>1 DEF Asked
  <2> QED
    BY <2>3, <2>4, <2>5
<1> QED
  BY <1>3, <1>4

\* The clock and people leave a call what it is.
LEMMA OthersAsked ==
  ASSUME TypeOK, AskedInv, AlertmanagerSteps
  PROVE  AskedInv'
<1> SUFFICES ASSUME NEW c \in Callers PROVE Formed(c)' /\ Named(c)' /\ Asked(c)'
  BY DEF AskedInv
<1>1. UNCHANGED <<call, worker>> /\ Others /\ ServiceTypeOK
  BY DEF AlertmanagerSteps, TypeOK
<1>2. /\ now' \in Nat /\ now <= now'
      /\ \A i \in SilenceIds :
           silences'[i] = silences[i] \/ Ended(i) \/ Fresh(i, Held)
  BY <1>1, OthersWrite
<1>3. Formed(c)'
  BY <1>1, <1>2, FormedKept DEF AskedInv
<1>4. Named(c)'
  BY <1>1, <1>2, NamedKept DEF AskedInv
<1>5. Asked(c)'
  BY <1>1 DEF AskedInv, Asked
<1> QED
  BY <1>3, <1>4, <1>5

\* Every step keeps the calls what they are.
LEMMA NextAsked ==
  ASSUME Undisturbed, TypeOK, CallInv, AskedInv, [Next]_vars
  PROVE  AskedInv'
<1>1. /\ worker \in [Callers -> [step : WorkerSteps,
                                object : Objects \cup {NoObject}, copy : Version]]
      /\ DOMAIN call = Callers
  BY DEF TypeOK, WorkerTypeOK, ServiceTypeOK, CallTypeOK
<1>2. ASSUME NEW c \in Callers, UNCHANGED <<now, silences, call>>,
             worker[c].step \notin {"reconcileDelete", "reconcileCreate"} \/
               call[c].step = "none",
             \A d \in Callers \ {c} : worker'[d] = worker[d]
      PROVE  AskedInv'
  <2>1. call[c].step = "none"
    BY <1>2 DEF CallInv, CallOf
  <2> QED
    BY <1>2, <2>1, AskedKept
<1>3. ASSUME NEW o \in Objects, Reconcile(o) PROVE AskedInv'
  <2>1. ServedBy(o) \in Callers
    BY ServedByType
  <2>2. /\ worker[ServedBy(o)].step = "idle" /\ UNCHANGED <<now, silences, call>>
        /\ \A d \in Callers \ {ServedBy(o)} : worker'[d] = worker[d]
    BY <1>1, <1>3 DEF Reconcile, Continue, service, environment
  <2> QED
    BY <1>2, <2>1, <2>2
<1>4. ASSUME NEW c \in Callers, Work(c) PROVE AskedInv'
  <2>1. CASE AddFinalizer(c) \/ RemoveFinalizer(c) \/ CleanUpLegacyFinalizer(c)
    <3>1. /\ worker[c].step \notin {"reconcileDelete", "reconcileCreate"}
          /\ UNCHANGED <<now, silences, call>> /\ (Finish(c) \/ \E o, v : Continue(c, o, v))
      BY <2>1 DEF AddFinalizer, RemoveFinalizer, CleanUpLegacyFinalizer, Update,
                  Requeue, service, environment, Fault
    <3>2. \A d \in Callers \ {c} : worker'[d] = worker[d]
      BY <1>1, <3>1 DEF Finish, Continue
    <3> QED
      BY <1>2, <3>1, <3>2
  <2>2. CASE DeleteReturned(c) \/ SyncReturned(c)
    <3>1. call' = [call EXCEPT ![c] = NoCall] /\ UNCHANGED <<now, silences>>
      BY <2>2 DEF DeleteReturned, SyncReturned, Collect, environment
    <3>2. \A d \in Callers \ {c} : worker'[d] = worker[d]
      BY <1>1, <2>2 DEF DeleteReturned, SyncReturned, Requeue, Finish
    <3>3. call'[c] = NoCall /\ \A d \in Callers \ {c} : call'[d] = call[d]
      BY <1>1, <3>1
    <3> QED
      BY <3>1, <3>2, <3>3, AskedKept
  <2>3. CASE ReconcileDelete(c)
    <3>1. /\ DeleteSilence(c, SilenceComment(worker[c].object), Tenant(worker[c].copy))
          /\ UNCHANGED worker
      BY <2>3 DEF ReconcileDelete
    <3>2. UNCHANGED <<now, silences>>
      BY <3>1 DEF DeleteSilence, environment
    <3>3. \A d \in Callers \ {c} : call'[d] = call[d]
      BY <1>1, <3>1 DEF DeleteSilence
    <3> QED
      BY <3>1, <3>2, <3>3, AskedKept
  <2>4. CASE ReconcileCreate(c)
    <3>1. CASE Requeue(c) /\ UNCHANGED <<environment, service>>
      <4>1. call[c].step = "none" /\ UNCHANGED <<now, silences, call>>
        BY <2>4, <3>1 DEF ReconcileCreate, environment, service
      <4>2. \A d \in Callers \ {c} : worker'[d] = worker[d]
        BY <1>1, <3>1 DEF Requeue, Finish
      <4> QED
        BY <1>2, <4>1, <4>2
    <3>2. CASE /\ SyncSilence(c, getSilenceFromCR(worker[c].object, worker[c].copy.created,
                    worker[c].copy.body.spec), Tenant(worker[c].copy))
               /\ UNCHANGED worker
      <4>1. UNCHANGED <<now, silences>>
        BY <3>2 DEF SyncSilence, environment
      <4>2. \A d \in Callers \ {c} : call'[d] = call[d]
        BY <1>1, <3>2 DEF SyncSilence
      <4> QED
        BY <3>2, <4>1, <4>2, AskedKept
    <3> QED
      BY <2>4, <3>1, <3>2 DEF ReconcileCreate
  <2>5. CASE Request(c) /\ UNCHANGED <<kube, worker>>
    BY <2>5, RequestAsked
  <2> QED
    BY <1>4, <2>1, <2>2, <2>3, <2>4, <2>5 DEF Work
<1>5. CASE Restart
  <2>1. UNCHANGED <<now, silences>> /\ \A c \in Callers : call'[c] = NoCall
    BY <1>5 DEF Restart, Fault
  <2> QED
    BY <2>1, AskedKept
<1>6. CASE KubeSteps \/ UNCHANGED vars
  <2>1. UNCHANGED <<silences, call, worker>>
    BY <1>6 DEF KubeSteps, vars, service
  <2>2. UNCHANGED now
    BY <1>6 DEF KubeSteps, UserWrites, CreateObject, EditObject, DeleteObject, UserActs,
                NamespaceChanges, Deliver, Resync, vars, environment
  <2> QED
    BY <2>1, <2>2, AskedKept
<1>7. CASE AlertmanagerSteps
  BY <1>7, OthersAsked
<1> QED
  BY <1>3, <1>4, <1>5, <1>6, <1>7 DEF Next

---------------------------------------------------------------------------
(* The theorems.                                                            *)

\* Every step leaves the stored objects handled and pending, or attended to.
LEMMA NextPending ==
  ASSUME Undisturbed, Unattended, IInv, QInv, IInv', [Next]_vars
  PROVE  HandledInv' /\ PendingInv'
<1>1. /\ TypeOK /\ KubeInv /\ CallInv /\ SilenceInv
      /\ HandledInv /\ AskedInv /\ PendingInv /\ LegacyObjects = {}
  BY DEF IInv, QInv, Unattended
<1>2. ASSUME UNCHANGED api PROVE HandledInv'
  BY <1>1, <1>2 DEF HandledInv, Handled
<1>3. ASSUME NEW o \in Objects, Reconcile(o) PROVE HandledInv' /\ PendingInv'
  BY <1>1, <1>2, <1>3, ReconcilePending DEF Reconcile
<1>4. ASSUME NEW c \in Callers, Work(c) PROVE HandledInv' /\ PendingInv'
  <2>1. CASE AddFinalizer(c) \/ RemoveFinalizer(c) \/ CleanUpLegacyFinalizer(c)
    BY <1>1, <2>1, UpdatePending
  <2>2. CASE ReconcileDelete(c) \/ DeleteReturned(c) \/ ReconcileCreate(c) \/ SyncReturned(c)
    BY <1>1, <1>2, <2>2, CallPending
  <2>3. CASE Request(c) /\ UNCHANGED <<kube, worker>>
    BY <1>1, <1>2, <2>3, RequestPending DEF kube
  <2> QED
    BY <1>4, <2>1, <2>2, <2>3 DEF Work
<1>5. CASE Restart
  BY <1>1, <1>2, <1>5, RestartPending
<1>6. CASE KubeSteps
  BY <1>1, <1>6, KubePending
<1>7. CASE AlertmanagerSteps
  BY <1>1, <1>2, <1>7, OthersPending
<1>8. CASE UNCHANGED vars
  <2>1. /\ UNCHANGED <<api, watch, queue, worker, call, namespaces>>
        /\ UNCHANGED <<now, silences>>
    BY <1>8 DEF vars, environment, service, kube
  <2>2. ASSUME NEW o \in Objects PROVE Pending(o)' /\ SyncedInv(o)'
    <3>1. Undistracted(o)
      BY <2>1 DEF Undistracted, Busy
    <3>2. now' \in Nat /\ now <= now' /\ Foreign(o)
      BY <1>1, <2>1, SilentForeign DEF Silent
    <3> QED
      BY <1>1, <2>1, <3>1, <3>2, NotConcerned DEF PendingInv
  <2> QED
    BY <1>2, <2>1, <2>2 DEF PendingInv
<1> QED
  BY <1>3, <1>4, <1>5, <1>6, <1>7, <1>8 DEF Next

\* At the beginning there is nothing to do.
LEMMA InitQInv ==
  ASSUME Undisturbed, Unattended, Init
  PROVE  QInv
<1>1. \A o \in Objects : api[o] = Absent
  BY DEF Init, Unattended
<1>2. \A c \in Callers : call[c].step = "none" /\ call[c].now = 0 /\ now = 0
  <2>1. \A c \in Callers : call[c] = NoCall
    BY DEF Init
  <2> QED
    BY <2>1, NoCallFields DEF Init, EnvironmentInit
<1>3. HandledInv
  BY <1>1 DEF HandledInv, Handled, Absent
<1>4. AskedInv
  BY <1>2 DEF AskedInv, Formed, Named, Asked
<1>5. PendingInv
  <2>1. \A o \in Objects : ~Served(o)
    BY <1>1 DEF Served, Absent
  <2>2. \A o \in Objects : call[ServedBy(o)].step # "ok"
    BY <1>2, ServedByType
  <2> QED
    BY <2>1, <2>2 DEF PendingInv, Pending, SyncedInv
<1> QED
  BY <1>3, <1>4, <1>5 DEF QInv

(* QuiescentMirrored: when nothing is left to do, nothing is left undone -  *)
(* through crashes, lost replies, refused requests, conflicts and stale     *)
(* caches, for any objects, contents and bounds, and without waiting for a  *)
(* resync, every object that the selectors pass and Reconcile can convert   *)
(* is mirrored in Alertmanager and none is stuck in its deletion.           *)
THEOREM NothingLeftUndone ==
  ASSUME Undisturbed, Unattended
  PROVE  Spec => []QuiescentMirrored
<1>1. Init => IInv /\ QInv
  <2>1. Init => CallInv
    <3>1. NoCall.step = "none"
      BY NoCallFields
    <3> QED
      BY <3>1 DEF Init, CallInv, CallOf
  <2> QED
    BY <2>1, InitType, InitKubeInv, InitSilenceInv, InitQInv DEF IInv
<1>2. IInv /\ QInv /\ [Next]_vars => (IInv /\ QInv)'
  <2> SUFFICES ASSUME IInv, QInv, [Next]_vars PROVE IInv' /\ QInv'
    OBVIOUS
  <2>1. IInv'
    BY NextType, NextKubeInv, NextCallInv, NextSilenceInv DEF IInv
  <2>2. AskedInv'
    BY NextAsked DEF IInv, QInv
  <2> QED
    BY <2>1, <2>2, NextPending DEF QInv
<1>3. QInv => QuiescentMirrored
  <2> SUFFICES ASSUME QInv, Quiescent, NEW o \in Objects, Served(o)
               PROVE  ~api[o].deleting /\ Mirrored(o)
    BY DEF QuiescentMirrored
  <2>1. o \notin queue /\ api[o] \notin watch[o]
    BY DEF Quiescent
  <2>2. ~Busy(o)
    BY ServedByType DEF Quiescent, Busy, Idle
  <2> QED
    BY <2>1, <2>2 DEF QInv, PendingInv, Pending, Attended
<1> QED
  BY <1>1, <1>2, <1>3, PTL DEF Spec
=============================================================================
