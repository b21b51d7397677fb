---------------------- MODULE SilenceControllerSafety ----------------------
(* Why no silence is left behind, for any objects, contents, silences,      *)
(* failures and bounds: the layers of IInv, one after the other.            *)
EXTENDS SilenceControllerProofs, SequenceTheorems

---------------------------------------------------------------------------
(* Layer one: the versions of an object.                                    *)

LayerOne(o) == VersionInv(o) /\ StepInv(o) /\ FinalizerInv(o)

\* Versions and workers as Kubernetes and the workqueue hand them out.
KubeOK == KubeTypeOK /\ WorkerTypeOK /\ Validated /\ Assigned

\* Of an object that nobody touched, everything is as it was.
LEMMA SameView ==
  ASSUME NEW o \in Objects, LayerOne(o),
         api'[o] = api[o], cache'[o] = cache[o], watch'[o] = watch[o],
         Busy(o)' => Busy(o) /\ worker'[ServedBy(o)] = worker[ServedBy(o)]
  PROVE  LayerOne(o)'
<1>1. Seen(o)' \subseteq Seen(o)
  BY DEF Seen, Copy
<1>2. VersionInv(o)'
  BY <1>1 DEF LayerOne, VersionInv, Copy
<1>3. StepInv(o)'
  BY DEF LayerOne, StepInv, Copy
<1>4. FinalizerInv(o)'
  BY <1>1 DEF LayerOne, FinalizerInv, Holds
<1> QED
  BY <1>2, <1>3, <1>4 DEF LayerOne

\* Seen versions are versions.
LEMMA SeenType ==
  ASSUME KubeOK, NEW o \in Objects
  PROVE  Seen(o) \subseteq Version
  BY ServedByType DEF KubeOK, KubeTypeOK, WorkerTypeOK, Seen, Copy

\* A write: the new version is the newest, and no copy of a worker that
\* changes with it is taken for one read from the cache.
LEMMA WriteVersionInv ==
  ASSUME KubeOK, NEW o \in Objects, VersionInv(o), NEW v \in Version, Write(o, v),
         UNCHANGED cache,
         Busy(o)' =>
           \/ Busy(o) /\ worker'[ServedBy(o)] = worker[ServedBy(o)]
           \/ /\ Copy(o)' = Persisted(o, v)
              /\ worker'[ServedBy(o)].step \notin
                   {"reconcileDelete", "removeFinalizer", "addFinalizer"}
  PROVE  VersionInv(o)'
<1> DEFINE w == Persisted(o, v)
<1>1. /\ api'[o] = w /\ watch'[o] = watch[o] \cup {w} /\ cache'[o] = cache[o]
      /\ w \in Version /\ w.rv = api[o].rv + 1
  BY PersistedType DEF Write, KubeOK, KubeTypeOK
<1> HIDE DEF w
<1>2. Seen(o)' \subseteq Seen(o) \cup {w}
  BY <1>1 DEF Seen, Copy, w
<1>3. \A x \in Seen(o) : x.rv \in Nat /\ x.rv <= api[o].rv
  BY SeenType DEF VersionInv, Version
<1>4. api[o].rv \in Nat /\ w.rv \in Nat
  BY <1>1, <1>3 DEF Seen
<1>5. \A x \in Seen(o) : x.rv < w.rv
  BY <1>1, <1>3, <1>4
<1>6. cache[o] \in Seen(o) /\ watch[o] \subseteq Seen(o)
  BY DEF Seen
<1>7. /\ \A x \in watch'[o] : cache'[o].rv < x.rv
      /\ \A x, y \in watch'[o] : x.rv = y.rv => x = y
  <2>1. \A x \in watch'[o] : cache'[o].rv < x.rv
    BY <1>1, <1>5, <1>6 DEF VersionInv
  <2>2. ASSUME NEW x \in watch'[o], NEW y \in watch'[o], x.rv = y.rv
        PROVE  x = y
    <3>1. CASE x \in watch[o] /\ y \in watch[o]
      BY <2>2, <3>1 DEF VersionInv
    <3>2. ASSUME NEW z \in watch[o] PROVE z.rv # w.rv
      BY <1>3, <1>4, <1>5, <1>6
    <3> QED
      BY <1>1, <2>2, <3>1, <3>2
  <2> QED
    BY <2>1, <2>2
<1>8. \A x \in Seen(o)' : x.rv <= api'[o].rv /\ (x.rv = api'[o].rv => x = api'[o])
  <2> TAKE x \in Seen(o)'
  <2>1. CASE x = w
    BY <1>1, <1>4, <2>1
  <2>2. CASE x \in Seen(o)
    BY <1>1, <1>3, <1>4, <1>5, <2>2
  <2> QED
    BY <1>2, <2>1, <2>2
<1>9. Busy(o)' /\ worker'[ServedBy(o)].step \in
        {"reconcileDelete", "removeFinalizer", "addFinalizer"}
        => Copy(o)'.rv <= cache'[o].rv
  BY <1>1 DEF VersionInv, Copy
<1> QED
  BY <1>1, <1>7, <1>8, <1>9 DEF VersionInv

\* A write keeps what others may rely on, if the new version still holds the
\* finalizer, with the same tenant, for everyone who saw the object with it.
LEMMA WriteFinalizerInv ==
  ASSUME KubeOK, NEW o \in Objects, NEW v \in Version, Write(o, v), UNCHANGED cache,
         Busy(o)' => \/ Busy(o) /\ worker'[ServedBy(o)] = worker[ServedBy(o)]
                     \/ Copy(o)' = Persisted(o, v),
         \A x \in Seen(o) : Holds(x) =>
           /\ x.deleting \/ Holds(Persisted(o, v))
           /\ Holds(Persisted(o, v)) => Tenant(x) = Tenant(v)
  PROVE  FinalizerInv(o)'
<1> DEFINE w == Persisted(o, v)
<1>1. /\ api'[o] = w /\ watch'[o] = watch[o] \cup {w} /\ cache'[o] = cache[o]
      /\ w.body = v.body
  BY PersistedType DEF Write, KubeOK, KubeTypeOK
<1>2. Seen(o)' \subseteq Seen(o) \cup {w}
  BY <1>1 DEF Seen, Copy
<1> HIDE DEF w
<1>3. \A x \in Seen(o) \cup {w} : Holds(x) =>
        /\ x.deleting \/ Holds(w)
        /\ Holds(w) => Tenant(x) = Tenant(w)
  BY <1>1 DEF w, Tenant
<1>4. \A x \in Seen(o)' : Holds(x) =>
        /\ x.deleting \/ Holds(api'[o])
        /\ Holds(api'[o]) => Tenant(x) = Tenant(api'[o])
  BY <1>1, <1>2, <1>3
<1> QED
  BY <1>4 DEF FinalizerInv, Holds

\* A user's write: the finalizers and the tenant of a stored object stay.
LEMMA UserWriteKubeInv ==
  ASSUME TypeOK, KubeInv, Undisturbed, UserWrites, UNCHANGED worker
  PROVE  KubeInv'
<1>1. PICK o \in Objects, v \in Version :
        /\ Valid(o, v) /\ v.exists /\ Write(o, v)
        /\ UNCHANGED <<cache, queue>>
        /\ \/ ~api[o].exists /\ v.finalizers = {}
           \/ /\ api[o].exists /\ v.finalizers = api[o].finalizers
              /\ Tenant(v) = Tenant(api[o])
  BY UserWriteCases DEF Undisturbed
<1>2. KubeOK
  BY DEF KubeOK, TypeOK
<1> SUFFICES ASSUME NEW p \in Objects PROVE LayerOne(p)'
  BY DEF KubeInv, LayerOne
<1>3. LayerOne(p) /\ LayerOne(o)
  BY DEF KubeInv, LayerOne
<1>4. CASE p # o
  BY <1>1, <1>3, <1>4, SameView DEF Write, TypeOK, KubeTypeOK, Busy
<1>5. CASE p = o
  <2> DEFINE w == Persisted(o, v)
  <2>1. /\ w.finalizers = v.finalizers
        /\ w.exists = ~(v.deleting /\ v.finalizers = {})
    BY PersistedType DEF TypeOK, KubeTypeOK
  <2> HIDE DEF w
  <2>2. Busy(o)' => Busy(o) /\ worker'[ServedBy(o)] = worker[ServedBy(o)]
    BY DEF Busy
  <2>3. \A x \in Seen(o) : Holds(x) =>
          /\ x.deleting \/ Holds(w)
          /\ Holds(w) => Tenant(x) = Tenant(v)
    <3> TAKE x \in Seen(o)
    <3> HAVE Holds(x)
    <3>1. /\ x.deleting \/ Holds(api[o])
          /\ Holds(api[o]) => Tenant(x) = Tenant(api[o])
      BY <1>3 DEF LayerOne, FinalizerInv
    <3>2. Holds(w) <=> Holds(api[o])
      BY <1>1, <2>1 DEF Holds
    <3> QED
      BY <1>1, <3>1, <3>2 DEF Holds
  <2>4. VersionInv(o)'
    BY <1>1, <1>2, <1>3, <2>2, WriteVersionInv DEF LayerOne
  <2>5. FinalizerInv(o)'
    BY <1>1, <1>2, <2>2, <2>3, WriteFinalizerInv DEF w
  <2>6. StepInv(o)'
    BY <1>3, <2>2 DEF LayerOne, StepInv, Copy
  <2> QED
    BY <1>5, <2>4, <2>5, <2>6 DEF LayerOne
<1> QED
  BY <1>4, <1>5

\* A worker whose first update succeeds is up to date, and so is everybody.
LEMMA UpToDate ==
  ASSUME TypeOK, NEW o \in Objects, VersionInv(o), Busy(o), Copy(o).rv = api[o].rv,
         worker[ServedBy(o)].step \in {"removeFinalizer", "addFinalizer"}
  PROVE  Seen(o) = {api[o]}
<1>1. \A x \in Seen(o) : /\ x.rv \in Nat /\ x.rv <= api[o].rv
                         /\ x.rv = api[o].rv => x = api[o]
  <2>1. Seen(o) \subseteq Version
    BY SeenType DEF KubeOK, TypeOK
  <2> QED
    BY <2>1 DEF VersionInv, Version
<1>2. cache[o] \in Seen(o) /\ Copy(o) \in Seen(o) /\ watch[o] \subseteq Seen(o)
      /\ api[o] \in Seen(o)
  BY DEF Seen
<1>3. cache[o].rv = api[o].rv
  BY <1>1, <1>2 DEF VersionInv
<1>4. watch[o] = {}
  <2> SUFFICES ASSUME NEW x \in watch[o] PROVE FALSE
    OBVIOUS
  <2>1. cache[o].rv < x.rv
    BY DEF VersionInv
  <2> QED
    BY <1>1, <1>2, <1>3, <2>1
<1> QED
  BY <1>1, <1>2, <1>3, <1>4 DEF Seen

\* What the worker does next after an update, and who still holds the object.
LEMMA UpdateSteps ==
  ASSUME TypeOK, NEW c \in Callers,
         NEW o \in Objects, o = worker[c].object, StepInv(o), Busy(o), ServedBy(o) = c,
         NEW F, NEW v \in Version, v = [worker[c].copy EXCEPT !.finalizers = F],
         \/ worker[c].step = "addFinalizer" /\ F = Copy(o).finalizers \cup {SilenceFinalizer}
         \/ worker[c].step = "removeFinalizer" /\ F = Copy(o).finalizers \ {SilenceFinalizer}
         \/ /\ worker[c].step = "cleanUpLegacyFinalizer"
            /\ F = Copy(o).finalizers \ {LegacyFinalizer}
  PROVE  LET w == Persisted(o, v) IN
         /\ w.body = Copy(o).body
         /\ w.deleting = Copy(o).deleting
         /\ NextStep(o, w) \notin {"reconcileDelete", "removeFinalizer", "addFinalizer"}
         /\ Copy(o).exists
         /\ \/ /\ worker[c].step \in {"addFinalizer", "removeFinalizer"}
               /\ worker[c].step = "addFinalizer" => ~Holds(Copy(o)) /\ Holds(w)
               /\ worker[c].step = "removeFinalizer" => ~Holds(w) /\ Copy(o).deleting
            \/ /\ worker[c].step = "cleanUpLegacyFinalizer"
               /\ Holds(w) <=> Holds(Copy(o))
<1> DEFINE w == Persisted(o, v)
           x == Copy(o)
<1>1. x \in Version /\ x.exists /\ x = worker[c].copy
  BY DEF TypeOK, WorkerTypeOK, Copy, Assigned, Busy
<1>2. /\ v.body = x.body /\ v.deleting = x.deleting /\ v.finalizers = F
  BY <1>1 DEF Version
<1>3. /\ w.body = v.body /\ w.finalizers = F /\ w.deleting = x.deleting
      /\ w.exists = ~(x.deleting /\ F = {})
  <2>1. api \in [Objects -> Version]
    BY DEF TypeOK, KubeTypeOK
  <2> HIDE DEF x
  <2>2. /\ w.body = v.body /\ w.finalizers = v.finalizers /\ w.deleting = v.deleting
        /\ w.exists = ~(v.deleting /\ v.finalizers = {})
    BY <2>1, PersistedType
  <2> QED
    BY <1>2, <2>2
<1>4. x.deleting \in BOOLEAN
  BY <1>1 DEF Version
<1> HIDE DEF w, x
<1>5. \/ worker[c].step = NextStep(o, x)
      \/ worker[c].step = "removeFinalizer" /\ NextStep(o, x) = "reconcileDelete"
  BY DEF StepInv, x
<1>6. CASE worker[c].step = "addFinalizer"
  <2>1. ~x.deleting /\ SilenceFinalizer \notin x.finalizers
    BY <1>4, <1>5, <1>6 DEF NextStep
  <2>2. F = x.finalizers \cup {SilenceFinalizer}
    BY <1>6 DEF x
  <2>3. NextStep(o, w) \notin {"reconcileDelete", "removeFinalizer", "addFinalizer"}
    BY <1>3, <2>1, <2>2 DEF NextStep
  <2> QED
    BY <1>1, <1>2, <1>3, <1>6, <2>1, <2>2, <2>3 DEF Holds, w, x
<1>7. CASE worker[c].step = "removeFinalizer"
  <2>1. x.deleting
    BY <1>4, <1>5, <1>7 DEF NextStep
  <2>2. F = x.finalizers \ {SilenceFinalizer}
    BY <1>7 DEF x
  <2>3. NextStep(o, w) \notin {"reconcileDelete", "removeFinalizer", "addFinalizer"}
    BY <1>3, <2>1, <2>2 DEF NextStep
  <2> QED
    BY <1>1, <1>2, <1>3, <1>7, <2>1, <2>2, <2>3 DEF Holds, w, x
<1>8. CASE worker[c].step = "cleanUpLegacyFinalizer"
  <2>1. \/ x.deleting /\ SilenceFinalizer \notin x.finalizers
        \/ ~x.deleting /\ SilenceFinalizer \in x.finalizers
    BY <1>4, <1>5, <1>8 DEF NextStep
  <2>2. F = x.finalizers \ {LegacyFinalizer}
    BY <1>8 DEF x
  <2>3. SilenceFinalizer # LegacyFinalizer
    BY DEF SilenceFinalizer, LegacyFinalizer
  <2>4. SilenceFinalizer \in F <=> SilenceFinalizer \in x.finalizers
    BY <2>2, <2>3
  <2>5. NextStep(o, w) \notin {"reconcileDelete", "removeFinalizer", "addFinalizer"}
    BY <1>3, <2>1, <2>4 DEF NextStep
  <2> QED
    BY <1>1, <1>2, <1>3, <1>8, <2>1, <2>4, <2>5 DEF Holds, w, x
<1> QED
  BY <1>6, <1>7, <1>8

\* The three updates of the finalizers, whatever becomes of them.
LEMMA UpdateKubeInv ==
  ASSUME TypeOK, KubeInv, NEW c \in Callers,
         AddFinalizer(c) \/ RemoveFinalizer(c) \/ CleanUpLegacyFinalizer(c)
  PROVE  KubeInv'
<1>1. PICK F :
        /\ Update(c, F)
        /\ \/ worker[c].step = "addFinalizer"
              /\ F = worker[c].copy.finalizers \cup {SilenceFinalizer}
           \/ worker[c].step = "removeFinalizer"
              /\ F = worker[c].copy.finalizers \ {SilenceFinalizer}
           \/ worker[c].step = "cleanUpLegacyFinalizer"
              /\ F = worker[c].copy.finalizers \ {LegacyFinalizer}
  BY DEF AddFinalizer, RemoveFinalizer, CleanUpLegacyFinalizer
<1>2. worker[c].step # "idle" /\ F \subseteq Finalizers
  <2>1. worker[c].copy.finalizers \subseteq Finalizers
    BY DEF TypeOK, WorkerTypeOK, Version
  <2> QED
    BY <1>1, <2>1 DEF Finalizers
<1>3. PICK o \in Objects : o = worker[c].object
  BY <1>2, CopyType
<1>4. PICK v \in Version : v = [worker[c].copy EXCEPT !.finalizers = F]
  BY <1>2, CopyType
<1>5. PICK w : w = Persisted(o, v)
  OBVIOUS
<1>6. /\ ServedBy(o) = c /\ Busy(o)
      /\ v.rv = worker[c].copy.rv
  BY <1>2, <1>3, <1>4, CopyType
<1>7. /\ UNCHANGED cache
      /\ \/ /\ Current(o, v) /\ Write(o, v)
            /\ Continue(c, o, w) \/ Finish(c)
         \/ Finish(c) /\ UNCHANGED <<api, watch>>
  BY <1>1, <1>3, <1>4, <1>5, UpdateCases DEF Requeue
<1>8. Copy(o) = worker[c].copy
  BY <1>6 DEF Copy
<1>9. LayerOne(o) /\ KubeOK
  BY <1>6 DEF KubeInv, LayerOne, KubeOK, TypeOK
<1>10. /\ w.body = Copy(o).body
      /\ w.deleting = Copy(o).deleting
      /\ NextStep(o, w) \notin {"reconcileDelete", "removeFinalizer", "addFinalizer"}
      /\ Copy(o).exists
      /\ \/ /\ worker[c].step \in {"addFinalizer", "removeFinalizer"}
            /\ worker[c].step = "addFinalizer" => ~Holds(Copy(o)) /\ Holds(w)
            /\ worker[c].step = "removeFinalizer" => ~Holds(w) /\ Copy(o).deleting
         \/ /\ worker[c].step = "cleanUpLegacyFinalizer"
            /\ Holds(w) <=> Holds(Copy(o))
  BY <1>1, <1>6, <1>8, <1>9, <1>3, <1>4, <1>5, UpdateSteps DEF LayerOne
<1>11. v.body = Copy(o).body
  BY <1>8, <1>4 DEF TypeOK, WorkerTypeOK, Version
<1> SUFFICES ASSUME NEW p \in Objects PROVE LayerOne(p)'
  BY DEF KubeInv, LayerOne
<1>12. LayerOne(p)
  BY DEF KubeInv, LayerOne
<1>13. Busy(p)' =>
         \/ Busy(p) /\ ServedBy(p) # c /\ worker'[ServedBy(p)] = worker[ServedBy(p)]
         \/ /\ p = o /\ Write(o, v)
            /\ worker'[ServedBy(p)] = [step |-> NextStep(o, w), object |-> o, copy |-> w]
  BY <1>6, <1>7, FinishBusy, ContinueBusy DEF TypeOK
<1>14. CASE UNCHANGED <<api, watch>> /\ Finish(c)
  BY <1>6, <1>7, <1>12, <1>14, FinishBusy, SameView DEF TypeOK
<1>15. CASE Current(o, v) /\ Write(o, v)
  <2>1. CASE p # o
    BY <1>7, <1>12, <1>13, <1>15, <2>1, SameView DEF Write, TypeOK, KubeTypeOK
  <2>2. CASE p = o
    <3>1. Copy(o) = api[o]
      <4>1. Copy(o) \in Seen(o) /\ Copy(o).rv = api[o].rv
        BY <1>6, <1>8, <1>15 DEF Seen, Current
      <4> QED
        BY <1>9, <4>1 DEF LayerOne, VersionInv
    <3>2. Busy(o)' =>
            worker'[ServedBy(o)] = [step |-> NextStep(o, w), object |-> o, copy |-> w]
      BY <1>6, <1>13, <2>2
    <3>3. Busy(o)' => Copy(o)' = w /\ worker'[ServedBy(o)].step = NextStep(o, w)
      BY <3>2 DEF Copy
    <3>4. VersionInv(o)'
      BY <1>6, <1>7, <1>9, <1>10, <1>15, <3>3, <1>5, WriteVersionInv DEF LayerOne
    <3>5. \A x \in Seen(o) : Holds(x) =>
            /\ x.deleting \/ Holds(w)
            /\ Holds(w) => Tenant(x) = Tenant(v)
      <4> TAKE x \in Seen(o)
      <4> HAVE Holds(x)
      <4>1. CASE worker[c].step \in {"addFinalizer", "removeFinalizer"}
        <5>1. Seen(o) = {api[o]}
          BY <1>6, <1>9, <3>1, <4>1, UpToDate DEF LayerOne
        <5> QED
          BY <1>10, <1>11, <3>1, <4>1, <5>1
      <4>2. CASE worker[c].step = "cleanUpLegacyFinalizer"
        <5>1. /\ x.deleting \/ Holds(api[o])
              /\ Holds(api[o]) => Tenant(x) = Tenant(api[o])
          BY <1>9 DEF LayerOne, FinalizerInv
        <5> QED
          BY <1>10, <1>11, <3>1, <4>2, <5>1 DEF Tenant
      <4> QED
        BY <1>10, <4>1, <4>2
    <3>6. FinalizerInv(o)'
      BY <1>6, <1>7, <1>9, <1>15, <3>3, <3>5, <1>5, WriteFinalizerInv
    <3>7. StepInv(o)'
      BY <3>3 DEF StepInv
    <3> QED
      BY <2>2, <3>4, <3>6, <3>7 DEF LayerOne
  <2> QED
    BY <2>1, <2>2
<1> QED
  BY <1>7, <1>14, <1>15

\* The informer is told of the oldest version it does not know.
LEMMA DeliverKubeInv ==
  ASSUME TypeOK, KubeInv, NEW o \in Objects, Deliver(o), UNCHANGED worker
  PROVE  KubeInv'
<1>1. PICK v \in watch[o] : /\ \A w \in watch[o] : v.rv <= w.rv
                            /\ cache' = [cache EXCEPT ![o] = v]
                            /\ watch' = [watch EXCEPT ![o] = @ \ {v}]
                            /\ UNCHANGED api
  BY DEF Deliver
<1> SUFFICES ASSUME NEW p \in Objects PROVE LayerOne(p)'
  BY DEF KubeInv, LayerOne
<1>2. LayerOne(p) /\ KubeOK
  BY DEF KubeInv, LayerOne, KubeOK, TypeOK
<1>3. CASE p # o
  BY <1>1, <1>2, <1>3, SameView DEF TypeOK, KubeTypeOK, Busy
<1>4. CASE p = o
  <2>1. /\ cache'[o] = v /\ watch'[o] = watch[o] \ {v} /\ api'[o] = api[o]
        /\ Busy(o)' <=> Busy(o)
        /\ Copy(o)' = Copy(o)
    BY <1>1 DEF TypeOK, KubeTypeOK, Busy, Copy
  <2>2. Seen(o)' \subseteq Seen(o)
    BY <2>1 DEF Seen
  <2>3. \A x \in Seen(o) : x.rv \in Nat
    BY <1>2, SeenType DEF Version
  <2>4. cache[o] \in Seen(o) /\ watch[o] \subseteq Seen(o) /\ api[o] \in Seen(o)
        /\ (Busy(o) => Copy(o) \in Seen(o))
    BY DEF Seen
  <2>5. cache[o].rv < v.rv /\ v.rv <= api[o].rv
    BY <1>2, <1>4, <2>4 DEF LayerOne, VersionInv
  <2>6. VersionInv(o)'
    <3>1. api'[o] \in {cache'[o]} \cup watch'[o]
      <4>1. api[o] \in watch[o]
        BY <1>2, <1>4, <2>3, <2>4, <2>5 DEF LayerOne, VersionInv
      <4> QED
        BY <2>1, <4>1
    <3>2. \A x \in watch'[o] : cache'[o].rv < x.rv
      <4> TAKE x \in watch'[o]
      <4>1. x \in watch[o] /\ x # v /\ v.rv <= x.rv
        BY <1>1, <2>1
      <4>2. x.rv # v.rv
        BY <1>2, <1>4, <4>1 DEF LayerOne, VersionInv
      <4> QED
        BY <2>1, <2>3, <2>4, <4>1, <4>2
    <3>3. Busy(o)' /\ worker'[ServedBy(o)].step \in
            {"reconcileDelete", "removeFinalizer", "addFinalizer"}
            => Copy(o)'.rv <= cache'[o].rv
      <4> HAVE Busy(o)' /\ worker'[ServedBy(o)].step \in
                 {"reconcileDelete", "removeFinalizer", "addFinalizer"}
      <4>1. Busy(o) /\ Copy(o).rv <= cache[o].rv
        BY <1>2, <1>4, <2>1 DEF LayerOne, VersionInv
      <4> QED
        BY <2>1, <2>3, <2>4, <2>5, <4>1
    <3> QED
      BY <1>2, <1>4, <2>1, <2>2, <3>1, <3>2, <3>3 DEF LayerOne, VersionInv
  <2>7. StepInv(o)'
    BY <1>2, <1>4, <2>1 DEF LayerOne, StepInv
  <2>8. FinalizerInv(o)'
    BY <1>2, <1>4, <2>1, <2>2 DEF LayerOne, FinalizerInv, Holds
  <2> QED
    BY <1>4, <2>6, <2>7, <2>8 DEF LayerOne
<1> QED
  BY <1>3, <1>4

\* While no version moves, a worker may give its object up.
LEMMA QuietKubeInv ==
  ASSUME KubeInv, UNCHANGED <<api, watch, cache>>,
         \A p \in Objects : Busy(p)' => /\ Busy(p)
                                        /\ worker'[ServedBy(p)] = worker[ServedBy(p)]
  PROVE  KubeInv'
<1> SUFFICES ASSUME NEW p \in Objects PROVE LayerOne(p)'
  BY DEF KubeInv, LayerOne
<1>1. LayerOne(p)
  BY DEF KubeInv, LayerOne
<1> QED
  BY <1>1, SameView

\* A reconcile starts with the version in the cache.
LEMMA ReconcileKubeInv ==
  ASSUME TypeOK, KubeInv, NEW o \in Objects, Reconcile(o)
  PROVE  KubeInv'
<1>1. UNCHANGED <<api, watch, cache>>
  BY DEF Reconcile
<1>2. CASE UNCHANGED worker
  BY <1>1, <1>2, QuietKubeInv DEF Busy
<1>3. CASE Continue(ServedBy(o), o, cache[o])
  <2> SUFFICES ASSUME NEW p \in Objects PROVE LayerOne(p)'
    BY DEF KubeInv, LayerOne
  <2>1. LayerOne(p) /\ LayerOne(o) /\ KubeOK
    BY DEF KubeInv, LayerOne, KubeOK, TypeOK
  <2>2. \/ /\ p = o
           /\ worker'[ServedBy(p)] = [step |-> NextStep(o, cache[o]), object |-> o,
                                      copy |-> cache[o]]
        \/ Busy(p) /\ worker'[ServedBy(p)] = worker[ServedBy(p)]
        \/ ~Busy(p)'
    BY <1>3, ContinueBusy DEF TypeOK
  <2>3. CASE Busy(p)' => Busy(p) /\ worker'[ServedBy(p)] = worker[ServedBy(p)]
    BY <1>1, <2>1, <2>3, SameView
  <2>4. CASE p = o /\ worker'[ServedBy(p)] = [step |-> NextStep(o, cache[o]),
                                              object |-> o, copy |-> cache[o]]
    <3>1. worker'[ServedBy(o)].step = NextStep(o, cache[o]) /\ Copy(o)' = cache[o]
      BY <2>4 DEF Copy
    <3>2. Seen(o)' \subseteq Seen(o)
      BY <1>1, <3>1 DEF Seen
    <3>3. cache[o].rv \in Nat
      BY <2>1 DEF KubeOK, KubeTypeOK, Version
    <3>4. VersionInv(o)'
      BY <1>1, <2>1, <3>1, <3>2, <3>3 DEF LayerOne, VersionInv
    <3>5. StepInv(o)'
      BY <3>1 DEF StepInv
    <3>6. FinalizerInv(o)'
      BY <1>1, <2>1, <3>2 DEF LayerOne, FinalizerInv, Holds
    <3> QED
      BY <2>4, <3>4, <3>5, <3>6 DEF LayerOne
  <2> QED
    BY <2>2, <2>3, <2>4
<1> QED
  BY <1>2, <1>3 DEF Reconcile

\* Taking the result of a call, a worker gives its object up or goes on to
\* remove the finalizer.
LEMMA ReturnedKubeInv ==
  ASSUME TypeOK, KubeInv, NEW c \in Callers,
         DeleteReturned(c) \/ SyncReturned(c)
  PROVE  KubeInv'
<1>1. UNCHANGED <<api, watch, cache>>
  BY DEF DeleteReturned, SyncReturned, kube
<1>2. CASE Finish(c)
  BY <1>1, <1>2, FinishBusy, QuietKubeInv DEF TypeOK
<1>3. CASE /\ worker[c].step = "reconcileDelete"
           /\ worker' = [worker EXCEPT ![c].step = "removeFinalizer"]
  <2> SUFFICES ASSUME NEW p \in Objects PROVE LayerOne(p)'
    BY DEF KubeInv, LayerOne
  <2>1. LayerOne(p) /\ ServedBy(p) \in Callers
    BY ServedByType DEF KubeInv, LayerOne
  <2>2. CASE ServedBy(p) # c \/ ~Busy(p)
    BY <1>1, <1>3, <2>1, <2>2, SameView DEF TypeOK, WorkerTypeOK, Busy
  <2>3. CASE ServedBy(p) = c /\ Busy(p)
    <3>1. /\ worker'[c].step = "removeFinalizer" /\ Busy(p)'
          /\ Copy(p)' = Copy(p)
      BY <1>3, <2>3 DEF TypeOK, WorkerTypeOK, Busy, Copy
    <3>2. Seen(p)' = Seen(p)
      BY <1>1, <2>3, <3>1 DEF Seen
    <3>3. VersionInv(p)'
      BY <1>1, <1>3, <2>1, <2>3, <3>1, <3>2 DEF LayerOne, VersionInv
    <3>4. NextStep(p, Copy(p)) = "reconcileDelete"
      BY <1>3, <2>1, <2>3 DEF LayerOne, StepInv
    <3>5. StepInv(p)'
      BY <2>3, <3>1, <3>4 DEF StepInv
    <3>6. FinalizerInv(p)'
      BY <1>1, <2>1, <3>2 DEF LayerOne, FinalizerInv, Holds
    <3> QED
      BY <3>3, <3>5, <3>6 DEF LayerOne
  <2> QED
    BY <2>2, <2>3
<1> QED
  BY <1>2, <1>3 DEF DeleteReturned, SyncReturned, Requeue

\* A new process, and the initial state, know exactly what is stored.
LEMMA RestartKubeInv ==
  ASSUME TypeOK, KubeInv, Restart
  PROVE  KubeInv'
<1> SUFFICES ASSUME NEW o \in Objects PROVE LayerOne(o)'
  BY DEF KubeInv, LayerOne
<1>1. ~Busy(o)' /\ cache' = api /\ UNCHANGED api /\ watch'[o] = {}
  BY ServedByType DEF Restart, Relist, Busy, Idle
<1>2. Seen(o)' = {api'[o]} /\ api'[o].rv \in Nat
  BY <1>1 DEF Seen, TypeOK, KubeTypeOK, Version
<1>3. VersionInv(o)'
  BY <1>1, <1>2 DEF VersionInv
<1>4. StepInv(o)' /\ FinalizerInv(o)'
  BY <1>1, <1>2 DEF StepInv, FinalizerInv, Holds
<1> QED
  BY <1>3, <1>4 DEF LayerOne

\* In the beginning the cache is what is stored.
LEMMA InitKubeInv == Init => KubeInv
<1> SUFFICES ASSUME Init, NEW o \in Objects PROVE LayerOne(o)
  BY DEF KubeInv, LayerOne
<1>1. ~Busy(o) /\ cache = api /\ watch[o] = {}
  BY ServedByType DEF Init, Busy, Idle
<1>2. Seen(o) = {api[o]} /\ api[o].rv \in Nat
  BY <1>1, InitType DEF Seen, TypeOK, KubeTypeOK, Version
<1>3. VersionInv(o)
  BY <1>1, <1>2 DEF VersionInv
<1>4. StepInv(o) /\ FinalizerInv(o)
  BY <1>1, <1>2 DEF StepInv, FinalizerInv, Holds
<1> QED
  BY <1>3, <1>4 DEF LayerOne

\* Every step keeps what the operator knows of the versions.
LEMMA NextKubeInv ==
  ASSUME Undisturbed, TypeOK, KubeInv, [Next]_vars
  PROVE  KubeInv'
<1>1. ASSUME UNCHANGED <<api, watch, cache, worker>> PROVE KubeInv'
  BY <1>1, QuietKubeInv DEF Busy
<1>2. ASSUME NEW o \in Objects, Reconcile(o) PROVE KubeInv'
  BY <1>2, ReconcileKubeInv
<1>3. ASSUME NEW c \in Callers, Work(c) PROVE KubeInv'
  <2>1. ASSUME ReconcileCreate(c) PROVE KubeInv'
    <3>1. UNCHANGED <<api, watch, cache>> /\ (Finish(c) \/ UNCHANGED worker)
      BY <2>1 DEF ReconcileCreate, Requeue, kube
    <3>2. CASE Finish(c)
      BY <3>1, <3>2, FinishBusy, QuietKubeInv DEF TypeOK
    <3> QED
      BY <1>1, <3>1, <3>2
  <2>2. ASSUME ReconcileDelete(c) \/ (Request(c) /\ UNCHANGED <<kube, worker>>)
        PROVE  KubeInv'
    BY <1>1, <2>2 DEF ReconcileDelete, kube
  <2> QED
    BY <1>3, <2>1, <2>2, UpdateKubeInv, ReturnedKubeInv DEF Work
<1>4. CASE Restart
  BY <1>4, RestartKubeInv
<1>5. CASE KubeSteps
  <2>1. ASSUME NEW o \in Objects, Resync(o) PROVE KubeInv'
    BY <1>1, <1>5, <2>1 DEF KubeSteps, Resync
  <2>2. ASSUME UNCHANGED kube PROVE KubeInv'
    BY <1>1, <1>5, <2>2 DEF KubeSteps, kube
  <2> QED
    BY <1>5, <2>1, <2>2, UserWriteKubeInv, DeliverKubeInv DEF KubeSteps
<1>6. CASE AlertmanagerSteps
  BY <1>1, <1>6 DEF AlertmanagerSteps, kube
<1>7. CASE UNCHANGED vars
  BY <1>1, <1>7 DEF vars, kube
<1> QED
  BY <1>2, <1>3, <1>4, <1>5, <1>6, <1>7 DEF Next

---------------------------------------------------------------------------
(* Layer two: the calls.                                                    *)

\* A worker without a call may change, and a call may end.
LEMMA SameCalls ==
  ASSUME CallInv,
         \A c \in Callers : \/ call'[c].step = "none"
                            \/ call'[c] = call[c] /\ worker'[c] = worker[c]
  PROVE  CallInv'
<1> SUFFICES ASSUME NEW c \in Callers PROVE CallOf(c)'
  BY DEF CallInv
<1> QED
  BY DEF CallInv, CallOf

\* A worker that starts, updates the object or gives it up has no call.
LEMMA WorkerOnlyCallInv ==
  ASSUME TypeOK, CallInv, NEW c \in Callers, UNCHANGED call,
         worker[c].step \notin {"reconcileDelete", "reconcileCreate"},
         \A d \in Callers \ {c} : worker'[d] = worker[d]
  PROVE  CallInv'
<1>1. call[c].step = "none"
  BY DEF CallInv, CallOf
<1> QED
  BY <1>1, SameCalls

\* A request does not change what the call is for.
LEMMA RequestCallInv ==
  ASSUME TypeOK, CallInv, NEW c \in Callers, Request(c), UNCHANGED worker
  PROVE  CallInv'
<1> SUFFICES ASSUME NEW d \in Callers PROVE CallOf(d)'
  BY DEF CallInv
<1>1. CallOf(d)
  BY DEF CallInv
<1> QED
  BY <1>1, RequestFields DEF CallOf, TypeOK, ServiceTypeOK

\* A new call is made for the object and from the version the worker holds.
LEMMA NewCallInv ==
  ASSUME TypeOK, CallInv, NEW c \in Callers,
         \/ ReconcileDelete(c)
         \/ ReconcileCreate(c) /\ UNCHANGED worker
  PROVE  CallInv'
<1> DEFINE o == worker[c].object
           v == worker[c].copy
<1> SUFFICES ASSUME NEW d \in Callers PROVE CallOf(d)'
  BY DEF CallInv
<1>1. CallOf(d) /\ DOMAIN call = Callers
  BY DEF CallInv, TypeOK, ServiceTypeOK, CallTypeOK
<1>2. CASE ReconcileDelete(c)
  BY <1>1, <1>2
     DEF ReconcileDelete, DeleteSilence, CallOf, NoSilence
<1>3. CASE ReconcileCreate(c) /\ UNCHANGED worker
  <2>1. CASE UNCHANGED service
    BY <1>1, <1>3, <2>1 DEF service, CallOf
  <2>2. CASE SyncSilence(c, getSilenceFromCR(o, v.created, v.body.spec), Tenant(v))
    <3>1. worker[c].step = "reconcileCreate" /\ UNCHANGED worker
      BY <1>3 DEF ReconcileCreate
    <3>2. /\ getSilenceFromCR(o, v.created, v.body.spec).comment = SilenceComment(o)
          /\ getSilenceFromCR(o, v.created, v.body.spec).createdBy = CreatedBy
      BY DEF getSilenceFromCR
    <3> HIDE DEF v
    <3> QED
      BY <1>1, <2>2, <3>1, <3>2 DEF SyncSilence, CallOf, v
  <2> QED
    BY <1>3, <2>1, <2>2 DEF ReconcileCreate
<1> QED
  BY <1>2, <1>3

\* Every step keeps a call the one its worker made.
LEMMA NextCallInv ==
  ASSUME TypeOK, CallInv, [Next]_vars
  PROVE  CallInv'
<1>1. /\ worker \in [Callers -> [step : WorkerSteps,
                                object : Objects \cup {NoObject}, copy : Version]]
      /\ DOMAIN call = Callers
  BY DEF TypeOK, WorkerTypeOK, ServiceTypeOK, CallTypeOK
<1>2. ASSUME NEW o \in Objects, Reconcile(o) PROVE CallInv'
  <2>1. ServedBy(o) \in Callers
    BY ServedByType
  <2>2. /\ worker[ServedBy(o)].step = "idle" /\ UNCHANGED call
        /\ \A d \in Callers \ {ServedBy(o)} : worker'[d] = worker[d]
    BY <1>1, <1>2 DEF Reconcile, Continue, service
  <2> QED
    BY <2>1, <2>2, WorkerOnlyCallInv
<1>3. ASSUME NEW c \in Callers, Work(c) PROVE CallInv'
  <2>1. CASE AddFinalizer(c) \/ RemoveFinalizer(c) \/ CleanUpLegacyFinalizer(c)
    <3>1. /\ worker[c].step \notin {"reconcileDelete", "reconcileCreate"}
          /\ UNCHANGED call /\ (Finish(c) \/ \E o, v : Continue(c, o, v))
      BY <2>1 DEF AddFinalizer, RemoveFinalizer, CleanUpLegacyFinalizer, Update,
                  Requeue, service
    <3>2. \A d \in Callers \ {c} : worker'[d] = worker[d]
      BY <1>1, <3>1 DEF Finish, Continue
    <3> QED
      BY <3>1, <3>2, WorkerOnlyCallInv
  <2>2. CASE DeleteReturned(c) \/ SyncReturned(c)
    <3>1. call'[c].step = "none" /\ \A d \in Callers \ {c} : call'[d] = call[d]
      <4>1. call' = [call EXCEPT ![c] = NoCall]
        BY <2>2 DEF DeleteReturned, SyncReturned, Collect
      <4> QED
        BY <1>1, <4>1 DEF NoCall
    <3>2. \A d \in Callers \ {c} : worker'[d] = worker[d]
      BY <1>1, <2>2 DEF DeleteReturned, SyncReturned, Requeue, Finish
    <3> QED
      BY <3>1, <3>2, SameCalls
  <2>3. CASE ReconcileCreate(c)
    <3>1. CASE UNCHANGED worker
      BY <2>3, <3>1, NewCallInv
    <3>2. CASE call[c].step = "none" /\ Finish(c) /\ UNCHANGED service
      <4>1. \A d \in Callers \ {c} : worker'[d] = worker[d]
        BY <1>1, <3>2 DEF Finish
      <4> QED
        BY <3>2, <4>1, SameCalls DEF service
    <3> QED
      BY <2>3, <3>1, <3>2 DEF ReconcileCreate, Requeue
  <2>4. CASE ReconcileDelete(c)
    BY <2>4, NewCallInv
  <2>5. CASE Request(c) /\ UNCHANGED <<kube, worker>>
    BY <2>5, RequestCallInv
  <2> QED
    BY <1>3, <2>1, <2>2, <2>3, <2>4, <2>5 DEF Work
<1>4. CASE Restart
  BY <1>4, SameCalls DEF Restart, NoCall
<1>5. ASSUME UNCHANGED <<call, worker>> PROVE CallInv'
  BY <1>5, SameCalls
<1>6. CASE KubeSteps \/ AlertmanagerSteps \/ UNCHANGED vars
  <2>1. UNCHANGED <<call, worker>>
    BY <1>6 DEF KubeSteps, AlertmanagerSteps, vars, service
  <2> QED
    BY <1>5, <2>1
<1> QED
  BY <1>2, <1>3, <1>4, <1>6 DEF Next

---------------------------------------------------------------------------
(* Layer three: the silences.                                               *)

\* Whose silences only get fewer, and whose worker learns nothing new.
LEMMA LookKept ==
  ASSUME NEW p \in Plain, LookInv(p), OwnOf(p)' \subseteq OwnOf(p),
         Busy(p)' => \/ /\ Busy(p)
                        /\ worker'[ServedBy(p)] = worker[ServedBy(p)]
                        /\ call'[ServedBy(p)] = call[ServedBy(p)]
                     \/ /\ call'[ServedBy(p)].step \in {"none", "list", "failed"}
                        /\ worker'[ServedBy(p)].step # "removeFinalizer"
  PROVE  LookInv(p)'
  BY DEF LookInv, NoneOf

\* Whose silences only get fewer while the object goes on to hold them.
LEMMA GuardKept ==
  ASSUME NEW p \in Plain, GuardInv(p), OwnOf(p)' \subseteq OwnOf(p),
         \A i \in OwnOf(p)' : /\ silences'[i].tenant = silences[i].tenant
                              /\ Holds(api'[p]) /\ TenantOf(p)' = TenantOf(p)
  PROVE  GuardInv(p)'
<1>1. \A i \in OwnOf(p)' : Holds(api'[p]) /\ silences'[i].tenant = TenantOf(p)'
  BY DEF GuardInv
<1>2. \A i, j \in OwnOf(p)' : i = j
  BY DEF GuardInv
<1> QED
  BY <1>1, <1>2 DEF GuardInv, Holds

\* An object whose stored version names the same tenant keeps its tenant.
LEMMA LabelsTenant ==
  ASSUME NEW p \in Objects, Tenant(api'[p]) = Tenant(api[p])
  PROVE  TenantOf(p)' = TenantOf(p)
  BY DEF TenantOf, Tenant

\* What happens away from Alertmanager keeps the layer, if objects go on to
\* hold their silences and no worker takes more for granted than before.
LEMMA QuietSilenceInv ==
  ASSUME SilenceInv, UNCHANGED <<silences, now>>,
         \A p \in Plain : OwnOf(p) # {} => /\ Holds(api'[p])
                                           /\ Tenant(api'[p]) = Tenant(api[p]),
         \A p \in Plain : Busy(p)' =>
           \/ /\ Busy(p)
              /\ worker'[ServedBy(p)] = worker[ServedBy(p)]
              /\ call'[ServedBy(p)] = call[ServedBy(p)]
           \/ /\ call'[ServedBy(p)].step \in {"none", "list", "failed"}
              /\ worker'[ServedBy(p)].step # "removeFinalizer"
  PROVE  SilenceInv'
<1>1. CreatorInv'
  BY DEF SilenceInv, CreatorInv
<1>2. ASSUME NEW p \in Plain PROVE LookInv(p)' /\ GuardInv(p)'
  <2>1. LookInv(p) /\ GuardInv(p)
    BY DEF SilenceInv
  <2>2. OwnOf(p)' = OwnOf(p)
    BY DEF OwnOf, Unexpired
  <2>3. LookInv(p)'
    BY <2>1, <2>2, LookKept
  <2>4. OwnOf(p) # {} => Holds(api'[p]) /\ TenantOf(p)' = TenantOf(p)
    BY LabelsTenant DEF Plain
  <2>5. GuardInv(p)'
    BY <2>1, <2>2, <2>4, GuardKept
  <2> QED
    BY <2>3, <2>5
<1> QED
  BY <1>1, <1>2 DEF SilenceInv

\* As long as nothing is written to the objects, they hold their silences.
LEMMA HeldOn ==
  ASSUME SilenceInv, UNCHANGED api
  PROVE  \A p \in Plain : OwnOf(p) # {} => /\ Holds(api'[p])
                                           /\ Tenant(api'[p]) = Tenant(api[p])
  BY DEF SilenceInv, GuardInv

\* The start of a reconcile and of a call, the end of a call, and a restart.
LEMMA ReconcileSilenceInv ==
  ASSUME TypeOK, CallInv, SilenceInv, NEW o \in Objects, Reconcile(o)
  PROVE  SilenceInv'
<1>1. UNCHANGED <<silences, now, api, call>>
  BY DEF Reconcile, environment, service
<1>2. ASSUME NEW p \in Plain, Busy(p)'
      PROVE  \/ /\ Busy(p)
                /\ worker'[ServedBy(p)] = worker[ServedBy(p)]
                /\ call'[ServedBy(p)] = call[ServedBy(p)]
             \/ /\ call'[ServedBy(p)].step \in {"none", "list", "failed"}
                /\ worker'[ServedBy(p)].step # "removeFinalizer"
  <2>1. CASE UNCHANGED worker
    BY <1>1, <1>2, <2>1 DEF Busy
  <2>2. CASE Continue(ServedBy(o), o, cache[o])
    <3>1. \/ /\ p = o
             /\ worker'[ServedBy(p)] = [step |-> NextStep(o, cache[o]), object |-> o,
                                        copy |-> cache[o]]
          \/ Busy(p) /\ worker'[ServedBy(p)] = worker[ServedBy(p)]
      BY <1>2, <2>2, ContinueBusy DEF TypeOK, Plain
    <3>2. call[ServedBy(o)].step = "none"
      BY ServedByType DEF Reconcile, CallInv, CallOf
    <3>3. NextStep(o, cache[o]) # "removeFinalizer"
      BY DEF NextStep
    <3> QED
      BY <1>1, <3>1, <3>2, <3>3
  <2> QED
    BY <2>1, <2>2 DEF Reconcile
<1> QED
  BY <1>1, <1>2, HeldOn, QuietSilenceInv

\* The start of a call, and an end of it that finishes the reconcile.
LEMMA CallSilenceInv ==
  ASSUME TypeOK, CallInv, SilenceInv, NEW c \in Callers,
         \/ ReconcileDelete(c) \/ ReconcileCreate(c)
         \/ SyncReturned(c) \/ (DeleteReturned(c) /\ call[c].step = "failed")
  PROVE  SilenceInv'
<1>1. UNCHANGED <<silences, now, api>> /\ worker[c].step # "removeFinalizer"
  BY DEF ReconcileDelete, ReconcileCreate, SyncReturned, DeleteReturned,
         DeleteSilence, SyncSilence, environment, service, kube
<1>2. DOMAIN call = Callers
  BY DEF TypeOK, ServiceTypeOK, CallTypeOK
<1>3. \/ Finish(c)
      \/ UNCHANGED worker /\ call'[c].step = "list"
  BY <1>2 DEF ReconcileDelete, ReconcileCreate, SyncReturned, DeleteReturned,
              DeleteSilence, SyncSilence, Requeue
<1>4. \A d \in Callers \ {c} : call'[d] = call[d]
  BY <1>2 DEF ReconcileDelete, ReconcileCreate, SyncReturned, DeleteReturned,
              DeleteSilence, SyncSilence, Collect, service
<1>5. ASSUME NEW p \in Plain, Busy(p)'
      PROVE  \/ /\ Busy(p)
                /\ worker'[ServedBy(p)] = worker[ServedBy(p)]
                /\ call'[ServedBy(p)] = call[ServedBy(p)]
             \/ /\ call'[ServedBy(p)].step \in {"none", "list", "failed"}
                /\ worker'[ServedBy(p)].step # "removeFinalizer"
  <2>1. ServedBy(p) \in Callers /\ p \in Objects
    BY ServedByType DEF Plain
  <2>2. CASE Finish(c)
    BY <1>4, <1>5, <2>1, <2>2, FinishBusy DEF TypeOK
  <2>3. CASE UNCHANGED worker /\ call'[c].step = "list"
    <3>1. Busy(p) /\ worker'[ServedBy(p)] = worker[ServedBy(p)]
      BY <1>5, <2>3 DEF Busy
    <3> QED
      BY <1>1, <1>4, <2>1, <2>3, <3>1
  <2> QED
    BY <1>3, <2>2, <2>3
<1> QED
  BY <1>1, <1>5, HeldOn, QuietSilenceInv

\* The call to delete the silence succeeded: there is none any more.
LEMMA DeletedSilenceInv ==
  ASSUME TypeOK, CallInv, SilenceInv, NEW c \in Callers,
         DeleteReturned(c), call[c].step = "ok"
  PROVE  SilenceInv'
<1>1. /\ UNCHANGED <<silences, now, api>> /\ call[c].op = "delete"
      /\ worker' = [worker EXCEPT ![c].step = "removeFinalizer"]
      /\ call' = [call EXCEPT ![c] = NoCall]
  BY DEF DeleteReturned, Collect, environment, kube, CallInv, CallOf
<1>2. CreatorInv'
  BY <1>1 DEF SilenceInv, CreatorInv
<1>3. ASSUME NEW p \in Plain PROVE LookInv(p)' /\ GuardInv(p)'
  <2>1. LookInv(p) /\ GuardInv(p) /\ ServedBy(p) \in Callers
    BY ServedByType DEF SilenceInv, Plain
  <2>2. OwnOf(p)' = OwnOf(p)
    BY <1>1 DEF OwnOf, Unexpired
  <2>3. GuardInv(p)'
    BY <1>1, <2>1, <2>2 DEF GuardInv, Holds, TenantOf, Tenant
  <2>4. DOMAIN call = Callers /\ DOMAIN worker = Callers
    BY DEF TypeOK, ServiceTypeOK, CallTypeOK, WorkerTypeOK
  <2>5. worker'[c].step = "removeFinalizer" /\ worker'[c].object = worker[c].object
    BY <1>1, <2>4 DEF TypeOK, WorkerTypeOK
  <2>6. CASE ServedBy(p) = c
    <3>1. Busy(p)' => NoneOf(p)
      BY <1>1, <2>1, <2>5, <2>6 DEF LookInv, Busy, DeleteReturned
    <3>2. call'[c].step = "none"
      BY <1>1, <2>4 DEF NoCall
    <3> QED
      BY <2>2, <2>3, <2>6, <3>1, <3>2 DEF LookInv, NoneOf
  <2>7. CASE ServedBy(p) # c
    <3>1. worker'[ServedBy(p)] = worker[ServedBy(p)] /\ call'[ServedBy(p)] = call[ServedBy(p)]
      BY <1>1, <2>1, <2>4, <2>7
    <3>2. Busy(p)' => Busy(p)
      BY <3>1 DEF Busy
    <3> QED
      BY <2>1, <2>2, <2>3, <3>1, <3>2, LookKept
  <2> QED
    BY <2>6, <2>7
<1> QED
  BY <1>2, <1>3 DEF SilenceInv

\* A new process takes nothing for granted.
LEMMA RestartSilenceInv ==
  ASSUME SilenceInv, Restart
  PROVE  SilenceInv'
<1>1. UNCHANGED <<silences, now, api>>
  BY DEF Restart, Relist, Fault
<1>2. \A p \in Plain : ~Busy(p)'
  BY ServedByType DEF Restart, Busy, Idle, Plain
<1> QED
  BY <1>1, <1>2, HeldOn, QuietSilenceInv

\* Users and the watch: whoever can be sure of the finalizer still can.
LEMMA KubeSilenceInv ==
  ASSUME Undisturbed, TypeOK, SilenceInv, KubeSteps
  PROVE  SilenceInv'
<1>1. /\ UNCHANGED <<silences, call, worker>>
      /\ \A p \in Plain : Busy(p)' => Busy(p)
  BY DEF KubeSteps, service, Busy
<1>2. CASE UserWrites
  <2>1. PICK o \in Objects, v \in Version :
          /\ Write(o, v) /\ \E kind : UserActs(kind)
          /\ \/ ~api[o].exists
             \/ /\ api[o].exists /\ v.finalizers = api[o].finalizers
                /\ Tenant(v) = Tenant(api[o])
    BY <1>2, UserWriteCases DEF Undisturbed
  <2>2. UNCHANGED now
    BY <2>1 DEF UserActs
  <2>3. ASSUME NEW p \in Plain, OwnOf(p) # {}
        PROVE  Holds(api'[p]) /\ Tenant(api'[p]) = Tenant(api[p])
    <3>1. Holds(api[p]) /\ p \in Objects
      BY <2>3 DEF SilenceInv, GuardInv, Plain
    <3>2. CASE p # o
      BY <2>1, <3>1, <3>2 DEF Write, Holds, TypeOK, KubeTypeOK
    <3>3. CASE p = o
      <4> DEFINE w == Persisted(o, v)
      <4>1. api'[o] = w
        BY <2>1 DEF Write, TypeOK, KubeTypeOK
      <4>2. /\ w.finalizers = v.finalizers /\ w.body = v.body
            /\ w.exists = ~(v.deleting /\ v.finalizers = {})
        BY PersistedType DEF TypeOK, KubeTypeOK
      <4> HIDE DEF w
      <4> QED
        BY <2>1, <3>1, <3>3, <4>1, <4>2 DEF Holds, Tenant
    <3> QED
      BY <3>2, <3>3
  <2> QED
    BY <1>1, <2>2, <2>3, QuietSilenceInv
<1>3. CASE \E o \in Objects : Deliver(o) \/ Resync(o)
  <2>1. UNCHANGED <<api, now>>
    BY <1>3 DEF Deliver, Resync, environment
  <2> QED
    BY <1>1, <2>1, HeldOn, QuietSilenceInv
<1>4. CASE \E n \in Namespaces : NamespaceChanges(n) /\ UNCHANGED kube
  <2>1. UNCHANGED <<api, now>>
    BY <1>4 DEF NamespaceChanges, kube
  <2> QED
    BY <1>1, <2>1, HeldOn, QuietSilenceInv
<1> QED
  BY <1>2, <1>3, <1>4 DEF KubeSteps

\* The updates of the finalizers: the first adds one, the last takes it away
\* when there is no silence left, and the third leaves it as it is.
LEMMA UpdateSilenceInv ==
  ASSUME TypeOK, KubeInv, CallInv, SilenceInv, NEW c \in Callers,
         AddFinalizer(c) \/ RemoveFinalizer(c) \/ CleanUpLegacyFinalizer(c)
  PROVE  SilenceInv'
<1>1. PICK F :
        /\ Update(c, F)
        /\ \/ worker[c].step = "addFinalizer"
              /\ F = worker[c].copy.finalizers \cup {SilenceFinalizer}
           \/ worker[c].step = "removeFinalizer"
              /\ F = worker[c].copy.finalizers \ {SilenceFinalizer}
           \/ worker[c].step = "cleanUpLegacyFinalizer"
              /\ F = worker[c].copy.finalizers \ {LegacyFinalizer}
  BY DEF AddFinalizer, RemoveFinalizer, CleanUpLegacyFinalizer
<1>2. worker[c].step # "idle" /\ F \subseteq Finalizers
  <2>1. worker[c].copy.finalizers \subseteq Finalizers
    BY DEF TypeOK, WorkerTypeOK, Version
  <2> QED
    BY <1>1, <2>1 DEF Finalizers
<1>3. PICK o \in Objects : o = worker[c].object
  BY <1>2, CopyType
<1>4. PICK v \in Version : v = [worker[c].copy EXCEPT !.finalizers = F]
  BY <1>2, CopyType
<1>5. PICK w : w = Persisted(o, v)
  OBVIOUS
<1>6. /\ ServedBy(o) = c /\ Busy(o) /\ v.rv = Copy(o).rv
      /\ Copy(o) = worker[c].copy
  BY <1>2, <1>3, <1>4, CopyType DEF Copy
<1>7. /\ UNCHANGED <<call, silences, now>>
      /\ \/ /\ Current(o, v) /\ Write(o, v)
            /\ Continue(c, o, w) \/ Finish(c)
         \/ Finish(c) /\ UNCHANGED <<api, watch>>
  BY <1>1, <1>3, <1>4, <1>5, UpdateCases DEF Requeue, Fault, environment, service
<1>8. VersionInv(o) /\ StepInv(o)
  BY DEF KubeInv
<1>9. /\ w.body = Copy(o).body
      /\ NextStep(o, w) # "removeFinalizer"
      /\ worker[c].step = "addFinalizer" => Holds(w)
      /\ worker[c].step = "cleanUpLegacyFinalizer" => (Holds(w) <=> Holds(Copy(o)))
  BY <1>1, <1>3, <1>4, <1>5, <1>6, <1>8, UpdateSteps
<1>10. call[c].step = "none"
  BY <1>1 DEF CallInv, CallOf
<1>11. ASSUME NEW p \in Plain, Busy(p)'
       PROVE  \/ /\ Busy(p)
                 /\ worker'[ServedBy(p)] = worker[ServedBy(p)]
                 /\ call'[ServedBy(p)] = call[ServedBy(p)]
              \/ /\ call'[ServedBy(p)].step \in {"none", "list", "failed"}
                 /\ worker'[ServedBy(p)].step # "removeFinalizer"
  <2>1. \/ Busy(p) /\ worker'[ServedBy(p)] = worker[ServedBy(p)]
        \/ /\ ServedBy(p) = c
           /\ worker'[ServedBy(p)] = [step |-> NextStep(o, w), object |-> o, copy |-> w]
    BY <1>6, <1>7, <1>11, FinishBusy, ContinueBusy DEF TypeOK, Plain
  <2> QED
    BY <1>7, <1>9, <1>10, <2>1
<1>12. ASSUME NEW p \in Plain, OwnOf(p) # {}
       PROVE  Holds(api'[p]) /\ Tenant(api'[p]) = Tenant(api[p])
  <2>1. Holds(api[p]) /\ p \in Objects
    BY <1>12 DEF SilenceInv, GuardInv, Plain
  <2>2. CASE p # o \/ UNCHANGED api
    BY <1>7, <2>1, <2>2 DEF Write, Holds, TypeOK, KubeTypeOK
  <2>3. CASE p = o /\ Current(o, v) /\ Write(o, v)
    <3>1. api'[o] = w
      BY <1>5, <2>3 DEF Write, TypeOK, KubeTypeOK
    <3>2. Copy(o) = api[o]
      <4>1. Copy(o) \in Seen(o) /\ Copy(o).rv = api[o].rv
        BY <1>6, <2>3 DEF Seen, Current
      <4> QED
        BY <1>8, <4>1 DEF VersionInv
    <3>3. worker[c].step # "removeFinalizer"
      BY <1>6, <1>12, <2>3 DEF SilenceInv, LookInv, NoneOf
    <3>4. Holds(w)
      BY <1>1, <1>9, <2>1, <2>3, <3>2, <3>3
    <3> QED
      BY <1>9, <2>3, <3>1, <3>2, <3>4 DEF Holds, Tenant
  <2> QED
    BY <1>7, <2>2, <2>3
<1> QED
  BY <1>7, <1>11, <1>12, QuietSilenceInv

\* An object whose slots are kept, ended or given to others gets no silence.
LEMMA SlotsKept ==
  ASSUME TypeOK, NEW p \in Objects, now' \in Nat, now <= now',
         \A i \in SilenceIds : \/ silences'[i] = silences[i] \/ Ended(i)
                               \/ silences'[i].comment # SilenceComment(p)
  PROVE  /\ OwnOf(p)' \subseteq OwnOf(p)
         /\ \A i \in OwnOf(p)' : silences'[i] = silences[i]
<1> SUFFICES ASSUME NEW i \in OwnOf(p)'
             PROVE  i \in OwnOf(p) /\ silences'[i] = silences[i]
  OBVIOUS
<1>1. /\ i \in SilenceIds /\ now' < silences'[i].endsAt
      /\ silences'[i].comment = SilenceComment(p) /\ silences'[i].createdBy = CreatedBy
  BY DEF OwnOf, Unexpired
<1>2. now \in Nat /\ silences[i] \in Silence
  BY <1>1 DEF TypeOK, ServiceTypeOK, EnvironmentTypeOK, AlertmanagerTypeOK
<1>3. silences[i].endsAt \in Nat /\ "endsAt" \in DOMAIN silences[i]
  BY <1>2 DEF Silence
<1>4. ~Ended(i)
  BY <1>1, <1>2, <1>3 DEF Ended
<1>5. silences'[i] = silences[i]
  BY <1>1, <1>4
<1> QED
  BY <1>1, <1>2, <1>3, <1>5 DEF OwnOf, Unexpired

\* Nobody but the operator writes under the comment of an object.
LEMMA SlotsCreator ==
  ASSUME TypeOK, CreatorInv,
         \A i \in SilenceIds : \/ silences'[i] = silences[i] \/ Ended(i)
                               \/ silences'[i].createdBy = CreatedBy
                               \/ \A o \in Objects : silences'[i].comment # SilenceComment(o)
  PROVE  CreatorInv'
<1> SUFFICES ASSUME NEW o \in Objects, NEW i \in SilenceIds,
                    silences'[i].comment = SilenceComment(o)
             PROVE  silences'[i].createdBy = CreatedBy
  BY DEF CreatorInv
<1>1. silences[i] \in Silence
  BY DEF TypeOK, ServiceTypeOK, AlertmanagerTypeOK
<1>2. CASE Ended(i)
  <2>1. /\ silences'[i].comment = silences[i].comment
        /\ silences'[i].createdBy = silences[i].createdBy
    BY <1>1, <1>2 DEF Ended, Silence
  <2> QED
    BY <2>1 DEF CreatorInv
<1> QED
  BY <1>2 DEF CreatorInv

\* The clock, and the people who use Alertmanager.
LEMMA OthersSilenceInv ==
  ASSUME Undisturbed, TypeOK, SilenceInv, AlertmanagerSteps
  PROVE  SilenceInv'
<1>1. UNCHANGED <<call, api, worker>>
  BY DEF AlertmanagerSteps, kube
<1>2. now \in Nat /\ silences \in [SilenceIds -> Silence]
  BY DEF TypeOK, ServiceTypeOK, EnvironmentTypeOK, AlertmanagerTypeOK
<1>3. /\ now' \in Nat /\ now <= now'
      /\ \A i \in SilenceIds :
           \/ silences'[i] = silences[i] \/ Ended(i)
           \/ \A o \in Objects : silences'[i].comment # SilenceComment(o)
  BY OthersWrite DEF AlertmanagerSteps, TypeOK, Undisturbed
<1>4. CreatorInv'
  BY <1>3, SlotsCreator DEF SilenceInv
<1>5. ASSUME NEW p \in Plain PROVE LookInv(p)' /\ GuardInv(p)'
  <2>1. LookInv(p) /\ GuardInv(p) /\ p \in Objects
    BY DEF SilenceInv, Plain
  <2>2. OwnOf(p)' \subseteq OwnOf(p) /\ \A i \in OwnOf(p)' : silences'[i] = silences[i]
    BY <1>3, <2>1, SlotsKept
  <2>3. LookInv(p)'
    BY <1>1, <2>1, <2>2, LookKept DEF Busy
  <2>4. GuardInv(p)'
    BY <1>1, <2>1, <2>2, LabelsTenant, GuardKept DEF GuardInv
  <2> QED
    BY <2>3, <2>4
<1> QED
  BY <1>4, <1>5 DEF SilenceInv

\* A request writes silences of its object and ends silences, nothing else.
LEMMA RequestSlots ==
  ASSUME TypeOK, CallInv, NEW c \in Callers, Request(c)
  PROVE  /\ UNCHANGED now
         /\ \A i \in SilenceIds :
              \/ silences'[i] = silences[i] \/ Ended(i)
              \/ /\ silences'[i].comment = SilenceComment(worker[c].object)
                 /\ silences'[i].createdBy = CreatedBy
<1> DEFINE s == call[c].silence
           t == Stored(s, call[c].tenant, NotPast(s.startsAt))
           u == Stored(s, call[c].tenant, s.startsAt)
<1>1. silences \in [SilenceIds -> Silence] /\ s \in Silence
  BY DEF TypeOK, ServiceTypeOK, AlertmanagerTypeOK, CallTypeOK
<1>2. /\ t.comment = s.comment /\ t.createdBy = s.createdBy
      /\ u.comment = s.comment /\ u.createdBy = s.createdBy
  BY <1>1 DEF Stored, Silence
<1>3. CASE UNCHANGED silences
  BY <1>3 DEF Request, RequestFails, SyncNotFound, SyncFound, DeleteNotFound, DeleteFound,
     CreateSilence, UpdateSilence, DeleteSilenceByID, DeleteStatusIgnored, Reply, Fault,
     environment
<1>4. CASE DeleteSilenceByID(c)
  BY <1>1, <1>4 DEF DeleteSilenceByID, Expire, Ended, Reply, Fault, environment
<1>5. CASE CreateSilence(c) \/ UpdateSilence(c)
  <2>1. UNCHANGED now
    BY <1>5 DEF CreateSilence, UpdateSilence, Reply, Fault, environment
  <2>2. s.comment = SilenceComment(worker[c].object) /\ s.createdBy = CreatedBy
    BY <1>5 DEF CreateSilence, UpdateSilence, CallInv, CallOf
  <2> HIDE DEF t, u
  <2>3. \/ \E i \in SilenceIds : silences' = [silences EXCEPT ![i] = t]
        \/ silences' = [silences EXCEPT ![call[c].id] = u]
        \/ \E i \in SilenceIds :
             silences' = [j \in SilenceIds |->
                            CASE j = i -> t
                              [] j = call[c].id /\ j # i /\ Unexpired(j) ->
                                   [silences[j] EXCEPT !.endsAt = now]
                              [] OTHER -> silences[j]]
    BY <1>5 DEF CreateSilence, UpdateSilence, PostNew, PostOver, t, u
  <2>4. \A j \in SilenceIds :
          silences'[j] \in {t, u} \/ silences'[j] = silences[j] \/ Ended(j)
    BY <1>1, <2>3 DEF Ended
  <2> QED
    BY <1>2, <2>1, <2>2, <2>4
<1> QED
  BY <1>3, <1>4, <1>5
     DEF Request, RequestFails, SyncNotFound, SyncFound, DeleteNotFound, DeleteFound,
         DeleteStatusIgnored

\* The tenant of a call is the one the object names, wherever it matters.
LEMMA TenantAgrees ==
  ASSUME TypeOK, KubeInv, CallInv, SilenceInv, NEW o \in Plain, Busy(o),
         call[ServedBy(o)].step # "none"
  PROVE  /\ OwnOf(o) # {} \/ worker[ServedBy(o)].step = "reconcileCreate" =>
              Holds(api[o]) /\ EffectiveTenant(call[ServedBy(o)].tenant) = TenantOf(o)
         /\ call[ServedBy(o)].silence.comment = SilenceComment(o)
         /\ \/ /\ worker[ServedBy(o)].step = "reconcileDelete"
               /\ call[ServedBy(o)].op = "delete"
               /\ call[ServedBy(o)].step \notin {"create", "update"}
            \/ /\ worker[ServedBy(o)].step = "reconcileCreate"
               /\ call[ServedBy(o)].op = "sync"
               /\ call[ServedBy(o)].silence.createdBy = CreatedBy
<1>1. PICK c \in Callers : c = ServedBy(o)
  BY ServedByType DEF Plain
<1>2. PICK v : v = Copy(o)
  OBVIOUS
<1>3. CallOf(c) /\ worker[c].object = o /\ call[c].tenant = Tenant(v)
  BY <1>1, <1>2 DEF CallInv, CallOf, Busy, Copy
<1>4. o \in Objects /\ StepInv(o) /\ FinalizerInv(o) /\ GuardInv(o)
  BY DEF KubeInv, SilenceInv, Plain
<1>5. v \in Seen(o) /\ v \in Version /\ v.exists
  BY <1>1, <1>2 DEF Seen, Copy, Busy, TypeOK, WorkerTypeOK, Assigned
<1>6. worker[c].step \in {"reconcileDelete", "reconcileCreate"}
  BY <1>1, <1>3 DEF CallOf
<1>7. worker[c].step = NextStep(o, v)
  BY <1>1, <1>2, <1>4, <1>6 DEF StepInv
<1>8. Holds(v) /\ (worker[c].step = "reconcileCreate" => ~v.deleting)
  <2>1. v.deleting \in BOOLEAN
    BY <1>5 DEF Version
  <2> QED
    BY <1>5, <1>6, <1>7, <2>1 DEF NextStep, Holds
<1>9. OwnOf(o) # {} \/ worker[c].step = "reconcileCreate" => Holds(api[o])
  BY <1>4, <1>5, <1>8 DEF FinalizerInv, GuardInv
<1>10. Holds(api[o]) => EffectiveTenant(call[c].tenant) = TenantOf(o)
  BY <1>3, <1>4, <1>5, <1>8 DEF FinalizerInv, TenantOf, Tenant
<1> QED
  BY <1>1, <1>3, <1>9, <1>10 DEF CallOf

\* A listing shows the silences of the object, and no others.
LEMMA ListingShowsOwn ==
  ASSUME TypeOK, KubeInv, CallInv, SilenceInv, NEW o \in Plain, Busy(o),
         call[ServedBy(o)].step # "none"
  PROVE  LET s == call[ServedBy(o)].silence
             t == call[ServedBy(o)].tenant
         IN  /\ OwnOf(o) \subseteq OwnByComment(s.comment, t)
             /\ GetSilenceByComment(s.comment, t) \subseteq OwnOf(o)
             /\ OwnByComment(s.comment, t) \subseteq GetSilenceByComment(s.comment, t)
<1> DEFINE s == call[ServedBy(o)].silence
           t == call[ServedBy(o)].tenant
<1>1. s.comment = SilenceComment(o) /\ o \in Objects
  BY TenantAgrees DEF Plain
<1>2. OwnOf(o) \subseteq OwnByComment(s.comment, t)
  <2> SUFFICES ASSUME NEW i \in OwnOf(o) PROVE i \in OwnByComment(s.comment, t)
    OBVIOUS
  <2>1. EffectiveTenant(t) = TenantOf(o)
    BY TenantAgrees
  <2>2. silences[i].tenant = TenantOf(o)
    BY DEF SilenceInv, GuardInv
  <2> QED
    BY <1>1, <2>1, <2>2 DEF OwnOf, OwnByComment, GetSilenceByComment, ListSilences
<1>3. GetSilenceByComment(s.comment, t) \subseteq OwnOf(o)
  BY <1>1 DEF GetSilenceByComment, ListSilences, OwnOf, SilenceInv, CreatorInv
<1>4. OwnByComment(s.comment, t) \subseteq GetSilenceByComment(s.comment, t)
  BY DEF OwnByComment
<1> QED
  BY <1>2, <1>3, <1>4

\* A post leaves at most one silence of its object: the one it stored.
LEMMA PostOwn ==
  ASSUME TypeOK, KubeInv, CallInv, SilenceInv, NEW o \in Plain, Busy(o),
         NEW c \in Callers, c = ServedBy(o), CreateSilence(c) \/ UpdateSilence(c)
  PROVE  \E i : \A j \in OwnOf(o)' : j = i /\ silences'[j].tenant = TenantOf(o)
<1> DEFINE s == call[c].silence
<1>1. PICK t, u : /\ t = Stored(s, call[c].tenant, NotPast(s.startsAt))
                  /\ u = Stored(s, call[c].tenant, s.startsAt)
  OBVIOUS
<1>2. silences \in [SilenceIds -> Silence] /\ s \in Silence /\ now \in Nat
  BY DEF TypeOK, ServiceTypeOK, AlertmanagerTypeOK, CallTypeOK, EnvironmentTypeOK
<1>3. t.tenant = EffectiveTenant(call[c].tenant) /\ u.tenant = t.tenant
  BY <1>1, <1>2 DEF Stored, Silence
<1>4. t.tenant = TenantOf(o) /\ u.tenant = TenantOf(o)
  BY <1>3, TenantAgrees DEF CreateSilence, UpdateSilence
<1>5. UNCHANGED now
  BY DEF CreateSilence, UpdateSilence, Reply, Fault, environment
<1>6. LookInv(o)
  BY DEF SilenceInv
<1>7. CASE CreateSilence(c)
  <2>1. OwnOf(o) = {}
    BY <1>6, <1>7 DEF LookInv, NoneOf, CreateSilence
  <2>2. PICK i \in SilenceIds : silences' = [silences EXCEPT ![i] = t]
    BY <1>1, <1>7 DEF CreateSilence, PostNew
  <2>3. \A j \in OwnOf(o)' : j = i
    BY <1>2, <1>5, <2>1, <2>2 DEF OwnOf, Unexpired
  <2> QED
    BY <1>2, <1>4, <2>2, <2>3
<1>8. CASE UpdateSilence(c)
  <2>1. OwnOf(o) \subseteq {call[c].id}
    BY <1>6, <1>8 DEF LookInv, UpdateSilence
  <2>2. CASE silences' = [silences EXCEPT ![call[c].id] = u]
    <3>1. \A j \in OwnOf(o)' : j = call[c].id
      BY <1>2, <1>5, <2>1, <2>2 DEF OwnOf, Unexpired
    <3>2. \A j \in OwnOf(o)' : j \in SilenceIds
      BY DEF OwnOf
    <3> QED
      BY <1>2, <1>4, <2>2, <3>1, <3>2
  <2>3. CASE \E i \in SilenceIds :
               silences' = [j \in SilenceIds |->
                              CASE j = i -> t
                                [] j = call[c].id /\ j # i /\ Unexpired(j) ->
                                     [silences[j] EXCEPT !.endsAt = now]
                                [] OTHER -> silences[j]]
    <3>1. PICK i \in SilenceIds :
            silences' = [j \in SilenceIds |->
                           CASE j = i -> t
                             [] j = call[c].id /\ j # i /\ Unexpired(j) ->
                                  [silences[j] EXCEPT !.endsAt = now]
                             [] OTHER -> silences[j]]
      BY <2>3
    <3>2. ASSUME NEW j \in SilenceIds, j # i PROVE j \notin OwnOf(o)'
      <4>1. CASE j = call[c].id /\ Unexpired(j)
        <5>1. silences'[j] = [silences[j] EXCEPT !.endsAt = now]
          BY <3>1, <3>2, <4>1
        <5>2. silences'[j].endsAt = now
          BY <1>2, <5>1 DEF Silence
        <5> QED
          BY <1>2, <1>5, <5>2 DEF OwnOf, Unexpired
      <4>2. CASE ~(j = call[c].id /\ Unexpired(j))
        <5>1. silences'[j] = silences[j]
          BY <3>1, <3>2, <4>2
        <5> QED
          BY <1>5, <2>1, <4>2, <5>1 DEF OwnOf, Unexpired
      <4> QED
        BY <4>1, <4>2
    <3>3. silences'[i] = t
      BY <3>1
    <3> QED
      BY <1>4, <3>2, <3>3 DEF OwnOf
  <2> QED
    BY <1>1, <1>8, <2>2, <2>3 DEF UpdateSilence, PostOver
<1> QED
  BY <1>7, <1>8

\* What a request does to the silences of its own object.
LEMMA RequestOwnInv ==
  ASSUME Undisturbed, TypeOK, KubeInv, CallInv, SilenceInv, NEW o \in Plain, Busy(o),
         NEW c \in Callers, c = ServedBy(o), Request(c), UNCHANGED <<kube, worker>>
  PROVE  LookInv(o)' /\ GuardInv(o)'
<1>1. LookInv(o) /\ GuardInv(o) /\ o \in Objects
  BY DEF SilenceInv, Plain
<1>2. /\ call[c].step # "none" /\ call'[c].op = call[c].op
      /\ UNCHANGED <<now, api>>
  BY RequestFields, RequestSlots DEF kube, TypeOK, ServiceTypeOK
<1>3. worker[c].step # "removeFinalizer" /\ TenantOf(o)' = TenantOf(o)
  BY <1>1, <1>2, TenantAgrees, LabelsTenant
<1>4. CASE CreateSilence(c) \/ UpdateSilence(c)
  <2>1. Holds(api[o]) /\ call[c].op = "sync"
    BY <1>2, <1>4, TenantAgrees DEF CreateSilence, UpdateSilence
  <2>2. GuardInv(o)'
    BY <1>2, <1>3, <1>4, <2>1, PostOwn DEF GuardInv, Holds
  <2>3. call'[c].step \in {"ok", "failed"}
    BY <1>4 DEF CreateSilence, UpdateSilence, Reply, GoTo, TypeOK, ServiceTypeOK, CallTypeOK
  <2>4. LookInv(o)'
    BY <1>2, <1>3, <2>1, <2>3 DEF LookInv
  <2> QED
    BY <2>2, <2>4
<1>5. CASE DeleteSilenceByID(c)
  <2>1. OwnOf(o) \subseteq {call[c].id}
    BY <1>1, <1>5 DEF LookInv, DeleteSilenceByID
  <2>2. silences \in [SilenceIds -> Silence] /\ now \in Nat
    BY DEF TypeOK, ServiceTypeOK, AlertmanagerTypeOK, EnvironmentTypeOK
  <2>3. OwnOf(o)' = {}
    <3> SUFFICES ASSUME NEW i \in OwnOf(o)' PROVE FALSE
      OBVIOUS
    <3>1. i \in SilenceIds /\ now < silences'[i].endsAt
      BY <1>2 DEF OwnOf, Unexpired
    <3>2. silences' = [silences EXCEPT ![call[c].id].endsAt = now]
      BY <1>5 DEF DeleteSilenceByID, Expire
    <3>3. CASE i = call[c].id
      <4>1. silences'[i].endsAt = now
        BY <2>2, <3>1, <3>2, <3>3 DEF Silence
      <4> QED
        BY <2>2, <3>1, <4>1
    <3>4. CASE i # call[c].id
      <4>1. silences'[i] = silences[i]
        BY <2>2, <3>1, <3>2, <3>4
      <4> QED
        BY <1>2, <2>1, <3>4, <4>1 DEF OwnOf, Unexpired
    <3> QED
      BY <3>3, <3>4
  <2>4. call'[c].step \in {"ok", "failed"}
    BY <1>5 DEF DeleteSilenceByID, Reply, GoTo, TypeOK, ServiceTypeOK, CallTypeOK
  <2> QED
    BY <1>2, <1>3, <2>3, <2>4 DEF LookInv, GuardInv, NoneOf
<1>6. CASE UNCHANGED silences /\ ~CreateSilence(c) /\ ~UpdateSilence(c)
           /\ ~DeleteSilenceByID(c)
  <2>1. OwnOf(o)' = OwnOf(o)
    BY <1>2, <1>6 DEF OwnOf, Unexpired
  <2>2. GuardInv(o)'
    BY <1>1, <1>2, <1>3, <1>6, <2>1, GuardKept DEF GuardInv
  <2>3. DOMAIN call = Callers /\ call[c] \in [step : Steps, op : {"none", "sync", "delete"},
          silence : Silence, tenant : Text, now : Nat, id : SilenceIds \cup {NoId}]
    BY DEF TypeOK, ServiceTypeOK, CallTypeOK
  <2>4. \/ call'[c].step \in {"list", "failed"}
        \/ call'[c].step = "create" /\ OwnOf(o) = {}
        \/ call'[c].step \in {"update", "deleteByID"} /\ OwnOf(o) \subseteq {call'[c].id}
        \/ call'[c].step = "ok" /\ (call[c].op = "sync" \/ OwnOf(o) = {})
    <3> DEFINE s == call[c].silence
               t == call[c].tenant
    <3>1. /\ OwnOf(o) \subseteq OwnByComment(s.comment, t)
          /\ GetSilenceByComment(s.comment, t) \subseteq OwnOf(o)
          /\ OwnByComment(s.comment, t) \subseteq GetSilenceByComment(s.comment, t)
      BY <1>2, ListingShowsOwn
    <3>2. \A i \in OwnOf(o) : OwnOf(o) \subseteq {i}
      BY <1>1 DEF GuardInv
    <3>3. CASE RequestFails(c)
      BY <2>3, <3>3 DEF RequestFails, GoTo
    <3>4. CASE SyncNotFound(c)
      <4>1. OwnOf(o) = {} /\ call[c].op = "sync"
        BY <3>1, <3>4 DEF SyncNotFound
      <4>2. \E step \in {"create", "ok"} : GoTo(c, step)
        BY <3>4 DEF SyncNotFound
      <4> QED
        BY <2>3, <4>1, <4>2 DEF GoTo
    <3>5. CASE SyncFound(c)
      <4>1. call[c].op = "sync" /\ \E i \in GetSilenceByComment(s.comment, t) :
              GoToId(c, "deleteByID", i) \/ GoToId(c, "update", i) \/ GoTo(c, "ok")
        BY <3>5 DEF SyncFound
      <4> QED
        BY <2>3, <3>1, <3>2, <4>1 DEF GoTo, GoToId
    <3>6. CASE DeleteNotFound(c)
      BY <2>3, <3>1, <3>6 DEF DeleteNotFound, GoTo
    <3>7. CASE DeleteFound(c)
      <4>1. \E i \in OwnByComment(s.comment, t) : GoToId(c, "deleteByID", i)
        BY <3>7 DEF DeleteFound
      <4> QED
        BY <2>3, <3>1, <3>2, <4>1 DEF GoToId
    <3>8. CASE DeleteStatusIgnored(c)
      <4>1. /\ call[c].step = "deleteByID" /\ ~Unexpired(call[c].id) /\ GoTo(c, "ok")
        BY <3>8 DEF DeleteStatusIgnored, Undisturbed, Fault
      <4>2. OwnOf(o) = {}
        BY <1>1, <4>1 DEF LookInv, OwnOf
      <4> QED
        BY <2>3, <4>1, <4>2 DEF GoTo
    <3> QED
      BY <1>6, <3>3, <3>4, <3>5, <3>6, <3>7, <3>8 DEF Request
  <2>5. LookInv(o)'
    BY <1>2, <1>3, <2>1, <2>4 DEF LookInv, NoneOf
  <2> QED
    BY <2>2, <2>5
<1>7. \/ CreateSilence(c) \/ UpdateSilence(c) \/ DeleteSilenceByID(c)
      \/ UNCHANGED silences
  BY DEF Request, RequestFails, SyncNotFound, SyncFound, DeleteNotFound, DeleteFound,
         DeleteStatusIgnored
<1> QED
  BY <1>4, <1>5, <1>6, <1>7

\* A request, whoever makes it for whatever object.
LEMMA RequestSilenceInv ==
  ASSUME Undisturbed, TypeOK, KubeInv, CallInv, SilenceInv,
         NEW c \in Callers, Request(c), UNCHANGED <<kube, worker>>
  PROVE  SilenceInv'
<1>1. PICK o \in Objects : o = worker[c].object /\ ServedBy(o) = c /\ Busy(o)
  BY RequestFields DEF CallInv, CallOf, TypeOK, ServiceTypeOK, Assigned, Busy
<1>2. /\ UNCHANGED now
      /\ \A i \in SilenceIds :
           \/ silences'[i] = silences[i] \/ Ended(i)
           \/ silences'[i].comment = SilenceComment(o) /\ silences'[i].createdBy = CreatedBy
  BY <1>1, RequestSlots
<1>3. CreatorInv'
  BY <1>2, SlotsCreator DEF SilenceInv
<1>4. ASSUME NEW p \in Plain, p # o PROVE LookInv(p)' /\ GuardInv(p)'
  <2>1. LookInv(p) /\ GuardInv(p) /\ p \in Objects
    BY DEF SilenceInv, Plain
  <2>2. SilenceComment(o) # SilenceComment(p) /\ now \in Nat /\ now <= now
    BY <1>4, <2>1 DEF Undisturbed, TypeOK, ServiceTypeOK, EnvironmentTypeOK
  <2>3. OwnOf(p)' \subseteq OwnOf(p) /\ \A i \in OwnOf(p)' : silences'[i] = silences[i]
    BY <1>2, <2>1, <2>2, SlotsKept
  <2>4. Busy(p)' => Busy(p) /\ ServedBy(p) # c /\ ServedBy(p) \in Callers
    BY <1>1, <1>4, <2>1, ServedByType DEF Busy
  <2>5. LookInv(p)'
    BY <2>1, <2>3, <2>4, RequestFields, LookKept DEF TypeOK, ServiceTypeOK
  <2>6. GuardInv(p)'
    BY <2>1, <2>3, LabelsTenant, GuardKept DEF GuardInv, kube
  <2> QED
    BY <2>5, <2>6
<1>5. ASSUME NEW p \in Plain, p = o PROVE LookInv(p)' /\ GuardInv(p)'
  BY <1>1, <1>5, RequestOwnInv
<1> QED
  BY <1>3, <1>4, <1>5 DEF SilenceInv

\* Every step keeps the silences where they belong.
LEMMA NextSilenceInv ==
  ASSUME Undisturbed, TypeOK, KubeInv, CallInv, SilenceInv, [Next]_vars
  PROVE  SilenceInv'
<1>1. ASSUME NEW o \in Objects, Reconcile(o) PROVE SilenceInv'
  BY <1>1, ReconcileSilenceInv
<1>2. ASSUME NEW c \in Callers, Work(c) PROVE SilenceInv'
  <2>1. CASE DeleteReturned(c)
    BY <2>1, CallSilenceInv, DeletedSilenceInv DEF DeleteReturned
  <2>2. CASE Request(c) /\ UNCHANGED <<kube, worker>>
    BY <2>2, RequestSilenceInv
  <2> QED
    BY <1>2, <2>1, <2>2, UpdateSilenceInv, CallSilenceInv DEF Work
<1>3. CASE Restart
  BY <1>3, RestartSilenceInv
<1>4. CASE KubeSteps
  BY <1>4, KubeSilenceInv
<1>5. CASE AlertmanagerSteps
  BY <1>5, OthersSilenceInv
<1>6. CASE UNCHANGED vars
  <2>1. UNCHANGED <<silences, now, api, worker, call>>
    BY <1>6 DEF vars, environment, service, kube
  <2> QED
    BY <2>1, HeldOn, QuietSilenceInv DEF Busy
<1> QED
  BY <1>1, <1>2, <1>3, <1>4, <1>5, <1>6 DEF Next

\* A comment is never empty.
LEMMA CommentNotEmpty ==
  ASSUME NEW o \in Objects
  PROVE  SilenceComment(o) # <<>>
<1>1. o.namespace \in Seq(Text) /\ o.name \in Seq(Text)
  BY KubeAssumption DEF Object, Comment
<1>2. CreatedBy \in Text
  BY LiteralAssumption
<1> DEFINE a == <<CreatedBy>>
<1>3. a \in Seq(Text) /\ a # <<>>
  BY <1>2
<1> HIDE DEF a
<1>4. a \o o.namespace \in Seq(Text) /\ a \o o.namespace # <<>>
  BY <1>1, <1>3, ConcatProperties, ConcatEqualIffEmpty
<1>5. (a \o o.namespace) \o o.name # <<>>
  BY <1>1, <1>4, ConcatEqualIffEmpty
<1> QED
  BY <1>5 DEF SilenceComment, a

\* The silences of the beginning are those of the objects left behind.
LEMMA InitSilenceInv == Undisturbed /\ Init => SilenceInv
<1> SUFFICES ASSUME Undisturbed, Init PROVE SilenceInv
  OBVIOUS
<1>1. PICK body \in [LegacyObjects -> Bodies], id \in [LegacyObjects -> SilenceIds] :
        silences = [i \in SilenceIds |->
                      IF \E o \in LegacyObjects : id[o] = i
                      THEN LET o == CHOOSE o \in LegacyObjects : id[o] = i
                           IN  LeftSilence(o, body[o])
                      ELSE NoSilence]
  BY DEF Init
<1>2. ASSUME NEW i \in SilenceIds
      PROVE  \/ silences[i] = NoSilence
             \/ \E o \in LegacyObjects : silences[i] = LeftSilence(o, body[o])
  <2>1. CASE \E o \in LegacyObjects : id[o] = i
    <3> DEFINE q == CHOOSE o \in LegacyObjects : id[o] = i
    <3>1. q \in LegacyObjects
      BY <2>1
    <3>2. silences[i] = LeftSilence(q, body[q])
      BY <1>1, <2>1
    <3> QED
      BY <3>1, <3>2
  <2> QED
    BY <1>1, <2>1
<1>3. ASSUME NEW o, NEW b
      PROVE  /\ LeftSilence(o, b).comment = SilenceComment(o)
             /\ LeftSilence(o, b).createdBy = CreatedBy
  BY DEF LeftSilence, Stored, getSilenceFromCR
<1>4. CreatorInv
  <2> SUFFICES ASSUME NEW o \in Objects, NEW i \in SilenceIds,
                      silences[i].comment = SilenceComment(o)
               PROVE  silences[i].createdBy = CreatedBy
    BY DEF CreatorInv
  <2>1. silences[i] # NoSilence
    <3>1. NoSilence.comment = <<>>
      BY DEF NoSilence
    <3> QED
      BY <3>1, CommentNotEmpty
  <2> QED
    BY <1>2, <1>3, <2>1
<1>5. ASSUME NEW p \in Plain PROVE LookInv(p) /\ GuardInv(p)
  <2>1. OwnOf(p) = {}
    <3> SUFFICES ASSUME NEW i \in OwnOf(p) PROVE FALSE
      OBVIOUS
    <3>1. i \in SilenceIds /\ now < silences[i].endsAt
          /\ silences[i].comment = SilenceComment(p)
      BY DEF OwnOf, Unexpired
    <3>2. silences[i] # NoSilence
      <4>1. NoSilence.endsAt = 0
        BY DEF NoSilence
      <4>2. now = 0
        BY DEF Init, EnvironmentInit
      <4> QED
        BY <3>1, <4>1, <4>2
    <3>3. PICK o \in LegacyObjects : silences[i] = LeftSilence(o, body[o])
      BY <1>2, <3>1, <3>2
    <3>4. SilenceComment(o) = SilenceComment(p) /\ o \in Objects /\ p \in Objects
      BY <1>3, <3>1, <3>3, ControllerAssumption DEF Plain
    <3> QED
      BY <3>4 DEF Undisturbed, Plain
  <2>2. ~Busy(p)
    BY ServedByType DEF Init, Busy, Idle, Plain
  <2> QED
    BY <2>1, <2>2 DEF LookInv, GuardInv
<1> QED
  BY <1>4, <1>5 DEF SilenceInv

---------------------------------------------------------------------------
(* The theorems.                                                            *)

(* IInv: what the operator relies on between two of its requests holds      *)
(* always, as long as its surroundings are Undisturbed.  (Undisturbed is a  *)
(* condition on the constants, so it is the same in every state.)           *)
THEOREM Inductive ==
  ASSUME Undisturbed
  PROVE  Spec => []IInv
<1>1. Init => IInv
  <2>1. Init => CallInv
    <3>1. NoCall.step = "none"
      BY DEF NoCall
    <3> QED
      BY <3>1 DEF Init, CallInv, CallOf
  <2> QED
    BY <2>1, InitType, InitKubeInv, InitSilenceInv DEF IInv
<1>2. IInv /\ [Next]_vars => IInv'
  BY NextType, NextKubeInv, NextCallInv, NextSilenceInv DEF IInv
<1> QED
  BY <1>1, <1>2, PTL DEF Spec

(* NoOrphan: no silence of the operator outlives its object, whatever       *)
(* crashes, fails, is lost, conflicts or lags behind.                       *)
THEOREM NoSilenceLeftBehind ==
  ASSUME Undisturbed
  PROVE  Spec => []NoOrphan
<1>1. IInv => NoOrphan
  BY DEF IInv, SilenceInv, GuardInv, NoOrphan, Plain, Holds
<1> QED
  BY <1>1, Inductive, PTL

(* AtMostOneOwn: a create whose reply was lost, or that a crash cut off, is *)
(* never repeated, so an object has one silence in effect at most.          *)
THEOREM OneSilencePerObject ==
  ASSUME Undisturbed, LegacyObjects = {}
  PROVE  Spec => []AtMostOneOwn
<1>1. IInv => AtMostOneOwn
  BY DEF IInv, SilenceInv, GuardInv, AtMostOneOwn, Plain
<1> QED
  BY <1>1, Inductive, PTL
=============================================================================
