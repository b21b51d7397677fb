------------------------------ MODULE KubeApi -------------------------------
(* The Kubernetes side of the operator, as far as the reconcilers of src/   *)
(* use it: the stored objects, the watch, the informer cache the client     *)
(* reads from, and the workqueue the event filters feed.                    *)
EXTENDS Environment, Conversion, Selectors, Tenancy

CONSTANTS
  Objects,    \* the custom resources that may exist
  Bodies      \* what users may write: [labels, spec]

ASSUME KubeAssumption ==
  /\ Objects \subseteq Object
  /\ \A b \in Bodies : \A key \in DOMAIN b.labels : b.labels[key] \in Text

VARIABLES
  api,      \* the stored version of each object
  watch,    \* the versions the informer has not been told of yet
  cache,    \* the version in the informer's cache
  queue     \* the objects waiting for a reconcile

kube == <<api, watch, cache, queue>>

---------------------------------------------------------------------------
SilenceFinalizer == "silence-protection"
LegacyFinalizer == "operatorkit"
Finalizers == {SilenceFinalizer, LegacyFinalizer}

NoBody == [labels |-> <<>>, spec |-> <<>>]

Version ==
  [exists : BOOLEAN, rv : Nat, deleting : BOOLEAN,
   finalizers : SUBSET Finalizers, created : Nat, body : Bodies \cup {NoBody}]

Absent ==
  [exists |-> FALSE, rv |-> 0, deleting |-> FALSE, finalizers |-> {},
   created |-> 0, body |-> NoBody]

Tenant(v) == ExtractTenant(v.body.labels)

\* The event of a version passes the filters.
Selected(o, v) == EventFilter(o, v.body.labels, namespaces)

KubeTypeOK ==
  /\ api \in [Objects -> Version]
  /\ watch \in [Objects -> SUBSET Version]
  /\ cache \in [Objects -> Version]
  /\ queue \subseteq Objects

---------------------------------------------------------------------------
(* The server stores a version under the next resource version and tells    *)
(* the watchers; an object being deleted goes with its last finalizer.      *)
Persisted(o, v) ==
  [v EXCEPT !.rv = api[o].rv + 1, !.exists = ~(v.deleting /\ v.finalizers = {})]

Write(o, v) ==
  /\ api' = [api EXCEPT ![o] = Persisted(o, v)]
  /\ watch' = [watch EXCEPT ![o] = @ \cup {Persisted(o, v)}]

\* Optimistic concurrency: an update names the version it was made from.
Current(o, v) == api[o].exists /\ api[o].rv = v.rv

---------------------------------------------------------------------------
CreateObject(o) ==
  /\ ~api[o].exists
  /\ UserActs("create")
  /\ \E b \in Bodies :
       /\ Admitted(o, b.spec)
       /\ Write(o, [Absent EXCEPT !.exists = TRUE, !.created = now, !.body = b])

EditObject(o) ==
  /\ api[o].exists
  /\ \E b \in Bodies \ {api[o].body} :
       /\ Admitted(o, b.spec)
       /\ UserActs(IF Tenant([api[o] EXCEPT !.body = b]) = Tenant(api[o])
                   THEN "edit" ELSE "relabel")
       /\ Write(o, [api[o] EXCEPT !.body = b])

DeleteObject(o) ==
  /\ api[o].exists /\ ~api[o].deleting
  /\ UserActs("delete")
  /\ Write(o, [api[o] EXCEPT !.deleting = TRUE])

UserWrites ==
  /\ \E o \in Objects : CreateObject(o) \/ EditObject(o) \/ DeleteObject(o)
  /\ UNCHANGED <<cache, queue>>

---------------------------------------------------------------------------
(* The informer is told of the versions in their order.  The event filters  *)
(* see the version it is told of, and only that one, and the namespaces of  *)
(* that moment.                                                             *)
Deliver(o) ==
  \E v \in watch[o] :
    /\ \A w \in watch[o] : v.rv <= w.rv
    /\ cache' = [cache EXCEPT ![o] = v]
    /\ watch' = [watch EXCEPT ![o] = @ \ {v}]
    /\ queue' = IF Selected(o, v) THEN queue \cup {o} ELSE queue
    /\ UNCHANGED <<api, environment>>

\* Every ten hours the informer tells of everything in its cache again.
Resync(o) ==
  /\ cache[o].exists /\ Selected(o, cache[o])
  /\ queue' = queue \cup {o}
  /\ UNCHANGED <<api, watch, cache, environment>>

\* A new process lists everything before its first reconcile.
Relist ==
  /\ cache' = api
  /\ watch' = [o \in Objects |-> {}]
  /\ queue' = {o \in Objects : api[o].exists /\ Selected(o, api[o])}
  /\ UNCHANGED api
=============================================================================
