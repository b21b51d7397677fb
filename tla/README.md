# Formal verification of silence-operator

TLA+ models of the silence-operator, checked with TLC on small instances, and
theorems about them proved with TLAPS for every instance. `PROJECT.json` lists
the components, runs, mutants, findings, hazards and theorems, and maps every
definition to the source lines it stands for.

## 1. The system

The operator watches `Silence` objects in Kubernetes, in two API versions, and
keeps for each of them one silence in an Alertmanager (or Mimir) that it shares
with people and other programs. The two sides have no transaction in common:
the operator has an informer cache that lags behind, an Alertmanager that it
can only list and change one request at a time, and a finalizer on the object
that must not go before the silence has.

| Component | Source | State | Operations |
|---|---|---|---|
| v1alpha1 reconciler | `internal/controller/silence_controller.go` | none of its own; finalizers of the object | `Reconcile`, `reconcileCreate`, `reconcileDelete`, `cleanUpLegacyFinalizer`, `getSilenceFromCR` |
| v1alpha2 reconciler | `internal/controller/silence_v2_controller.go` | as above | the same without the legacy finalizer, `convertMatchers`, `calculateSilenceTimes` |
| Event filters | both controllers, `pkg/config/config.go` | selectors | which events reach the workqueue |
| Silence service | `pkg/service/silence.go` | none | `SyncSilence`, `DeleteSilence`, `updateNeeded` |
| Alertmanager client | `pkg/alertmanager/*.go` | address, token, tenant | list, find by comment, create, update, delete |
| Tenancy | `pkg/tenancy/tenancy.go`, `pkg/alertmanager/http.go` | configuration | the tenant of an object, the header of a request |
| API types | `api/v1alpha1`, `api/v1alpha2` | | validation by the API server |
| Configuration | `pkg/config/config.go` | the flags | parsing of both selectors |
| Start-up | `cmd/main.go` | phase of each process, lease | set-up, leader election, termination; both controllers share one client |
| Migration script | `hack/migrate-silences.sh` | shell variables, in each process of a pipeline | convert the matchers, build the object, `kubectl apply` |
| Kubernetes, workqueue, informer | not in the repository | stored objects, watch, cache, queue | optimistic updates, deletion with finalizers, events, resync |
| Alertmanager | not in the repository | silences by id | list, post, expire |

How they interact: an event that passes the filters puts an object into the
queue of its controller; one worker per controller takes it, reads the cache,
updates finalizers through the API server and calls the service; the service
makes one to two requests through the client; an error anywhere comes back to
the workqueue, which tries again.

What is hard here, and hardly reached by the unit and e2e tests of the
repository:

* **Order across two servers.** The finalizer is added before the silence is
  created and removed after it was deleted. A crash, a conflict or a lost reply
  falls between any two of these requests.
* **Stale reads.** `Reconcile` works on a cached version that may have been
  edited, marked for deletion, deleted, or deleted and created again.
* **Look, then act.** `SyncSilence` creates or updates according to a listing
  that may be out of date, by the clock, by people and by its own past attempts.
* **Retries.** A request that took effect and whose reply was lost is repeated.
* **Two finalizers.** Objects of operatorkit releases carry another finalizer,
  which is handed over in two updates.
* **Two processes.** A rolling update starts the next process before the last one
  ends, and nobody cancels a request that was sent: only the lease stands between
  the POST of a process that is gone and the successor that deletes the silence.
* **Three validations.** The custom resource definitions, `getSilenceFromCR` and
  Alertmanager check the same object and know nothing of each other.
* **Filters with a memory of nothing.** An event that a selector drops is gone;
  relabelled or unreadable namespaces raise none.
* **Liveness.** The object must end up mirrored, and its deletion must complete,
  with nothing but events, retries and resyncs to drive it.

What makes the components correct, and so what is checked:

* service: success means *mirrored* (or *gone*); at most one silence per comment
  and tenant; nobody else's silence is touched;
* reconcilers: no silence outlives its object; one silence per object; no
  finalizer gap in the handover; nothing left undone at rest; in the end
  everything mirrored and every deletion complete;
* start-up: requests come from one process at a time; nothing a process left on the
  way brings a silence back;
* conversion, validation and migration: what is admitted is refused by Alertmanager
  only where that is known; success means that every field arrived (but one, finding
  6); both definitions and the migration mean the same silence;
* conversion and tenancy: one function of the object, used the same way by
  creation and deletion, so that the deletion finds what the creation made.

## 2. Modules

```
SilenceTypes -+- Tenancy -------------+
              |                       |
              |   Environment --- Alertmanager --- SilenceService --- ServiceCalls --- MCServiceCalls
              |        |                               |  |  |            +----------- ServiceCallsProofs *
              +- Selectors ------------------------------------ Failover --- MCFailover
              |        |                               |  |         +------- FailoverProofs *
              +- Conversion --- Migration -----------------Edits --- MCEdits
              |        |            |                  |     +------ EditsProofs *
              |        |            +- MigrationScript --- MCMigrationScript
              |        |                               |
              |     KubeApi ---------------- SilenceController       SilenceGuard
              |                                        |                  :
              |                              SilenceControllerInv ... (INSTANCE)
              |                                |              |
              |                  MCSilenceController    SilenceControllerProofs *
              |                                               |
              |                                  SilenceControllerSafety
              |                                      |                |
              |                     SilenceControllerRefines   SilenceControllerQuiescent

* extends ServiceLemmas (SilenceService, Conversion) too
```

**SilenceTypes** (`pkg/alertmanager/types.go`, `SilenceComment`). The JSON
silence and the comment. A comment is the sequence of the segments its text
joins with `-`, so that two objects whose texts collide collide here too.
Texts are abstract; nothing is built character by character.

**Tenancy.** `ExtractTenant` with its early returns, and the `X-Scope-OrgID`
header of `NewRequest`. Request without a header and the empty tenant are one.

**Conversion.** `getSilenceFromCR` of both controllers: matchers (`isEqual`
defaults to true; the four match types of v1alpha2), times (explicit end,
duration, the annotation in two layouts, a hundred years), the errors that stop
a reconcile (an annotation that parses with neither layout, a duration that is too
long to be one, no creation time), and `Admitted`, the validation rules of the two custom resource
definitions. Time is counted in hours.

**Environment** (external). One clock, the users, the namespaces and the failures,
each with a named bound. A namespace has labels, or is one the client cannot show
(`Missing`); it changes without any event. Failures are `refused` (nothing happened, an error comes back),
`lost` (it happened, the reply never arrives), `status` (a DELETE answered with
an error status) and `crash`.

**Alertmanager.** State: `silences`, an array of slots indexed by id. The client's
reading of a listing (`ListSilences`, `GetSilenceByComment`, the filter of
`DeleteSilenceByComment`) is translated from `pkg/alertmanager`; the server's
part (`PostNew`, `PostOver`, `Expire`, `Accepts`) is external. `Accepts` has the
checks of Alertmanager that the definitions do not make certain: names of labels,
expressions that compile, one matcher at least that does not match the empty text, a
start before the end, an end that has not passed. Which names and expressions are
invalid are constants. `Stored` is what it keeps: a new silence does not start in the
past (`NotPast`), so its start is not the one that was sent. A POST with an id changes
the silence in place if `CanUpdate` allows it (the same matchers, and the same start
once it has begun) or else expires it and stores a new one. Slots whose silence expired
are reused once no request names them.

**SilenceService.** State: `call`, the call in progress of each caller. Every
request is an action: a call is `list`, then possibly `create`, `update` or
`deleteByID`, then `ok` or `failed` until the caller collects it. Between two of
these anybody else may act. The clock is read at the start of `SyncSilence`, as
in the code. `DeleteStatusIgnored` is what the client makes of an unexpected
status of a DELETE.

**ServiceCalls.** The service with arbitrary callers, to state what `nil` means
to any caller. Two callers never work on one comment at the same time: that is
the workqueue's promise.

**Selectors** (`pkg/config/config.go`, `SetupWithManager`). A selector is the set of
requirements its text parses to; no text and no requirements set up no filter.
`EventFilter` is the label filter of both controllers and the namespace filter of
the v1alpha2 one, which drops what it cannot look up.

**KubeApi** (external, but for what the filters select and the tenant). State: `api` (the stored
version of each object), `watch` (versions the informer has not been told of),
`cache`, `queue`. Writes take the next resource version; an object being deleted
goes with its last finalizer; users create, edit, relabel and delete. `Deliver`
hands the oldest undelivered version to the informer, through the event filter,
which sees only that version and the namespaces of that moment; `Resync` repeats what the cache holds.

**SilenceController.** State: `worker`, one per controller: the step it is at and
the version in its hands. `NextStep` is the control flow of `Reconcile`: deletion
with the finalizer, a missing finalizer, the legacy finalizer, then the sync. It
is evaluated with the cached version at the start and with the version that came
back from every successful update after that, as the code goes on with the
object it just updated. `Update` has the outcomes stored, stored but the reply lost,
conflict, refused. Errors requeue. `Restart` drops cache, queue, workers and
calls and relists.

**SilenceControllerInv.** The inductive invariant and the refinement mapping
(section 5).

**SilenceGuard.** What the operator promises of the finalizer, without caches, calls,
retries and crashes: an item is held or not, silenced or not; only held items are
silenced, and an item is released only when it is not. `held` maps to the finalizer
in the stored version, `silenced` to any silence of the operator in effect, for all
objects but those an operatorkit release left behind (finding 2).

**Edits.** One object with every content a user may give it, the service and an
Alertmanager: validation, conversion and acceptance side by side. `Unacceptable` says
in the words of the definitions which contents are admitted and never mirrored;
`InEffectAs` is what "mirrored" can mean of a start that may have passed.

**Migration**, **MigrationScript.** `convert_matcher_to_enum` and the object the
script means to build; and a run of it, in which the loop over the matchers works on
its own copy of `converted_matchers`, as the right side of a pipeline does. The
labels and the patterns of annotations that are left behind are abstracted:
`valid-until` is kept.

**Failover.** The processes of a deployment: each is down, standing by, leading or
stopping. `SetUp` is `main` with its early exits, `Exit` any way a process ends. What
a process has sent stays on its way and reaches Alertmanager, or not, whoever leads by
then: a POST for up to `MaxDelay`, a DELETE for as long as the clock runs. What a
process asks of the service is left open; an
object is *released* when its deletion returned nil. The election itself is external:
a lease is taken when it was not renewed for `LeaseDuration`, its holder stops
running `RenewDeadline` after it last renewed it, and it is not given up at the end
of a process (`LeaderElectionReleaseOnCancel` is commented out in `main.go`).

Definitions named `X_Suffix` and commented as mutants are defective versions of
`X`. They are not part of the model; the mutants of `PROJECT.json` put them in
place of `X` to show that the property named there would notice.

## 3. Runs

| Run | Instance | Properties | Outcome |
|---|---|---|---|
| `service_calls` | two callers, two comments, four contents, 3 calls, 1 failed request, 1 action of a person, clock 0..2, no error status of a DELETE | `TypeOK`, `AtMostOneOwn`, `SyncReturnsOnlyWhenMirrored`, `ReturnsOnlyWhenGone`, `OthersUntouched` | hold, 2.4 M states |
| `service_delete_status` | the same with error statuses | `ReturnsOnlyWhenGone` | violated: finding 1 |
| `operator_v1` | one v1alpha1 object, four contents (one that cannot be converted, one the selector does not match), 4 user changes, 2 failures or crashes, clock 0..2 | `TypeOK`, `NoOrphan`, `AtMostOneOwn`, `QuiescentMirrored`, `ImplementsGuard` | hold, 1.6 M states |
| `operator_both` | a v1alpha1 object of an operatorkit release and a v1alpha2 one, 2 changes, 1 failure | `IInv`, `NoOrphan`, `AtMostOneOwn`, `LegacyHandover` | hold, 0.3 M states |
| `operator_live` | one v1alpha2 object and its namespace, both selectors, 3 changes of object, namespace or silence, 1 failure of any kind, fairness | `EventuallyMirrored`, `DeletionCompletes` | hold, 0.3 M states |
| `operator_legacy` | a v1alpha1 object of an operatorkit release that is deleted | `LegacySilenceDeleted` | violated: finding 2 |
| `operator_relabel` | one v1alpha2 object whose tenant label changes, always selected | `SilenceFollowsTenant` | violated: finding 3 |
| `operator_coexist` | a v1alpha1 object `team-b` and a v1alpha2 object `team/b` | `BothMirrored` | violated: finding 5 |
| `edits` | one object of either definition, contents around every edge of every check, 1 edit, clock 0..2 | `OnlyTheseAreRefused`, `MigrationKeepsMeaning`, `EditsMirrored` | hold, 0.4 M states |
| `edits_start` | the v1alpha2 object of `edits` | `StartMirrored` | violated: finding 6 |
| `failover` | two processes with leader election, clock 0..6, lease 3, deadline 1, delay 1 of a POST, any of a DELETE, 1 failed request, processes and ids interchangeable | `OneWriter`, `OneSilence`, `NoneAfterRelease` | hold, 2.2 M states |
| `migration_script` | one silence with two matchers | `MatchersConverted` | violated: finding 4 |

What they mean:

* `SyncReturnsOnlyWhenMirrored`, `ReturnsOnlyWhenGone`: what a caller may conclude
  from `nil`. The reconcilers rely on the second when they remove the finalizer.
* `AtMostOneOwn`: failures and retries never lead to a second silence. It matters
  because a deletion removes only the first match.
* `OthersUntouched`: what people wrote stays as it is.
* `NoOrphan`: while a silence is in effect its object is stored, holds the
  finalizer, and names the tenant of the silence.
* `LegacyHandover`: an object that is not being deleted never loses its last
  finalizer.
* `QuiescentMirrored`: with empty queue, empty watch and idle workers, every
  selected object is mirrored and none is stuck in its deletion - without any
  help from a resync.
* `ImplementsGuard`: the operator is a `SilenceGuard`. It says of the *steps* what
  `NoOrphan` says of the states: the finalizer goes in a step that finds no silence.
* `EventuallyMirrored`, `DeletionCompletes`: liveness. Objects the selectors do not
  match are left alone, also in their deletion: an object that was edited out of the
  selector keeps its finalizer, and its deletion waits until it is selected again.
  With namespaces that are relabelled or cannot be read for a while, only a resync
  brings the object back, which is in the fairness. Tenancy is off in this run: the
  tenant of an object never changes.
* `OnlyTheseAreRefused`: which admitted and converted contents the checks of
  Alertmanager, as `Accepts` has them, refuse for ever: invalid names and expressions
  and matchers that ask for nothing in either definition (none at all in v1alpha1); in
  v1alpha2 a given start that is not before an end the definition does not compare it
  with. It is an equivalence: the list is neither too short nor too long.
* `EditsMirrored`: `updateNeeded` compares matchers and end, not the start, and
  Alertmanager moves starts on its own. After a `nil` Alertmanager holds a silence with
  the matchers and the end asked for, in effect as *some* content of the object asks: of
  a v1alpha1 object, all of whose contents start when it was created, that is as it
  asks now. `StartMirrored` asks the same of the present content of a v1alpha2 object,
  and fails (finding 6).
* `MigrationKeepsMeaning`: the conversion of the script, taken alone, is right. What
  the script does with its result is finding 4.
* `OneWriter`, `OneSilence`, `NoneAfterRelease`: what leader election has to give the
  service, which looks and then acts. The first two fail without it, and the last when
  the lease is given up at the end of a process. `OneWriter` is about POSTs: a DELETE of
  a predecessor may arrive at any time, and the other two hold all the same.

**Bounds.** They are named constants. Three calls are the fewest that let one
caller create, fail and repeat while another one interferes. Four user changes
are create, edit or delete, and both again on the new object of the same name;
two failures let a retry fail too. Two ids in the one-object runs are enough for
a duplicate, three in the runs with two writers; a bound on ids only ever
prevents a *third* silence, and two are a violation already. The clock runs
to 2 with ends at 1 and beyond the clock, so a silence ends before, between and
after the two requests of a call. An end at the very hour at which the clock
stops is left out: such a silence would be refused for ever by a clock that
never goes on, which no clock does.

In `failover` the clock runs through two whole leases, so that a process leads, ends
with a request on its way, and is succeeded by the other and by itself again. The
instance satisfies `Prompt` (`RenewDeadline + MaxDelay < LeaseDuration`), which stands for
the defaults of 10 and 15 seconds and a POST that arrives within the difference. Nothing
in the code sees to that: requests have no timeout, and a POST that is delayed for longer
breaks all three properties. The id a late DELETE names may be given to another silence
meanwhile, which is more than an Alertmanager does. The chart passes `--leader-elect`
(`helm/silence-operator/templates/deployment.yaml:51`); the flag alone is off by
default. In `edits` starts, ends and durations are taken from both sides of each other,
of zero and of the clock.

**Deadlock** is not checked: the bounded users and failures end, and an operator
with nothing to do rests. `QuiescentMirrored` says what may be true then.

**Fairness** (`LiveSpec`). Strong fairness of `Reconcile(o)`: the workqueue is first
in, first out, so an object that is queued again and again is not passed over
for ever although its worker is busy in between. Weak fairness of every worker
step (a goroutine that can go on does), of `Deliver` (the watch), of `Resync`
(controller-runtime resyncs every ten hours by default) and of the clock. No
fairness of users, failures or crashes; failures are finite by their bound,
which stands for "in the end the servers answer".

## 4. Findings

1. `pkg/alertmanager/alertmanager.go:197`. A DELETE answered with any status other
   than 200 returns `errors.WithMessagef(errors.WithStack(err), ...)` where `err`
   is nil, and that is nil. The service reports success; the reconciler removes
   the finalizer; the silence stays. `pkg/service/silence.go:90` and
   `silence_controller.go:81` say that errors are retried.
2. `internal/controller/silence_controller.go:78`. An object that carries only the
   legacy finalizer when it is deleted is let go without deleting its silence.
3. `internal/controller/silence_controller.go:151`. When the tenant label of an
   object changes, the silence of the old tenant is never deleted, not even with
   the object.
4. `hack/migrate-silences.sh:149`. The loop that collects the converted matchers is a
   process of its own; its result is lost, every silence is handed to `kubectl` without
   matchers and refused. `MIGRATION.md:167`: "This script automatically converts
   boolean fields (`isRegex`/`isEqual`) to the new `matchType` enum format."
5. `pkg/alertmanager/alertmanager.go:205`. Comments are joined with `-`, which names
   contain: a v1alpha1 object `team-b` and the v1alpha2 object `b` of the namespace
   `team` share a comment and so one silence. `MIGRATION.md:470`: "Both API versions can
   coexist safely."
6. `pkg/service/silence.go:99`. `updateNeeded` does not look at the start: an edit of
   `spec.startsAt` alone is reported as synced and never sent.
   `api/v1alpha2/silence_types.go:81`: "StartsAt defines when the silence becomes
   active." `README.md:200-201`: the operator "ensures that the current Alertmanager
   silences match these objects".

## 5. Proofs

Every invariant and every action property that a passing run checks is also a
theorem, for any objects, contents, labels, ids, callers, processes, comments and
bounds, under the assumptions given with it; the liveness properties are not. Eight modules hold proofs.

`ServiceLemmas` has what the others share: what the operators of the service return,
what one request writes, slot by slot (`RequestWrites`), that a listing stays true for
its caller until it acts on it (`RequestLooked`, `LookedKept`), that an id in flight
names the silence the listing showed (`RequestNamed`, `NamedKept`), and what holds when
`SyncSilence` returns nil (`SyncEnds`).

`ServiceCallsProofs`, about the service alone, under `Apart` (people do not use the
comments of the callers: `SyncSilence` would adopt what they wrote):

* `TypeCorrect`: `Spec => []TypeOK` (without `Apart`); an update or a deletion has an id.
* `OneOwn`: `Spec => []AtMostOneOwn`.
* `SyncIsTrue`: `Spec => SyncReturnsOnlyWhenMirrored`.
* `GoneIsTrue`: `Spec => ReturnsOnlyWhenGone`, if a DELETE is not answered with an error
  status (finding 1).
* `LeavesOthersAlone`: `Spec => OthersUntouched`.

`SilenceControllerProofs` and `SilenceControllerSafety`, about the composed operator:

* `TypeCorrect`: `Spec => []TypeOK`. More than types: every version anybody holds
  (stored, in the watch, in the cache, in a worker's hands) passed the validation
  of its definition, and a worker only has existing objects of its own controller.
* `Inductive`: `Spec => []IInv`, under `Undisturbed`.
* `NoSilenceLeftBehind`: `Spec => []NoOrphan`, under `Undisturbed`. Objects of an
  operatorkit release are excepted: finding 2 shows why they must be.
* `OneSilencePerObject`: `Spec => []AtMostOneOwn`, under `Undisturbed` and without
  objects of an operatorkit release. One of those may leave its silence behind (finding
  2) and come back for another tenant; `operator_both` checks the case of one tenant.

`SilenceControllerQuiescent` adds:

* `NothingLeftUndone`: `Spec => []QuiescentMirrored`, under `Undisturbed` and `Unattended`.

`SilenceControllerRefines` adds:

* `OperatorImplementsGuard`: `Spec => ImplementsGuard`, under `Undisturbed`. Every step
  of the operator maps to `Hold`, `Release`, `Change` or a stutter. The case that
  matters is the update that removes the finalizer: `IInv` says that the object has no
  silence then.
* `HandsOver`: `Spec => LegacyHandover`, without any condition: it needs only that a
  worker about to remove the legacy finalizer from an object that is not being deleted
  holds a copy with the new one, and that an update needs the copy to be the stored
  version.

`FailoverProofs`, with leader election on, for any processes and durations that satisfy
`Prompt`, with DELETEs that are late without a bound:

* `RequestsComeFromOneProcess`: `Spec => []OneWriter`.
* `OneSilenceAcrossProcesses`: `Spec => []OneSilence`.
* `NothingComesBack`: `Spec => []NoneAfterRelease`, if a DELETE is not answered with an
  error status (finding 1).

`EditsProofs`, for any contents and times:

* `RefusalsAreKnown` and `MigrationIsFaithful`: `Spec => []OnlyTheseAreRefused` and
  `Spec => []MigrationKeepsMeaning`, a case analysis of the three sets of checks over
  the fields. What the first says of Alertmanager is as good as `Accepts`.
* `EditsAreMirrored`: `Spec => EditsMirrored`, under `NoNamesakes` (nobody writes
  silences with the comment of an object by hand).

**The assumptions.** `Undisturbed` is a condition on the constants. The
findings and hazards say what each conjunct keeps out: labels that name the tenant do
not change (finding 3), Alertmanager does not answer a DELETE with an error status
(finding 1), no two objects share a comment (finding 5), and no person uses one. The
instances of `operator_v1` and `operator_both` satisfy it. `Unattended` is another one,
for `QuiescentMirrored`: no object of an operatorkit release (finding 2), nobody expires
silences by hand, and nobody changes what the namespace selector sees. No event of an
object tells of the latter two, so they wait for a resync, as the liveness properties
do. The instance of `operator_v1` satisfies it. The
other assumptions are the named ASSUMEs of the modules, which TLC evaluates in the
runs; `LiteralAssumption` and `MatchTypesAssumption` only say that string literals are
strings, `UnsetAssumption` that an absent field is not a number.

**The argument: no silence is left behind.** `NoOrphan` is not inductive: when the worker removes the finalizer,
nothing in `NoOrphan` says that the silence is gone. `IInv` has three layers, each of
which needs only those before it.

1. *Versions* (`KubeInv`). The stored version is in the cache or on its way there;
   none is newer; equal resource versions are equal versions; a worker that has not
   updated its object yet holds nothing newer than the cache (`VersionInv`). The
   worker is at the step `NextStep` gives for its copy (`StepInv`). Anybody who
   sees the object alive with the finalizer can rely on the stored one having it,
   with the same labels (`FinalizerInv`). The core is the lemma `UpToDate`: an
   update that removes or adds the finalizer succeeds only if the copy is the
   stored version, and as the copy is no newer than the cache, the cache is up to
   date and the watch empty. So after the finalizer went, nobody can still
   believe that it is there. This is what makes the stale cache harmless.
2. *Calls* (`CallInv`). A call in progress has the comment of the worker's object,
   the tenant of its copy, and the kind of the worker's step.
3. *Silences* (`SilenceInv`). Silences under an object's comment are the operator's
   (`CreatorInv`); what a listing told a worker stays true until it acts on it
   (`LookInv`: nothing found, or at most the one whose id it has); every silence in
   effect is held by its object and is the only one (`GuardInv`). A listing for the
   tenant of the copy shows all silences of the object, because of layers 1 and 2
   (`ListingShowsOwn`); others only make them fewer (`SlotsKept`).

Each layer has one lemma per action or kind of action and is assembled in
`NextKubeInv`, `NextCallInv` and `NextSilenceInv`. TLC checks `IInv` as an invariant
of `operator_both`.

**The argument: nothing is left undone.** `QuiescentMirrored` speaks of states at rest
only, so the invariant has to say what every other state owes. `QInv` stands on `IInv`:

1. `HandledInv`: without legacy objects the operator's finalizer is the only one, and
   it holds whatever is being deleted. So a reconcile of a stored version is never over
   before it began (`NextIsBusy`).
2. `AskedInv`: a sync asks for what the worker's copy says, and the id of a request in
   flight names a silence with the comment of its object. So a request never touches the
   silence of another object (`RequestForeign`).
3. `PendingInv`: of an object to be served, the watch will still tell the stored version,
   or the object is queued, or a worker is busy with exactly the stored version, or it
   is mirrored and not being deleted (`Pending`); and a sync of the stored version that
   succeeded is true until the worker takes the result (`SyncedInv`).

The case that matters is a worker that ends a reconcile without an error (`GiveUp`). If
its copy was the stored version, `SyncedInv` says that the object is mirrored. If it was
not, `Pending` cannot have held because of the worker, so the newer version is in the
watch or in the queue. Every write makes a version that nobody holds and puts it into
the watch (`WriteIsNews`); every failure puts the object into the queue; every other
step concerns other objects (`NotConcerned`) or only lets time pass (`MirroredKept`).

**The argument: the service and its callers.** `CallsInv` of `ServiceCallsProofs`: two
calls in progress have different comments; nobody else has silences in effect under
them; what the listing told each call is true (`Looked`, `Named`); one silence per
comment and tenant. It is inductive because an id is not given away while a request names
it, and because others end silences but never add one under a comment of the operator.

**The argument: failover.** `ElectionInv` orders the deadlines: a process runs only as the
holder of the lease and until `RenewDeadline` after its last renewal, a POST it left on
its way is there until `MaxDelay` after that at the latest, and nobody takes the lease
before both; this is where `Prompt` is used. So who runs is alone (`Alone`), and
`WriteInv` can say of its call and of a POST that is still on its way what `LookInv` says
of the single process: it was made from a listing that is still true, and it asks for a
silence only of an object that is not released. A DELETE that arrives late only ends a
silence (`LateDelete`), which makes a listing no less true for its caller
(`LateSoundKept`, `CallSoundKept`).

**The argument: edits.** `HeldInv`: whatever is in effect, or about to be posted, under the
comment of the object is `OfItem`: it has its creator, the matchers and the end of one of
the contents the object could have had, and the start of that content or one that has
passed like it. A POST keeps this whichever way Alertmanager takes it (`StoreOfItem`), and
so does the clock. What `SyncSilence` finds unchanged is then in effect as a content with
those matchers and that end asks (`FoundIsMirror`).

TLC has checked each of these invariants (`QInv`, `CallsInv`, `WriteInv`, `HeldInv`) on the
instances of the runs before it was proved; none is checked again by a run, because the
theorems cover them.

**Only model-checked.** `EventuallyMirrored` and `DeletionCompletes`: liveness needs
fairness and ENABLED, both beyond the prover. The runs that expect a violation refute
their properties on an instance and there is nothing to prove; the theorems above say
under which condition (`Undisturbed`, `Unattended`) what they ask for holds.

## 6. Not modelled

* *Authentication.* The bearer token is read once, at start-up (`main.go:238`), and the
  tokens of service accounts are rotated. A refusal for ever would be outside the
  fairness of the liveness properties.
* *Requests without an answer.* `http.DefaultClient` has no timeout. Every request of the
  models is answered or fails.
* *Other people's silences under the operator's comments.* `SyncSilence` adopts them
  (`alertmanager.go:75`); the people of the runs use other comments.
* *Limits and patterns* of the definitions, but for a duration that matches its pattern
  and is too long; the labels a migration copies, JSON, metrics, webhooks, certificates,
  probes, logging.
* *Alertmanager* itself. What it accepts, stores and changes in place is written from its
  documented behaviour, not from code of this repository, and the theorems about contents
  hold relative to it.
* *POSTs that are late beyond the lease.* Every property of `failover` assumes `Prompt`.
* *The list the script means to build.* `Converted` of `Migration` is what lines 147-152
  would deliver were they run in one process; `MigrationScript` has what they do.
* *The mock Alertmanager* (`internal/controller/testutils`), a double for the unit tests.
* Generated deep copies, the Helm chart and the tests: there is no behaviour of the
  operator in them. The flags the chart sets are constants here.

Details, and what each gap hides, are in the components and hazards of
`PROJECT.json`.

## 7. Plan

Done: the service, the composed operator, its refinement of `SilenceGuard`, event
filters, edits and migration, failover, and the theorems above. Left:

1. *Failover of the composed operator*: objects and caches of two processes instead of
   the open callers of `Failover`.
2. *Weaker assumptions*: `QuiescentMirrored` with objects of an operatorkit release, which
   needs the legacy finalizer in `HandledInv`; what still holds when people expire
   silences by hand (all but `SyncedInv`).
