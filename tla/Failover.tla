------------------------------ MODULE Failover ------------------------------
(* The processes of a deployment (cmd/main.go): how one is set up, becomes  *)
(* the leader and ends, while Alertmanager may still receive a request it   *)
(* sent.  A caller is the worker of one process; what it asks of the service*)
(* is left open.  Here the unit of the clock is that of the lease.          *)
EXTENDS SilenceService, Selectors

CONSTANTS
  enableLeaderElection,   \* --leader-elect, which the Helm chart passes
  Address,                \* --alertmanager-address
  LeaseDuration,          \* how long the others leave a lease alone,
  RenewDeadline,          \* how long the leader goes on without renewing it,
  MaxDelay,               \* and how long a POST is on its way
  Wanted,                 \* the silences a process may ask for
  Nobody                  \* the holder of a lease that was never taken

ASSUME FailoverAssumption ==
  /\ {LeaseDuration, RenewDeadline, MaxDelay} \subseteq Nat
  /\ enableLeaderElection \in BOOLEAN
  /\ Nobody \notin Callers
  /\ \A s \in Wanted : s \in Silence /\ s.createdBy = CreatedBy

(* A POST takes less, from a process that is gone to Alertmanager, than what*)
(* a lease (15 seconds) lasts longer than its deadline (10).  Nothing in the*)
(* code sees to it: requests have no timeout.                               *)
Prompt == RenewDeadline + MaxDelay < LeaseDuration

VARIABLES
  phase,      \* what each process is doing
  lease,      \* who holds the lease and when it was last renewed
  late,       \* requests on their way from processes that are gone
  released    \* comments of the objects that were let go

election == <<phase, lease, late, released>>
vars == <<environment, service, election>>

Phases == {"down", "standby", "leading", "stopping"}

\* The controllers of the process are running.
Runs(p) == phase[p] \in {"leading", "stopping"}

Init ==
  /\ EnvironmentInit
  /\ ServiceInit
  /\ phase = [p \in Callers |-> "down"]
  /\ lease = [holder |-> Nobody, at |-> 0]
  /\ late = {}
  /\ released = {}

---------------------------------------------------------------------------
\* The client of Alertmanager cannot be made.
NewFails == Address = ""

\* A step of main that fails ends the process: it is as down as before.
SetupFails ==
  \/ parseSelectorFails(SilenceSelectorText)
  \/ parseSelectorFails(NamespaceSelectorText)
  \/ NewFails

SetUp_NoElection(p) ==   \* mutant: the flag is not handed to the manager
  /\ phase[p] = "down"
  /\ ~SetupFails
  /\ phase' = [phase EXCEPT ![p] = "leading"]
  /\ UNCHANGED <<environment, service, lease, late, released>>

SetUp(p) ==
  /\ phase[p] = "down"
  /\ ~SetupFails
  /\ phase' = [phase EXCEPT ![p] = IF enableLeaderElection THEN "standby" ELSE "leading"]
  /\ UNCHANGED <<environment, service, lease, late, released>>

(* The election of the manager.  Each process has an identity of its own,   *)
(* so one that starts again waits for its old lease like the others.        *)
Acquire(p) ==
  /\ phase[p] = "standby"
  /\ lease.holder = Nobody \/ now >= lease.at + LeaseDuration
  /\ lease' = [holder |-> p, at |-> now]
  /\ phase' = [phase EXCEPT ![p] = "leading"]
  /\ UNCHANGED <<environment, service, late, released>>

Renew(p) ==
  /\ enableLeaderElection /\ Runs(p)
  /\ lease.holder = p
  /\ lease' = [lease EXCEPT !.at = now]
  /\ UNCHANGED <<environment, service, phase, late, released>>

\* SIGTERM: no reconcile begins, those in progress go on, and so does the lease.
Terminate(p) ==
  /\ phase[p] = "leading"
  /\ phase' = [phase EXCEPT ![p] = "stopping"]
  /\ UNCHANGED <<environment, service, lease, late, released>>

(* A process ends: it was killed, could not renew its lease or has stopped. *)
(* The lease is not given up.  Requests carry no context: nobody cancels one*)
(* that was sent.  A DELETE may be on its way as long as the clock goes on. *)
Until(request) ==
  IF request.step = "deleteByID" THEN MaxTime ELSE now + MaxDelay

Sent(p) ==
  IF call[p].step \in {"create", "update", "deleteByID"}
  THEN {[call |-> call[p], until |-> Until(call[p])]} ELSE {}

IsPost(r) == r.call.step # "deleteByID"

Exit_Release(p) ==   \* mutant: LeaderElectionReleaseOnCancel
  /\ phase[p] # "down"
  /\ phase' = [phase EXCEPT ![p] = "down"]
  /\ call' = [call EXCEPT ![p] = NoCall]
  /\ late' = late \cup Sent(p)
  /\ lease' = IF lease.holder = p THEN [lease EXCEPT !.holder = Nobody] ELSE lease
  /\ UNCHANGED <<environment, silences, released>>

Exit(p) ==
  /\ phase[p] # "down"
  /\ phase' = [phase EXCEPT ![p] = "down"]
  /\ call' = [call EXCEPT ![p] = NoCall]
  /\ late' = late \cup Sent(p)
  /\ UNCHANGED <<environment, silences, lease, released>>

---------------------------------------------------------------------------
\* A silence is asked for as long as there is an object, old or new.
Sync(p) ==
  /\ phase[p] = "leading"
  /\ \E s \in Wanted :
       SyncSilence(p, s, "") /\ released' = released \ {s.comment}
  /\ UNCHANGED <<phase, lease, late>>

Delete(p) ==
  /\ phase[p] = "leading"
  /\ \E s \in Wanted : s.comment \notin released /\ DeleteSilence(p, s.comment, "")
  /\ UNCHANGED election

Serve(p) == Runs(p) /\ Request(p) /\ UNCHANGED election

\* Once its silence is deleted the object is let go.
Take(p) ==
  /\ Runs(p)
  /\ Collect(p)
  /\ released' = IF call[p].op = "delete" /\ call[p].step = "ok"
                 THEN released \cup {call[p].silence.comment} ELSE released
  /\ UNCHANGED <<environment, silences, phase, lease, late>>

\* A late request reaches Alertmanager, or never does.
Arrives(r) ==
  /\ late' = late \ {r}
  /\ \/ r.call.step = "create" /\ PostNew(r.call.silence, r.call.tenant, Held)
     \/ r.call.step = "update" /\ PostOver(r.call.id, r.call.silence, r.call.tenant, Held)
     \/ r.call.step = "deleteByID" /\ Expire(r.call.id)
     \/ UNCHANGED silences
  /\ UNCHANGED <<environment, call, phase, lease, released>>

(* Time does not pass a deadline: the leader that did not renew its lease   *)
(* has ended by then, a late request has arrived or never will.             *)
Tick ==
  /\ Passes
  /\ enableLeaderElection =>
       \A p \in Callers : Runs(p) => now < lease.at + RenewDeadline
  /\ \A r \in late : now < r.until
  /\ UNCHANGED <<service, election>>

Next ==
  \/ \E p \in Callers :
       \/ SetUp(p) \/ Acquire(p) \/ Renew(p) \/ Terminate(p) \/ Exit(p)
       \/ Sync(p) \/ Delete(p) \/ Serve(p) \/ Take(p)
  \/ \E r \in late : Arrives(r)
  \/ Tick

Spec == Init /\ [][Next]_vars

---------------------------------------------------------------------------
(* What is written comes from one process: while the controllers of one run,*)
(* those of no other do and no POST of a predecessor is on its way, although*)
(* nothing waits for it and the lease of a process says nothing of what it  *)
(* sent (cmd/main.go leaves LeaderElectionReleaseOnCancel off, so the lease *)
(* outlives the process).                                                   *)
OneWriter ==
  \A p \in Callers : Runs(p) =>
    /\ \A r \in late : ~IsPost(r)
    /\ \A q \in Callers : Runs(q) => q = p

Own(comment) ==
  {i \in SilenceIds : /\ Unexpired(i)
                      /\ silences[i].comment = comment
                      /\ silences[i].createdBy = CreatedBy}

(* Through rolling updates, crashes and lost leases no second silence with  *)
(* the comment of the first appears: SyncSilence looks before it creates,   *)
(* and nobody creates in between, not even a process that is gone.  A DELETE*)
(* of one may arrive at any time.                                           *)
OneSilence == \A s \in Wanted : \A i, j \in Own(s.comment) : i = j

(* No silence comes back for an object that was let go: a process that      *)
(* deletes a silence is not overtaken by the POST of its predecessor.       *)
NoneAfterRelease == \A s \in Wanted : s.comment \in released => Own(s.comment) = {}
=============================================================================
