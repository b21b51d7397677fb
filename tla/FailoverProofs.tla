--------------------------- MODULE FailoverProofs ---------------------------
(* With leader election, what is written comes from one process, for any    *)
(* number of processes and any contents - as long as requests are Prompt,   *)
(* which is a hypothesis of every theorem here: the code does not ensure it.*)
EXTENDS Failover, ServiceLemmas

\* Who runs holds a lease it renewed in time; a late POST is older than that.
LeaseInv ==
  /\ now \in Nat
  /\ phase \in [Callers -> Phases]
  /\ lease \in [holder : Callers \cup {Nobody}, at : Nat]
  /\ lease.at <= now
  /\ \A p \in Callers : Runs(p) =>
       lease.holder = p /\ now <= lease.at + RenewDeadline
  /\ \A r \in late : IsPost(r) =>
       /\ r.until \in Nat
       /\ now <= r.until /\ r.until <= lease.at + RenewDeadline + MaxDelay
       /\ lease.holder # Nobody

ElectionInv == LeaseInv /\ OneWriter

\* A call in progress belongs to a process that runs.
CallInv ==
  /\ DOMAIN call = Callers
  /\ \A c \in Callers : call[c].step # "none" => Runs(c)

LEMMA SetUpKeeps ==
  ASSUME ElectionInv, enableLeaderElection, NEW p \in Callers, SetUp(p)
  PROVE  ElectionInv'
<1>1. UNCHANGED <<now, lease, late>> /\ phase' = [phase EXCEPT ![p] = "standby"]
  BY DEF SetUp, environment
<1>2. phase' \in [Callers -> Phases] /\ \A q \in Callers : Runs(q)' => Runs(q)
  BY <1>1 DEF ElectionInv, LeaseInv, Runs, Phases
<1> QED
  BY <1>1, <1>2 DEF ElectionInv, LeaseInv, OneWriter, IsPost

(* The lease is free only after everything its holder could have posted.    *)
LEMMA AcquireKeeps ==
  ASSUME Prompt, ElectionInv, NEW p \in Callers, Acquire(p)
  PROVE  ElectionInv'
<1>1. /\ UNCHANGED <<now, late>> /\ lease' = [holder |-> p, at |-> now]
      /\ phase' = [phase EXCEPT ![p] = "leading"]
  BY DEF Acquire, environment
<1>2. (\A r \in late : ~IsPost(r)) /\ \A q \in Callers : ~Runs(q)
  BY FailoverAssumption DEF Prompt, Acquire, ElectionInv, LeaseInv
<1>3. phase' \in [Callers -> Phases] /\ \A q \in Callers : Runs(q)' => q = p
  BY <1>1, <1>2 DEF ElectionInv, LeaseInv, Runs, Phases
<1> QED
  BY <1>1, <1>2, <1>3, FailoverAssumption DEF ElectionInv, LeaseInv, OneWriter, IsPost

LEMMA RenewKeeps ==
  ASSUME ElectionInv, NEW p \in Callers, Renew(p)
  PROVE  ElectionInv'
<1>1. UNCHANGED <<now, phase, late>> /\ lease' = [lease EXCEPT !.at = now]
  BY DEF Renew, environment
<1>2. lease'.holder = lease.holder /\ lease'.at = now /\ \A r \in late : ~IsPost(r)
  BY <1>1 DEF Renew, ElectionInv, LeaseInv, OneWriter
<1>3. lease' \in [holder : Callers \cup {Nobody}, at : Nat]
  BY <1>1 DEF ElectionInv, LeaseInv
<1> QED
  BY <1>1, <1>2, <1>3, FailoverAssumption DEF ElectionInv, LeaseInv, OneWriter, Runs, IsPost

LEMMA TerminateKeeps ==
  ASSUME ElectionInv, NEW p \in Callers, Terminate(p)
  PROVE  ElectionInv'
<1>1. UNCHANGED <<now, lease, late>> /\ phase' = [phase EXCEPT ![p] = "stopping"]
  BY DEF Terminate, environment
<1>2. phase' \in [Callers -> Phases] /\ \A q \in Callers : Runs(q)' => Runs(q)
  BY <1>1 DEF Terminate, ElectionInv, LeaseInv, Runs, Phases
<1> QED
  BY <1>1, <1>2 DEF ElectionInv, LeaseInv, OneWriter, IsPost

(* What a process leaves behind it sent before its deadline, and nobody     *)
(* else runs.                                                               *)
LEMMA ExitKeeps ==
  ASSUME ElectionInv, CallInv, NEW p \in Callers, Exit(p)
  PROVE  ElectionInv'
<1>1. /\ UNCHANGED <<now, lease>> /\ late' = late \cup Sent(p)
      /\ phase' = [phase EXCEPT ![p] = "down"]
  BY DEF Exit, environment
<1>2. /\ phase' \in [Callers -> Phases] /\ ~Runs(p)'
      /\ \A q \in Callers : Runs(q)' => Runs(q) /\ q # p
  BY <1>1 DEF ElectionInv, LeaseInv, Runs, Phases
<1>3. CASE ~InFlight(p)
  <2>1. late' = late
    BY <1>1, <1>3 DEF Sent, InFlight, Steps
  <2> QED
    BY <1>1, <1>2, <2>1 DEF ElectionInv, LeaseInv, OneWriter, IsPost
<1>4. CASE InFlight(p)
  <2>1. Runs(p) /\ (\A r \in late : ~IsPost(r)) /\ \A q \in Callers : Runs(q) => q = p
    BY <1>4 DEF ElectionInv, OneWriter, CallInv, InFlight, Steps
  <2>2. \A q \in Callers : ~Runs(q)'
    BY <1>2, <2>1
  <2>3. ASSUME NEW r \in late', IsPost(r) PROVE r.until = now + MaxDelay
    <3>1. r = [call |-> call[p], until |-> Until(call[p])]
      BY <1>1, <2>1, <2>3 DEF Sent
    <3> QED
      BY <2>3, <3>1 DEF IsPost, Until
  <2>4. lease.holder = p /\ now <= lease.at + RenewDeadline /\ now \in Nat /\ lease.at \in Nat
    BY <2>1 DEF ElectionInv, LeaseInv
  <2>5. \A r \in late' : IsPost(r) =>
          /\ r.until \in Nat /\ now <= r.until
          /\ r.until <= lease.at + RenewDeadline + MaxDelay /\ lease.holder # Nobody
    BY <2>3, <2>4, FailoverAssumption
  <2> QED
    BY <1>1, <1>2, <2>2, <2>5 DEF ElectionInv, LeaseInv, OneWriter, IsPost
<1> QED
  BY <1>3, <1>4

LEMMA TickKeeps ==
  ASSUME ElectionInv, enableLeaderElection, Tick
  PROVE  ElectionInv'
<1>1. UNCHANGED <<phase, lease, late>> /\ now' = now + 1
  BY DEF Tick, Passes, election
<1>2. \A p \in Callers : Runs(p) => now < lease.at + RenewDeadline
  BY DEF Tick
<1>3. \A r \in late : now < r.until
  BY DEF Tick
<1> QED
  BY <1>1, <1>2, <1>3, FailoverAssumption DEF ElectionInv, LeaseInv, OneWriter, Runs, IsPost

---------------------------------------------------------------------------
\* What changes neither the clock nor who runs and what is late keeps all.
LEMMA QuietKeeps ==
  ASSUME ElectionInv, UNCHANGED <<now, phase, lease>>, late' \subseteq late
  PROVE  ElectionInv'
<1>1. \A p \in Callers : Runs(p)' = Runs(p)
  BY DEF Runs
<1> QED
  BY <1>1 DEF ElectionInv, LeaseInv, OneWriter, IsPost

---------------------------------------------------------------------------
\* A request and its reply change the call of one caller.
LEMMA RequestCalls ==
  ASSUME CallInv, NEW p \in Callers, Request(p)
  PROVE  DOMAIN call' = Callers /\ \A c \in Callers : c # p => call'[c] = call[c]
<1>1. PICK step, id : call' = [call EXCEPT ![p].step = step]
                   \/ call' = [call EXCEPT ![p].step = step, ![p].id = id]
  BY DEF Request, RequestFails, SyncNotFound, SyncFound, DeleteNotFound, DeleteFound,
         CreateSilence, UpdateSilence, DeleteSilenceByID, DeleteStatusIgnored, Reply,
         GoTo, GoToId
<1> QED
  BY <1>1 DEF CallInv

\* Calls of the processes that go on running.
LEMMA CallsKept ==
  ASSUME CallInv, DOMAIN call' = Callers, NEW p \in Callers, Runs(p)',
         \A c \in Callers : c # p => call'[c] = call[c] /\ (Runs(c) => Runs(c)')
  PROVE  CallInv'
  BY DEF CallInv

LEMMA NextCallInv ==
  ASSUME CallInv, phase \in [Callers -> Phases], [Next]_vars
  PROVE  CallInv'
<1>1. CASE \E p \in Callers : SetUp(p) \/ Acquire(p) \/ Renew(p) \/ Terminate(p)
  <2>1. UNCHANGED call /\ \A c \in Callers : Runs(c) => Runs(c)'
    BY <1>1 DEF SetUp, Acquire, Renew, Terminate, service, Runs
  <2> QED
    BY <2>1 DEF CallInv
<1>2. CASE \E p \in Callers : Exit(p)
  <2>1. PICK p \in Callers : Exit(p)
    BY <1>2
  <2>2. /\ DOMAIN call' = Callers /\ call'[p].step = "none"
        /\ \A c \in Callers : c # p => call'[c] = call[c] /\ (Runs(c) => Runs(c)')
    BY <2>1 DEF Exit, CallInv, NoCall, Runs
  <2> QED
    BY <2>2 DEF CallInv
<1>3. CASE \E p \in Callers : Sync(p) \/ Delete(p) \/ Serve(p) \/ Take(p)
  <2>1. PICK p \in Callers : Sync(p) \/ Delete(p) \/ Serve(p) \/ Take(p)
    BY <1>3
  <2>2. UNCHANGED phase /\ Runs(p)
    BY <2>1 DEF Sync, Delete, Serve, Take, election, Runs
  <2>3. CASE Serve(p)
    BY <2>2, <2>3, RequestCalls, CallsKept DEF Serve, Runs
  <2>4. CASE Sync(p) \/ Delete(p) \/ Take(p)
    <3>1. PICK new : call' = [call EXCEPT ![p] = new]
      BY <2>4 DEF Sync, Delete, Take, SyncSilence, DeleteSilence, Collect
    <3>2. DOMAIN call' = Callers /\ \A c \in Callers : c # p => call'[c] = call[c]
      BY <3>1 DEF CallInv
    <3> QED
      BY <2>2, <3>2, CallsKept DEF Runs
  <2> QED
    BY <2>1, <2>3, <2>4
<1>4. CASE (\E r \in late : Arrives(r)) \/ Tick \/ UNCHANGED vars
  <2>1. UNCHANGED <<call, phase>>
    BY <1>4 DEF Arrives, Tick, service, election, vars
  <2> QED
    BY <2>1 DEF CallInv, Runs
<1> QED
  BY <1>1, <1>2, <1>3, <1>4 DEF Next

LEMMA NextElectionInv ==
  ASSUME enableLeaderElection, Prompt, ElectionInv, CallInv, [Next]_vars
  PROVE  ElectionInv'
<1>1. CASE \E p \in Callers : SetUp(p) \/ Acquire(p) \/ Renew(p) \/ Terminate(p) \/ Exit(p)
  BY <1>1, SetUpKeeps, AcquireKeeps, RenewKeeps, TerminateKeeps, ExitKeeps
<1>2. CASE \E p \in Callers : Sync(p) \/ Delete(p) \/ Serve(p) \/ Take(p)
  <2>1. PICK p \in Callers : Sync(p) \/ Delete(p) \/ Serve(p) \/ Take(p)
    BY <1>2
  <2>2. UNCHANGED <<phase, lease, late>>
    BY <2>1 DEF Sync, Delete, Serve, Take, election
  <2>3. UNCHANGED now
    BY <2>1, RequestClock DEF Sync, Delete, Serve, Take, SyncSilence, DeleteSilence, environment
  <2> QED
    BY <2>2, <2>3, QuietKeeps
<1>3. CASE \E r \in late : Arrives(r)
  <2>1. UNCHANGED <<now, phase, lease>> /\ late' \subseteq late
    BY <1>3 DEF Arrives, environment
  <2> QED
    BY <2>1, QuietKeeps
<1>4. CASE Tick
  BY <1>4, TickKeeps
<1>5. CASE UNCHANGED vars
  <2>1. UNCHANGED <<now, phase, lease, late>>
    BY <1>5 DEF vars, environment, election
  <2> QED
    BY <2>1, QuietKeeps
<1> QED
  BY <1>1, <1>2, <1>3, <1>4, <1>5 DEF Next

LEMMA InitElection == Init => ElectionInv /\ CallInv
<1> SUFFICES ASSUME Init PROVE ElectionInv /\ CallInv
  OBVIOUS
<1>1. now = 0 /\ late = {} /\ lease = [holder |-> Nobody, at |-> 0]
  BY DEF Init, EnvironmentInit
<1>2. phase \in [Callers -> Phases] /\ \A p \in Callers : ~Runs(p)
  BY DEF Init, Phases, Runs
<1>3. DOMAIN call = Callers /\ \A c \in Callers : call[c].step = "none"
  BY DEF Init, ServiceInit, NoCall
<1> QED
  BY <1>1, <1>2, <1>3 DEF ElectionInv, LeaseInv, OneWriter, CallInv

(* OneWriter: with leader election, and if requests are Prompt, the         *)
(* controllers of one process run at a time, and never while a POST of a    *)
(* predecessor is on its way.                                               *)
THEOREM RequestsComeFromOneProcess ==
  ASSUME enableLeaderElection, Prompt
  PROVE  Spec => []OneWriter
<1>1. Init => ElectionInv /\ CallInv
  BY InitElection
<1>2. ElectionInv /\ CallInv /\ [Next]_vars => ElectionInv' /\ CallInv'
  <2>1. ElectionInv => phase \in [Callers -> Phases]
    BY DEF ElectionInv, LeaseInv
  <2> QED
    BY <2>1, NextElectionInv, NextCallInv
<1>3. ElectionInv => OneWriter
  BY DEF ElectionInv
<1> QED
  BY <1>1, <1>2, <1>3, PTL DEF Spec

---------------------------------------------------------------------------
(* The silences.  Requests that come from one process at a time are as good *)
(* as those of one process: what a listing told it stays true until its     *)
(* request arrives, in its lifetime or after.                               *)

\* Everything in effect was written by a process of this deployment.
Ours ==
  \A i \in SilenceIds : Unexpired(i) =>
    silences[i].createdBy = CreatedBy /\ silences[i].tenant = EffectiveTenant("")

OwnInv ==
  \A s \in Wanted :
    /\ Single(OwnByComment(s.comment, ""))
    /\ s.comment \in released /\ "status" \notin FaultKinds =>
         OwnByComment(s.comment, "") = {}

\* A call in progress; a silence is asked for only while there is an object.
CallSound(c) ==
  /\ Formed(c) /\ Looked(c)
  /\ call[c].step # "none" =>
       /\ call[c].tenant = ""
       /\ call[c].op = "sync" => call[c].silence.comment \notin released
       /\ \E s \in Wanted :
            /\ call[c].silence.comment = s.comment
            /\ call[c].op = "sync" => call[c].silence = s

\* A request of a process that is gone: a POST finds what its process saw.
LateSound(r) ==
  /\ r.call.step \in {"create", "update", "deleteByID"}
  /\ r.call.step # "create" => r.call.id \in SilenceIds
  /\ IsPost(r) =>
       /\ r.call.tenant = "" /\ r.call.silence \in Silence
       /\ IF r.call.step = "create"
          THEN OwnByComment(r.call.silence.comment, "") = {}
          ELSE OwnByComment(r.call.silence.comment, "") \subseteq {r.call.id}
       /\ r.call.silence.createdBy = CreatedBy
       /\ r.call.silence.comment \notin released
       /\ \E s \in Wanted : r.call.silence.comment = s.comment

WriteInv ==
  /\ ServiceTypeOK
  /\ Ours /\ OwnInv
  /\ \A c \in Callers : CallSound(c)
  /\ \A r \in late : LateSound(r)
  /\ \A r, q \in late : IsPost(r) /\ IsPost(q) => r = q

\* Who runs is alone: nobody else has a call and no POST is on its way.
LEMMA Alone ==
  ASSUME ElectionInv, CallInv, NEW p \in Callers, Runs(p)
  PROVE  /\ \A r \in late : ~IsPost(r)
         /\ \A d \in Callers \ {p} : call[d].step = "none"
  BY DEF ElectionInv, OneWriter, CallInv

\* While a POST is on its way nobody runs.
LEMMA NobodyRuns ==
  ASSUME ElectionInv, CallInv, NEW r \in late, IsPost(r), NEW c \in Callers
  PROVE  call[c].step = "none"
  BY DEF ElectionInv, OneWriter, CallInv

\* The three readings of the silences of the operator.
LEMMA OursOwn ==
  ASSUME Ours, NEW comment
  PROVE  /\ Own(comment) = OwnByComment(comment, "")
         /\ GetSilenceByComment(comment, "") \subseteq OwnByComment(comment, "")
  BY DEF Ours, Own, OwnByComment, GetSilenceByComment, ListSilences

LEMMA OursKept ==
  ASSUME ServiceTypeOK, Ours, now' \in Nat, now <= now',
         \A i \in SilenceIds :
           \/ silences'[i] = silences[i] \/ Ended(i)
           \/ /\ silences'[i].createdBy = CreatedBy
              /\ silences'[i].tenant = EffectiveTenant("")
  PROVE  Ours'
<1> SUFFICES ASSUME NEW i \in SilenceIds, Unexpired(i)'
             PROVE  /\ silences'[i].createdBy = CreatedBy
                    /\ silences'[i].tenant = EffectiveTenant("")
  BY DEF Ours
<1>1. CASE silences'[i] = silences[i] \/ Ended(i)
  BY <1>1, WasUnexpired DEF Ours
<1> QED
  BY <1>1

\* A process without a call, or with the one it had.
LEMMA CallSoundKept ==
  ASSUME ServiceTypeOK, NEW c \in Callers, CallSound(c), call'[c] = call[c],
         now' \in Nat, now <= now',
         \/ call[c].step = "none"
         \/ /\ released' \subseteq released
            /\ \A i \in SilenceIds :
                 \/ silences'[i] = silences[i] \/ Ended(i)
                 \/ silences'[i].comment # call[c].silence.comment
  PROVE  CallSound(c)'
<1>1. Formed(c)'
  BY FormedKept DEF CallSound
<1>2. CASE call[c].step = "none"
  BY <1>1, <1>2 DEF CallSound, Looked
<1>3. CASE call[c].step # "none"
  <2>1. PICK comment : comment = call[c].silence.comment
    OBVIOUS
  <2>2. PICK tenant : tenant = call[c].tenant
    OBVIOUS
  <2>3. OwnByComment(comment, tenant)' \subseteq OwnByComment(comment, tenant)
    BY <1>3, <2>1, OwnKept
  <2>4. Looked(c)'
    BY <2>1, <2>2, <2>3, LookedKept DEF CallSound
  <2> QED
    BY <1>1, <1>3, <2>4 DEF CallSound
<1> QED
  BY <1>2, <1>3

LEMMA LateSoundKept ==
  ASSUME ServiceTypeOK, NEW r, LateSound(r), now' \in Nat, now <= now',
         released' \subseteq released,
         \A i \in SilenceIds : silences'[i] = silences[i] \/ Ended(i)
  PROVE  LateSound(r)'
<1>1. OwnByComment(r.call.silence.comment, "")' \subseteq OwnByComment(r.call.silence.comment, "")
  BY OwnKept
<1> QED
  BY <1>1 DEF LateSound, IsPost

\* Of a DELETE there is nothing to know but the id.
LEMMA LateDelete ==
  ASSUME NEW r, LateSound(r), ~IsPost(r)
  PROVE  LateSound(r)'
  BY DEF LateSound, IsPost

LEMMA OwnInvKept ==
  ASSUME ServiceTypeOK, OwnInv, now' \in Nat, now <= now', released' \subseteq released,
         \A i \in SilenceIds : silences'[i] = silences[i] \/ Ended(i)
  PROVE  OwnInv'
<1> SUFFICES ASSUME NEW s \in Wanted
             PROVE  /\ Single(OwnByComment(s.comment, ""))'
                    /\ s.comment \in released' /\ "status" \notin FaultKinds =>
                         OwnByComment(s.comment, "")' = {}
  BY DEF OwnInv
<1>1. OwnByComment(s.comment, "")' \subseteq OwnByComment(s.comment, "")
  BY OwnKept
<1> QED
  BY <1>1 DEF OwnInv, Single

\* A step that writes nothing: elections, expiries and the clock.
LEMMA KeptStep ==
  ASSUME WriteInv, ServiceTypeOK', now' \in Nat, now <= now',
         UNCHANGED <<call, released>>, late' \subseteq late,
         \A i \in SilenceIds : silences'[i] = silences[i] \/ Ended(i)
  PROVE  WriteInv'
<1>1. ServiceTypeOK
  BY DEF WriteInv
<1>2. Ours' /\ OwnInv'
  BY <1>1, OursKept, OwnInvKept DEF WriteInv
<1>3. \A c \in Callers : CallSound(c)'
  BY <1>1, CallSoundKept DEF WriteInv
<1>4. \A r \in late' : LateSound(r)'
  BY <1>1, LateSoundKept DEF WriteInv
<1>5. \A r, q \in late' : IsPost(r) /\ IsPost(q) => r = q
  BY DEF WriteInv
<1> QED
  BY <1>2, <1>3, <1>4, <1>5 DEF WriteInv, IsPost

\* A process ends; what it sent is as sound as its call was.
LEMMA ExitWrites ==
  ASSUME ElectionInv, CallInv, WriteInv, NEW p \in Callers, Exit(p)
  PROVE  WriteInv'
<1>1. ServiceTypeOK /\ CallTypeOK /\ CallSound(p) /\ now \in Nat
  BY DEF WriteInv, ServiceTypeOK, EnvironmentTypeOK
<1>2. /\ call'[p] = NoCall /\ \A d \in Callers \ {p} : call'[d] = call[d]
      /\ UNCHANGED <<now, silences, released>> /\ late' = late \cup Sent(p)
  BY <1>1 DEF Exit, CallTypeOK, environment
<1>3. ServiceTypeOK'
  <2>1. CallTypeOK'
    BY <1>1, NoCallType DEF Exit, CallTypeOK
  <2> QED
    BY <1>1, <2>1 DEF Exit, ServiceTypeOK, EnvironmentTypeOK, AlertmanagerTypeOK, environment
<1>4. Ours' /\ OwnInv'
  BY <1>1, <1>2, OursKept, OwnInvKept DEF WriteInv
<1>5. ASSUME NEW c \in Callers PROVE CallSound(c)'
  <2>1. CASE c # p
    BY <1>1, <1>2, <2>1, CallSoundKept DEF WriteInv
  <2>2. CASE c = p
    BY <1>1, <1>2, <2>2, NewFormed, NoCallFields DEF CallSound, Looked
  <2> QED
    BY <2>1, <2>2
<1>6. CASE Sent(p) = {}
  BY <1>1, <1>2, <1>3, <1>4, <1>5, <1>6, LateSoundKept DEF WriteInv, IsPost
<1>7. CASE Sent(p) # {}
  <2>1. PICK rq : rq = call[p]
    OBVIOUS
  <2>2. rq.step \in {"create", "update", "deleteByID"}
    BY <1>7, <2>1 DEF Sent
  <2>3. \A q \in late : ~IsPost(q)
    BY <2>1, <2>2, Alone DEF CallInv
  <2>4. PICK r : r = [call |-> rq, until |-> Until(rq)]
    OBVIOUS
  <2>5. late' = late \cup {r} /\ r.call = rq
    BY <1>2, <2>1, <2>2, <2>4 DEF Sent
  <2>6. rq.silence \in Silence /\ rq.tenant = ""
    BY <1>1, <2>1, <2>2 DEF CallTypeOK, CallSound
  <2>7. OwnByComment(rq.silence.comment, "")' = OwnOfCall(p)
    BY <1>2, <2>1, <2>6, OwnUnchanged DEF OwnOfCall
  <2>8. LateSound(r)'
    <3>1. rq.step # "create" => rq.id \in SilenceIds
      BY <1>1, <2>1, <2>2 DEF CallSound, Formed
    <3>2. IF rq.step = "create" THEN OwnOfCall(p) = {} ELSE OwnOfCall(p) \subseteq {rq.id}
      BY <1>1, <2>1, <2>2 DEF CallSound, Looked
    <3>3. rq.step # "deleteByID" =>
            /\ rq.silence.createdBy = CreatedBy
            /\ rq.silence.comment \notin released
            /\ \E s \in Wanted : rq.silence.comment = s.comment
      <4> HAVE rq.step # "deleteByID"
      <4>1. call[p].op = "sync"
        BY <1>1, <2>1, <2>2 DEF CallSound, Formed
      <4> QED
        BY <1>1, <2>1, <2>2, <4>1, FailoverAssumption DEF CallSound
    <3> QED
      BY <1>2, <2>2, <2>5, <2>6, <2>7, <3>1, <3>2, <3>3 DEF LateSound, IsPost
  <2>9. \A q \in late' : LateSound(q)'
    BY <2>3, <2>5, <2>8, LateDelete DEF WriteInv
  <2>10. \A q, q2 \in late' : IsPost(q) /\ IsPost(q2) => q = q2
    BY <2>3, <2>5
  <2> QED
    BY <1>3, <1>4, <1>5, <2>9, <2>10 DEF WriteInv, IsPost
<1> QED
  BY <1>6, <1>7

\* A step of the process that runs: nobody else has a call, no POST is late.
LEMMA SoloStep ==
  ASSUME ElectionInv, CallInv, WriteInv, NEW p \in Callers, Runs(p),
         ServiceTypeOK', UNCHANGED <<now, late>>, Ours', OwnInv', CallSound(p)',
         \A d \in Callers \ {p} : call'[d] = call[d]
  PROVE  WriteInv'
<1>1. ServiceTypeOK /\ now \in Nat
  BY DEF WriteInv, ServiceTypeOK, EnvironmentTypeOK
<1>2. (\A r \in late : ~IsPost(r)) /\ \A d \in Callers \ {p} : call[d].step = "none"
  BY Alone
<1>3. ASSUME NEW d \in Callers, d # p PROVE CallSound(d)'
  BY <1>1, <1>2, <1>3, CallSoundKept DEF WriteInv
<1>4. \A r \in late' : LateSound(r)'
  BY <1>2, LateDelete DEF WriteInv
<1> QED
  BY <1>2, <1>3, <1>4 DEF WriteInv, IsPost

\* A silence is written under a comment that is not let go.
LEMMA OwnInvWritten ==
  ASSUME ServiceTypeOK, OwnInv, now' \in Nat, now <= now', released' = released,
         NEW comment, comment \notin released,
         Single(OwnByComment(comment, ""))',
         \A i \in SilenceIds : \/ silences'[i] = silences[i] \/ Ended(i)
                               \/ silences'[i].comment = comment
  PROVE  OwnInv'
<1> SUFFICES ASSUME NEW s \in Wanted
             PROVE  /\ Single(OwnByComment(s.comment, ""))'
                    /\ s.comment \in released' /\ "status" \notin FaultKinds =>
                         OwnByComment(s.comment, "")' = {}
  BY DEF OwnInv
<1>1. CASE s.comment = comment
  BY <1>1
<1>2. CASE s.comment # comment
  <2>1. OwnByComment(s.comment, "")' \subseteq OwnByComment(s.comment, "")
    BY <1>2, OwnKept
  <2> QED
    BY <2>1 DEF OwnInv, Single
<1> QED
  BY <1>1, <1>2

\* A reconcile begins; asking for a silence takes its object back.
LEMMA BeginWrites ==
  ASSUME ElectionInv, CallInv, WriteInv, NEW p \in Callers, Sync(p) \/ Delete(p)
  PROVE  WriteInv'
<1>1. PICK s \in Wanted :
        \/ SyncSilence(p, s, "") /\ released' = released \ {s.comment}
        \/ DeleteSilence(p, s.comment, "") /\ released' = released
  BY DEF Sync, Delete, election
<1>2. ServiceTypeOK /\ CallTypeOK /\ now \in Nat /\ s \in Silence /\ "" \in Text
  BY FailoverAssumption, LiteralAssumption DEF WriteInv, ServiceTypeOK, EnvironmentTypeOK
<1>3. Runs(p) /\ UNCHANGED late
  BY DEF Sync, Delete, Runs, election
<1>4. ServiceTypeOK'
  <2>1. s.comment \in Comment
    BY <1>2 DEF Silence
  <2> QED
    BY <1>1, <1>2, <2>1, SyncSilenceType, DeleteSilenceType
<1>5. /\ call'[p].step = "list" /\ call'[p].tenant = "" /\ call'[p].silence.comment = s.comment
      /\ call'[p].op = "sync" => call'[p].silence = s /\ s.comment \notin released'
      /\ \A d \in Callers \ {p} : call'[d] = call[d]
      /\ UNCHANGED <<silences, now>> /\ released' \subseteq released
  <2>1. CASE SyncSilence(p, s, "") /\ released' = released \ {s.comment}
    BY <1>2, <2>1 DEF SyncSilence, CallTypeOK, environment
  <2>2. CASE DeleteSilence(p, s.comment, "") /\ released' = released
    <3>1. PICK t : t = [NoSilence EXCEPT !.comment = s.comment]
      OBVIOUS
    <3>2. t.comment = s.comment
      BY <3>1 DEF NoSilence
    <3> QED
      BY <1>2, <2>2, <3>1, <3>2 DEF DeleteSilence, CallTypeOK, environment
  <2> QED
    BY <1>1, <2>1, <2>2
<1>6. Ours' /\ OwnInv'
  <2>1. now \in Nat /\ now' = now
    BY <1>2, <1>5, Zenon
  <2>2. now' \in Nat /\ now <= now'
    BY <2>1
  <2> QED
    BY <1>2, <1>5, <2>2, OursKept, OwnInvKept DEF WriteInv
<1>7. CallSound(p)'
  <2>1. Formed(p)'
    BY <1>1, <1>2, <1>5, NewFormed
  <2> QED
    BY <1>5, <2>1 DEF CallSound, Looked
<1> QED
  BY <1>3, <1>4, <1>5, <1>6, <1>7, SoloStep

\* A request of the process that runs.
LEMMA ServeWrites ==
  ASSUME ElectionInv, CallInv, WriteInv, NEW p \in Callers, Serve(p)
  PROVE  WriteInv'
<1>1. /\ ServiceTypeOK /\ CallTypeOK /\ CallSound(p) /\ now \in Nat /\ Ours /\ OwnInv
      /\ Runs(p) /\ Request(p) /\ UNCHANGED <<late, released>>
  BY DEF WriteInv, ServiceTypeOK, EnvironmentTypeOK, Serve, election
<1>2. ServiceTypeOK'
  BY <1>1, RequestType
<1>3. /\ now' = now /\ now' \in Nat /\ now <= now' /\ call[p].step # "none"
      /\ call'[p].silence = call[p].silence /\ call'[p].tenant = call[p].tenant
      /\ call'[p].op = call[p].op
      /\ \A d \in Callers \ {p} : call'[d] = call[d]
  BY <1>1, RequestClock, RequestFields
<1>4. PICK w \in Wanted : /\ call[p].silence.comment = w.comment
                          /\ call[p].op = "sync" => call[p].silence = w
  BY <1>1, <1>3 DEF CallSound
<1>5. call[p].tenant = "" /\ OwnOfCall(p) = OwnByComment(w.comment, "")
  BY <1>1, <1>3, <1>4 DEF CallSound, OwnOfCall
<1>6. Shown(p) /\ Single(OwnOfCall(p))
  BY <1>1, <1>4, <1>5, OursOwn DEF Shown, OwnInv
<1>7. Formed(p)' /\ Looked(p)' /\ Single(OwnOfCall(p))'
  BY <1>1, <1>6, RequestFormed, RequestLooked DEF CallSound
<1>8. OwnOfCall(p)' = OwnByComment(w.comment, "")'
  <2>1. call'[p].silence.comment = w.comment /\ call'[p].tenant = ""
    BY <1>3, <1>4, <1>5
  <2> QED
    BY <2>1 DEF OwnOfCall
<1>9. \A i \in SilenceIds :
        \/ silences'[i] = silences[i] \/ Ended(i)
        \/ /\ silences'[i].comment = w.comment /\ silences'[i].createdBy = CreatedBy
           /\ silences'[i].tenant = EffectiveTenant("")
           /\ call[p].op = "sync"
  <2>1. ASSUME call[p].step \in {"create", "update"}
        PROVE  /\ call[p].op = "sync"
               /\ \A i \in SilenceIds :
                    Keeps(silences'[i], call[p].silence, call[p].tenant) =>
                      /\ silences'[i].comment = w.comment
                      /\ silences'[i].createdBy = CreatedBy
                      /\ silences'[i].tenant = EffectiveTenant("")
    <3>1. call[p].op = "sync"
      BY <1>1, <2>1 DEF CallSound, Formed
    <3>2. call[p].silence \in Silence /\ call[p].silence.createdBy = CreatedBy
      BY <1>4, <3>1, FailoverAssumption
    <3> QED
      BY <1>4, <1>5, <3>1, <3>2 DEF Keeps
  <2> QED
    BY <1>1, <2>1, RequestWrites DEF CallSound
<1>10. Ours'
  <2>1. \A i \in SilenceIds :
          \/ silences'[i] = silences[i] \/ Ended(i)
          \/ /\ silences'[i].createdBy = CreatedBy
             /\ silences'[i].tenant = EffectiveTenant("")
    BY <1>9
  <2> QED
    BY <1>1, <1>3, <2>1, OursKept
<1>11. OwnInv'
  <2>1. CASE call[p].op = "sync"
    <3>1. w.comment \notin released
      BY <1>1, <1>3, <1>4, <2>1 DEF CallSound
    <3>2. Single(OwnByComment(w.comment, ""))'
      BY <1>7, <1>8 DEF Single
    <3>3. \A i \in SilenceIds : \/ silences'[i] = silences[i] \/ Ended(i)
                                \/ silences'[i].comment = w.comment
      BY <1>9
    <3> QED
      BY <1>1, <1>3, <3>1, <3>2, <3>3, OwnInvWritten
  <2>2. CASE call[p].op # "sync"
    BY <1>1, <1>3, <1>9, <2>2, OwnInvKept
  <2> QED
    BY <2>1, <2>2
<1>12. CallSound(p)'
  BY <1>1, <1>3, <1>7 DEF CallSound
<1> QED
  BY <1>1, <1>2, <1>3, <1>10, <1>11, <1>12, SoloStep

\* The object is let go when nothing is left of its silence.
LEMMA TakeWrites ==
  ASSUME ElectionInv, CallInv, WriteInv, NEW p \in Callers, Take(p)
  PROVE  WriteInv'
<1>1. /\ ServiceTypeOK /\ CallTypeOK /\ CallSound(p) /\ now \in Nat /\ Ours /\ OwnInv
      /\ Runs(p) /\ UNCHANGED <<now, silences, late>> /\ Collect(p)
  BY DEF WriteInv, ServiceTypeOK, EnvironmentTypeOK, Take, environment
<1>2. ServiceTypeOK'
  <2>1. CallTypeOK'
    BY <1>1, CollectType
  <2> QED
    BY <1>1, <2>1 DEF Take, ServiceTypeOK, EnvironmentTypeOK, AlertmanagerTypeOK, environment
<1>3. call'[p] = NoCall /\ \A d \in Callers \ {p} : call'[d] = call[d]
  BY <1>1 DEF Collect, CallTypeOK
<1>4. Ours'
  BY <1>1, OursKept
<1>5. OwnInv'
  <2> SUFFICES ASSUME NEW s \in Wanted
               PROVE  /\ Single(OwnByComment(s.comment, ""))'
                      /\ s.comment \in released' /\ "status" \notin FaultKinds =>
                           OwnByComment(s.comment, "")' = {}
    BY DEF OwnInv
  <2>1. OwnByComment(s.comment, "")' = OwnByComment(s.comment, "")
    BY <1>1, OwnUnchanged
  <2>2. Single(OwnByComment(s.comment, ""))'
    BY <1>1, <2>1 DEF OwnInv, Single
  <2>3. ASSUME s.comment \in released', "status" \notin FaultKinds, s.comment \notin released
        PROVE  OwnByComment(s.comment, "") = {}
    <3>1. /\ call[p].op = "delete" /\ call[p].step = "ok"
          /\ s.comment = call[p].silence.comment
      BY <2>3 DEF Take
    <3>2. call[p].tenant = ""
      BY <1>1, <3>1 DEF CallSound
    <3> QED
      BY <1>1, <2>3, <3>1, <3>2 DEF CallSound, Looked, OwnOfCall
  <2> QED
    BY <1>1, <2>1, <2>2, <2>3 DEF OwnInv
<1>6. CallSound(p)'
  BY <1>1, <1>3, NewFormed, NoCallFields DEF CallSound, Looked
<1> QED
  BY <1>1, <1>2, <1>3, <1>4, <1>5, <1>6, SoloStep

(* A POST of a process that is gone reaches Alertmanager: nobody else has   *)
(* written since its process looked.                                        *)
LEMMA PostArrives ==
  ASSUME ElectionInv, CallInv, WriteInv, NEW r \in late, Arrives(r), IsPost(r),
         \/ r.call.step = "create" /\ PostNew(r.call.silence, r.call.tenant, Held)
         \/ /\ r.call.step = "update"
            /\ PostOver(r.call.id, r.call.silence, r.call.tenant, Held)
  PROVE  WriteInv'
<1>1. /\ ServiceTypeOK /\ EnvironmentTypeOK /\ AlertmanagerTypeOK /\ LateSound(r)
      /\ Ours /\ OwnInv
      /\ UNCHANGED <<environment, now, call, released>> /\ late' = late \ {r}
  BY DEF WriteInv, ServiceTypeOK, Arrives, environment
<1>2. now' \in Nat /\ now <= now' /\ now' = now
  BY <1>1 DEF EnvironmentTypeOK
<1>3. (\A q \in late' : ~IsPost(q)) /\ \A q \in late' : LateSound(q)'
  <2>1. \A q \in late' : q \in late /\ ~IsPost(q)
    BY <1>1 DEF WriteInv
  <2> QED
    BY <2>1, LateDelete DEF WriteInv
<1>4. \A c \in Callers : call[c].step = "none"
  BY NobodyRuns
<1>5. PICK s \in Silence : s = r.call.silence
  BY <1>1 DEF LateSound
<1>6. PICK id : id = r.call.id
  OBVIOUS
<1>7. PICK tenant \in Text : tenant = "" /\ r.call.tenant = tenant
  BY <1>1, LiteralAssumption DEF LateSound
<1>8. ASSUME AlertmanagerTypeOK' PROVE ServiceTypeOK'
  BY <1>1, <1>8 DEF ServiceTypeOK, CallTypeOK, EnvironmentTypeOK, environment
<1>9. \A c \in Callers : CallSound(c)'
  BY <1>1, <1>2, <1>4, CallSoundKept DEF WriteInv
<1>10. ASSUME AlertmanagerTypeOK',
              NEW i \in SilenceIds, Keeps(silences'[i], s, tenant),
              OwnByComment(s.comment, "")' \subseteq {i},
              \A j \in SilenceIds \ {i} : silences'[j] = silences[j] \/ Ended(j)
       PROVE  WriteInv'
  <2>1. s.createdBy = CreatedBy /\ s.comment \notin released
    BY <1>1, <1>5, <1>10 DEF LateSound
  <2>2. /\ silences'[i].comment = s.comment /\ silences'[i].createdBy = CreatedBy
        /\ silences'[i].tenant = EffectiveTenant(tenant)
    BY <1>10, <2>1 DEF Keeps
  <2>3. Ours'
    BY <1>1, <1>2, <1>7, <1>10, <2>2, OursKept
  <2>4. Single(OwnByComment(s.comment, ""))'
    BY <1>10 DEF Single
  <2>5. OwnInv'
    BY <1>1, <1>2, <1>10, <2>1, <2>2, <2>4, OwnInvWritten
  <2> QED
    BY <1>3, <1>8, <1>9, <1>10, <2>3, <2>5 DEF WriteInv, IsPost
<1>11. CASE r.call.step = "create" /\ PostNew(r.call.silence, r.call.tenant, Held)
  <2>1. PostNew(s, tenant, Held) /\ OwnByComment(s.comment, "") = {}
    BY <1>1, <1>5, <1>7, <1>11 DEF LateSound
  <2>2. AlertmanagerTypeOK'
    BY <1>1, <1>7, <2>1, PostType
  <2>3. PICK i \in SilenceIds : /\ Keeps(silences'[i], s, tenant)
                                /\ \A j \in SilenceIds \ {i} : silences'[j] = silences[j]
    BY <1>1, <2>1, PostNewWrites
  <2>4. OwnByComment(s.comment, "")' \subseteq {i}
    <3>1. ASSUME NEW j \in OwnByComment(s.comment, "")', j # i PROVE FALSE
      BY <1>2, <1>7, <2>1, <2>3, <3>1
         DEF OwnByComment, GetSilenceByComment, ListSilences, Unexpired
    <3> QED
      BY <3>1
  <2> QED
    BY <1>10, <1>11, <2>2, <2>3, <2>4
<1>12. CASE r.call.step = "update" /\ PostOver(r.call.id, r.call.silence, r.call.tenant, Held)
  <2>1. id \in SilenceIds /\ PostOver(id, s, tenant, Held)
    BY <1>1, <1>5, <1>6, <1>7, <1>12 DEF LateSound
  <2>2. OwnByComment(s.comment, "") \subseteq {id}
    BY <1>1, <1>5, <1>6, <1>12 DEF LateSound
  <2>3. AlertmanagerTypeOK'
    BY <1>1, <1>7, <2>1, PostType
  <2>4. PICK i \in SilenceIds : /\ Keeps(silences'[i], s, tenant)
                                /\ \A j \in SilenceIds \ {i} :
                                     IF j = id /\ Unexpired(j) THEN Ended(j)
                                     ELSE silences'[j] = silences[j]
    BY <1>1, <2>1, PostOverWrites
  <2>5. OwnByComment(s.comment, "")' \subseteq {i}
    <3>1. ASSUME NEW j \in SilenceIds \ {i}, Unexpired(j)'
          PROVE  silences'[j] = silences[j] /\ Unexpired(j) /\ j # id
      <4>1. silences'[j] = silences[j] /\ Unexpired(j)
        BY <1>1, <1>2, <2>4, <3>1, WasUnexpired
      <4>2. ASSUME Ended(j) PROVE FALSE
        BY <1>1, <1>2, <3>1, <4>2, EndedFields DEF Unexpired, EnvironmentTypeOK
      <4> QED
        BY <2>4, <4>1, <4>2
    <3>2. ASSUME NEW j \in OwnByComment(s.comment, "")', j # i PROVE FALSE
      <4>1. j \in SilenceIds \ {i} /\ Unexpired(j)'
        BY <3>2 DEF OwnByComment, GetSilenceByComment, ListSilences
      <4>2. j \in OwnByComment(s.comment, "")
        BY <3>1, <4>1 DEF OwnByComment, GetSilenceByComment, ListSilences
      <4> QED
        BY <2>2, <3>1, <4>1, <4>2
    <3> QED
      BY <3>2
  <2> QED
    BY <1>10, <1>12, <2>3, <2>4, <2>5
<1> QED
  BY <1>11, <1>12

\* A late request arrives; a DELETE may find anything, and only takes away.
LEMMA ArrivesWrites ==
  ASSUME ElectionInv, CallInv, WriteInv, NEW r \in late, Arrives(r)
  PROVE  WriteInv'
<1>1. /\ ServiceTypeOK /\ EnvironmentTypeOK /\ AlertmanagerTypeOK /\ LateSound(r)
      /\ UNCHANGED <<environment, now, call, released>> /\ late' \subseteq late
  BY DEF WriteInv, ServiceTypeOK, Arrives, environment
<1>2. now' \in Nat /\ now <= now'
  BY <1>1 DEF EnvironmentTypeOK
<1>3. ASSUME AlertmanagerTypeOK' PROVE ServiceTypeOK'
  BY <1>1, <1>3 DEF ServiceTypeOK, CallTypeOK, EnvironmentTypeOK, environment
<1>4. CASE UNCHANGED silences
  BY <1>1, <1>2, <1>3, <1>4, KeptStep DEF AlertmanagerTypeOK
<1>5. CASE r.call.step = "deleteByID" /\ Expire(r.call.id)
  <2>1. PICK id \in SilenceIds : id = r.call.id
    BY <1>1, <1>5 DEF LateSound
  <2>2. AlertmanagerTypeOK' /\ \A i \in SilenceIds : silences'[i] = silences[i] \/ Ended(i)
    BY <1>1, <1>5, <2>1, ExpireType, ExpireWrites
  <2> QED
    BY <1>1, <1>2, <1>3, <2>2, KeptStep
<1> QED
  BY <1>4, <1>5, PostArrives DEF Arrives, IsPost

LEMMA InitWrites == Init => WriteInv
<1> SUFFICES ASSUME Init PROVE WriteInv
  OBVIOUS
<1>1. now = 0 /\ late = {} /\ released = {}
  BY DEF Init, EnvironmentInit
<1>2. ServiceTypeOK
  <2>1. EnvironmentTypeOK
    BY EnvironmentAssumption DEF Init, EnvironmentInit, EnvironmentTypeOK
  <2>2. AlertmanagerTypeOK /\ CallTypeOK
    BY NoSilenceType, NoCallType DEF Init, ServiceInit, AlertmanagerTypeOK, CallTypeOK
  <2> QED
    BY <2>1, <2>2 DEF ServiceTypeOK
<1>3. \A i \in SilenceIds : ~Unexpired(i)
  <2>1. NoSilence.endsAt = 0
    BY DEF NoSilence
  <2> QED
    BY <1>1, <2>1 DEF Init, ServiceInit, Unexpired
<1>4. \A c \in Callers : call[c].step = "none" /\ call[c].op = "none" /\ call[c].now = 0
  BY NoCallFields DEF Init, ServiceInit
<1>5. Ours /\ OwnInv
  BY <1>1, <1>3 DEF Ours, OwnInv, Single, OwnByComment, GetSilenceByComment, ListSilences
<1>6. \A c \in Callers : CallSound(c)
  <2>1. \A c \in Callers : Formed(c)
    BY <1>1, <1>4 DEF Formed
  <2> QED
    BY <1>4, <2>1 DEF CallSound, Looked
<1> QED
  BY <1>1, <1>2, <1>5, <1>6 DEF WriteInv

LEMMA NextWrites ==
  ASSUME ElectionInv, CallInv, WriteInv, [Next]_vars
  PROVE  WriteInv'
<1>1. ServiceTypeOK /\ now \in Nat
  BY DEF WriteInv, ServiceTypeOK, EnvironmentTypeOK
<1>2. CASE \/ \E p \in Callers : SetUp(p) \/ Acquire(p) \/ Renew(p) \/ Terminate(p)
           \/ UNCHANGED vars
  <2>1. UNCHANGED <<environment, service, late, released>>
    BY <1>2 DEF SetUp, Acquire, Renew, Terminate, vars, election
  <2>2. ServiceTypeOK' /\ UNCHANGED <<now, silences, call>>
    BY <1>1, <2>1, ServiceStutter DEF environment, service
  <2> QED
    BY <1>1, <2>1, <2>2, KeptStep
<1>3. CASE Tick
  <2>1. Passes /\ UNCHANGED <<silences, call, late, released>>
    BY <1>3 DEF Tick, service, election
  <2>2. ServiceTypeOK'
    BY <1>1, <2>1, OthersType DEF Others
  <2>3. now' \in Nat /\ now <= now'
    BY <1>1, <2>1 DEF Passes
  <2> QED
    BY <2>1, <2>2, <2>3, KeptStep
<1> QED
  BY <1>2, <1>3, ExitWrites, BeginWrites, ServeWrites, TakeWrites, ArrivesWrites DEF Next

---------------------------------------------------------------------------
(* What follows for the silences.                                           *)

LEMMA SpecWrites ==
  ASSUME enableLeaderElection, Prompt
  PROVE  Spec => [](Ours /\ OwnInv)
<1>1. Init => ElectionInv /\ CallInv /\ WriteInv
  BY InitElection, InitWrites
<1>2. ElectionInv /\ CallInv /\ WriteInv /\ [Next]_vars => (ElectionInv /\ CallInv /\ WriteInv)'
  <2>1. ElectionInv => phase \in [Callers -> Phases]
    BY DEF ElectionInv, LeaseInv
  <2> QED
    BY <2>1, NextElectionInv, NextCallInv, NextWrites
<1>3. WriteInv => Ours /\ OwnInv
  BY DEF WriteInv
<1> QED
  BY <1>1, <1>2, <1>3, PTL DEF Spec

(* OneSilence: with leader election, through any number of crashes and lost *)
(* leases, with POSTs that arrive after their process is gone but Prompt and*)
(* DELETEs that arrive whenever, at most one silence of the operator with   *)
(* one comment is in effect.                                                *)
THEOREM OneSilenceAcrossProcesses ==
  ASSUME enableLeaderElection, Prompt
  PROVE  Spec => []OneSilence
<1>1. Ours /\ OwnInv => OneSilence
  BY OursOwn DEF OwnInv, OneSilence, Single
<1> QED
  BY <1>1, SpecWrites, PTL

(* NoneAfterRelease: with leader election, and an Alertmanager that never   *)
(* refuses to delete a silence (which DeleteSilenceByID does not tell its   *)
(* caller), no silence is in effect for an object that was let go, provided *)
(* the POSTs of a process that is gone are Prompt: they arrive, or never do,*)
(* before the next one is elected.  Its DELETEs may arrive under any of its *)
(* successors.                                                              *)
THEOREM NothingComesBack ==
  ASSUME enableLeaderElection, Prompt, "status" \notin FaultKinds
  PROVE  Spec => []NoneAfterRelease
<1>1. Ours /\ OwnInv => NoneAfterRelease
  BY OursOwn DEF OwnInv, NoneAfterRelease
<1> QED
  BY <1>1, SpecWrites, PTL
=============================================================================
