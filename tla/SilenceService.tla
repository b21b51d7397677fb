--------------------------- MODULE SilenceService ---------------------------
(* The service of pkg/service/silence.go and the requests it makes of the   *)
(* client of pkg/alertmanager/alertmanager.go, one action per request: what *)
(* happens between two requests is the business of everybody else.          *)
EXTENDS Alertmanager

CONSTANT Callers   \* one per controller: each runs one reconcile at a time

VARIABLE call      \* the call each caller has in progress

NoCall ==
  [step |-> "none", op |-> "none", silence |-> NoSilence, tenant |-> "",
   now |-> 0, id |-> NoId]

Steps == {"none", "list", "create", "update", "deleteByID", "ok", "failed"}

CallTypeOK ==
  call \in [Callers ->
    [step : Steps, op : {"none", "sync", "delete"}, silence : Silence,
     tenant : Text, now : Nat, id : SilenceIds \cup {NoId}]]

ServiceTypeOK == EnvironmentTypeOK /\ AlertmanagerTypeOK /\ CallTypeOK

service == <<silences, call>>

InFlight(c) == call[c].step \in Steps \ {"none", "ok", "failed"}

\* The ids requests in flight name.
Held == {call[c].id : c \in {d \in Callers : InFlight(d)}}

ServiceInit ==
  /\ silences = [i \in SilenceIds |-> NoSilence]
  /\ call = [c \in Callers |-> NoCall]

---------------------------------------------------------------------------
GoTo(c, step) == call' = [call EXCEPT ![c].step = step]

GoToId(c, step, i) == call' = [call EXCEPT ![c].step = step, ![c].id = i]

(* The clock is read before the first request and compared with after it.   *)
SyncSilence(c, s, tenant) ==
  /\ call[c].step = "none"
  /\ call' = [call EXCEPT ![c] = [step |-> "list", op |-> "sync", silence |-> s,
                                  tenant |-> tenant, now |-> now, id |-> NoId]]
  /\ UNCHANGED <<environment, silences>>

DeleteSilence(c, comment, tenant) ==
  /\ call[c].step = "none"
  /\ call' = [call EXCEPT ![c] = [step |-> "list", op |-> "delete",
                                  silence |-> [NoSilence EXCEPT !.comment = comment],
                                  tenant |-> tenant, now |-> 0, id |-> NoId]]
  /\ UNCHANGED <<environment, silences>>

(* A request the server does not act on.  The status of a listing is not    *)
(* looked at, but an error page is no JSON array.                           *)
RequestFails(c) ==
  /\ \/ /\ InFlight(c)
        /\ Fault("refused")
     \/ /\ call[c].step \in {"create", "update"}
        /\ ~Accepts(call[c].silence)
        /\ UNCHANGED environment
  /\ GoTo(c, "failed")
  /\ UNCHANGED silences

(* The reply arrives, or the server acted and the reply is lost.            *)
Reply(c) ==
  \/ GoTo(c, "ok") /\ UNCHANGED environment
  \/ GoTo(c, "failed") /\ Fault("lost")

---------------------------------------------------------------------------
UpdateNeeded_Matchers(existing, new) ==   \* mutant: the end is not compared
  existing.matchers # new.matchers

\* updateNeeded looks at the matchers and the end, never at the start.
UpdateNeeded(existing, new) ==
  existing.matchers # new.matchers \/ existing.endsAt # new.endsAt

SyncNotFound(c) ==
  LET s == call[c].silence IN
  /\ call[c].step = "list" /\ call[c].op = "sync"
  /\ GetSilenceByComment(s.comment, call[c].tenant) = {}
  /\ GoTo(c, IF s.endsAt > call[c].now THEN "create" ELSE "ok")
  /\ UNCHANGED <<environment, silences>>

SyncFound_NoId(c) ==   \* mutant: newSilence.ID = existingSilence.ID is forgotten
  LET s == call[c].silence IN
  /\ call[c].step = "list" /\ call[c].op = "sync"
  /\ \E i \in GetSilenceByComment(s.comment, call[c].tenant) :
       CASE s.endsAt < call[c].now -> GoToId(c, "deleteByID", i)
         [] s.endsAt >= call[c].now /\ UpdateNeeded(silences[i], s) -> GoTo(c, "update")
         [] OTHER -> GoTo(c, "ok")
  /\ UNCHANGED <<environment, silences>>

SyncFound(c) ==
  LET s == call[c].silence IN
  /\ call[c].step = "list" /\ call[c].op = "sync"
  /\ \E i \in GetSilenceByComment(s.comment, call[c].tenant) :
       CASE s.endsAt < call[c].now -> GoToId(c, "deleteByID", i)
         [] s.endsAt >= call[c].now /\ UpdateNeeded(silences[i], s) ->
              GoToId(c, "update", i)
         [] OTHER -> GoTo(c, "ok")
  /\ UNCHANGED <<environment, silences>>

DeleteNotFound_NoTenant(c) ==   \* mutant: listed without the tenant
  /\ call[c].step = "list" /\ call[c].op = "delete"
  /\ OwnByComment(call[c].silence.comment, "") = {}
  /\ GoTo(c, "ok")
  /\ UNCHANGED <<environment, silences>>

DeleteNotFound_Error(c) ==   \* mutant: what is gone already is an error
  /\ call[c].step = "list" /\ call[c].op = "delete"
  /\ OwnByComment(call[c].silence.comment, call[c].tenant) = {}
  /\ GoTo(c, "failed")
  /\ UNCHANGED <<environment, silences>>

DeleteNotFound(c) ==
  /\ call[c].step = "list" /\ call[c].op = "delete"
  /\ OwnByComment(call[c].silence.comment, call[c].tenant) = {}
  /\ GoTo(c, "ok")
  /\ UNCHANGED <<environment, silences>>

DeleteFound(c) ==
  /\ call[c].step = "list" /\ call[c].op = "delete"
  /\ \E i \in OwnByComment(call[c].silence.comment, call[c].tenant) :
       GoToId(c, "deleteByID", i)
  /\ UNCHANGED <<environment, silences>>

---------------------------------------------------------------------------
CreateSilence(c) ==
  /\ call[c].step = "create"
  /\ PostNew(call[c].silence, call[c].tenant, Held)
  /\ Reply(c)

UpdateSilence_NoId(c) ==   \* mutant: the ID found is not put into the request
  /\ call[c].step = "update"
  /\ PostNew(call[c].silence, call[c].tenant, Held)
  /\ Reply(c)

UpdateSilence(c) ==
  /\ call[c].step = "update"
  /\ PostOver(call[c].id, call[c].silence, call[c].tenant, Held)
  /\ Reply(c)

DeleteSilenceByID(c) ==
  /\ call[c].step = "deleteByID"
  /\ Expire(call[c].id)
  /\ Reply(c)

(* Any other status than 200 becomes errors.WithMessagef(nil, ...), which   *)
(* is nil: the caller is told that the silence is gone.  The server answers *)
(* so when the silence expired before, and when it could not delete it.     *)
DeleteStatusIgnored(c) ==
  /\ call[c].step = "deleteByID"
  /\ \/ ~Unexpired(call[c].id) /\ UNCHANGED environment
     \/ Fault("status")
  /\ GoTo(c, "ok")
  /\ UNCHANGED silences

\* One request of the call in progress.
Request(c) ==
  \/ RequestFails(c)
  \/ SyncNotFound(c) \/ SyncFound(c)
  \/ DeleteNotFound(c) \/ DeleteFound(c)
  \/ CreateSilence(c) \/ UpdateSilence(c)
  \/ DeleteSilenceByID(c) \/ DeleteStatusIgnored(c)

\* The caller takes the result.
Returned(c) == call[c].step \in {"ok", "failed"}

Collect(c) == Returned(c) /\ call' = [call EXCEPT ![c] = NoCall]

---------------------------------------------------------------------------
\* Everybody else who changes what Alertmanager holds, and the clock.
Others ==
  \/ Passes /\ UNCHANGED silences
  \/ \E i \in SilenceIds : UserExpires(i)
  \/ \E i \in SilenceIds, comment \in UserComments, tenant \in UserTenants :
       UserSilences(i, comment, tenant, Held)
=============================================================================
