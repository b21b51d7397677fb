---------------------------- MODULE ServiceCalls ----------------------------
(* The service on its own: callers that ask it, at any time and in any      *)
(* order, to mirror or to delete the silences they are responsible for.     *)
EXTENDS SilenceService

CONSTANTS
  Wanted,      \* the silences a caller may ask for, built by getSilenceFromCR
  Tenants,     \* the tenants it may name
  MaxCalls     \* bound: calls started

ASSUME CallsAssumption ==
  /\ \A s \in Wanted : s \in Silence /\ s.createdBy = CreatedBy
  /\ Tenants \subseteq Text
  /\ MaxCalls \in Nat

VARIABLE calls     \* calls started so far

vars == <<environment, service, calls>>

Init == EnvironmentInit /\ ServiceInit /\ calls = 0

(* Two callers never work on one comment at the same time: the workqueue of *)
(* a controller hands an object to one worker.                              *)
Begins(comment) ==
  /\ calls < MaxCalls
  /\ calls' = calls + 1
  /\ \A d \in Callers : call[d].silence.comment # comment

Sync(c) ==
  \E s \in Wanted, tenant \in Tenants :
    Begins(s.comment) /\ SyncSilence(c, s, tenant)

Delete(c) ==
  \E s \in Wanted, tenant \in Tenants :
    Begins(s.comment) /\ DeleteSilence(c, s.comment, tenant)

Serve(c) == Request(c) /\ UNCHANGED calls

Take(c) == Collect(c) /\ UNCHANGED <<environment, silences, calls>>

Interfere == Others /\ UNCHANGED <<call, calls>>

Next ==
  \/ \E c \in Callers : Sync(c) \/ Delete(c) \/ Serve(c) \/ Take(c)
  \/ Interfere

Spec == Init /\ [][Next]_vars

---------------------------------------------------------------------------
(* The types of the service and its callers; a request that changes one     *)
(* silence names it (UpdateSilence refuses one without an ID).              *)
TypeOK ==
  /\ ServiceTypeOK
  /\ calls \in Nat
  /\ \A c \in Callers : call[c].step \in {"update", "deleteByID"} => call[c].id \in SilenceIds

Own(comment, tenant) ==
  {i \in SilenceIds : /\ Unexpired(i)
                      /\ silences[i].comment = comment
                      /\ silences[i].tenant = EffectiveTenant(tenant)
                      /\ silences[i].createdBy = CreatedBy}

(* However calls fail, are repeated and overlap, Alertmanager never holds   *)
(* two unexpired silences of the operator with one comment in one tenant    *)
(* (SyncSilence looks before it creates, and DeleteSilenceByComment deletes *)
(* the first match only).                                                   *)
AtMostOneOwn ==
  \A i, j \in SilenceIds :
    /\ Unexpired(i) /\ Unexpired(j)
    /\ silences[i].createdBy = CreatedBy /\ silences[j].createdBy = CreatedBy
    /\ silences[i].comment = silences[j].comment
    /\ silences[i].tenant = silences[j].tenant
    => i = j

Ends(c, op) == call[c].op = op /\ ~Returned(c) /\ call'[c].step = "ok"

(* What a caller may conclude from SyncSilence returning nil: as long as    *)
(* the silence has not ended, Alertmanager holds it, with its matchers and  *)
(* its end - although time passed and people expired silences between the   *)
(* two requests.                                                            *)
SyncReturnsOnlyWhenMirrored ==
  [][\A c \in Callers :
       LET s == call[c].silence
           own == {silences'[i] : i \in Own(s.comment, call[c].tenant)'}
       IN  Ends(c, "sync") /\ s.endsAt > now' =>
             /\ own # {}
             /\ \A t \in own : t.matchers = s.matchers /\ t.endsAt = s.endsAt]_vars

(* What a caller may conclude from DeleteSilence returning nil, and from    *)
(* SyncSilence returning nil for a silence that has ended: the silence is   *)
(* not in effect.                                                           *)
ReturnsOnlyWhenGone ==
  [][\A c \in Callers :
       Ends(c, "delete") \/ (Ends(c, "sync") /\ call[c].silence.endsAt <= now')
         => Own(call[c].silence.comment, call[c].tenant)' = {}]_vars

(* No request of the operator changes a silence somebody else wrote, under  *)
(* another comment or for another tenant: ids are those of a listing that   *)
(* was filtered for the caller.                                             *)
OthersUntouched ==
  [][\A i \in SilenceIds :
       (\E c \in Callers : call'[c] # call[c]) /\ Unexpired(i)
         /\ silences[i].createdBy # CreatedBy
         => silences'[i] = silences[i]]_vars
=============================================================================
