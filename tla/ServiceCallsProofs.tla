-------------------------- MODULE ServiceCallsProofs ------------------------
(* What the service promises its callers, for any number of callers, any    *)
(* silences, tenants and bounds.                                            *)
EXTENDS ServiceCalls, ServiceLemmas

(* People use comments of their own: without that, SyncSilence adopts what  *)
(* they wrote (pkg/alertmanager/alertmanager.go compares comments only).    *)
Apart == \A s \in Wanted : s.comment \notin UserComments

---------------------------------------------------------------------------
(* Types.                                                                   *)

LEMMA BeginType ==
  ASSUME TypeOK, NEW c \in Callers, Sync(c) \/ Delete(c)
  PROVE  TypeOK'
<1>1. PICK s \in Wanted, tenant \in Tenants :
        Begins(s.comment) /\ (SyncSilence(c, s, tenant) \/ DeleteSilence(c, s.comment, tenant))
  BY DEF Sync, Delete
<1>2. s \in Silence /\ s.comment \in Comment /\ tenant \in Text
  BY CallsAssumption DEF Silence
<1>3. ServiceTypeOK'
  BY <1>1, <1>2, SyncSilenceType, DeleteSilenceType DEF TypeOK
<1>4. calls' \in Nat
  BY <1>1 DEF TypeOK, Begins
<1>5. call'[c].step = "list" /\ \A d \in Callers \ {c} : call'[d] = call[d]
  <2>1. CASE SyncSilence(c, s, tenant)
    BY <2>1 DEF SyncSilence, TypeOK, ServiceTypeOK, CallTypeOK
  <2>2. CASE DeleteSilence(c, s.comment, tenant)
    <3>1. PICK t : t = [NoSilence EXCEPT !.comment = s.comment]
      OBVIOUS
    <3> QED
      BY <2>2, <3>1 DEF DeleteSilence, TypeOK, ServiceTypeOK, CallTypeOK
  <2> QED
    BY <1>1, <2>1, <2>2
<1> QED
  BY <1>3, <1>4, <1>5 DEF TypeOK

LEMMA TakeFields ==
  ASSUME CallTypeOK, NEW c \in Callers, Collect(c)
  PROVE  call'[c] = NoCall /\ \A d \in Callers \ {c} : call'[d] = call[d]
  BY DEF Collect, CallTypeOK

LEMMA NextType == TypeOK /\ [Next]_vars => TypeOK'
<1> SUFFICES ASSUME TypeOK, [Next]_vars PROVE TypeOK'
  OBVIOUS
<1>1. ServiceTypeOK /\ CallTypeOK
  BY DEF TypeOK, ServiceTypeOK
<1>2. ASSUME NEW c \in Callers, Serve(c) PROVE TypeOK'
  BY <1>1, <1>2, RequestType, RequestFields DEF TypeOK, Serve
<1>3. ASSUME NEW c \in Callers, Take(c) PROVE TypeOK'
  <2>1. call'[c].step = "none" /\ \A d \in Callers \ {c} : call'[d] = call[d]
    BY <1>1, <1>3, TakeFields, NoCallFields DEF Take
  <2>2. ServiceTypeOK'
    BY <1>1, <1>3, CollectType
       DEF Take, ServiceTypeOK, environment, EnvironmentTypeOK, AlertmanagerTypeOK
  <2> QED
    BY <1>3, <2>1, <2>2 DEF TypeOK, Take
<1>4. CASE Interfere
  BY <1>1, <1>4, OthersType DEF TypeOK, Interfere
<1>5. CASE UNCHANGED vars
  BY <1>1, <1>5, ServiceStutter DEF TypeOK, vars, service
<1> QED
  BY <1>2, <1>3, <1>4, <1>5, BeginType DEF Next

LEMMA InitType == Init => TypeOK
<1> SUFFICES ASSUME Init PROVE TypeOK
  OBVIOUS
<1>1. ServiceTypeOK
  BY NoSilenceType, NoCallType
     DEF Init, ServiceInit, EnvironmentInit, ServiceTypeOK, EnvironmentTypeOK,
         AlertmanagerTypeOK, CallTypeOK
<1>2. \A c \in Callers : call[c].step = "none"
  BY DEF Init, ServiceInit, NoCall
<1> QED
  BY <1>1, <1>2 DEF TypeOK, Init

(* TypeOK: whatever is asked of the service and whatever fails, its calls   *)
(* keep their types, and a request that changes one silence names it        *)
(* (UpdateSilence is never asked to update one without an ID).              *)
THEOREM TypeCorrect == Spec => []TypeOK
  BY InitType, NextType, PTL DEF Spec

---------------------------------------------------------------------------
(* The inductive invariant.                                                 *)

\* A call in progress is for a silence its caller may ask for.
Asked(c) ==
  call[c].step # "none" =>
    \E s \in Wanted :
      /\ call[c].silence.comment = s.comment
      /\ call[c].op = "sync" => call[c].silence = s

\* Two calls in progress are for different comments.
Distinct ==
  \A c, d \in Callers :
    /\ call[c].step # "none" /\ call[d].step # "none"
    /\ call[c].silence.comment = call[d].silence.comment
    => c = d

\* Nobody but the operator writes under its comments.
Creator ==
  \A i \in SilenceIds, s \in Wanted :
    Unexpired(i) /\ silences[i].comment = s.comment => silences[i].createdBy = CreatedBy

CallSound(c) == Asked(c) /\ Formed(c) /\ Looked(c) /\ Named(c)

CallsInv ==
  /\ TypeOK
  /\ Distinct
  /\ Creator
  /\ \A c \in Callers : CallSound(c)
  /\ AtMostOneOwn

---------------------------------------------------------------------------
(* The parts of a step.                                                     *)

\* A call that others leave alone stays sound.
LEMMA OtherCall ==
  ASSUME CallsInv, NEW d \in Callers, call'[d] = call[d],
         now' \in Nat, now <= now',
         call[d].step # "none" =>
           \A i \in SilenceIds :
             \/ silences'[i] = silences[i] \/ Ended(i)
             \/ /\ \/ silences'[i].comment # call[d].silence.comment
                   \/ silences'[i].createdBy # CreatedBy
                /\ \/ Fresh(i, Held) \/ i # call[d].id
                   \/ call[d].step \notin {"update", "deleteByID"}
  PROVE  CallSound(d)'
<1>1. ServiceTypeOK /\ CallSound(d)
  BY DEF CallsInv, TypeOK
<1>2. Asked(d)' /\ Formed(d)'
  BY <1>1, FormedKept DEF CallSound, Asked
<1>3. CASE call[d].step = "none"
  BY <1>2, <1>3 DEF CallSound, Looked, Named
<1>4. CASE call[d].step # "none"
  <2>1. PICK comment : comment = call[d].silence.comment
    OBVIOUS
  <2>2. PICK tenant : tenant = call[d].tenant
    OBVIOUS
  <2>3. OwnByComment(comment, tenant)' \subseteq OwnByComment(comment, tenant)
    BY <1>1, <1>4, <2>1, OwnKept
  <2>4. Looked(d)'
    BY <1>1, <2>1, <2>2, <2>3, LookedKept DEF CallSound
  <2>5. Named(d)'
    BY <1>1, <1>4, NamedKept DEF CallSound
  <2> QED
    BY <1>2, <2>4, <2>5 DEF CallSound
<1> QED
  BY <1>3, <1>4

\* What a caller finds under its comment is the operator's, and one at most.
LEMMA CallFinds ==
  ASSUME CallsInv, NEW c \in Callers, call[c].step # "none"
  PROVE  Shown(c) /\ Single(OwnOfCall(c))
<1>1. PICK s \in Wanted : call[c].silence.comment = s.comment
  BY DEF CallsInv, CallSound, Asked
<1>2. Shown(c)
  BY <1>1 DEF CallsInv, Creator, Shown, OwnOfCall, OwnByComment, GetSilenceByComment,
              ListSilences
<1>3. Single(OwnOfCall(c))
  BY DEF CallsInv, AtMostOneOwn, Single, OwnOfCall, OwnByComment, GetSilenceByComment,
         ListSilences
<1> QED
  BY <1>2, <1>3

\* A call begins: nobody has one for the same comment.
LEMMA BeginInv ==
  ASSUME CallsInv, NEW c \in Callers, Sync(c) \/ Delete(c)
  PROVE  CallsInv'
<1>1. TypeOK /\ TypeOK' /\ ServiceTypeOK
  BY BeginType DEF CallsInv, TypeOK
<1>2. PICK s \in Wanted, tenant \in Tenants :
        Begins(s.comment) /\ (SyncSilence(c, s, tenant) \/ DeleteSilence(c, s.comment, tenant))
  BY DEF Sync, Delete
<1>3. /\ call'[c].step = "list" /\ call'[c].silence.comment = s.comment
      /\ call'[c].op = "sync" => call'[c].silence = s
      /\ \A d \in Callers \ {c} : call'[d] = call[d]
      /\ UNCHANGED <<silences, now>>
  <2>1. CASE SyncSilence(c, s, tenant)
    BY <1>1, <2>1 DEF SyncSilence, ServiceTypeOK, CallTypeOK, environment
  <2>2. CASE DeleteSilence(c, s.comment, tenant)
    <3>1. PICK t : t = [NoSilence EXCEPT !.comment = s.comment]
      OBVIOUS
    <3>2. t.comment = s.comment
      BY <3>1 DEF NoSilence
    <3> QED
      BY <1>1, <2>2, <3>1, <3>2 DEF DeleteSilence, ServiceTypeOK, CallTypeOK, environment
  <2> QED
    BY <1>2, <2>1, <2>2
<1>4. now' \in Nat /\ now <= now'
  BY <1>1, <1>3 DEF ServiceTypeOK, EnvironmentTypeOK
<1>5. Distinct'
  <2>1. \A d \in Callers : call[d].silence.comment # s.comment
    BY <1>2 DEF Begins
  <2> QED
    BY <1>3, <2>1 DEF CallsInv, Distinct
<1>6. Creator' /\ AtMostOneOwn'
  BY <1>3 DEF CallsInv, Creator, AtMostOneOwn, Unexpired
<1>7. ASSUME NEW d \in Callers, d # c PROVE CallSound(d)'
  BY <1>3, <1>4, <1>7, OtherCall
<1>8. CallSound(c)'
  <2>1. Formed(c)'
    BY <1>1, <1>2, <1>3, NewFormed
  <2> QED
    BY <1>3, <2>1 DEF CallSound, Asked, Looked, Named
<1> QED
  BY <1>1, <1>5, <1>6, <1>7, <1>8 DEF CallsInv

\* A request of one call leaves the others sound.
LEMMA ServeOthers ==
  ASSUME CallsInv, NEW c \in Callers, Request(c), NEW d \in Callers, d # c
  PROVE  CallSound(d)'
<1>1. ServiceTypeOK /\ CallTypeOK /\ CallSound(c) /\ CallSound(d)
  BY DEF CallsInv, TypeOK, ServiceTypeOK
<1>2. now' = now /\ now \in Nat /\ call'[d] = call[d]
  BY <1>1, RequestClock, RequestFields DEF ServiceTypeOK, EnvironmentTypeOK
<1>3. ASSUME call[d].step # "none", NEW i \in SilenceIds,
             Keeps(silences'[i], call[c].silence, call[c].tenant),
             Fresh(i, Held) \/ (call[c].step = "update" /\ i = call[c].id /\ Unexpired(i))
      PROVE  /\ silences'[i].comment # call[d].silence.comment
             /\ \/ Fresh(i, Held) \/ i # call[d].id
                \/ call[d].step \notin {"update", "deleteByID"}
  <2>1. call[c].silence.comment # call[d].silence.comment
    BY <1>1, <1>3, RequestFields DEF CallsInv, Distinct
  <2>2. silences'[i].comment = call[c].silence.comment
    BY <1>3 DEF Keeps
  <2>3. CASE i = call[c].id /\ call[c].step = "update" /\ Unexpired(i)
    <3>1. silences[i].comment = call[c].silence.comment
      BY <1>1, <2>3 DEF CallSound, Named
    <3>2. i = call[d].id /\ call[d].step \in {"update", "deleteByID"} =>
            silences[i].comment = call[d].silence.comment
      BY <1>1, <2>3 DEF CallSound, Named
    <3> QED
      BY <2>1, <2>2, <3>1, <3>2
  <2> QED
    BY <1>3, <2>1, <2>2, <2>3
<1>4. call[d].step # "none" =>
        \A i \in SilenceIds :
          \/ silences'[i] = silences[i] \/ Ended(i)
          \/ /\ silences'[i].comment # call[d].silence.comment
             /\ \/ Fresh(i, Held) \/ i # call[d].id
                \/ call[d].step \notin {"update", "deleteByID"}
  <2>1. Formed(c)
    BY <1>1 DEF CallSound
  <2> QED
    BY <1>1, <1>3, <2>1, RequestWrites
<1> QED
  BY <1>2, <1>4, OtherCall

LEMMA ServeInv ==
  ASSUME CallsInv, NEW c \in Callers, Serve(c)
  PROVE  CallsInv'
<1>1. TypeOK /\ ServiceTypeOK /\ CallTypeOK /\ CallSound(c) /\ Request(c)
  BY DEF CallsInv, TypeOK, ServiceTypeOK, Serve
<1>2. TypeOK'
  BY <1>1, NextType DEF Next
<1>3. /\ now' = now /\ now \in Nat /\ call[c].step # "none"
      /\ call'[c].silence = call[c].silence /\ call'[c].tenant = call[c].tenant
      /\ call'[c].op = call[c].op /\ call'[c].step # "none"
      /\ \A d \in Callers \ {c} : call'[d] = call[d]
  BY <1>1, RequestClock, RequestFields DEF ServiceTypeOK, EnvironmentTypeOK
<1>4. PICK written :
        \A i \in SilenceIds : i \in written <=>
          /\ Keeps(silences'[i], call[c].silence, call[c].tenant)
          /\ call[c].step \in {"create", "update"}
  <2> WITNESS {i \in SilenceIds : /\ Keeps(silences'[i], call[c].silence, call[c].tenant)
                                  /\ call[c].step \in {"create", "update"}}
  <2> QED
    OBVIOUS
<1>5. \A i \in SilenceIds : silences'[i] = silences[i] \/ Ended(i) \/ i \in written
  BY <1>1, <1>4, RequestWrites DEF CallSound
<1>6. \A i \in SilenceIds : i \in written =>
        /\ silences'[i].comment = call[c].silence.comment
        /\ silences'[i].tenant = EffectiveTenant(call[c].tenant)
        /\ silences'[i].createdBy = CreatedBy
  <2>1. call[c].step \in {"create", "update"} => call[c].silence.createdBy = CreatedBy
    BY <1>1, CallsAssumption DEF CallSound, Formed, Asked
  <2> QED
    BY <1>4, <2>1 DEF Keeps
<1>7. Distinct'
  BY <1>3 DEF CallsInv, Distinct
<1>8. Creator'
  <2> SUFFICES ASSUME NEW i \in SilenceIds, NEW w \in Wanted,
                      Unexpired(i)', silences'[i].comment = w.comment
               PROVE  silences'[i].createdBy = CreatedBy
    BY DEF Creator
  <2>1. CASE silences'[i] = silences[i] \/ Ended(i)
    BY <1>1, <1>3, <2>1, WasUnexpired DEF CallsInv, Creator
  <2> QED
    BY <1>5, <1>6, <2>1
<1>9. Looked(c)' /\ Single(OwnOfCall(c))'
  BY <1>1, <1>3, CallFinds, RequestLooked DEF CallSound
<1>10. AtMostOneOwn'
  <2> SUFFICES ASSUME NEW i \in SilenceIds, NEW j \in SilenceIds,
                      Unexpired(i)', Unexpired(j)',
                      silences'[i].createdBy = CreatedBy, silences'[j].createdBy = CreatedBy,
                      silences'[i].comment = silences'[j].comment,
                      silences'[i].tenant = silences'[j].tenant
               PROVE  i = j
    BY DEF AtMostOneOwn
  <2>1. CASE i \in written \/ j \in written
    <3>1. i \in OwnOfCall(c)' /\ j \in OwnOfCall(c)'
      BY <1>3, <1>6, <2>1 DEF OwnOfCall, OwnByComment, GetSilenceByComment, ListSilences
    <3> QED
      BY <1>9, <3>1 DEF Single
  <2>2. CASE ~(i \in written \/ j \in written)
    <3>1. /\ silences'[i] = silences[i] /\ Unexpired(i)
          /\ silences'[j] = silences[j] /\ Unexpired(j)
      BY <1>1, <1>3, <1>5, <2>2, WasUnexpired
    <3> QED
      BY <3>1 DEF CallsInv, AtMostOneOwn
  <2> QED
    BY <2>1, <2>2
<1>11. CallSound(c)'
  BY <1>1, <1>3, <1>9, RequestFormed, RequestNamed DEF CallSound, Asked
<1> QED
  BY <1>1, <1>2, <1>7, <1>8, <1>10, <1>11, ServeOthers DEF CallsInv

LEMMA TakeInv ==
  ASSUME CallsInv, NEW c \in Callers, Take(c)
  PROVE  CallsInv'
<1>1. TypeOK /\ ServiceTypeOK /\ CallTypeOK
  BY DEF CallsInv, TypeOK, ServiceTypeOK
<1>2. TypeOK'
  BY <1>1, NextType DEF Next
<1>3. /\ call'[c] = NoCall /\ call'[c].step = "none" /\ call'[c].op = "none"
      /\ \A d \in Callers \ {c} : call'[d] = call[d]
  BY <1>1, TakeFields, NoCallFields DEF Take
<1>4. UNCHANGED <<silences, now>> /\ now \in Nat
  BY <1>1 DEF Take, environment, ServiceTypeOK, EnvironmentTypeOK
<1>5. Distinct' /\ Creator' /\ AtMostOneOwn'
  BY <1>3, <1>4 DEF CallsInv, Distinct, Creator, AtMostOneOwn, Unexpired
<1>6. CallSound(c)'
  BY <1>1, <1>3, <1>4, NewFormed DEF CallSound, Asked, Looked, Named
<1>7. ASSUME NEW d \in Callers, d # c PROVE CallSound(d)'
  BY <1>3, <1>4, <1>7, OtherCall
<1> QED
  BY <1>2, <1>5, <1>6, <1>7 DEF CallsInv

\* People use comments of their own.
LEMMA InterfereInv ==
  ASSUME Apart, CallsInv, Interfere
  PROVE  CallsInv'
<1>1. TypeOK /\ ServiceTypeOK /\ UNCHANGED call
  BY DEF CallsInv, TypeOK, Interfere
<1>2. TypeOK'
  BY <1>1, NextType DEF Next
<1>3. "user" # CreatedBy
  BY DEF CreatedBy
<1>4. /\ now' \in Nat /\ now <= now'
      /\ \A i \in SilenceIds :
           \/ silences'[i] = silences[i] \/ Ended(i)
           \/ /\ Fresh(i, Held) /\ silences'[i].createdBy # CreatedBy
              /\ silences'[i].comment \in UserComments
  BY <1>1, <1>3, OthersWrite DEF Interfere
<1>5. Distinct'
  BY <1>1 DEF CallsInv, Distinct
<1>6. Creator'
  <2> SUFFICES ASSUME NEW i \in SilenceIds, NEW w \in Wanted,
                      Unexpired(i)', silences'[i].comment = w.comment
               PROVE  silences'[i].createdBy = CreatedBy
    BY DEF Creator
  <2>1. silences'[i] = silences[i] \/ Ended(i)
    BY <1>4 DEF Apart
  <2> QED
    BY <1>1, <1>4, <2>1, WasUnexpired DEF CallsInv, Creator
<1>7. AtMostOneOwn'
  <2> SUFFICES ASSUME NEW i \in SilenceIds, NEW j \in SilenceIds,
                      Unexpired(i)', Unexpired(j)',
                      silences'[i].createdBy = CreatedBy, silences'[j].createdBy = CreatedBy,
                      silences'[i].comment = silences'[j].comment,
                      silences'[i].tenant = silences'[j].tenant
               PROVE  i = j
    BY DEF AtMostOneOwn
  <2>1. /\ silences'[i] = silences[i] /\ Unexpired(i)
        /\ silences'[j] = silences[j] /\ Unexpired(j)
    BY <1>1, <1>4, WasUnexpired
  <2> QED
    BY <2>1 DEF CallsInv, AtMostOneOwn
<1>8. ASSUME NEW d \in Callers PROVE CallSound(d)'
  BY <1>1, <1>4, OtherCall
<1> QED
  BY <1>2, <1>5, <1>6, <1>7, <1>8 DEF CallsInv

LEMMA InitInv == Init => CallsInv
<1> SUFFICES ASSUME Init PROVE CallsInv
  OBVIOUS
<1>1. TypeOK /\ now = 0
  BY InitType DEF Init, EnvironmentInit
<1>2. \A i \in SilenceIds : ~Unexpired(i)
  <2>1. NoSilence.endsAt = 0
    BY DEF NoSilence
  <2> QED
    BY <1>1, <2>1 DEF Init, ServiceInit, Unexpired
<1>3. \A c \in Callers : call[c].step = "none" /\ call[c].op = "none" /\ call[c].now = 0
  BY NoCallFields DEF Init, ServiceInit
<1>4. Distinct /\ Creator /\ AtMostOneOwn
  BY <1>2, <1>3 DEF Distinct, Creator, AtMostOneOwn
<1>5. \A c \in Callers : CallSound(c)
  BY <1>1, <1>3 DEF CallSound, Asked, Formed, Looked, Named
<1> QED
  BY <1>1, <1>4, <1>5 DEF CallsInv

LEMMA NextInv == Apart /\ CallsInv /\ [Next]_vars => CallsInv'
<1> SUFFICES ASSUME Apart, CallsInv, [Next]_vars PROVE CallsInv'
  OBVIOUS
<1>1. CASE UNCHANGED vars
  <2>1. UNCHANGED <<now, silences, call>> /\ TypeOK /\ ServiceTypeOK
    BY <1>1 DEF vars, service, environment, CallsInv, TypeOK
  <2>2. TypeOK'
    BY <2>1, NextType
  <2>3. now \in Nat
    BY <2>1 DEF ServiceTypeOK, EnvironmentTypeOK
  <2>4. Distinct' /\ Creator' /\ AtMostOneOwn'
    BY <2>1 DEF CallsInv, Distinct, Creator, AtMostOneOwn, Unexpired
  <2>5. \A d \in Callers : CallSound(d)'
    BY <2>1, <2>3, OtherCall
  <2> QED
    BY <2>2, <2>4, <2>5 DEF CallsInv
<1> QED
  BY <1>1, BeginInv, ServeInv, TakeInv, InterfereInv DEF Next

---------------------------------------------------------------------------
(* The theorems.                                                            *)

\* Only a request ends a call.
LEMMA EndsByRequest ==
  ASSUME CallsInv, [Next]_vars, NEW c \in Callers, ~Returned(c), call'[c].step = "ok"
  PROVE  Request(c)
<1>1. CallTypeOK /\ ServiceTypeOK
  BY DEF CallsInv, TypeOK, ServiceTypeOK
<1>2. call'[c] # call[c]
  BY DEF Returned
<1>3. ASSUME NEW d \in Callers, Sync(d) \/ Delete(d) PROVE FALSE
  <2>1. call'[d].step = "list" /\ \A b \in Callers \ {d} : call'[b] = call[b]
    <3>1. PICK s, tenant : SyncSilence(d, s, tenant) \/ DeleteSilence(d, s.comment, tenant)
      BY <1>3 DEF Sync, Delete
    <3>2. CASE SyncSilence(d, s, tenant)
      BY <1>1, <3>2 DEF SyncSilence, CallTypeOK
    <3>3. CASE DeleteSilence(d, s.comment, tenant)
      <4>1. PICK t : t = [NoSilence EXCEPT !.comment = s.comment]
        OBVIOUS
      <4> QED
        BY <1>1, <3>3, <4>1 DEF DeleteSilence, CallTypeOK
    <3> QED
      BY <3>1, <3>2, <3>3
  <2> QED
    BY <1>2, <2>1
<1>4. ASSUME NEW d \in Callers, Take(d) PROVE FALSE
  BY <1>1, <1>2, <1>4, TakeFields, NoCallFields DEF Take
<1>5. ASSUME NEW d \in Callers, Serve(d) PROVE d = c
  BY <1>1, <1>2, <1>5, RequestFields DEF Serve
<1>6. ~Interfere /\ ~UNCHANGED vars
  BY <1>2 DEF Interfere, vars, service
<1> QED
  BY <1>3, <1>4, <1>5, <1>6 DEF Next, Serve

\* The two readings of the silences of the operator.
LEMMA OwnIs ==
  ASSUME NEW comment, NEW tenant
  PROVE  /\ Own(comment, tenant) = OwnByComment(comment, tenant)
         /\ Own(comment, tenant)' = OwnByComment(comment, tenant)'
  BY DEF Own, OwnByComment, GetSilenceByComment, ListSilences, Unexpired

\* What a call that returns nil achieved.
LEMMA EndsAchieve ==
  ASSUME CallsInv, NEW c \in Callers, Request(c), call'[c].step = "ok",
         NEW s, s = call[c].silence, NEW tenant, tenant = call[c].tenant
  PROVE  /\ call[c].op = "sync" /\ s.endsAt > now' =>
              \E i \in Own(s.comment, tenant)' :
                /\ Own(s.comment, tenant)' = {i}
                /\ silences'[i].matchers = s.matchers /\ silences'[i].endsAt = s.endsAt
         /\ call[c].op = "delete" \/ (call[c].op = "sync" /\ s.endsAt <= now')
              => "status" \in FaultKinds \/ Own(s.comment, tenant)' = {}
<1>1. /\ ServiceTypeOK /\ CallTypeOK /\ CallSound(c) /\ call[c].step # "none"
      /\ now' = now
  BY RequestClock, RequestFields DEF CallsInv, TypeOK, ServiceTypeOK
<1>2. Formed(c) /\ Looked(c) /\ Shown(c) /\ Single(OwnOfCall(c))
  BY <1>1, CallFinds DEF CallSound
<1>3. Own(s.comment, tenant)' = OwnByComment(s.comment, tenant)'
  BY OwnIs
<1>4. CASE call[c].op = "sync"
  <2>1. s.createdBy = CreatedBy
    BY <1>1, <1>4, CallsAssumption DEF CallSound, Asked
  <2> QED
    BY <1>1, <1>2, <1>3, <1>4, <2>1, SyncEnds
<1>5. CASE call[c].op = "delete"
  <2>1. /\ Looked(c)' /\ call'[c].op = "delete"
        /\ call'[c].silence = s /\ call'[c].tenant = tenant
    BY <1>1, <1>2, <1>5, RequestLooked, RequestFields
  <2>2. OwnOfCall(c)' = OwnByComment(s.comment, tenant)'
    BY <2>1 DEF OwnOfCall, OwnByComment, GetSilenceByComment, ListSilences, Unexpired
  <2> QED
    BY <1>3, <1>5, <2>1, <2>2 DEF Looked
<1> QED
  BY <1>4, <1>5

(* AtMostOneOwn: however calls fail, are repeated and overlap, Alertmanager *)
(* never holds two silences of the operator with one comment in one tenant. *)
THEOREM OneOwn ==
  ASSUME Apart
  PROVE  Spec => []AtMostOneOwn
<1>1. CallsInv /\ [Next]_vars => CallsInv'
  BY NextInv
<1>2. CallsInv => AtMostOneOwn
  BY DEF CallsInv
<1> QED
  BY <1>1, <1>2, InitInv, PTL DEF Spec

\* Own of a call in progress, as its caller finds it after the request.
LEMMA OwnAfter ==
  ASSUME CallTypeOK, NEW c \in Callers, Request(c),
         NEW s, s = call[c].silence, NEW tenant, tenant = call[c].tenant
  PROVE  Own(call[c].silence.comment, call[c].tenant)' = Own(s.comment, tenant)'
<1>1. call'[c].silence = s /\ call'[c].tenant = tenant
  BY RequestFields
<1> QED
  BY <1>1 DEF Own, Unexpired

(* SyncReturnsOnlyWhenMirrored: when SyncSilence returns nil and the silence*)
(* has not ended, Alertmanager holds it with its matchers and its end,      *)
(* although time passed, people expired silences and other calls ran        *)
(* between its two requests.                                                *)
THEOREM SyncIsTrue ==
  ASSUME Apart
  PROVE  Spec => SyncReturnsOnlyWhenMirrored
<1>1. CallsInv /\ [Next]_vars => CallsInv'
  BY NextInv
<1>2. CallsInv /\ [Next]_vars =>
        \A c \in Callers :
          LET s == call[c].silence
              own == {silences'[i] : i \in Own(s.comment, call[c].tenant)'}
          IN  Ends(c, "sync") /\ s.endsAt > now' =>
                /\ own # {}
                /\ \A t \in own : t.matchers = s.matchers /\ t.endsAt = s.endsAt
  <2> SUFFICES ASSUME CallsInv, [Next]_vars, NEW c \in Callers,
                      Ends(c, "sync"), call[c].silence.endsAt > now'
               PROVE  /\ {silences'[i] : i \in Own(call[c].silence.comment, call[c].tenant)'} # {}
                      /\ \A t \in {silences'[i] : i \in Own(call[c].silence.comment, call[c].tenant)'} :
                           /\ t.matchers = call[c].silence.matchers
                           /\ t.endsAt = call[c].silence.endsAt
    BY Zenon
  <2>1. Request(c) /\ call[c].op = "sync" /\ call'[c].step = "ok"
    BY EndsByRequest DEF Ends
  <2>2. PICK s : s = call[c].silence
    OBVIOUS
  <2>3. PICK tenant : tenant = call[c].tenant
    OBVIOUS
  <2>4. PICK i \in Own(s.comment, tenant)' :
          /\ Own(s.comment, tenant)' = {i}
          /\ silences'[i].matchers = s.matchers /\ silences'[i].endsAt = s.endsAt
    BY <2>1, <2>2, <2>3, EndsAchieve
  <2>5. Own(call[c].silence.comment, call[c].tenant)' = {i}
    BY <2>1, <2>2, <2>3, <2>4, OwnAfter DEF CallsInv, TypeOK, ServiceTypeOK
  <2> QED
    BY <2>2, <2>4, <2>5
<1> QED
  BY <1>1, <1>2, InitInv, PTL DEF Spec, SyncReturnsOnlyWhenMirrored

(* ReturnsOnlyWhenGone: when DeleteSilence returns nil, or SyncSilence for a*)
(* silence that has ended, the silence is not in effect - provided that     *)
(* Alertmanager does not answer a DELETE of a silence in effect with an     *)
(* error status, which the client takes for success.                        *)
THEOREM GoneIsTrue ==
  ASSUME Apart, "status" \notin FaultKinds
  PROVE  Spec => ReturnsOnlyWhenGone
<1>1. CallsInv /\ [Next]_vars => CallsInv'
  BY NextInv
<1>2. CallsInv /\ [Next]_vars =>
        \A c \in Callers :
          Ends(c, "delete") \/ (Ends(c, "sync") /\ call[c].silence.endsAt <= now')
            => Own(call[c].silence.comment, call[c].tenant)' = {}
  <2> SUFFICES ASSUME CallsInv, [Next]_vars, NEW c \in Callers,
                      Ends(c, "delete") \/ (Ends(c, "sync") /\ call[c].silence.endsAt <= now')
               PROVE  Own(call[c].silence.comment, call[c].tenant)' = {}
    BY Zenon
  <2>1. Request(c) /\ call'[c].step = "ok"
    BY EndsByRequest DEF Ends
  <2>2. PICK s : s = call[c].silence
    OBVIOUS
  <2>3. PICK tenant : tenant = call[c].tenant
    OBVIOUS
  <2>4. Own(s.comment, tenant)' = {}
    BY <2>1, <2>2, <2>3, EndsAchieve DEF Ends
  <2> QED
    BY <2>1, <2>2, <2>3, <2>4, OwnAfter DEF CallsInv, TypeOK, ServiceTypeOK
<1> QED
  BY <1>1, <1>2, InitInv, PTL DEF Spec, ReturnsOnlyWhenGone

(* OthersUntouched: no request of the operator changes a silence in effect  *)
(* that somebody else wrote - although the id it names is from a listing    *)
(* that may be outdated when the request arrives.                           *)
THEOREM LeavesOthersAlone ==
  ASSUME Apart
  PROVE  Spec => OthersUntouched
<1>1. CallsInv /\ [Next]_vars => CallsInv'
  BY NextInv
<1>2. CallsInv /\ [Next]_vars =>
        \A i \in SilenceIds :
          (\E c \in Callers : call'[c] # call[c]) /\ Unexpired(i)
            /\ silences[i].createdBy # CreatedBy
            => silences'[i] = silences[i]
  <2> SUFFICES ASSUME CallsInv, [Next]_vars, NEW i \in SilenceIds,
                      \E c \in Callers : call'[c] # call[c],
                      Unexpired(i), silences[i].createdBy # CreatedBy
               PROVE  silences'[i] = silences[i]
    OBVIOUS
  <2>1. CASE UNCHANGED silences
    BY <2>1
  <2>2. ASSUME NEW c \in Callers, Serve(c) PROVE silences'[i] = silences[i]
    <3>1. ServiceTypeOK /\ CallTypeOK /\ CallSound(c) /\ Request(c)
      BY <2>2 DEF CallsInv, TypeOK, ServiceTypeOK, Serve
    <3>2. call[c].step # "none"
      BY <3>1, RequestFields
    <3>3. ~(i = call[c].id /\ call[c].step \in {"update", "deleteByID"})
      BY <3>1, <3>2 DEF CallSound, Named, Asked, CallsInv, Creator
    <3>4. ~Fresh(i, Held)
      BY DEF Fresh
    <3> QED
      BY <3>1, <3>3, <3>4, RequestWrites DEF CallSound
  <2>3. ~Interfere
    BY DEF Interfere
  <2> QED
    BY <2>1, <2>2, <2>3
       DEF Next, Sync, Delete, Take, SyncSilence, DeleteSilence, vars, service
<1> QED
  BY <1>1, <1>2, InitInv, PTL DEF Spec, OthersUntouched
=============================================================================
