------------------------ MODULE ScriptRuntime_proofs ------------------------
(***************************************************************************)
(* Theorems about ScriptRuntime, for any pool of workers, any capacity of  *)
(* the queue and any scripts, with no bound on generations or requests     *)
(* but the constants'.                                                     *)
(***************************************************************************)
EXTENDS ScriptRuntime, SequenceTheorems, FiniteSetTheorems, TLAPS

\* Dropping one element of a sequence leaves a sequence of the same set, one
\* shorter, each of whose elements was there before.
LEMMA RemoveAtIsSeq ==
    ASSUME NEW S, NEW s \in Seq(S), NEW i \in DOMAIN s
    PROVE  RemoveAt(s, i) \in Seq(S)
<1>1. i \in 1..Len(s)
  BY LenProperties
<1>2. SubSeq(s, 1, i - 1) \in Seq(S) /\ SubSeq(s, i + 1, Len(s)) \in Seq(S)
  BY <1>1, SubSeqProperties
<1>. QED
  BY <1>2, ConcatProperties DEF RemoveAt

\* Which element of the sequence each of them is.
LEMMA RemoveAtElements ==
    ASSUME NEW S, NEW s \in Seq(S), NEW i \in DOMAIN s
    PROVE  /\ Len(RemoveAt(s, i)) = Len(s) - 1
           /\ \A j \in 1..(Len(s) - 1) :
                 RemoveAt(s, i)[j] = s[IF j < i THEN j ELSE j + 1]
<1>. DEFINE left == SubSeq(s, 1, i - 1)
            right == SubSeq(s, i + 1, Len(s))
<1>1. i \in 1..Len(s) /\ Len(s) \in Nat
  BY LenProperties
<1>2. left \in Seq(S) /\ Len(left) = i - 1 /\ \A j \in 1..(i - 1) : left[j] = s[j]
  BY <1>1, SubSeqProperties
<1>3. right \in Seq(S) /\ Len(right) = Len(s) - i
  BY <1>1, SubSeqProperties
<1>4. \A j \in 1..(Len(s) - i) : right[j] = s[i + j]
  BY <1>1, SubSeqProperties
<1>5. RemoveAt(s, i) = left \o right
  BY DEF RemoveAt
<1>. HIDE DEF left, right
<1>6. Len(left \o right) = Len(s) - 1
  <2>1. Len(left \o right) = Len(left) + Len(right)
    BY ONLY <1>2, <1>3, ConcatProperties
  <2>. QED
    BY <1>1, <1>2, <1>3, <2>1
<1>7. ASSUME NEW j \in 1..(Len(s) - 1)
      PROVE  (left \o right)[j] = s[IF j < i THEN j ELSE j + 1]
  <2>1. CASE j < i
    <3>1. j \in 1..(Len(left) + Len(right)) /\ j <= Len(left)
      BY <1>1, <1>2, <1>3, <1>7, <2>1
    <3>2. (left \o right)[j] = left[j]
      BY ONLY <3>1, <1>2, <1>3, ConcatProperties
    <3>. QED
      BY <3>2, <1>1, <1>2, <2>1
  <2>2. CASE j >= i
    <3>1. j \in 1..(Len(left) + Len(right)) /\ ~(j <= Len(left))
      BY <1>1, <1>2, <1>3, <1>7, <2>2
    <3>2. (left \o right)[j] = right[j - Len(left)]
      BY ONLY <3>1, <1>2, <1>3, ConcatProperties, SMTT(30)
    <3>0. i \in Nat /\ j \in Nat /\ Len(s) \in Nat /\ i <= j /\ j <= Len(s) - 1 /\ i >= 1
      BY <1>1, <1>7, <2>2
    <3>3. j - Len(left) = j - i + 1 /\ j - i + 1 \in 1..(Len(s) - i)
      BY ONLY <1>2, <3>0
    <3>4. i + (j - i + 1) = j + 1
      BY <1>1
    <3>5. right[j - i + 1] = s[j + 1]
      BY ONLY <3>3, <3>4, <1>4
    <3>6. (left \o right)[j] = s[j + 1] /\ ~(j < i)
      BY ONLY <3>2, <3>3, <3>5, <2>2, <1>1
    <3>. QED
      BY ONLY <3>6
  <2>3. j < i \/ j >= i
    BY <1>1
  <2>. QED
    BY ONLY <2>1, <2>2, <2>3
<1>. QED
  BY <1>5, <1>6, <1>7

\* The section of enqueue under the mutex keeps the guarded state in its
\* ranges, whatever event it is given.
LEMMA EnqueueType ==
    ASSUME LockedTypeOK, NEW e \in Event, Enqueue(e)
    PROVE  LockedTypeOK'
<1>. USE DEF LockedTypeOK
<1>1. CASE Refuse(e)
  BY <1>1 DEF Refuse, locked, flags, life, health, blame
<1>2. CASE Supersede(e)
  BY <1>2 DEF Supersede, ReplaceAt, flags, life, health, blame
<1>3. CASE ThrottleUpdate(e)
  BY <1>3 DEF ThrottleUpdate, locked, flags, life, health, blame
<1>4. CASE RefuseUpdate(e)
  BY <1>4 DEF RefuseUpdate, life, health, blame
<1>5. CASE AcceptUpdate(e)
  BY <1>5 DEF AcceptUpdate, Wake, life, health, blame
<1>6. CASE Accept(e)
  BY <1>6 DEF Accept, Wake, flags, life, health, blame
<1>7. CASE Evict(e)
  <2>1. PICK i \in DOMAIN queue : queue' = Append(RemoveAt(queue, i), e)
    BY <1>7 DEF Evict
  <2>2. queue' \in Seq(Event)
    BY <2>1, RemoveAtIsSeq
  <2>3. updateQueued' \in BOOLEAN
    BY <1>7 DEF Evict
  <2>. QED
    BY <1>7, <2>2, <2>3 DEF Evict, Wake, life, health, blame
<1>8. CASE AcceptReload(e)
  <2>1. [e EXCEPT !.generation = generation + 1] \in Event
    BY DEF Event
  <2>2. queue' \in Seq(Event)
    BY <1>8, <2>1 DEF AcceptReload, Reloaded
  <2>3. generation' \in Nat /\ pool' \in Nat
    BY <1>8 DEF AcceptReload, Forgive, Wake
  <2>4. UNCHANGED <<stopping, stopped, hasOnConfigChanged>>
    BY <1>8 DEF AcceptReload, life
  <2>. QED
    BY <1>8, <2>2, <2>3, <2>4 DEF AcceptReload, Forgive, Wake
<1>. QED
  BY <1>1, <1>2, <1>3, <1>4, <1>5, <1>6, <1>7, <1>8 DEF Enqueue

\* So does the verdict of a call, whatever the call was for.
LEMMA JudgeType ==
    ASSUME LockedTypeOK, NEW e \in Event, NEW verdict, Judge(e, verdict)
    PROVE  /\ unhealthy' \in BOOLEAN /\ consecutiveTimeouts' \in Nat
           /\ timeoutHistory' \in Nat /\ errorHistory' \in Nat
           /\ ownBad' \in Nat /\ staleBad' \in Nat
<1>1. ownBad' \in Nat /\ staleBad' \in Nat
  BY DEF Judge, Blame, blame, LockedTypeOK
<1>2. CASE CountTimeout
  BY <1>1, <1>2 DEF CountTimeout, LockedTypeOK
<1>3. CASE CountError
  BY <1>1, <1>3 DEF CountError, LockedTypeOK
<1>4. CASE CountSuccess
  BY <1>1, <1>4 DEF CountSuccess, LockedTypeOK
<1>. QED
  BY <1>2, <1>3, <1>4 DEF Judge

Host == [generation: Nat, callbacks: [Ref -> Nat]]

\* What a script call starts is an operation of the host it runs on.
LEMMA StartableIsOp ==
    ASSUME NEW h \in Host, ops \in Nat
    PROVE  Startable(h) \subseteq Op
BY RuntimeAssumption DEF RuntimeAssumption, Host, Startable, Op

\* A call leaves a host, a result and operations in their ranges.
LEMMA CallType ==
    ASSUME TypeOK, NEW w \in Worker, NEW h \in Host,
           NEW earlier \in SUBSET Op, Call(w, h, earlier)
    PROVE  /\ host' \in Host /\ result' \in [Worker -> ScriptResult]
           /\ inflight' \subseteq Op /\ ops' \in Nat
<1>. USE DEF TypeOK, WorkerTypeOK, OwnerTypeOK
<1>1. PICK started \in {{}} \union {{op} : op \in Startable(h)} :
         /\ ops' = IF started = {} THEN ops ELSE ops + 1
         /\ host' = [h EXCEPT !.callbacks =
                       [r \in Ref |-> IF \E op \in started : op.ref = r
                                      THEN ops + 1 ELSE h.callbacks[r]]]
         /\ inflight' = inflight \union {op \in started : op.kind = "Async"}
         /\ result' = [result EXCEPT ![w] =
                         [generation |-> event[w].generation, by |-> h.generation,
                          serial |-> event[w].serial,
                          sounds |-> earlier \union
                                       {op \in started : op.kind = "Sound"}]]
  BY DEF Call
<1>2. started \subseteq Op
  BY <1>1, StartableIsOp
<1>3. ops' \in Nat
  BY <1>1
<1>4. host' \in Host
  <2>1. [r \in Ref |-> IF \E op \in started : op.ref = r
                      THEN ops + 1 ELSE h.callbacks[r]] \in [Ref -> Nat]
    BY DEF Host
  <2>. QED
    BY <1>1, <2>1 DEF Host
<1>5. inflight' \subseteq Op
  BY <1>1, <1>2
<1>6. result' \in [Worker -> ScriptResult]
  <2>1. earlier \union {op \in started : op.kind = "Sound"} \in SUBSET Op
    BY <1>2
  <2>2. event[w].generation \in Nat /\ event[w].serial \in Nat
    BY DEF Event
  <2>3. h.generation \in Nat
    BY DEF Host
  <2>4. [generation |-> event[w].generation, by |-> h.generation,
         serial |-> event[w].serial,
         sounds |-> earlier \union {op \in started : op.kind = "Sound"}]
        \in ScriptResult
    BY <2>1, <2>2, <2>3 DEF ScriptResult
  <2>. QED
    BY <1>1, <2>4
<1>. QED
  BY <1>3, <1>4, <1>5, <1>6

\* A call leaves the host what it was, and its result names the generation of
\* the event it answers and that of the host.
LEMMA CallNames ==
    ASSUME NEW w \in Worker, NEW h \in Host, NEW earlier,
           result \in [Worker -> ScriptResult], Call(w, h, earlier)
    PROVE  /\ host'.generation = h.generation
           /\ result'[w].generation = event[w].generation
           /\ result'[w].by = h.generation
           /\ result'[w].serial = event[w].serial
           /\ \A v \in Worker : v # w => result'[v] = result[v]
<1>1. PICK started \in {{}} \union {{op} : op \in Startable(h)} :
         /\ host' = [h EXCEPT !.callbacks =
                       [r \in Ref |-> IF \E op \in started : op.ref = r
                                      THEN ops + 1 ELSE h.callbacks[r]]]
         /\ result' = [result EXCEPT ![w] =
                         [generation |-> event[w].generation, by |-> h.generation,
                          serial |-> event[w].serial,
                          sounds |-> earlier \union
                                       {op \in started : op.kind = "Sound"}]]
  BY DEF Call
<1>2. host'.generation = h.generation
  BY <1>1 DEF Host
<1>. QED
  BY <1>1, <1>2

----------------------------------------------------------------------------

\* Every variable stays in its range: the queue and the deferred calls hold
\* only well-formed events and results, whatever the scripts do.
THEOREM TypeCorrect == Spec => []TypeOK
<1>1. Init => TypeOK
  <2>. SUFFICES ASSUME Init PROVE TypeOK
    OBVIOUS
  <2>1. /\ NoEvent \in Event /\ NoResult \in ScriptResult
        /\ <<>> \in Seq(Event) /\ <<>> \in Seq(ScriptResult)
    BY EmptySeq DEF NoEvent, Event, NoResult, ScriptResult
  <2>2. LockedTypeOK
    BY <2>1 DEF Init, LockedTypeOK
  <2>3. WorkerTypeOK
    BY <2>1 DEF Init, WorkerTypeOK, NoHost
  <2>4. OwnerTypeOK
    BY <2>1 DEF Init, OwnerTypeOK
  <2>. QED
    BY <2>2, <2>3, <2>4 DEF TypeOK
<1>2. TypeOK /\ [Next]_vars => TypeOK'
  <2>. SUFFICES ASSUME TypeOK, [Next]_vars PROVE TypeOK'
    OBVIOUS
  <2>. USE DEF TypeOK
  <2>1. ASSUME NEW kind \in OfferKinds, NEW key \in Streams \union {None},
               Offer(kind, key)
        PROVE  TypeOK'
    <3>. DEFINE e == [kind |-> kind, generation |-> generation,
                      serial |-> serial + 1, tag |-> key]
    <3>1. e \in Event
      BY RuntimeAssumption DEF RuntimeAssumption, LockedTypeOK, OwnerTypeOK, Event
    <3>2. Enqueue(e)
      BY <2>1 DEF Offer
    <3>3. LockedTypeOK'
      BY <3>1, <3>2, EnqueueType
    <3>4. WorkerTypeOK'
      BY <2>1 DEF Offer, WorkerTypeOK, task
    <3>5. OwnerTypeOK'
      BY <2>1 DEF Offer, OwnerTypeOK, work
    <3>. QED
      BY <3>3, <3>4, <3>5
  <2>2. ASSUME NEW op \in inflight, Complete(op) PROVE TypeOK'
    <3>. DEFINE e == [kind |-> op.kind, generation |-> generation,
                      serial |-> 0, tag |-> op]
    <3>1. op \in Op
      BY DEF OwnerTypeOK
    <3>2. e \in Event
      BY <3>1 DEF LockedTypeOK, Event, Op
    <3>3. Enqueue(e)
      BY <2>2 DEF Complete
    <3>4. LockedTypeOK'
      BY <3>2, <3>3, EnqueueType
    <3>5. WorkerTypeOK' /\ OwnerTypeOK'
      BY <2>2 DEF Complete, WorkerTypeOK, OwnerTypeOK, task, owner
    <3>. QED
      BY <3>4, <3>5
  <2>3. CASE Stop
    <3>1. [kind |-> "Stop", generation |-> generation, serial |-> 0, tag |-> None]
          \in Event
      BY DEF LockedTypeOK, Event
    <3>2. queue' \in Seq(Event) /\ pool' \in Nat
      BY <2>3, <3>1 DEF Stop, Wake, LockedTypeOK
    <3>3. LockedTypeOK'
      BY <2>3, <3>2 DEF Stop, LockedTypeOK, Wake, health, blame
    <3>4. WorkerTypeOK' /\ OwnerTypeOK'
      BY <2>3 DEF Stop, WorkerTypeOK, OwnerTypeOK, task, work
    <3>. QED
      BY <3>3, <3>4
  <2>4. CASE StopReturns
    BY <2>4 DEF StopReturns, LockedTypeOK, WorkerTypeOK, OwnerTypeOK, locked,
                flags, life, health, blame, task, work
  <2>5. CASE Deliver
    <3>1. Head(deferred) \in ScriptResult /\ deferred' \in Seq(ScriptResult)
      BY <2>5 DEF Deliver, OwnerTypeOK
    <3>2. delivered' \in ScriptResult /\ inflight' \subseteq Op
      BY <2>5, <3>1 DEF Deliver, OwnerTypeOK, ScriptResult
    <3>. QED
      BY <2>5, <3>1, <3>2 DEF Deliver, LockedTypeOK, WorkerTypeOK, OwnerTypeOK,
                              locked, flags, life, health, blame, task
  <2>6. ASSUME NEW w \in Worker, TakeTask(w) PROVE TypeOK'
    BY <2>6 DEF TakeTask, LockedTypeOK, WorkerTypeOK, OwnerTypeOK, flags, life,
                health, blame, owner, work
  <2>7. ASSUME NEW w \in Worker, DrainEnds(w) PROVE TypeOK'
    BY <2>7 DEF DrainEnds, LockedTypeOK, WorkerTypeOK, OwnerTypeOK, flags, life,
                health, blame, owner, work
  <2>8. ASSUME NEW w \in Worker, Pop(w) PROVE TypeOK'
    <3>1. Head(queue) \in Event /\ queue' \in Seq(Event)
      BY <2>8 DEF Pop, LockedTypeOK
    <3>2. LockedTypeOK'
      BY <2>8, <3>1 DEF Pop, LockedTypeOK, life, health, blame
    <3>3. WorkerTypeOK'
      BY <2>8, <3>1 DEF Pop, WorkerTypeOK
    <3>4. OwnerTypeOK'
      BY <2>8 DEF Pop, OwnerTypeOK, owner, work
    <3>. QED
      BY <3>2, <3>3, <3>4
  <2>9. ASSUME NEW w \in Worker, Skip(w) PROVE TypeOK'
    <3>1. NoResult \in ScriptResult
      BY DEF NoResult, ScriptResult
    <3>2. event[w].serial \in Nat
      BY DEF WorkerTypeOK, Event
    <3>3. WorkerTypeOK'
      BY <2>9, <3>1, <3>2 DEF Skip, WorkerTypeOK
    <3>. QED
      BY <2>9, <3>3 DEF Skip, LockedTypeOK, OwnerTypeOK, locked, flags, life, health,
                        blame, owner, work
  <2>10. ASSUME NEW w \in Worker, Run(w) PROVE TypeOK'
    <3>. DEFINE h == IF event[w].kind \in CompletionKinds
                     THEN [host EXCEPT !.callbacks[event[w].tag.ref] = 0] ELSE host
    <3>1. h \in Host
      BY DEF WorkerTypeOK, Host
    <3>2. event[w] \in Event /\ event[w].serial \in Nat
      BY DEF WorkerTypeOK, Event
    <3>3. Call(w, h, {})
      BY <2>10 DEF Run
    <3>4. /\ host' \in Host /\ result' \in [Worker -> ScriptResult]
          /\ inflight' \subseteq Op /\ ops' \in Nat
      BY <3>1, <3>3, CallType
    <3>5. LockedTypeOK'
      <4>1. PICK verdict \in Verdicts : Judge(event[w], verdict)
        BY <2>10 DEF Run
      <4>2. /\ unhealthy' \in BOOLEAN /\ consecutiveTimeouts' \in Nat
            /\ timeoutHistory' \in Nat /\ errorHistory' \in Nat
            /\ ownBad' \in Nat /\ staleBad' \in Nat
        BY <3>2, <4>1, JudgeType
      <4>. QED
        BY <2>10, <4>2 DEF Run, LockedTypeOK, flags, life
    <3>6. WorkerTypeOK'
      BY <2>10, <3>2, <3>4 DEF Run, WorkerTypeOK, Host
    <3>7. OwnerTypeOK'
      BY <2>10, <3>4 DEF Run, OwnerTypeOK, owner
    <3>. QED
      BY <3>5, <3>6, <3>7
  <2>11. ASSUME NEW w \in Worker, RefuseLoad(w) PROVE TypeOK'
    <3>1. [NoResult EXCEPT !.generation = generation] \in ScriptResult
      BY DEF NoResult, ScriptResult, LockedTypeOK
    <3>2. WorkerTypeOK'
      BY <2>11, <3>1 DEF RefuseLoad, WorkerTypeOK, Teardown, NoHost
    <3>. QED
      BY <2>11, <3>2 DEF RefuseLoad, LockedTypeOK, OwnerTypeOK, locked, flags, life,
                         health, blame, owner, work
  <2>12. ASSUME NEW w \in Worker, LoadHost(w) PROVE TypeOK'
    <3>. DEFINE h == [NoHost EXCEPT !.generation = event[w].generation]
    <3>1. event[w] \in Event /\ event[w].generation \in Nat
      BY DEF WorkerTypeOK, Event
    <3>2. h \in Host
      BY <3>1 DEF NoHost, Host
    <3>3. /\ host' \in Host /\ result' \in [Worker -> ScriptResult]
          /\ inflight' \subseteq Op /\ ops' \in Nat
      BY <2>12, <3>2, CallType DEF LoadHost
    <3>4. PICK verdict \in Verdicts :
             /\ Judge(event[w], verdict)
             /\ pc' = [pc EXCEPT ![w] = IF verdict = "ok" THEN "loaded" ELSE "settle"]
             /\ hasOnConfigChanged' = (hasOnConfigChanged \/ verdict # "ok")
      BY <2>12 DEF LoadHost
    <3>5. LockedTypeOK'
      <4>1. /\ unhealthy' \in BOOLEAN /\ consecutiveTimeouts' \in Nat
            /\ timeoutHistory' \in Nat /\ errorHistory' \in Nat
            /\ ownBad' \in Nat /\ staleBad' \in Nat
        BY <3>1, <3>4, JudgeType
      <4>. QED
        BY <2>12, <3>4, <4>1 DEF LoadHost, LockedTypeOK, flags
    <3>6. WorkerTypeOK'
      BY <2>12, <3>3, <3>4 DEF LoadHost, Teardown, WorkerTypeOK, Host
    <3>7. OwnerTypeOK'
      BY <2>12, <3>3 DEF LoadHost, OwnerTypeOK, owner
    <3>. QED
      BY <3>5, <3>6, <3>7
  <2>13. ASSUME NEW w \in Worker, FirstUpdate(w) PROVE TypeOK'
    <3>1. CASE UNCHANGED <<health, blame, host, work, result>>
      BY <2>13, <3>1 DEF FirstUpdate, LockedTypeOK, WorkerTypeOK, OwnerTypeOK, flags,
                         health, blame, work, owner
    <3>2. CASE /\ \E verdict \in Verdicts : Judge(event[w], verdict)
               /\ Call(w, host, result[w].sounds)
      <4>1. host \in Host /\ result[w].sounds \in SUBSET Op /\ event[w] \in Event
        BY DEF WorkerTypeOK, Host, ScriptResult
      <4>2. /\ host' \in Host /\ result' \in [Worker -> ScriptResult]
            /\ inflight' \subseteq Op /\ ops' \in Nat
        BY <3>2, <4>1, CallType
      <4>3. /\ unhealthy' \in BOOLEAN /\ consecutiveTimeouts' \in Nat
            /\ timeoutHistory' \in Nat /\ errorHistory' \in Nat
            /\ ownBad' \in Nat /\ staleBad' \in Nat
        BY <3>2, <4>1, JudgeType
      <4>4. LockedTypeOK'
        BY <2>13, <4>3 DEF FirstUpdate, LockedTypeOK, flags
      <4>5. WorkerTypeOK' /\ OwnerTypeOK'
        BY <2>13, <4>2 DEF FirstUpdate, WorkerTypeOK, OwnerTypeOK, Host, owner
      <4>. QED
        BY <4>4, <4>5
    <3>. QED
      BY <2>13, <3>1, <3>2 DEF FirstUpdate
  <2>14. ASSUME NEW w \in Worker, Settle(w) PROVE TypeOK'
    BY <2>14 DEF Settle, LockedTypeOK, WorkerTypeOK, OwnerTypeOK, life, health,
                 blame, owner, work
  <2>15. ASSUME NEW w \in Worker, PostResult(w) PROVE TypeOK'
    <3>1. result[w] \in ScriptResult
      BY DEF WorkerTypeOK
    <3>2. OwnerTypeOK'
      BY <2>15, <3>1 DEF PostResult, OwnerTypeOK, work
    <3>. QED
      BY <2>15, <3>2 DEF PostResult, LockedTypeOK, WorkerTypeOK, locked, flags, life,
                         health, blame
  <2>16. ASSUME NEW w \in Worker, ExitHost(w) PROVE TypeOK'
    <3>1. WorkerTypeOK'
      BY <2>16 DEF ExitHost, Teardown, WorkerTypeOK, NoHost
    <3>. QED
      BY <2>16, <3>1 DEF ExitHost, LockedTypeOK, OwnerTypeOK, locked, flags, life,
                         health, blame, owner, work
  <2>17. ASSUME NEW w \in Worker, Halt(w) PROVE TypeOK'
    <3>1. LockedTypeOK'
      BY <2>17, EmptySeq DEF Halt, LockedTypeOK, flags, health, blame
    <3>2. WorkerTypeOK' /\ OwnerTypeOK'
      BY <2>17 DEF Halt, WorkerTypeOK, OwnerTypeOK, owner, work
    <3>. QED
      BY <3>1, <3>2
  <2>18. CASE UNCHANGED vars
    BY <2>18 DEF vars, LockedTypeOK, WorkerTypeOK, OwnerTypeOK, locked, flags, life,
                 health, blame, task, owner, work
  <2>. QED
    BY <2>1, <2>2, <2>3, <2>4, <2>5, <2>6, <2>7, <2>8, <2>9, <2>10, <2>11, <2>12,
       <2>13, <2>14, <2>15, <2>16, <2>17, <2>18 DEF Next, Drain
<1>. QED
  BY <1>1, <1>2, PTL DEF Spec

----------------------------------------------------------------------------

\* What enqueue does to the task of the pool: nothing, or it makes sure that
\* one is posted; and it refuses everything once a stop has begun.
LEMMA EnqueueWakes ==
    ASSUME TypeOK, NEW e \in Event, Enqueue(e)
    PROVE  /\ UNCHANGED life
           /\ stopping \/ stopped => UNCHANGED locked
           /\ \/ UNCHANGED <<scheduled, pool>> /\ (queue' # <<>> => queue # <<>>)
              \/ Wake
<1>. USE DEF life
<1>1. CASE Refuse(e)
  BY <1>1 DEF Refuse, locked
<1>2. CASE Supersede(e)
  BY <1>2 DEF Supersede, Admitted, ReplaceAt, TypeOK, LockedTypeOK
<1>3. CASE ThrottleUpdate(e)
  BY <1>3 DEF ThrottleUpdate, locked
<1>4. CASE RefuseUpdate(e)
  BY <1>4 DEF RefuseUpdate, Admitted
<1>5. CASE AcceptUpdate(e)
  BY <1>5 DEF AcceptUpdate, Admitted
<1>6. CASE Accept(e)
  BY <1>6 DEF Accept, Admitted
<1>7. CASE Evict(e)
  BY <1>7 DEF Evict, Admitted
<1>8. CASE AcceptReload(e)
  BY <1>8 DEF AcceptReload, Reloaded, Admitted
<1>. QED
  BY <1>1, <1>2, <1>3, <1>4, <1>5, <1>6, <1>7, <1>8 DEF Enqueue

DrainInv == SingleDrain /\ NoLostWakeup /\ StopInv

\* A step of enqueue keeps one task on its way exactly while it is needed.
LEMMA EnqueueDrains ==
    ASSUME TypeOK, DrainInv, NEW e \in Event, Enqueue(e), UNCHANGED pc
    PROVE  (SingleDrain /\ NoLostWakeup)'
<1>. USE DEF DrainInv, SingleDrain, NoLostWakeup, Busy
<1>1. \/ UNCHANGED <<scheduled, pool>> /\ (queue' # <<>> => queue # <<>>)
      \/ Wake
  BY EnqueueWakes
<1>2. CASE UNCHANGED <<scheduled, pool>> /\ (queue' # <<>> => queue # <<>>)
  BY <1>2
<1>3. CASE Wake
  <2>1. CASE scheduled
    BY <1>3, <2>1 DEF Wake
  <2>2. CASE ~scheduled
    <3>1. pool = 0 /\ \A w \in Worker : ~Busy(w)
      BY <2>2
    <3>2. pool' = 1 /\ scheduled' = TRUE
      BY <1>3, <2>2, <3>1 DEF Wake
    <3>. QED
      BY <3>1, <3>2
  <2>. QED
    BY <2>1, <2>2 DEF TypeOK, LockedTypeOK
<1>. QED
  BY <1>1, <1>2, <1>3

\* Every other step of the runtime does too: a task is taken by one worker,
\* and only the worker that drains can clear "scheduled".
LEMMA DrainStep == TypeOK /\ DrainInv /\ [Next]_vars => (SingleDrain /\ NoLostWakeup)'
<1>. SUFFICES ASSUME TypeOK, DrainInv, [Next]_vars
              PROVE  (SingleDrain /\ NoLostWakeup)'
  OBVIOUS
<1>. USE DEF DrainInv, SingleDrain, NoLostWakeup, Busy
<1>2. ASSUME NEW kind \in OfferKinds, NEW key \in Streams \union {None},
             Offer(kind, key)
      PROVE  (SingleDrain /\ NoLostWakeup)'
  <2>. DEFINE e == [kind |-> kind, generation |-> generation,
                    serial |-> serial + 1, tag |-> key]
  <2>1. e \in Event
    BY RuntimeAssumption DEF RuntimeAssumption, TypeOK, LockedTypeOK, OwnerTypeOK,
                             Event
  <2>2. Enqueue(e) /\ UNCHANGED pc
    BY <1>2 DEF Offer, task
  <2>. QED
    BY <2>1, <2>2, EnqueueDrains
<1>3. ASSUME NEW op \in inflight, Complete(op) PROVE (SingleDrain /\ NoLostWakeup)'
  <2>. DEFINE e == [kind |-> op.kind, generation |-> generation,
                    serial |-> 0, tag |-> op]
  <2>1. e \in Event
    BY DEF TypeOK, LockedTypeOK, OwnerTypeOK, Event, Op
  <2>2. Enqueue(e) /\ UNCHANGED pc
    BY <1>3 DEF Complete, task
  <2>. QED
    BY <2>1, <2>2, EnqueueDrains
<1>4. CASE Stop
  BY <1>4 DEF Stop, Wake, task
<1>5. CASE StopReturns \/ Deliver
  BY <1>5 DEF StopReturns, Deliver, locked, task
<1>6. ASSUME NEW w \in Worker, TakeTask(w) PROVE (SingleDrain /\ NoLostWakeup)'
  BY <1>6 DEF TakeTask, TypeOK, WorkerTypeOK
<1>7. ASSUME NEW w \in Worker, DrainEnds(w) PROVE (SingleDrain /\ NoLostWakeup)'
  <2>1. ~stopped /\ queue = <<>> /\ queue' = <<>>
    BY <1>7 DEF DrainEnds, StopInv, StopIsFinal
  <2>2. pool = 0 /\ pool' = 0 /\ scheduled' = FALSE
    BY <1>7 DEF DrainEnds
  <2>3. \A v \in Worker : pc'[v] = "idle"
    BY <1>7 DEF DrainEnds, TypeOK, WorkerTypeOK
  <2>. QED
    BY <2>1, <2>2, <2>3
<1>8. ASSUME NEW w \in Worker, Halt(w) PROVE (SingleDrain /\ NoLostWakeup)'
  BY <1>8 DEF Halt, TypeOK, WorkerTypeOK
<1>9. ASSUME NEW w \in Worker, Pop(w) PROVE (SingleDrain /\ NoLostWakeup)'
  BY <1>9 DEF Pop, TypeOK, WorkerTypeOK
<1>10. ASSUME NEW w \in Worker, Drain(w), ~DrainEnds(w), ~Halt(w), ~Pop(w)
       PROVE  (SingleDrain /\ NoLostWakeup)'
  <2>1. /\ Busy(w)
        /\ \E p \in {"pop", "settle", "loaded", "post", "halt"} :
              pc' = [pc EXCEPT ![w] = p]
        /\ UNCHANGED <<queue, scheduled, pool>>
    BY <1>10 DEF Drain, Skip, Run, RefuseLoad, LoadHost, FirstUpdate, Settle,
                 PostResult, ExitHost, locked
  <2>. QED
    BY <2>1 DEF TypeOK, WorkerTypeOK
<1>11. CASE UNCHANGED vars
  BY <1>11 DEF vars, locked, task
<1>. QED
  BY <1>2, <1>3, <1>4, <1>5, <1>6, <1>7, <1>8, <1>9, <1>10, <1>11 DEF Next, Drain

\* Whatever enqueue leaves in the queue was there before or is of the kind of
\* the event it was given.
LEMMA EnqueueElements ==
    ASSUME TypeOK, NEW e \in Event, Enqueue(e), NEW i \in DOMAIN queue'
    PROVE  queue'[i].kind = e.kind \/ \E j \in DOMAIN queue : queue'[i] = queue[j]
<1>. USE DEF TypeOK, LockedTypeOK
<1>1. CASE Refuse(e) \/ ThrottleUpdate(e) \/ RefuseUpdate(e)
  BY <1>1 DEF Refuse, ThrottleUpdate, RefuseUpdate, locked
<1>2. CASE Supersede(e)
  BY <1>2 DEF Supersede, ReplaceAt
<1>3. CASE AcceptUpdate(e) \/ Accept(e)
  BY <1>3 DEF AcceptUpdate, Accept
<1>4. CASE Evict(e)
  <2>1. PICK k \in DOMAIN queue : queue' = Append(RemoveAt(queue, k), e)
    BY <1>4 DEF Evict
  <2>2. RemoveAt(queue, k) \in Seq(Event)
    BY RemoveAtIsSeq
  <2>3. /\ Len(RemoveAt(queue, k)) = Len(queue) - 1
        /\ \A j \in 1..(Len(queue) - 1) :
              RemoveAt(queue, k)[j] = queue[IF j < k THEN j ELSE j + 1]
    BY RemoveAtElements
  <2>4. CASE i = Len(queue)
    BY <2>1, <2>2, <2>3, <2>4
  <2>5. CASE i # Len(queue)
    <3>1. i \in 1..(Len(queue) - 1)
      BY <2>1, <2>2, <2>3, <2>5
    <3>2. queue'[i] = RemoveAt(queue, k)[i]
      BY <2>1, <2>2, <2>3, <3>1
    <3>3. (IF i < k THEN i ELSE i + 1) \in DOMAIN queue
      BY <3>1
    <3>. QED
      BY <2>3, <3>1, <3>2, <3>3
  <2>. QED
    BY <2>4, <2>5
<1>5. CASE AcceptReload(e)
  BY <1>5 DEF AcceptReload, Reloaded, Event
<1>. QED
  BY <1>1, <1>2, <1>3, <1>4, <1>5 DEF Enqueue

\* A request or a completion that arrives once stop() has begun changes
\* nothing, and one that arrives before is no Stop.
LEMMA EnqueueStops ==
    ASSUME TypeOK, DrainInv, NEW e \in Event, e.kind # "Stop", Enqueue(e),
           UNCHANGED <<pc, host, main>>
    PROVE  StopInv'
<1>. USE DEF DrainInv, StopInv, StopIsFinal, HasHost, Busy
<1>1. UNCHANGED <<stopping, stopped>> /\ (stopping \/ stopped => UNCHANGED locked)
  BY EnqueueWakes DEF life
<1>2. CASE stopping \/ stopped
  BY <1>1, <1>2 DEF locked
<1>3. CASE ~stopping /\ ~stopped
  <2>1. \A i \in DOMAIN queue' : queue'[i].kind # "Stop"
    BY <1>3, EnqueueElements
  <2>. QED
    BY <1>1, <1>3, <2>1
<1>. QED
  BY <1>2, <1>3

\* Every other step keeps it too: only the worker that took the Stop event
\* sets "stopped", and it alone drains.
LEMMA StopStep == TypeOK /\ DrainInv /\ [Next]_vars => StopInv'
<1>. SUFFICES ASSUME TypeOK, DrainInv, [Next]_vars PROVE StopInv'
  OBVIOUS
<1>. USE DEF DrainInv, StopInv, StopIsFinal, HasHost, Busy
<1>2. ASSUME NEW kind \in OfferKinds, NEW key \in Streams \union {None},
             Offer(kind, key)
      PROVE  StopInv'
  <2>. DEFINE e == [kind |-> kind, generation |-> generation,
                    serial |-> serial + 1, tag |-> key]
  <2>1. e \in Event /\ e.kind # "Stop"
    BY RuntimeAssumption DEF RuntimeAssumption, TypeOK, LockedTypeOK, OwnerTypeOK,
                             Event, OwnerKinds
  <2>2. Enqueue(e) /\ UNCHANGED <<pc, host, main>>
    BY <1>2 DEF Offer, task
  <2>. QED
    BY <2>1, <2>2, EnqueueStops
<1>3. ASSUME NEW op \in inflight, Complete(op) PROVE StopInv'
  <2>. DEFINE e == [kind |-> op.kind, generation |-> generation,
                    serial |-> 0, tag |-> op]
  <2>1. e \in Event /\ e.kind # "Stop"
    BY DEF TypeOK, LockedTypeOK, OwnerTypeOK, Event, Op, CompletionKinds
  <2>2. Enqueue(e) /\ UNCHANGED <<pc, host, main>>
    BY <1>3 DEF Complete, task, owner
  <2>. QED
    BY <2>1, <2>2, EnqueueStops
<1>4. CASE Stop
  BY <1>4 DEF Stop, task
<1>5. CASE StopReturns \/ Deliver
  BY <1>5 DEF StopReturns, Deliver, locked, life, task
<1>6. ASSUME NEW w \in Worker, TakeTask(w) PROVE StopInv'
  BY <1>6 DEF TakeTask, TypeOK, WorkerTypeOK, LockedTypeOK, life, owner
<1>7. ASSUME NEW w \in Worker, DrainEnds(w) PROVE StopInv'
  BY <1>7 DEF DrainEnds, TypeOK, WorkerTypeOK, life, owner
<1>8. ASSUME NEW w \in Worker, Pop(w) PROVE StopInv'
  <2>1. queue # <<>> /\ queue \in Seq(Event) /\ queue' = Tail(queue)
        /\ UNCHANGED <<stopping, stopped, host, main, pool>> /\ ~stopped
    BY <1>8 DEF Pop, life, owner, TypeOK, LockedTypeOK
  <2>2. \A i \in DOMAIN queue' : stopping <=> queue'[i].kind = "Stop"
    BY <2>1
  <2>3. pc' = [pc EXCEPT ![w] = IF queue[1].kind = "Stop" THEN "exit" ELSE "run"]
    <3>1. Head(queue) = queue[1]
      BY <2>1
    <3>. QED
      BY <1>8, <3>1 DEF Pop
  <2>4. stopping <=> queue[1].kind = "Stop"
    BY <2>1
  <2>. QED
    BY <2>1, <2>2, <2>3, <2>4 DEF TypeOK, WorkerTypeOK
<1>9. ASSUME NEW w \in Worker, Skip(w) \/ Settle(w) \/ PostResult(w) PROVE StopInv'
  <2>1. /\ pc[w] \in {"run", "settle", "post"}
        /\ \E p \in {"settle", "pop", "post"} : pc' = [pc EXCEPT ![w] = p]
        /\ UNCHANGED <<stopping, stopped, queue, pool, host, main>>
    BY <1>9 DEF Skip, Settle, PostResult, locked, life, owner
  <2>. QED
    BY <2>1 DEF TypeOK, WorkerTypeOK
<1>10. ASSUME NEW w \in Worker, Run(w) \/ RefuseLoad(w) \/ LoadHost(w) \/ FirstUpdate(w)
       PROVE StopInv'
  <2>1. /\ pc[w] \in {"run", "loaded"}
        /\ \E p \in {"settle", "loaded"} : pc' = [pc EXCEPT ![w] = p]
        /\ UNCHANGED <<stopping, stopped, queue, pool, main>>
    BY <1>10 DEF Run, RefuseLoad, LoadHost, FirstUpdate, locked, life, owner
  <2>2. ~stopped
    BY <2>1
  <2>3. \A v \in Worker : v # w => pc[v] = "idle"
    BY <2>1 DEF SingleDrain
  <2>. QED
    BY <2>1, <2>2, <2>3 DEF TypeOK, WorkerTypeOK
<1>11. ASSUME NEW w \in Worker, ExitHost(w) PROVE StopInv'
  BY <1>11 DEF ExitHost, locked, life, owner, TypeOK, WorkerTypeOK, NoHost
<1>12. ASSUME NEW w \in Worker, Halt(w) PROVE StopInv'
  <2>1. pool = 0 /\ \A v \in Worker : v # w => pc[v] = "idle"
    BY <1>12 DEF Halt, SingleDrain
  <2>. QED
    BY <1>12, <2>1 DEF Halt, owner, TypeOK, WorkerTypeOK
<1>13. CASE UNCHANGED vars
  BY <1>13 DEF vars, locked, life, task, owner
<1>. QED
  BY <1>2, <1>3, <1>4, <1>5, <1>6, <1>7, <1>8, <1>9, <1>10, <1>11, <1>12, <1>13
     DEF Next, Drain

\* The invariant of the drain and of the stop, which rest on each other.
LEMMA DrainInvariant == Spec => []DrainInv
<1>1. Init => DrainInv
  BY DEF Init, DrainInv, SingleDrain, NoLostWakeup, Busy, StopInv, StopIsFinal,
         HasHost, NoHost
<1>2. TypeOK /\ DrainInv /\ [Next]_vars => DrainInv'
  BY DrainStep, StopStep DEF DrainInv
<1>. QED
  BY <1>1, <1>2, TypeCorrect, PTL DEF Spec

\* At most one worker ever drains the queue, so the Luau host needs no lock
\* of its own: "scheduled" (enqueue, drain) is set exactly while a task is
\* posted or a worker drains.  And an accepted event always has a task or a
\* worker on its way to it, however enqueue interleaves with a drain that finds
\* the queue empty.
THEOREM OneDrain == Spec => []DrainIsExact
<1>1. DrainInv => DrainIsExact
  BY DEF DrainInv, DrainIsExact
<1>. QED
  BY <1>1, DrainInvariant, PTL

\* After stop() nothing of the runtime is left that could run, and the main
\* thread leaves stop() no earlier.
THEOREM StopIsComplete == Spec => []StopIsFinal
BY DrainInvariant, PTL DEF DrainInv, StopInv

----------------------------------------------------------------------------

QueueGeneration ==
    \A i \in DOMAIN queue :
       queue[i].generation = generation /\ (i > 1 => queue[i].kind # "Reload")

\* What enqueue does to the generations: every queued event is of the current
\* one, and a Reload is alone in the queue or at its head until it is taken.
LEMMA EnqueueGeneration ==
    ASSUME TypeOK, QueueGeneration, NEW e \in Event, e.generation = generation,
           Enqueue(e)
    PROVE  /\ QueueGeneration'
           /\ generation' # generation => ReloadAtHead'
           /\ ReloadAtHead => ReloadAtHead'
<1>. USE DEF QueueGeneration, ReloadAtHead, TypeOK, LockedTypeOK
<1>1. CASE Refuse(e) \/ ThrottleUpdate(e) \/ RefuseUpdate(e)
  BY <1>1 DEF Refuse, ThrottleUpdate, RefuseUpdate, locked
<1>2. CASE Supersede(e)
  <2>1. PICK k \in DOMAIN queue : Superseded(e, k) /\ queue' = ReplaceAt(queue, k, e)
    BY <1>2 DEF Supersede
  <2>2. generation' = generation /\ e.kind = "Stream" /\ queue[k].kind = "Stream"
    BY <1>2, <2>1 DEF Supersede, Superseded
  <2>3. /\ queue' \in Seq(Event) /\ Len(queue') = Len(queue)
        /\ \A i \in 1..Len(queue) : queue'[i] = IF i = k THEN e ELSE queue[i]
    BY <2>1 DEF ReplaceAt
  <2>. QED
    BY <2>2, <2>3
<1>3. CASE AcceptUpdate(e) \/ Accept(e)
  BY <1>3 DEF AcceptUpdate, Accept
<1>4. CASE Evict(e)
  <2>1. PICK k \in DOMAIN queue :
           FirstEvictable(k) /\ queue' = Append(RemoveAt(queue, k), e)
    BY <1>4 DEF Evict
  <2>. DEFINE rest == RemoveAt(queue, k)
  <2>2. rest \in Seq(Event) /\ k \in 1..Len(queue) /\ Len(queue) \in Nat
    BY RemoveAtIsSeq
  <2>3. /\ Len(rest) = Len(queue) - 1
        /\ \A j \in 1..(Len(queue) - 1) : rest[j] = queue[IF j < k THEN j ELSE j + 1]
    BY RemoveAtElements
  <2>. HIDE DEF rest
  <2>4. queue' = Append(rest, e) /\ queue[k].kind # "Reload"
    BY <2>1 DEF rest, FirstEvictable, Evictable
  <2>5. /\ queue' # <<>> /\ DOMAIN queue' = 1..Len(queue) /\ queue'[Len(queue)] = e
        /\ \A j \in 1..(Len(queue) - 1) : queue'[j] = rest[j]
    BY <2>2, <2>3, <2>4
  <2>6. generation' = generation /\ e.kind # "Reload"
    BY <1>4 DEF Evict
  <2>7. ASSUME NEW i \in DOMAIN queue'
        PROVE  queue'[i].generation = generation' /\ (i > 1 => queue'[i].kind # "Reload")
    <3>1. CASE i = Len(queue)
      BY <2>5, <2>6, <3>1
    <3>2. CASE i # Len(queue)
      <4>1. i \in 1..(Len(queue) - 1)
        BY <2>5, <3>2, <2>2
      <4>2. PICK j \in DOMAIN queue : j >= i /\ queue'[i] = queue[j]
        <5>1. CASE i < k
          BY <2>3, <2>5, <4>1, <5>1
        <5>2. CASE ~(i < k)
          <6>1. i + 1 \in DOMAIN queue /\ i + 1 >= i
            BY <2>2, <4>1
          <6>2. queue'[i] = queue[i + 1]
            BY <2>3, <2>5, <4>1, <5>2
          <6>. QED
            BY <6>1, <6>2
        <5>. QED
          BY <5>1, <5>2
      <4>. QED
        BY <2>6, <4>1, <4>2
    <3>. QED
      BY <3>1, <3>2
  <2>8. ASSUME ReloadAtHead PROVE ReloadAtHead'
    <3>1. k > 1 /\ Len(queue) > 1
      BY <2>2, <2>4, <2>8
    <3>2. queue'[1] = queue[1]
      BY <2>2, <2>3, <2>5, <3>1
    <3>. QED
      BY <2>5, <2>8, <3>2
  <2>. QED
    BY <2>6, <2>7, <2>8
<1>5. CASE AcceptReload(e)
  <2>. DEFINE r == [e EXCEPT !.generation = generation + 1]
  <2>1. queue' = <<r>> /\ generation' = generation + 1 /\ e.kind = "Reload"
    BY <1>5 DEF AcceptReload, Reloaded
  <2>2. r.kind = "Reload" /\ r.generation = generation + 1
    BY <2>1 DEF Event
  <2>. HIDE DEF r
  <2>3. queue' # <<>> /\ DOMAIN queue' = {1} /\ queue'[1] = r
    BY <2>1
  <2>. QED
    BY <2>1, <2>2, <2>3
<1>. QED
  BY <1>1, <1>2, <1>3, <1>4, <1>5 DEF Enqueue

\* What the main thread and the threads of operations do to the generations.
LEMMA EnqueueKeepsGenerationInv ==
    ASSUME TypeOK, GenerationInv, NEW e \in Event, e.generation = generation,
           Enqueue(e), UNCHANGED <<pc, event, host>>
    PROVE  GenerationInv'
<1>1. /\ QueueGeneration'
      /\ generation' # generation => ReloadAtHead'
      /\ ReloadAtHead => ReloadAtHead'
  BY EnqueueGeneration DEF GenerationInv, QueueGeneration
<1>2. UNCHANGED stopping
  BY EnqueueWakes DEF life
<1>. QED
  BY <1>1, <1>2 DEF GenerationInv, QueueGeneration, CallsMeetTheirHost, HasHost

\* Every step keeps what the generations promise: an event is taken from the
\* queue only when the host is of its generation.
LEMMA GenerationStep ==
    TypeOK /\ DrainInv /\ GenerationInv /\ [Next]_vars => GenerationInv'
<1>. SUFFICES ASSUME TypeOK, DrainInv, GenerationInv, [Next]_vars PROVE GenerationInv'
  OBVIOUS
<1>0. \A v, w \in Worker : pc[v] # "idle" /\ pc[w] # "idle" => v = w
  BY DEF DrainInv, SingleDrain, Busy
<1>1. ASSUME NEW kind \in OfferKinds, NEW key \in Streams \union {None},
             Offer(kind, key)
      PROVE  GenerationInv'
  <2>. DEFINE e == [kind |-> kind, generation |-> generation,
                    serial |-> serial + 1, tag |-> key]
  <2>1. e \in Event /\ e.generation = generation
    BY RuntimeAssumption DEF RuntimeAssumption, TypeOK, LockedTypeOK, OwnerTypeOK,
                             Event
  <2>2. Enqueue(e) /\ UNCHANGED <<pc, event, host>>
    BY <1>1 DEF Offer, task
  <2>. QED
    BY <2>1, <2>2, EnqueueKeepsGenerationInv
<1>2. ASSUME NEW op \in inflight, Complete(op) PROVE GenerationInv'
  <2>. DEFINE e == [kind |-> op.kind, generation |-> generation,
                    serial |-> 0, tag |-> op]
  <2>1. e \in Event /\ e.generation = generation
    BY DEF TypeOK, LockedTypeOK, OwnerTypeOK, Event, Op
  <2>2. Enqueue(e) /\ UNCHANGED <<pc, event, host>>
    BY <1>2 DEF Complete, task
  <2>. QED
    BY <2>1, <2>2, EnqueueKeepsGenerationInv
<1>. USE DEF GenerationInv, CallsMeetTheirHost, HasHost, ReloadAtHead
<1>3. CASE Stop
  BY <1>3 DEF Stop, task
<1>4. CASE StopReturns \/ Deliver
  BY <1>4 DEF StopReturns, Deliver, locked, life, task
<1>5. ASSUME NEW w \in Worker, TakeTask(w) \/ DrainEnds(w) PROVE GenerationInv'
  BY <1>5 DEF TakeTask, DrainEnds, life, TypeOK, WorkerTypeOK
<1>6. ASSUME NEW w \in Worker, Pop(w) PROVE GenerationInv'
  <2>1. /\ queue # <<>> /\ queue \in Seq(Event) /\ queue' = Tail(queue) /\ ~stopped
        /\ UNCHANGED <<generation, stopping, host>>
        /\ event' = [event EXCEPT ![w] = queue[1]]
        /\ pc' = [pc EXCEPT ![w] = IF queue[1].kind = "Stop" THEN "exit" ELSE "run"]
    <3>1. queue # <<>> /\ queue \in Seq(Event) /\ Head(queue) = queue[1]
      BY <1>6 DEF Pop, TypeOK, LockedTypeOK
    <3>. QED
      BY <1>6, <3>1 DEF Pop, life
  <2>2. \A v \in Worker : v # w => pc[v] = "idle" /\ pc'[v] = "idle"
    BY <1>0, <1>6, <2>1 DEF Pop, TypeOK, WorkerTypeOK
  <2>3. \A i \in DOMAIN queue' :
           queue'[i].generation = generation /\ queue'[i].kind # "Reload"
    BY <2>1
  <2>4. event'[w] = queue[1] /\ queue[1].generation = generation
    BY <2>1 DEF TypeOK, WorkerTypeOK
  <2>5. pc'[w] = IF queue[1].kind = "Stop" THEN "exit" ELSE "run"
    BY <2>1 DEF TypeOK, WorkerTypeOK
  <2>6. stopping <=> queue[1].kind = "Stop"
    BY <2>1 DEF DrainInv, StopInv
  <2>7. ASSUME queue[1].kind \notin {"Reload", "Stop"}, HasHost
        PROVE  host.generation = generation
    BY <2>2, <2>6, <2>7, <1>6 DEF Pop
  <2>. QED
    BY <2>1, <2>2, <2>3, <2>4, <2>5, <2>6, <2>7
<1>7. ASSUME NEW w \in Worker, Skip(w) \/ Settle(w) \/ PostResult(w) \/ Halt(w)
      PROVE  GenerationInv'
  <2>1. /\ UNCHANGED <<generation, event, host>>
        /\ \/ UNCHANGED <<queue, stopping>>
           \/ queue' = <<>> /\ stopping' = TRUE
        /\ pc[w] = "run" => event[w].kind # "Reload"
        /\ \E p \in {"settle", "pop", "post", "idle"} : pc' = [pc EXCEPT ![w] = p]
    <3>1. CASE Skip(w) \/ Settle(w) \/ PostResult(w)
      BY <3>1 DEF Skip, Settle, PostResult, locked, life
    <3>2. CASE Halt(w)
      BY <3>2 DEF Halt, DrainInv, StopInv
    <3>. QED
      BY <1>7, <3>1, <3>2
  <2>2. CASE UNCHANGED <<queue, stopping>>
    BY <2>1, <2>2 DEF TypeOK, WorkerTypeOK
  <2>3. CASE queue' = <<>> /\ stopping' = TRUE
    BY <2>1, <2>3 DEF TypeOK, WorkerTypeOK
  <2>. QED
    BY <2>1, <2>2, <2>3
<1>8. ASSUME NEW w \in Worker, Run(w) \/ FirstUpdate(w) PROVE GenerationInv'
  <2>1. host'.generation = host.generation
    <3>. DEFINE h == IF event[w].kind \in CompletionKinds
                     THEN [host EXCEPT !.callbacks[event[w].tag.ref] = 0] ELSE host
    <3>1. host \in Host /\ h \in Host /\ h.generation = host.generation
      BY DEF TypeOK, WorkerTypeOK, Host
    <3>0. result \in [Worker -> ScriptResult]
      BY DEF TypeOK, WorkerTypeOK
    <3>2. CASE Run(w)
      <4>1. Call(w, h, {})
        BY <3>2 DEF Run
      <4>. QED
        BY <3>0, <3>1, <4>1, CallNames
    <3>3. CASE FirstUpdate(w)
      <4>1. CASE UNCHANGED host
        BY <4>1
      <4>2. CASE Call(w, host, result[w].sounds)
        BY <3>0, <3>1, <4>2, CallNames
      <4>. QED
        BY <3>3, <4>1, <4>2 DEF FirstUpdate
    <3>. QED
      BY <1>8, <3>2, <3>3
  <2>2. /\ UNCHANGED <<generation, event, queue, stopping>>
        /\ pc[w] = "run" => event[w].kind # "Reload"
        /\ pc' = [pc EXCEPT ![w] = "settle"]
    BY <1>8 DEF Run, FirstUpdate, life
  <2>. QED
    BY <2>1, <2>2 DEF TypeOK, WorkerTypeOK
<1>9. ASSUME NEW w \in Worker, RefuseLoad(w) \/ ExitHost(w) PROVE GenerationInv'
  <2>1. /\ UNCHANGED <<generation, event, queue, stopping>> /\ host' = NoHost
        /\ \E p \in {"settle", "halt"} : pc' = [pc EXCEPT ![w] = p]
        /\ pc[w] # "idle"
    BY <1>9 DEF RefuseLoad, ExitHost, locked, life
  <2>2. \A v \in Worker : pc'[v] \notin {"run", "loaded"}
    BY <2>1, <1>0 DEF TypeOK, WorkerTypeOK
  <2>. QED
    BY <2>1, <2>2 DEF NoHost
<1>10. ASSUME NEW w \in Worker, LoadHost(w) PROVE GenerationInv'
  <2>1. host'.generation = event[w].generation
    BY <1>10 DEF LoadHost, Call, NoHost
  <2>2. /\ UNCHANGED <<generation, event, queue, stopping>> /\ pc[w] = "run"
        /\ \E p \in {"settle", "loaded"} : pc' = [pc EXCEPT ![w] = p]
    BY <1>10 DEF LoadHost
  <2>3. \A v \in Worker : v # w => pc'[v] = "idle"
    BY <1>0, <2>2 DEF TypeOK, WorkerTypeOK
  <2>. QED
    BY <2>1, <2>2, <2>3 DEF TypeOK, WorkerTypeOK
<1>11. CASE UNCHANGED vars
  BY <1>11 DEF vars, locked, life, task
<1>. QED
  BY <1>1, <1>2, <1>3, <1>4, <1>5, <1>6, <1>7, <1>8, <1>9, <1>10, <1>11
     DEF Next, Drain

\* What a worker computes, and what it posts, is of the generation of the host
\* that computed it.
LEMMA ResultStep ==
    TypeOK /\ DrainInv /\ GenerationInv /\ ResultInv /\ [Next]_vars => ResultInv'
<1>. SUFFICES ASSUME TypeOK, DrainInv, GenerationInv, ResultInv, [Next]_vars
              PROVE  ResultInv'
  OBVIOUS
<1>. USE DEF ResultInv
<1>0. /\ result \in [Worker -> ScriptResult] /\ host \in Host
      /\ deferred \in Seq(ScriptResult) /\ host.generation \in Nat
      /\ pc \in [Worker -> {"idle", "pop", "run", "loaded", "settle", "post",
                            "exit", "halt"}]
  BY DEF TypeOK, WorkerTypeOK, OwnerTypeOK, Host
<1>1. CASE \E kind \in OfferKinds, key \in Streams \union {None} : Offer(kind, key)
  BY <1>1 DEF Offer, task
<1>2. CASE \E op \in inflight : Complete(op)
  BY <1>2 DEF Complete, task, owner
<1>3. CASE Stop \/ StopReturns
  BY <1>3 DEF Stop, StopReturns, task
<1>4. CASE Deliver
  BY <1>0, <1>4 DEF Deliver, task
<1>5. ASSUME NEW w \in Worker,
             TakeTask(w) \/ DrainEnds(w) \/ Pop(w) \/ ExitHost(w) \/ Halt(w)
      PROVE  ResultInv'
  <2>1. /\ UNCHANGED <<result, deferred>>
        /\ \E p \in {"pop", "idle", "exit", "run", "halt"} :
              pc' = [pc EXCEPT ![w] = p]
    BY <1>5 DEF TakeTask, DrainEnds, Pop, ExitHost, Halt, owner
  <2>. QED
    BY <1>0, <2>1
<1>6. ASSUME NEW w \in Worker, Settle(w) PROVE ResultInv'
  BY <1>0, <1>6 DEF Settle, owner
<1>7. ASSUME NEW w \in Worker, PostResult(w) PROVE ResultInv'
  <2>1. deferred' = Append(deferred, result[w]) /\ UNCHANGED result
        /\ pc' = [pc EXCEPT ![w] = "pop"] /\ result[w] \in ScriptResult
        /\ result[w].by \in {0, result[w].generation}
    BY <1>0, <1>7 DEF PostResult
  <2>2. \A i \in DOMAIN deferred' : deferred'[i].by \in {0, deferred'[i].generation}
    BY <1>0, <2>1
  <2>. QED
    BY <1>0, <2>1, <2>2
<1>8. ASSUME NEW w \in Worker, Skip(w) \/ RefuseLoad(w) PROVE ResultInv'
  <2>1. /\ UNCHANGED deferred /\ pc' = [pc EXCEPT ![w] = "settle"]
        /\ \E x \in ScriptResult : result' = [result EXCEPT ![w] = x] /\ x.by = 0
    <3>1. NoResult \in ScriptResult /\ NoResult.by = 0
          /\ [NoResult EXCEPT !.generation = generation] \in ScriptResult
          /\ [NoResult EXCEPT !.generation = generation].by = 0
      BY DEF NoResult, ScriptResult, TypeOK, LockedTypeOK
    <3>. QED
      BY <1>8, <3>1 DEF Skip, RefuseLoad, owner
  <2>. QED
    BY <1>0, <2>1
<1>9. ASSUME NEW w \in Worker, Run(w) PROVE ResultInv'
  <2>. DEFINE h == IF event[w].kind \in CompletionKinds
                   THEN [host EXCEPT !.callbacks[event[w].tag.ref] = 0] ELSE host
  <2>1. h \in Host /\ h.generation = host.generation
    BY <1>0 DEF Host
  <2>2. Call(w, h, {}) /\ UNCHANGED deferred /\ pc' = [pc EXCEPT ![w] = "settle"]
    BY <1>9 DEF Run, owner
  <2>3. event[w].generation = host.generation
    BY <1>9 DEF Run, GenerationInv, CallsMeetTheirHost
  <2>. HIDE DEF h
  <2>4. /\ result'[w].generation = event[w].generation
        /\ result'[w].by = h.generation
        /\ \A v \in Worker : v # w => result'[v] = result[v]
    BY <1>0, <2>1, <2>2, CallNames
  <2>. QED
    BY <1>0, <2>1, <2>2, <2>3, <2>4
<1>10. ASSUME NEW w \in Worker, LoadHost(w) PROVE ResultInv'
  <2>. DEFINE h == [NoHost EXCEPT !.generation = event[w].generation]
  <2>1. h \in Host /\ h.generation = event[w].generation
    BY DEF NoHost, Host, TypeOK, WorkerTypeOK, Event
  <2>2. /\ Call(w, h, {}) /\ UNCHANGED deferred
        /\ \E p \in {"loaded", "settle"} : pc' = [pc EXCEPT ![w] = p]
    BY <1>10 DEF LoadHost, owner
  <2>. HIDE DEF h
  <2>3. /\ result'[w].generation = event[w].generation
        /\ result'[w].by = h.generation
        /\ \A v \in Worker : v # w => result'[v] = result[v]
    BY <1>0, <2>1, <2>2, CallNames
  <2>. QED
    BY <1>0, <2>1, <2>2, <2>3
<1>11. ASSUME NEW w \in Worker, FirstUpdate(w) PROVE ResultInv'
  <2>1. pc' = [pc EXCEPT ![w] = "settle"] /\ UNCHANGED deferred /\ pc[w] = "loaded"
    BY <1>11 DEF FirstUpdate, owner
  <2>2. CASE UNCHANGED result
    BY <1>0, <2>1, <2>2
  <2>3. CASE Call(w, host, result[w].sounds)
    <3>1. /\ result'[w].generation = event[w].generation
          /\ result'[w].by = host.generation
          /\ \A v \in Worker : v # w => result'[v] = result[v]
      BY <1>0, <2>3, CallNames
    <3>2. host.generation = event[w].generation
      BY <2>1 DEF GenerationInv
    <3>. QED
      BY <1>0, <2>1, <3>1, <3>2
  <2>. QED
    BY <1>11, <2>2, <2>3 DEF FirstUpdate
<1>12. CASE UNCHANGED vars
  BY <1>12 DEF vars, task, owner
<1>. QED
  BY <1>1, <1>2, <1>3, <1>4, <1>5, <1>6, <1>7, <1>8, <1>9, <1>10, <1>11, <1>12
     DEF Next, Drain

\* The generations hold together in every behaviour.
LEMMA GenerationInvariant == Spec => [](GenerationInv /\ ResultInv)
<1>1. Init => GenerationInv /\ ResultInv
  BY DEF Init, GenerationInv, ResultInv, CallsMeetTheirHost, HasHost, NoHost
<1>2. TypeOK /\ DrainInv /\ (GenerationInv /\ ResultInv) /\ [Next]_vars
      => (GenerationInv /\ ResultInv)'
  BY GenerationStep, ResultStep
<1>. QED
  BY <1>1, <1>2, TypeCorrect, DrainInvariant, PTL DEF Spec

\* An event accepted before a reload never runs on the script loaded by it,
\* nor one accepted after on the script it replaces, though processEvent
\* compares no generation.
THEOREM EventsMeetTheirHost == Spec => []CallsMeetTheirHost
BY GenerationInvariant, PTL DEF GenerationInv

\* deliverResult never hands the subscribers what an older script computed.
THEOREM ResultsAreFresh == Spec => DeliveryIsFresh
<1>1. TypeOK /\ ResultInv /\ [Next]_vars
      => [delivered' # delivered => delivered'.by \in {0, generation}]_vars
  <2>. SUFFICES ASSUME TypeOK, ResultInv, Next, delivered' # delivered
                PROVE  delivered'.by \in {0, generation}
    BY DEF vars, owner
  <2>1. Deliver
    BY DEF Next, Drain, Offer, Complete, Stop, StopReturns, TakeTask, DrainEnds, Pop,
           Skip, Run, RefuseLoad, LoadHost, FirstUpdate, Settle, PostResult, ExitHost,
           Halt, owner
  <2>2. /\ deferred # <<>> /\ delivered' = Head(deferred)
        /\ Head(deferred).generation = generation
    BY <2>1 DEF Deliver
  <2>3. Head(deferred) = deferred[1] /\ 1 \in DOMAIN deferred
    BY <2>2 DEF TypeOK, OwnerTypeOK
  <2>. QED
    BY <2>2, <2>3 DEF ResultInv
<1>. QED
  BY <1>1, TypeCorrect, GenerationInvariant, PTL DEF Spec, DeliveryIsFresh

----------------------------------------------------------------------------

\* A count that was covered by own and stale verdicts still is when both sides
\* grow by at most one, and by exactly one.
LEMMA OneMore ==
    ASSUME NEW own \in Nat, NEW stale \in Nat, NEW own1 \in Nat, NEW stale1 \in Nat,
           own1 + stale1 = own + stale + 1, stale1 <= 1,
           NEW count \in Nat, NEW count1 \in Nat,
           count <= own + stale, count1 <= count + 1
    PROVE  count1 <= own1 + stale1 /\ count1 <= own1 + 1
OBVIOUS

\* What is covered by own verdicts and one more reaches no higher.
LEMMA AtLeast ==
    ASSUME NEW own \in Nat, NEW count \in Nat, NEW limit \in Nat,
           count <= own + 1, count >= limit
    PROVE  own + 1 >= limit
OBVIOUS

\* Own verdicts only add up.
LEMMA StillAtLeast ==
    ASSUME NEW own \in Nat, NEW own1 \in Nat, NEW limit \in Nat,
           own + 1 >= limit, own1 >= own
    PROVE  own1 + 1 >= limit
OBVIOUS

\* A verdict moves the counters that decide on unhealthy, and the blame, by at
\* most one together; a stale verdict is only ever the first.
LEMMA JudgeCounts ==
    ASSUME TypeOK, HealthInv, NEW e \in Event, NEW verdict, Judge(e, verdict),
           e.generation # generation => staleBad = 0
    PROVE  /\ consecutiveTimeouts' <= ownBad' + staleBad'
           /\ timeoutHistory' <= ownBad' + staleBad'
           /\ errorHistory' <= ownBad' + staleBad'
           /\ staleBad' <= 1
           /\ UnhealthyIsEarned'
           /\ verdict = "ok" => staleBad' = staleBad
<1>. USE DEF HealthInv, UnhealthyIsEarned
<1>0. /\ ownBad \in Nat /\ staleBad \in Nat /\ consecutiveTimeouts \in Nat
      /\ timeoutHistory \in Nat /\ errorHistory \in Nat
      /\ MaxConsecutiveTimeouts \in Nat /\ MaxTimeoutsPerWindow \in Nat
      /\ MaxHardErrorsPerWindow \in Nat
  BY RuntimeAssumption DEF RuntimeAssumption, TypeOK, LockedTypeOK
<1>1. CASE verdict \in Bad
  <2>1. /\ ownBad' + staleBad' = ownBad + staleBad + 1
        /\ ownBad' \in Nat /\ staleBad' \in Nat /\ ownBad' >= ownBad /\ staleBad' <= 1
    BY <1>0, <1>1 DEF Judge, Blame
  <2>2. CASE CountTimeout
    <3>1. /\ timeoutHistory' <= timeoutHistory + 1
          /\ consecutiveTimeouts' = consecutiveTimeouts + 1
          /\ errorHistory' = errorHistory /\ timeoutHistory' \in Nat
          /\ unhealthy' => \/ unhealthy
                           \/ consecutiveTimeouts' >= MaxConsecutiveTimeouts
                           \/ timeoutHistory' >= MaxTimeoutsPerWindow
      BY <1>0, <2>2 DEF CountTimeout
    <3>. QED
      BY <1>0, <1>1, <2>1, <3>1 DEF Bad
  <2>3. CASE CountError
    <3>1. /\ errorHistory' \in Nat /\ errorHistory' <= errorHistory + 1
          /\ unhealthy' => unhealthy \/ errorHistory' >= MaxHardErrorsPerWindow
      <4>1. PICK kept \in 0..errorHistory :
               /\ errorHistory' = kept + 1
               /\ unhealthy' = (unhealthy \/ kept + 1 >= MaxHardErrorsPerWindow)
        BY <2>3 DEF CountError
      <4>2. errorHistory' \in Nat /\ errorHistory' <= errorHistory + 1
        BY <1>0, <4>1
      <4>. QED
        BY <4>1, <4>2
    <3>2. consecutiveTimeouts' = 0 /\ timeoutHistory' = timeoutHistory
      BY <2>3 DEF CountError
    <3>3. /\ errorHistory' <= ownBad' + staleBad' /\ errorHistory' <= ownBad' + 1
          /\ timeoutHistory' <= ownBad' + staleBad'
          /\ consecutiveTimeouts' <= ownBad' + staleBad'
      <4>1. /\ errorHistory <= ownBad + staleBad /\ timeoutHistory <= ownBad + staleBad
            /\ consecutiveTimeouts <= ownBad + staleBad
        OBVIOUS
      <4>2. /\ errorHistory' \in Nat /\ errorHistory' <= errorHistory + 1
            /\ timeoutHistory' \in Nat /\ timeoutHistory' <= timeoutHistory + 1
            /\ consecutiveTimeouts' \in Nat
            /\ consecutiveTimeouts' <= consecutiveTimeouts + 1
        BY <1>0, <3>1, <3>2
      <4>3. PICK own \in Nat, stale \in Nat : own = ownBad /\ stale = staleBad
        BY <1>0
      <4>4. PICK own1 \in Nat, stale1 \in Nat : own1 = ownBad' /\ stale1 = staleBad'
        BY <2>1
      <4>5. own1 + stale1 = own + stale + 1 /\ stale1 <= 1
        BY <2>1, <4>3, <4>4
      <4>6. errorHistory' <= own1 + stale1 /\ errorHistory' <= own1 + 1
        BY ONLY <1>0, <4>1, <4>2, <4>3, <4>5, OneMore
      <4>7. timeoutHistory' <= own1 + stale1
        BY ONLY <1>0, <4>1, <4>2, <4>3, <4>5, OneMore
      <4>8. consecutiveTimeouts' <= own1 + stale1
        BY ONLY <1>0, <4>1, <4>2, <4>3, <4>5, OneMore
      <4>. QED
        BY <4>4, <4>6, <4>7, <4>8
    <3>4. UnhealthyIsEarned'
      <4>1. CASE unhealthy
        <5>1. \/ ownBad' + 1 >= MaxConsecutiveTimeouts
              \/ ownBad' + 1 >= MaxTimeoutsPerWindow
              \/ ownBad' + 1 >= MaxHardErrorsPerWindow
          <6>1. \/ ownBad + 1 >= MaxConsecutiveTimeouts
                \/ ownBad + 1 >= MaxTimeoutsPerWindow
                \/ ownBad + 1 >= MaxHardErrorsPerWindow
            BY <4>1
          <6>. QED
            BY ONLY <1>0, <2>1, <6>1, StillAtLeast
        <5>. QED
          BY <5>1
      <4>2. CASE errorHistory' >= MaxHardErrorsPerWindow
        <5>1. ownBad' + 1 >= MaxHardErrorsPerWindow
          BY <1>0, <2>1, <3>1, <3>3, <4>2, AtLeast
        <5>. QED
          BY <5>1
      <4>. QED
        BY <3>1, <4>1, <4>2
    <3>. QED
      BY <1>1, <2>1, <3>3, <3>4 DEF Bad
  <2>. QED
    BY <1>1, <2>2, <2>3 DEF Judge, Bad
<1>2. CASE verdict \notin Bad
  BY <1>0, <1>2 DEF Judge, Blame, blame, CountSuccess, Bad
<1>. QED
  BY <1>1, <1>2

\* enqueue leaves the counters alone, or forgives what was counted.
LEMMA EnqueueForgives ==
    ASSUME TypeOK, HealthInv, NEW e \in Event, Enqueue(e), UNCHANGED <<pc, event>>
    PROVE  HealthInv'
<1>. USE DEF HealthInv, UnhealthyIsEarned
<1>1. CASE AcceptReload(e)
  BY <1>1 DEF AcceptReload, Forgive
<1>2. CASE ~AcceptReload(e)
  <2>1. UNCHANGED <<generation, health, blame>>
    BY <1>2 DEF Enqueue, Refuse, Supersede, ThrottleUpdate, RefuseUpdate, AcceptUpdate,
                Accept, Evict, locked
  <2>. QED
    BY <2>1 DEF health, blame
<1>. QED
  BY <1>1, <1>2

\* Every step keeps the account of bad verdicts: of the calls made before a
\* reload only the one in hand can be counted after it.
LEMMA HealthStep ==
    TypeOK /\ DrainInv /\ GenerationInv /\ HealthInv /\ [Next]_vars => HealthInv'
<1>. SUFFICES ASSUME TypeOK, DrainInv, GenerationInv, HealthInv, [Next]_vars
              PROVE  HealthInv'
  OBVIOUS
<1>0. /\ \A v, w \in Worker : pc[v] # "idle" /\ pc[w] # "idle" => v = w
      /\ pc \in [Worker -> {"idle", "pop", "run", "loaded", "settle", "post",
                            "exit", "halt"}]
      /\ event \in [Worker -> Event]
  BY DEF DrainInv, SingleDrain, Busy, TypeOK, WorkerTypeOK
<1>1. ASSUME NEW kind \in OfferKinds, NEW key \in Streams \union {None},
             Offer(kind, key)
      PROVE  HealthInv'
  <2>. DEFINE e == [kind |-> kind, generation |-> generation,
                    serial |-> serial + 1, tag |-> key]
  <2>1. e \in Event
    BY RuntimeAssumption DEF RuntimeAssumption, TypeOK, LockedTypeOK, OwnerTypeOK,
                             Event
  <2>2. Enqueue(e) /\ UNCHANGED <<pc, event>>
    BY <1>1 DEF Offer, task
  <2>. QED
    BY <2>1, <2>2, EnqueueForgives
<1>2. ASSUME NEW op \in inflight, Complete(op) PROVE HealthInv'
  <2>. DEFINE e == [kind |-> op.kind, generation |-> generation,
                    serial |-> 0, tag |-> op]
  <2>1. e \in Event
    BY DEF TypeOK, LockedTypeOK, OwnerTypeOK, Event, Op
  <2>2. Enqueue(e) /\ UNCHANGED <<pc, event>>
    BY <1>2 DEF Complete, task
  <2>. QED
    BY <2>1, <2>2, EnqueueForgives
<1>. USE DEF HealthInv, UnhealthyIsEarned
<1>3. CASE Stop \/ StopReturns \/ Deliver
  BY <1>3 DEF Stop, StopReturns, Deliver, locked, health, blame, task
<1>4. ASSUME NEW w \in Worker, Pop(w) PROVE HealthInv'
  <2>1. queue # <<>> /\ Head(queue) = queue[1] /\ 1 \in DOMAIN queue
    BY <1>4 DEF Pop, TypeOK, LockedTypeOK
  <2>2. event' = [event EXCEPT ![w] = queue[1]] /\ queue[1].generation = generation
        /\ UNCHANGED <<generation, health, blame>>
        /\ \E p \in {"exit", "run"} : pc' = [pc EXCEPT ![w] = p]
    BY <1>4, <2>1 DEF Pop, GenerationInv
  <2>. QED
    BY <1>0, <2>2 DEF health, blame
<1>5. ASSUME NEW w \in Worker,
             TakeTask(w) \/ DrainEnds(w) \/ Skip(w) \/ RefuseLoad(w) \/ Settle(w)
             \/ PostResult(w) \/ ExitHost(w) \/ Halt(w)
      PROVE  HealthInv'
  <2>1. /\ UNCHANGED <<generation, event, health, blame>>
        /\ \E p \in {"pop", "idle", "settle", "post", "halt"} :
              pc' = [pc EXCEPT ![w] = p]
    BY <1>5 DEF TakeTask, DrainEnds, Skip, RefuseLoad, Settle, PostResult, ExitHost,
                Halt, locked
  <2>. QED
    BY <1>0, <2>1 DEF health, blame
<1>6. ASSUME NEW w \in Worker, Run(w) \/ LoadHost(w) \/ FirstUpdate(w) PROVE HealthInv'
  <2>1. /\ pc[w] \in {"run", "loaded"} /\ UNCHANGED <<generation, event>>
        /\ \E p \in {"settle", "loaded"} : pc' = [pc EXCEPT ![w] = p]
    BY <1>6 DEF Run, LoadHost, FirstUpdate
  <2>2. \A v \in Worker : v # w => pc'[v] = "idle"
    BY <1>0, <2>1
  <2>3. event[w] \in Event /\ (event[w].generation # generation => staleBad = 0)
    BY <1>0, <2>1
  <2>4. CASE UNCHANGED <<health, blame>>
    BY <1>0, <2>1, <2>4 DEF health, blame
  <2>5. ASSUME NEW verdict \in Verdicts, Judge(event[w], verdict),
               verdict = "ok" \/ pc'[w] = "settle"
        PROVE  HealthInv'
    <3>1. /\ consecutiveTimeouts' <= ownBad' + staleBad'
          /\ timeoutHistory' <= ownBad' + staleBad'
          /\ errorHistory' <= ownBad' + staleBad'
          /\ staleBad' <= 1
          /\ UnhealthyIsEarned'
          /\ verdict = "ok" => staleBad' = staleBad
      BY <2>3, <2>5, JudgeCounts
    <3>2. pc'[w] # "settle" /\ event[w].generation # generation => staleBad' = 0
      BY <2>3, <2>5, <3>1
    <3>3. \A v \in Worker :
             pc'[v] \in {"run", "loaded"} /\ event'[v].generation # generation'
             => staleBad' = 0
      BY <2>1, <2>2, <3>2
    <3>. QED
      BY <3>1, <3>3
  <2>6. CASE Run(w)
    BY <1>0, <2>5, <2>6 DEF Run
  <2>7. CASE LoadHost(w)
    BY <1>0, <2>5, <2>7 DEF LoadHost
  <2>8. CASE FirstUpdate(w)
    BY <1>0, <2>4, <2>5, <2>8 DEF FirstUpdate
  <2>. QED
    BY <1>6, <2>6, <2>7, <2>8
<1>7. CASE UNCHANGED vars
  BY <1>7 DEF vars, locked, health, blame, task
<1>. QED
  BY <1>1, <1>2, <1>3, <1>4, <1>5, <1>6, <1>7 DEF Next, Drain

\* A script that is disabled has itself earned it, save for one bad verdict:
\* what older generations did is forgiven by the reload (enqueue), except for
\* the one call that was running then (updateHealth).
THEOREM UnhealthyEarned == Spec => []UnhealthyIsEarned
<1>1. Init => HealthInv
  BY DEF Init, HealthInv, UnhealthyIsEarned
<1>2. TypeOK /\ DrainInv /\ (GenerationInv /\ ResultInv) /\ HealthInv /\ [Next]_vars
      => HealthInv'
  BY HealthStep
<1>3. HealthInv => UnhealthyIsEarned
  BY DEF HealthInv
<1>. QED
  BY <1>1, <1>2, <1>3, TypeCorrect, DrainInvariant, GenerationInvariant, PTL DEF Spec

----------------------------------------------------------------------------
(* The mailbox, the hosts and the operations.  Origins says how a step of   *)
(* enqueue relates the queue after it to the queue before.                 *)

\* The elements of s that count against the bound of the queue.
Counted(s) == {i \in DOMAIN s : s[i].kind # "Sound"}

\* How a step of enqueue with event e relates the new queue to the old one:
\* from names the old place of each element, 0 that of e.  The order is kept;
\* e takes the place of its predecessor in the stream or goes to the end; and
\* one that counts has found room or made it.
Origins(e, old, new, from) ==
    /\ from \in [DOMAIN new -> 0..Len(old)]
    /\ \A i \in DOMAIN new :
          IF from[i] = 0
          THEN new[i].kind = e.kind /\ new[i].serial = e.serial /\ new[i].tag = e.tag
          ELSE new[i] = old[from[i]]
    /\ \A i, j \in DOMAIN new :
          i < j => IF from[i] = 0 THEN from[j] # 0 /\ e.kind = "Stream"
                   ELSE from[j] = 0 \/ from[i] < from[j]
    /\ \A i, j \in DOMAIN new :
          from[i] = 0 /\ from[j] # 0 /\ e.kind = "Stream" /\ old[from[j]].kind = "Stream"
          => old[from[j]].tag # e.tag
    /\ \/ e.kind = "Sound"
       \/ \A i \in DOMAIN new : from[i] # 0
       \/ Len(new) <= MaxQueuedEvents
       \/ \E k \in Counted(old) : \A i \in DOMAIN new : from[i] # k

\* One event per coalescing stream.
OnePerStream ==
    \A i, j \in DOMAIN queue : i < j => ~Superseded(queue[i], j)

\* An index below another one is not the last.
LEMMA NotTheLast ==
    ASSUME NEW n \in Nat, NEW i \in 1..n, NEW j \in 1..n, i < j
    PROVE  i # n
OBVIOUS

LEMMA EnqueueOrigins ==
    ASSUME TypeOK, OnePerStream, NEW e \in Event, Enqueue(e)
    PROVE  \E from : Origins(e, queue, queue', from)
<1>. USE DEF TypeOK, LockedTypeOK
<1>0. Len(queue) \in Nat /\ DOMAIN queue = 1..Len(queue)
  OBVIOUS
<1>1. CASE UNCHANGED queue
  <2>. DEFINE from == [i \in DOMAIN queue |-> i]
  <2>1. Origins(e, queue, queue', from)
    BY <1>0, <1>1 DEF Origins
  <2>. QED
    BY <2>1
<1>2. CASE Supersede(e)
  <2>1. PICK k \in DOMAIN queue : Superseded(e, k) /\ queue' = ReplaceAt(queue, k, e)
    BY <1>2 DEF Supersede
  <2>2. /\ DOMAIN queue' = DOMAIN queue
        /\ \A i \in DOMAIN queue : queue'[i] = IF i = k THEN e ELSE queue[i]
    BY <2>1 DEF ReplaceAt
  <2>. DEFINE from == [i \in DOMAIN queue |-> IF i = k THEN 0 ELSE i]
  <2>3. /\ from \in [DOMAIN queue' -> 0..Len(queue)]
        /\ \A i \in DOMAIN queue' : from[i] = 0 <=> i = k
        /\ \A i \in DOMAIN queue' : i # k => from[i] = i
    BY <1>0, <2>2
  <2>4. e.kind = "Stream" /\ queue[k].kind = "Stream" /\ queue[k].tag = e.tag
    BY <2>1 DEF Superseded
  <2>. HIDE DEF from
  <2>5. ASSUME NEW i \in DOMAIN queue', NEW j \in DOMAIN queue', from[i] = 0, from[j] # 0,
               queue[from[j]].kind = "Stream"
        PROVE  queue[from[j]].tag # e.tag
    <3>1. i = k /\ j # k /\ from[j] = j /\ j \in DOMAIN queue
      BY <2>2, <2>3, <2>5
    <3>2. j < k \/ k < j
      BY <1>0, <3>1
    <3>. QED
      BY <2>4, <2>5, <3>1, <3>2 DEF OnePerStream, Superseded
  <2>6. k \in Counted(queue) /\ \A i \in DOMAIN queue' : from[i] # k
    BY <1>0, <2>2, <2>3, <2>4 DEF Counted
  <2>7. \A i, j \in DOMAIN queue' :
           i < j => IF from[i] = 0 THEN from[j] # 0 /\ e.kind = "Stream"
                    ELSE from[j] = 0 \/ from[i] < from[j]
    BY <1>0, <2>2, <2>3, <2>4
  <2>8. \A i \in DOMAIN queue' :
           IF from[i] = 0
           THEN queue'[i].kind = e.kind /\ queue'[i].serial = e.serial /\ queue'[i].tag = e.tag
           ELSE queue'[i] = queue[from[i]]
    BY <2>2, <2>3
  <2>9. Origins(e, queue, queue', from)
    BY <2>3, <2>5, <2>6, <2>7, <2>8 DEF Origins
  <2>. QED
    BY <2>9
<1>3. CASE AcceptUpdate(e) \/ Accept(e)
  <2>1. /\ queue' = Append(queue, e)
        /\ e.kind = "Sound" \/ Len(queue) < MaxQueuedEvents
        /\ e.kind = "Stream" => \A i \in DOMAIN queue : ~Superseded(e, i)
    BY <1>0, <1>3, RuntimeAssumption DEF AcceptUpdate, Accept, Full, RuntimeAssumption
  <2>2. /\ Len(queue') = Len(queue) + 1 /\ DOMAIN queue' = 1..(Len(queue) + 1)
        /\ \A i \in 1..Len(queue) : queue'[i] = queue[i]
        /\ queue'[Len(queue) + 1] = e
    BY <2>1
  <2>. DEFINE from == [i \in DOMAIN queue' |-> IF i \in 1..Len(queue) THEN i ELSE 0]
  <2>3. /\ from \in [DOMAIN queue' -> 0..Len(queue)]
        /\ \A i \in DOMAIN queue' : from[i] = 0 <=> i = Len(queue) + 1
        /\ \A i \in DOMAIN queue' : i # Len(queue) + 1 => from[i] = i /\ i \in DOMAIN queue
    BY <1>0, <2>2
  <2>. HIDE DEF from
  <2>4. e.kind = "Sound" \/ Len(queue') <= MaxQueuedEvents
    BY <1>0, <2>1, <2>2, RuntimeAssumption DEF RuntimeAssumption
  <2>5. \A i, j \in DOMAIN queue' :
           i < j => IF from[i] = 0 THEN from[j] # 0 /\ e.kind = "Stream"
                    ELSE from[j] = 0 \/ from[i] < from[j]
    BY <1>0, <2>2, <2>3
  <2>6. \A i, j \in DOMAIN queue' :
           from[i] = 0 /\ from[j] # 0 /\ e.kind = "Stream" /\ queue[from[j]].kind = "Stream"
           => queue[from[j]].tag # e.tag
    BY <2>1, <2>3 DEF Superseded
  <2>7. \A i \in DOMAIN queue' :
           IF from[i] = 0
           THEN queue'[i].kind = e.kind /\ queue'[i].serial = e.serial /\ queue'[i].tag = e.tag
           ELSE queue'[i] = queue[from[i]]
    BY <1>0, <2>2, <2>3
  <2>8. Origins(e, queue, queue', from)
    BY <2>3, <2>4, <2>5, <2>6, <2>7 DEF Origins
  <2>. QED
    BY <2>8
<1>4. CASE Evict(e)
  <2>1. PICK k \in DOMAIN queue :
           FirstEvictable(k) /\ queue' = Append(RemoveAt(queue, k), e)
    BY <1>4 DEF Evict
  <2>. DEFINE rest == RemoveAt(queue, k)
  <2>2. rest \in Seq(Event) /\ k \in 1..Len(queue)
    BY <1>0, RemoveAtIsSeq
  <2>3. /\ Len(rest) = Len(queue) - 1
        /\ \A j \in 1..(Len(queue) - 1) : rest[j] = queue[IF j < k THEN j ELSE j + 1]
    BY RemoveAtElements
  <2>. HIDE DEF rest
  <2>4. /\ queue' = Append(rest, e) /\ queue[k].kind # "Sound"
        /\ \A i \in DOMAIN queue : ~Superseded(e, i)
    BY <1>4, <2>1 DEF rest, FirstEvictable, Evictable, Evict
  <2>5. /\ DOMAIN queue' = 1..Len(queue) /\ queue'[Len(queue)] = e
        /\ \A j \in 1..(Len(queue) - 1) : queue'[j] = rest[j]
    <3>1. Len(rest) + 1 = Len(queue)
      BY <1>0, <2>2, <2>3
    <3>2. /\ DOMAIN Append(rest, e) = 1..(Len(rest) + 1)
          /\ Append(rest, e)[Len(rest) + 1] = e
          /\ \A j \in 1..Len(rest) : Append(rest, e)[j] = rest[j]
      BY ONLY <2>2, e \in Event, AppendProperties, SMT
    <3>. QED
      BY ONLY <2>3, <2>4, <3>1, <3>2
  <2>. DEFINE from == [i \in 1..Len(queue) |->
                         IF i = Len(queue) THEN 0 ELSE IF i < k THEN i ELSE i + 1]
  <2>6. /\ from \in [DOMAIN queue' -> 0..Len(queue)]
        /\ \A i \in DOMAIN queue' : from[i] = 0 <=> i = Len(queue)
        /\ \A i \in DOMAIN queue' :
              i # Len(queue) => /\ from[i] = (IF i < k THEN i ELSE i + 1)
                                /\ from[i] \in DOMAIN queue /\ from[i] # k
    BY <1>0, <2>2, <2>5
  <2>. HIDE DEF from
  <2>7. k \in Counted(queue) /\ \A i \in DOMAIN queue' : from[i] # k
    BY <1>0, <2>2, <2>4, <2>6 DEF Counted
  <2>8. \A i, j \in DOMAIN queue' :
           i < j => IF from[i] = 0 THEN from[j] # 0 /\ e.kind = "Stream"
                    ELSE from[j] = 0 \/ from[i] < from[j]
    <3>. SUFFICES ASSUME NEW i \in 1..Len(queue), NEW j \in 1..Len(queue), i < j
                  PROVE  from[i] # 0 /\ (from[j] = 0 \/ from[i] < from[j])
      BY <2>5
    <3>a. i \in 1..Len(queue) /\ j \in 1..Len(queue) /\ i < j
      OBVIOUS
    <3>0. i # Len(queue)
      <4>1. PICK n \in Nat : n = Len(queue)
        BY <1>0
      <4>2. i \in 1..n /\ j \in 1..n
        BY ONLY <3>a, <4>1
      <4>. QED
        BY ONLY <3>a, <4>1, <4>2, NotTheLast
    <3>b. i \in DOMAIN queue'
      BY ONLY <2>5, <3>a
    <3>1. from[i] = (IF i < k THEN i ELSE i + 1) /\ from[i] # 0
      BY ONLY <2>6, <3>b, <3>0
    <3>2. j # Len(queue) => from[j] = (IF j < k THEN j ELSE j + 1)
      BY <2>5, <2>6
    <3>3. j = Len(queue) => from[j] = 0
      BY <2>5, <2>6
    <3>. QED
      BY <2>2, <3>1, <3>2, <3>3
  <2>9. \A i, j \in DOMAIN queue' :
           from[i] = 0 /\ from[j] # 0 /\ e.kind = "Stream" /\ queue[from[j]].kind = "Stream"
           => queue[from[j]].tag # e.tag
    BY <2>4, <2>6 DEF Superseded
  <2>10. \A i \in DOMAIN queue' :
            IF from[i] = 0
            THEN queue'[i].kind = e.kind /\ queue'[i].serial = e.serial /\ queue'[i].tag = e.tag
            ELSE queue'[i] = queue[from[i]]
    <3>. TAKE i \in DOMAIN queue'
    <3>1. CASE i = Len(queue)
      BY <2>5, <2>6, <3>1
    <3>2. CASE i # Len(queue)
      <4>1. i \in 1..(Len(queue) - 1) /\ from[i] # 0 /\ from[i] = (IF i < k THEN i ELSE i + 1)
        BY <1>0, <2>5, <2>6, <3>2
      <4>2. queue'[i] = rest[i] /\ rest[i] = queue[IF i < k THEN i ELSE i + 1]
        BY <2>3, <2>5, <4>1
      <4>. QED
        BY <4>1, <4>2
    <3>. QED
      BY <3>1, <3>2
  <2>11. Origins(e, queue, queue', from)
    BY <2>6, <2>7, <2>8, <2>9, <2>10 DEF Origins
  <2>. QED
    BY <2>11
<1>5. CASE AcceptReload(e)
  <2>. DEFINE r == [e EXCEPT !.generation = generation + 1]
              from == [i \in {1} |-> 0]
  <2>1. queue' = <<r>>
    BY <1>5 DEF AcceptReload, Reloaded
  <2>2. r.kind = e.kind /\ r.serial = e.serial /\ r.tag = e.tag
    BY DEF Event
  <2>. HIDE DEF r
  <2>3. DOMAIN queue' = {1} /\ queue'[1] = r /\ Len(queue') = 1
    BY <2>1
  <2>4. from \in [{1} -> 0..Len(queue)] /\ from[1] = 0
    BY <1>0
  <2>. HIDE DEF from
  <2>5. Len(queue') <= MaxQueuedEvents
    BY <2>3, RuntimeAssumption DEF RuntimeAssumption
  <2>6. Origins(e, queue, queue', from)
    BY <2>2, <2>3, <2>4, <2>5 DEF Origins
  <2>. QED
    BY <2>6
<1>6. CASE Refuse(e) \/ ThrottleUpdate(e) \/ RefuseUpdate(e)
  <2>1. UNCHANGED queue
    BY <1>6 DEF Refuse, ThrottleUpdate, RefuseUpdate, locked
  <2>. QED
    BY <1>1, <2>1
<1>. QED
  BY <1>2, <1>3, <1>4, <1>5, <1>6 DEF Enqueue

\* Such a step keeps the number of events that count within the bound.
LEMMA OriginsBounded ==
    ASSUME NEW e, NEW old \in Seq(Event), NEW new \in Seq(Event), NEW from,
           Origins(e, old, new, from),
           Cardinality(Counted(old)) <= MaxQueuedEvents
    PROVE  Cardinality(Counted(new)) <= MaxQueuedEvents
<1>0. /\ MaxQueuedEvents \in Nat /\ Len(old) \in Nat /\ Len(new) \in Nat
      /\ DOMAIN old = 1..Len(old) /\ DOMAIN new = 1..Len(new)
  BY RuntimeAssumption DEF RuntimeAssumption
<1>1. IsFiniteSet(Counted(old)) /\ IsFiniteSet(Counted(new))
  <2>1. IsFiniteSet(1..Len(old)) /\ IsFiniteSet(1..Len(new))
    BY <1>0, FS_Interval
  <2>2. Counted(old) \in SUBSET (1..Len(old)) /\ Counted(new) \in SUBSET (1..Len(new))
    BY <1>0 DEF Counted
  <2>. QED
    BY <2>1, <2>2, FS_Subset
<1>2. Cardinality(Counted(old)) \in Nat /\ Cardinality(Counted(new)) \in Nat
  BY <1>1, FS_CardinalityType
<1>3. \A i, j \in DOMAIN new : i # j => from[i] # from[j]
  <2>. SUFFICES ASSUME NEW i \in DOMAIN new, NEW j \in DOMAIN new, i < j
                PROVE  from[i] # from[j]
    BY <1>0
  <2>. QED
    BY <1>0 DEF Origins
<1>4. ASSUME NEW m \in [Counted(new) -> Counted(old)],
             \A i, j \in Counted(new) : i # j => m[i] # m[j]
      PROVE  Cardinality(Counted(new)) <= MaxQueuedEvents
  <2>1. m \in Injection(Counted(new), Counted(old))
    BY <1>4 DEF Injection, IsInjective
  <2>2. Cardinality(Counted(new)) <= Cardinality(Counted(old))
    BY <1>1, <2>1, FS_Injection
  <2>. QED
    BY <1>0, <1>2, <2>2
<1>5. CASE e.kind = "Sound" \/ \A i \in DOMAIN new : from[i] # 0
  <2>. DEFINE m == [i \in Counted(new) |-> from[i]]
  <2>1. ASSUME NEW i \in Counted(new) PROVE from[i] \in Counted(old)
    <3>1. i \in DOMAIN new /\ from[i] \in 0..Len(old) /\ new[i].kind # "Sound"
      BY DEF Origins, Counted
    <3>2. from[i] # 0 /\ new[i] = old[from[i]]
      BY <1>5, <3>1 DEF Origins
    <3>. QED
      BY <1>0, <3>1, <3>2 DEF Counted
  <2>2. \A i, j \in Counted(new) : i # j => m[i] # m[j]
    BY <1>3 DEF Counted
  <2>. QED
    BY <1>4, <2>1, <2>2
<1>6. CASE Len(new) <= MaxQueuedEvents
  <2>1. /\ IsFiniteSet(1..Len(new))
        /\ Cardinality(1..Len(new)) = IF 1 > Len(new) THEN 0 ELSE Len(new) - 1 + 1
    <3>1. 1 \in Int /\ Len(new) \in Int
      BY <1>0
    <3>. QED
      BY ONLY <3>1, FS_Interval, Zenon
  <2>2. Counted(new) \in SUBSET (1..Len(new))
    BY <1>0 DEF Counted
  <2>3. Cardinality(Counted(new)) <= Cardinality(1..Len(new))
    BY <2>1, <2>2, FS_Subset
  <2>4. Cardinality(1..Len(new)) = Len(new)
    BY ONLY <1>0, <2>1
  <2>. QED
    BY <1>0, <1>2, <1>6, <2>3, <2>4
<1>7. ASSUME NEW k \in Counted(old), \A i \in DOMAIN new : from[i] # k
      PROVE  Cardinality(Counted(new)) <= MaxQueuedEvents
  <2>. DEFINE m == [i \in Counted(new) |-> IF from[i] = 0 THEN k ELSE from[i]]
  <2>1. ASSUME NEW i \in Counted(new), from[i] # 0 PROVE from[i] \in Counted(old)
    <3>1. i \in DOMAIN new /\ from[i] \in 0..Len(old) /\ new[i].kind # "Sound"
      BY DEF Origins, Counted
    <3>2. new[i] = old[from[i]]
      BY <2>1, <3>1 DEF Origins
    <3>. QED
      BY <1>0, <2>1, <3>1, <3>2 DEF Counted
  <2>2. m \in [Counted(new) -> Counted(old)]
    BY <2>1
  <2>3. \A i, j \in Counted(new) : i # j => m[i] # m[j]
    BY <1>3, <1>7 DEF Counted
  <2>. HIDE DEF m
  <2>. QED
    BY <1>4, <2>2, <2>3
<1>. QED
  BY <1>5, <1>6, <1>7 DEF Origins

\* What enqueue does to the flags of the throttle: one is set with the Update
\* it stands for and cleared with it, by an eviction or by a reload.
LEMMA EnqueueFlags ==
    ASSUME TypeOK, UpdateFlagsExact, NEW e \in Event, Enqueue(e), UNCHANGED <<pc, event>>,
           \A w \in Worker : event[w].generation <= generation
    PROVE  UpdateFlagsExact'
<1>. USE DEF UpdateFlagsExact, Running
<1>0. /\ Len(queue) \in Nat /\ DOMAIN queue = 1..Len(queue) /\ queue \in Seq(Event)
      /\ generation \in Nat /\ updateQueued \in BOOLEAN
  BY DEF TypeOK, LockedTypeOK
<1>1. CASE Refuse(e) \/ ThrottleUpdate(e) \/ RefuseUpdate(e)
  <2>1. UNCHANGED <<queue, generation, updateQueued, updateRunning>>
    BY <1>1 DEF Refuse, ThrottleUpdate, RefuseUpdate, locked, flags
  <2>. QED
    BY <2>1
<1>2. CASE Supersede(e)
  <2>1. PICK k \in DOMAIN queue : Superseded(e, k) /\ queue' = ReplaceAt(queue, k, e)
    BY <1>2 DEF Supersede
  <2>2. /\ DOMAIN queue' = DOMAIN queue
        /\ \A i \in DOMAIN queue : queue'[i].kind = queue[i].kind
    BY <2>1 DEF ReplaceAt, Superseded
  <2>3. UNCHANGED <<generation, updateQueued, updateRunning>>
    BY <1>2 DEF Supersede, flags
  <2>. QED
    BY <2>2, <2>3
<1>3. CASE AcceptUpdate(e)
  <2>1. /\ queue' = Append(queue, e) /\ e.kind = "Update" /\ ~updateQueued
        /\ updateQueued' = TRUE /\ UNCHANGED <<generation, updateRunning>>
    BY <1>3 DEF AcceptUpdate
  <2>2. /\ DOMAIN queue' = 1..(Len(queue) + 1)
        /\ \A i \in 1..Len(queue) : queue'[i] = queue[i]
        /\ queue'[Len(queue) + 1] = e
    BY <1>0, <2>1
  <2>3. \A i \in DOMAIN queue' : queue'[i].kind = "Update" <=> i = Len(queue) + 1
    BY <1>0, <2>1, <2>2
  <2>. QED
    BY <2>1, <2>2, <2>3, <1>0
<1>4. CASE Accept(e)
  <2>1. /\ queue' = Append(queue, e) /\ e.kind # "Update"
        /\ UNCHANGED <<generation, updateQueued, updateRunning>>
    BY <1>4 DEF Accept, flags
  <2>2. /\ DOMAIN queue' = 1..(Len(queue) + 1)
        /\ \A i \in 1..Len(queue) : queue'[i] = queue[i]
        /\ queue'[Len(queue) + 1] = e
    BY <1>0, <2>1
  <2>3. \A i \in DOMAIN queue' :
           queue'[i].kind = "Update" => i \in DOMAIN queue /\ queue[i].kind = "Update"
    BY <1>0, <2>1, <2>2
  <2>4. \A i \in DOMAIN queue : i \in DOMAIN queue' /\ queue'[i] = queue[i]
    BY <1>0, <2>2
  <2>. QED
    BY <2>1, <2>3, <2>4
<1>5. CASE Evict(e)
  <2>1. PICK k \in DOMAIN queue :
           /\ queue' = Append(RemoveAt(queue, k), e)
           /\ updateQueued' = (updateQueued /\ queue[k].kind # "Update")
    BY <1>5 DEF Evict
  <2>2. e.kind # "Update" /\ UNCHANGED <<generation, updateRunning>>
    BY <1>5 DEF Evict
  <2>. DEFINE rest == RemoveAt(queue, k)
  <2>3. rest \in Seq(Event) /\ k \in 1..Len(queue)
    BY <1>0, RemoveAtIsSeq
  <2>4. /\ Len(rest) = Len(queue) - 1
        /\ \A j \in 1..(Len(queue) - 1) : rest[j] = queue[IF j < k THEN j ELSE j + 1]
    <3>1. queue \in Seq(Event) /\ k \in DOMAIN queue
      BY <1>0
    <3>. QED
      BY ONLY <3>1, RemoveAtElements
  <2>5. queue' = Append(rest, e)
    BY <2>1
  <2>. HIDE DEF rest
  <2>6. /\ DOMAIN queue' = 1..Len(queue) /\ queue'[Len(queue)] = e
        /\ \A j \in 1..(Len(queue) - 1) : queue'[j] = rest[j]
    <3>1. Len(rest) + 1 = Len(queue)
      BY <1>0, <2>3, <2>4
    <3>2. /\ DOMAIN Append(rest, e) = 1..(Len(rest) + 1)
          /\ Append(rest, e)[Len(rest) + 1] = e
          /\ \A j \in 1..Len(rest) : Append(rest, e)[j] = rest[j]
      BY ONLY <2>3, e \in Event, AppendProperties, SMT
    <3>. QED
      BY ONLY <2>4, <2>5, <3>1, <3>2
  <2>7. \A j \in 1..(Len(queue) - 1) : queue'[j] = queue[IF j < k THEN j ELSE j + 1]
    BY <2>4, <2>6
  <2>8. ASSUME NEW i \in DOMAIN queue', queue'[i].kind = "Update"
        PROVE  i \in 1..(Len(queue) - 1) /\ queue[IF i < k THEN i ELSE i + 1].kind = "Update"
    BY <1>0, <2>2, <2>6, <2>7, <2>8
  <2>9. ASSUME NEW j \in DOMAIN queue, j # k
        PROVE  \E i \in DOMAIN queue' : queue'[i] = queue[j]
    <3>1. CASE j < k
      <4>1. j \in 1..(Len(queue) - 1) /\ j \in DOMAIN queue'
        BY <1>0, <2>3, <2>6, <3>1
      <4>2. queue'[j] = queue[j]
        BY <2>7, <3>1, <4>1
      <4>. QED
        BY <4>1, <4>2
    <3>2. CASE j > k
      <4>1. j - 1 \in 1..(Len(queue) - 1) /\ j - 1 \in DOMAIN queue' /\ ~(j - 1 < k)
            /\ (j - 1) + 1 = j
        BY <1>0, <2>3, <2>6, <3>2
      <4>2. queue'[j - 1] = queue[j]
        BY <2>7, <4>1
      <4>. QED
        BY <4>1, <4>2
    <3>. QED
      BY <1>0, <2>9, <3>1, <3>2
  <2>10. updateQueued' <=> \E i \in DOMAIN queue' : queue'[i].kind = "Update"
    <3>1. ASSUME updateQueued' PROVE \E i \in DOMAIN queue' : queue'[i].kind = "Update"
      <4>1. PICK j \in DOMAIN queue : queue[j].kind = "Update"
        BY <2>1, <3>1
      <4>2. j # k
        BY <2>1, <3>1, <4>1
      <4>. QED
        BY <2>9, <4>1, <4>2
    <3>2. ASSUME NEW i \in DOMAIN queue', queue'[i].kind = "Update" PROVE updateQueued'
      <4>1. /\ i \in 1..(Len(queue) - 1)
            /\ queue[IF i < k THEN i ELSE i + 1].kind = "Update"
        BY <2>8, <3>2
      <4>2. (IF i < k THEN i ELSE i + 1) \in DOMAIN queue /\ (IF i < k THEN i ELSE i + 1) # k
        BY <1>0, <2>3, <4>1
      <4>3. queue[k].kind # "Update" /\ updateQueued
        BY <4>1, <4>2
      <4>. QED
        BY <2>1, <4>3
    <3>. QED
      BY <3>1, <3>2, <2>1
  <2>11. ASSUME NEW i \in DOMAIN queue', NEW j \in DOMAIN queue',
                queue'[i].kind = "Update", queue'[j].kind = "Update"
         PROVE  i = j
    <3>. DEFINE at(n) == IF n < k THEN n ELSE n + 1
    <3>1. /\ i \in 1..(Len(queue) - 1) /\ queue[at(i)].kind = "Update"
          /\ j \in 1..(Len(queue) - 1) /\ queue[at(j)].kind = "Update"
      BY <2>8, <2>11
    <3>2. at(i) \in DOMAIN queue /\ at(j) \in DOMAIN queue
      BY <1>0, <2>3, <3>1
    <3>3. at(i) = at(j)
      BY <3>1, <3>2
    <3>. QED
      BY <1>0, <2>3, <3>1, <3>3
  <2>. QED
    BY <2>2, <2>10, <2>11
<1>6. CASE AcceptReload(e)
  <2>. DEFINE r == [e EXCEPT !.generation = generation + 1]
  <2>1. /\ queue' = <<r>> /\ generation' = generation + 1 /\ e.kind = "Reload"
        /\ updateQueued' = FALSE /\ updateRunning' = FALSE
    BY <1>6 DEF AcceptReload, Reloaded
  <2>2. r.kind = "Reload"
    BY <2>1 DEF Event
  <2>. HIDE DEF r
  <2>3. DOMAIN queue' = {1} /\ queue'[1] = r
    BY <2>1
  <2>4. \A w \in Worker : event[w].generation \in Nat
    BY DEF TypeOK, WorkerTypeOK, Event
  <2>5. \A w \in Worker : event'[w].generation # generation'
    BY <1>0, <2>1, <2>4
  <2>. QED
    BY <2>1, <2>2, <2>3, <2>5
<1>. QED
  BY <1>1, <1>2, <1>3, <1>4, <1>5, <1>6 DEF Enqueue

\* Every other step keeps the flags exact: they change where an Update is
\* taken from the queue and where the worker is done with it.
LEMMA FlagStep ==
    TypeOK /\ DrainInv /\ HostInv /\ UpdateFlagsExact /\ [Next]_vars => UpdateFlagsExact'
<1>. SUFFICES ASSUME TypeOK, DrainInv, HostInv, UpdateFlagsExact, [Next]_vars
              PROVE  UpdateFlagsExact'
  OBVIOUS
<1>0. /\ \A v, w \in Worker : pc[v] # "idle" /\ pc[w] # "idle" => v = w
      /\ pc \in [Worker -> {"idle", "pop", "run", "loaded", "settle", "post",
                            "exit", "halt"}]
      /\ event \in [Worker -> Event] /\ queue \in Seq(Event)
      /\ updateQueued \in BOOLEAN /\ updateRunning \in BOOLEAN
      /\ \A w \in Worker : event[w].generation <= generation
  BY DEF DrainInv, SingleDrain, Busy, TypeOK, WorkerTypeOK, LockedTypeOK, HostInv
<1>1. ASSUME NEW kind \in OfferKinds, NEW key \in Streams \union {None},
             Offer(kind, key)
      PROVE  UpdateFlagsExact'
  <2>. DEFINE e == [kind |-> kind, generation |-> generation,
                    serial |-> serial + 1, tag |-> key]
  <2>1. e \in Event
    BY RuntimeAssumption DEF RuntimeAssumption, TypeOK, LockedTypeOK, OwnerTypeOK,
                             Event
  <2>2. Enqueue(e) /\ UNCHANGED <<pc, event>>
    BY <1>1 DEF Offer, task
  <2>. QED
    BY <1>0, <2>1, <2>2, EnqueueFlags
<1>2. ASSUME NEW op \in inflight, Complete(op) PROVE UpdateFlagsExact'
  <2>. DEFINE e == [kind |-> op.kind, generation |-> generation,
                    serial |-> 0, tag |-> op]
  <2>1. e \in Event
    BY DEF TypeOK, LockedTypeOK, OwnerTypeOK, Event, Op
  <2>2. Enqueue(e) /\ UNCHANGED <<pc, event>>
    BY <1>2 DEF Complete, task
  <2>. QED
    BY <1>0, <2>1, <2>2, EnqueueFlags
<1>. USE DEF UpdateFlagsExact, Running
<1>3. CASE Stop
  <2>1. /\ DOMAIN queue' = {1} /\ queue'[1].kind = "Stop" /\ updateQueued' = FALSE
        /\ UNCHANGED <<updateRunning, pc, event, generation>>
    BY <1>3 DEF Stop, task
  <2>. QED
    BY <2>1
<1>4. CASE StopReturns \/ Deliver
  BY <1>4 DEF StopReturns, Deliver, locked, flags, task
<1>5. ASSUME NEW w \in Worker, Pop(w) PROVE UpdateFlagsExact'
  <2>1. /\ queue # <<>> /\ queue' = Tail(queue) /\ Head(queue) = queue[1]
        /\ 1 \in DOMAIN queue /\ Len(queue) \in Nat /\ pc[w] = "pop"
    BY <1>0, <1>5 DEF Pop
  <2>2. /\ UNCHANGED generation
        /\ event' = [event EXCEPT ![w] = queue[1]]
        /\ pc' = [pc EXCEPT ![w] = IF queue[1].kind = "Stop" THEN "exit" ELSE "run"]
        /\ updateQueued' = (updateQueued /\ queue[1].kind # "Update")
        /\ updateRunning' = (updateRunning \/ queue[1].kind = "Update")
    BY <1>5, <2>1 DEF Pop
  <2>3. /\ DOMAIN queue' = 1..(Len(queue) - 1)
        /\ \A i \in DOMAIN queue' : i + 1 \in DOMAIN queue /\ queue'[i] = queue[i + 1]
        /\ \A i \in DOMAIN queue : i = 1 \/ (i - 1 \in DOMAIN queue' /\ queue'[i - 1] = queue[i])
    BY <1>0, <2>1
  <2>4. ~updateRunning
    BY <1>0, <2>1
  <2>5. updateQueued' <=> \E i \in DOMAIN queue' : queue'[i].kind = "Update"
    <3>1. ASSUME updateQueued' PROVE \E i \in DOMAIN queue' : queue'[i].kind = "Update"
      <4>1. PICK j \in DOMAIN queue : queue[j].kind = "Update"
        BY <2>2, <3>1
      <4>2. j # 1
        BY <2>2, <3>1, <4>1
      <4>. QED
        BY <2>3, <4>1, <4>2
    <3>2. ASSUME NEW i \in DOMAIN queue', queue'[i].kind = "Update" PROVE updateQueued'
      <4>1. i + 1 \in DOMAIN queue /\ queue[i + 1].kind = "Update" /\ i + 1 # 1
        BY <2>1, <2>3, <3>2
      <4>2. updateQueued /\ queue[1].kind # "Update"
        BY <2>1, <4>1
      <4>. QED
        BY <2>2, <4>2
    <3>. QED
      BY <3>1, <3>2, <2>2
  <2>6. ASSUME NEW i \in DOMAIN queue', NEW j \in DOMAIN queue',
               queue'[i].kind = "Update", queue'[j].kind = "Update"
        PROVE  i = j
    <3>1. /\ i + 1 \in DOMAIN queue /\ queue[i + 1].kind = "Update"
          /\ j + 1 \in DOMAIN queue /\ queue[j + 1].kind = "Update"
      BY <2>3, <2>6
    <3>2. i + 1 = j + 1
      BY <3>1
    <3>. QED
      BY <2>3, <3>2
  <2>7. \A v \in Worker : v # w => pc'[v] = "idle"
    BY <1>0, <2>1, <2>2
  <2>8. event'[w] = queue[1] /\ pc'[w] = IF queue[1].kind = "Stop" THEN "exit" ELSE "run"
    BY <1>0, <2>2
  <2>9. updateRunning' <=> queue[1].kind = "Update"
    BY <1>0, <2>2, <2>4
  <2>. QED
    BY <2>5, <2>6, <2>7, <2>8, <2>9
<1>6. ASSUME NEW w \in Worker, Settle(w) PROVE UpdateFlagsExact'
  <2>1. /\ UNCHANGED <<queue, updateQueued, event, generation>> /\ pc[w] = "settle"
        /\ updateRunning' = (updateRunning /\ event[w].kind # "Update")
        /\ \E p \in {"pop", "post"} : pc' = [pc EXCEPT ![w] = p]
    BY <1>6 DEF Settle
  <2>2. \A v \in Worker : pc'[v] \notin {"run", "loaded", "settle"}
    BY <1>0, <2>1
  <2>3. ~updateRunning'
    BY <1>0, <2>1
  <2>. QED
    BY <2>1, <2>2, <2>3
<1>7. ASSUME NEW w \in Worker, Halt(w) PROVE UpdateFlagsExact'
  <2>1. /\ queue' = <<>> /\ UNCHANGED <<updateQueued, updateRunning, event, generation>>
        /\ pc[w] = "halt" /\ pc' = [pc EXCEPT ![w] = "idle"]
    BY <1>7 DEF Halt, flags
  <2>2. ~updateQueued
    <3>1. \A i \in DOMAIN queue : queue[i].kind = "Stop"
      BY <2>1 DEF DrainInv, StopInv
    <3>. QED
      BY <3>1
  <2>3. \A v \in Worker : pc'[v] = "idle"
    BY <1>0, <2>1
  <2>4. ~updateRunning
    BY <1>0, <2>1
  <2>. QED
    BY <2>1, <2>2, <2>3, <2>4
<1>8. ASSUME NEW w \in Worker, TakeTask(w) \/ DrainEnds(w) \/ PostResult(w) \/ ExitHost(w)
      PROVE  UpdateFlagsExact'
  <2>1. /\ UNCHANGED <<queue, updateQueued, updateRunning, event, generation>>
        /\ pc[w] \in {"idle", "pop", "post", "exit"}
        /\ \E p \in {"pop", "idle", "halt"} : pc' = [pc EXCEPT ![w] = p]
    BY <1>8 DEF TakeTask, DrainEnds, PostResult, ExitHost, locked, flags
  <2>2. \A v \in Worker : Running(v)' <=> Running(v)
    BY <1>0, <2>1
  <2>. QED
    BY <2>1, <2>2
<1>9. ASSUME NEW w \in Worker,
             Skip(w) \/ Run(w) \/ RefuseLoad(w) \/ LoadHost(w) \/ FirstUpdate(w)
      PROVE  UpdateFlagsExact'
  <2>1. /\ UNCHANGED <<queue, updateQueued, updateRunning, event, generation>>
        /\ pc[w] \in {"run", "loaded"}
        /\ \E p \in {"settle", "loaded"} : pc' = [pc EXCEPT ![w] = p]
    BY <1>9 DEF Skip, Run, RefuseLoad, LoadHost, FirstUpdate, locked, flags
  <2>2. \A v \in Worker : Running(v)' <=> Running(v)
    BY <1>0, <2>1
  <2>. QED
    BY <2>1, <2>2
<1>10. CASE UNCHANGED vars
  BY <1>10 DEF vars, locked, flags, task
<1>. QED
  BY <1>1, <1>2, <1>3, <1>4, <1>5, <1>6, <1>7, <1>8, <1>9, <1>10 DEF Next, Drain

\* What enqueue does to the hosts to come: a Load or Reload that it accepts
\* names a generation beyond all that were.
LEMMA EnqueueHosts ==
    ASSUME TypeOK, GenerationInv, HostInv, NEW e \in Event, e.generation = generation,
           Enqueue(e), UNCHANGED <<pc, event, host, exited>>
    PROVE  HostInv'
<1>. USE DEF HostInv, HasHost, Unborn
<1>0. /\ generation \in Nat /\ host.generation \in Nat /\ exited \subseteq Nat
      /\ queue \in Seq(Event) /\ \A w \in Worker : event[w].generation \in Nat
  BY DEF TypeOK, LockedTypeOK, WorkerTypeOK, Event
<1>1. CASE AcceptReload(e)
  <2>1. generation' = generation + 1
    BY <1>1 DEF AcceptReload
  <2>. QED
    BY <1>0, <2>1
<1>2. CASE ~AcceptReload(e)
  <2>1. UNCHANGED generation
    BY <1>2 DEF Enqueue, Refuse, Supersede, ThrottleUpdate, RefuseUpdate, AcceptUpdate,
                Accept, Evict, locked
  <2>2. ReloadAtHead' => ReloadAtHead
    <3>1. CASE Refuse(e) \/ ThrottleUpdate(e) \/ RefuseUpdate(e)
      <4>1. UNCHANGED queue
        BY <3>1 DEF Refuse, ThrottleUpdate, RefuseUpdate, locked
      <4>. QED
        BY <4>1 DEF ReloadAtHead
    <3>2. CASE Supersede(e)
      <4>1. PICK k \in DOMAIN queue : Superseded(e, k) /\ queue' = ReplaceAt(queue, k, e)
        BY <3>2 DEF Supersede
      <4>2. /\ DOMAIN queue' = DOMAIN queue /\ queue # <<>>
            /\ \A i \in DOMAIN queue : queue'[i].kind = queue[i].kind
        BY <1>0, <4>1 DEF ReplaceAt, Superseded
      <4>3. 1 \in DOMAIN queue
        BY <1>0, <4>2
      <4>. QED
        BY <4>2, <4>3 DEF ReloadAtHead
    <3>3. CASE AcceptUpdate(e) \/ Accept(e)
      <4>1. queue' = Append(queue, e) /\ e.kind # "Reload"
        BY <3>3 DEF AcceptUpdate, Accept
      <4>. QED
        BY <1>0, <4>1 DEF ReloadAtHead
    <3>4. CASE Evict(e)
      <4>1. e.kind # "Reload"
        BY <3>4 DEF Evict
      <4>2. ASSUME ReloadAtHead' PROVE ReloadAtHead
        <5>1. PICK k \in DOMAIN queue :
                 FirstEvictable(k) /\ queue' = Append(RemoveAt(queue, k), e)
          BY <3>4 DEF Evict
        <5>2. RemoveAt(queue, k) \in Seq(Event)
          BY <1>0, RemoveAtIsSeq
        <5>3. /\ Len(RemoveAt(queue, k)) = Len(queue) - 1
              /\ \A j \in 1..(Len(queue) - 1) :
                    RemoveAt(queue, k)[j] = queue[IF j < k THEN j ELSE j + 1]
          <6>1. queue \in Seq(Event) /\ k \in DOMAIN queue
            BY <1>0
          <6>. QED
            BY ONLY <6>1, RemoveAtElements
        <5>4. PICK rest : rest = RemoveAt(queue, k)
          OBVIOUS
        <5>5. /\ rest \in Seq(Event) /\ Len(rest) = Len(queue) - 1 /\ queue' = Append(rest, e)
              /\ \A j \in 1..(Len(queue) - 1) : rest[j] = queue[IF j < k THEN j ELSE j + 1]
          BY <5>1, <5>2, <5>3, <5>4
        <5>6. CASE Len(queue) = 1
          <6>1. queue'[1] = e
            BY <1>0, <5>5, <5>6
          <6>. QED
            BY <4>1, <4>2, <6>1 DEF ReloadAtHead
        <5>7. CASE Len(queue) > 1
          <6>1. queue'[1] = rest[1] /\ rest[1] = queue[IF 1 < k THEN 1 ELSE 2]
            BY <1>0, <5>5, <5>7
          <6>2. CASE 1 < k
            BY <1>0, <4>2, <5>7, <6>1, <6>2 DEF ReloadAtHead
          <6>3. CASE ~(1 < k)
            <7>1. 2 \in DOMAIN queue /\ queue[2].kind # "Reload"
              BY <1>0, <5>7 DEF GenerationInv
            <7>. QED
              BY <4>2, <6>1, <6>3, <7>1 DEF ReloadAtHead
          <6>. QED
            BY <6>2, <6>3
        <5>8. Len(queue) \in Nat /\ k \in 1..Len(queue)
          BY <1>0
        <5>9. Len(queue) = 1 \/ Len(queue) > 1
          BY ONLY <5>8
        <5>. QED
          BY ONLY <5>6, <5>7, <5>9
      <4>. QED
        BY <4>2
    <3>. QED
      BY <1>2, <3>1, <3>2, <3>3, <3>4 DEF Enqueue
  <2>. QED
    BY <2>1, <2>2
<1>. QED
  BY <1>1, <1>2

\* A script call does not change which host it runs on.
LEMMA CallKeepsHost ==
    ASSUME TypeOK, NEW w \in Worker, Run(w) \/ FirstUpdate(w)
    PROVE  host'.generation = host.generation
<1>. DEFINE h == IF event[w].kind \in CompletionKinds
                 THEN [host EXCEPT !.callbacks[event[w].tag.ref] = 0] ELSE host
<1>1. host \in Host /\ h \in Host /\ h.generation = host.generation
      /\ result \in [Worker -> ScriptResult]
  BY DEF TypeOK, WorkerTypeOK, Host
<1>2. CASE Run(w)
  <2>1. Call(w, h, {})
    BY <1>2 DEF Run
  <2>. QED
    BY <1>1, <2>1, CallNames
<1>3. CASE FirstUpdate(w)
  <2>1. CASE UNCHANGED host
    BY <2>1
  <2>2. CASE Call(w, host, result[w].sounds)
    BY <1>1, <2>2, CallNames
  <2>. QED
    BY <1>3, <2>1, <2>2 DEF FirstUpdate
<1>. QED
  BY <1>2, <1>3

\* Every step keeps a host's generation its own: a host that leaves is
\* remembered, and the one that follows is of a later Reload.
LEMMA HostStep ==
    TypeOK /\ DrainInv /\ GenerationInv /\ HostInv /\ [Next]_vars => HostInv'
<1>. SUFFICES ASSUME TypeOK, DrainInv, GenerationInv, HostInv, [Next]_vars PROVE HostInv'
  OBVIOUS
<1>0. /\ \A v, w \in Worker : pc[v] # "idle" /\ pc[w] # "idle" => v = w
      /\ pc \in [Worker -> {"idle", "pop", "run", "loaded", "settle", "post",
                            "exit", "halt"}]
      /\ event \in [Worker -> Event] /\ queue \in Seq(Event) /\ exited \subseteq Nat
      /\ generation \in Nat /\ host.generation \in Nat
      /\ \A w \in Worker : event[w].generation \in Nat
  BY DEF DrainInv, SingleDrain, Busy, TypeOK, WorkerTypeOK, LockedTypeOK, Event
<1>1. ASSUME NEW kind \in OfferKinds, NEW key \in Streams \union {None},
             Offer(kind, key)
      PROVE  HostInv'
  <2>. DEFINE e == [kind |-> kind, generation |-> generation,
                    serial |-> serial + 1, tag |-> key]
  <2>1. e \in Event /\ e.generation = generation
    BY RuntimeAssumption DEF RuntimeAssumption, TypeOK, LockedTypeOK, OwnerTypeOK,
                             Event
  <2>2. Enqueue(e) /\ UNCHANGED <<pc, event, host, exited>>
    BY <1>1 DEF Offer, task
  <2>. QED
    BY <2>1, <2>2, EnqueueHosts
<1>2. ASSUME NEW op \in inflight, Complete(op) PROVE HostInv'
  <2>. DEFINE e == [kind |-> op.kind, generation |-> generation,
                    serial |-> 0, tag |-> op]
  <2>1. e \in Event /\ e.generation = generation
    BY DEF TypeOK, LockedTypeOK, OwnerTypeOK, Event, Op
  <2>2. Enqueue(e) /\ UNCHANGED <<pc, event, host, exited>>
    BY <1>2 DEF Complete, task
  <2>. QED
    BY <2>1, <2>2, EnqueueHosts
<1>. USE DEF HostInv, Unborn, HasHost
<1>3. CASE Stop
  <2>1. ~ReloadAtHead' /\ UNCHANGED <<generation, host, exited, pc, event>>
    BY <1>3 DEF Stop, task, ReloadAtHead
  <2>. QED
    BY <2>1
<1>4. CASE StopReturns \/ Deliver
  BY <1>4 DEF StopReturns, Deliver, locked, task, ReloadAtHead
<1>5. ASSUME NEW w \in Worker, Pop(w) PROVE HostInv'
  <2>1. queue # <<>> /\ Head(queue) = queue[1] /\ queue' = Tail(queue) /\ pc[w] = "pop"
        /\ 1 \in DOMAIN queue
    BY <1>0, <1>5 DEF Pop
  <2>2. /\ UNCHANGED <<generation, host, exited>>
        /\ event' = [event EXCEPT ![w] = queue[1]]
        /\ pc' = [pc EXCEPT ![w] = IF queue[1].kind = "Stop" THEN "exit" ELSE "run"]
    BY <1>5, <2>1 DEF Pop
  <2>3. ~ReloadAtHead'
    <3>1. queue' # <<>> => 2 \in DOMAIN queue /\ queue'[1] = queue[2]
      BY <1>0, <2>1
    <3>2. 2 \in DOMAIN queue => queue[2].kind # "Reload"
      BY DEF GenerationInv
    <3>. QED
      BY <3>1, <3>2 DEF ReloadAtHead
  <2>4. queue[1].generation = generation
    BY <2>1 DEF GenerationInv
  <2>5. queue[1].kind = "Reload" => Unborn(generation)
    BY <2>1 DEF ReloadAtHead
  <2>6. \A v \in Worker : event'[v] = IF v = w THEN queue[1] ELSE event[v]
    BY <1>0, <2>2
  <2>7. \A v \in Worker : pc'[v] = "run" => v = w
    BY <1>0, <2>1, <2>2
  <2>8. \A v \in Worker : event'[v].generation <= generation'
    BY <1>0, <2>2, <2>4, <2>6
  <2>9. \A v \in Worker :
           pc'[v] = "run" /\ event'[v].kind = "Reload" => Unborn(event'[v].generation)
    BY <2>4, <2>5, <2>6, <2>7
  <2>. QED
    BY <2>2, <2>3, <2>8, <2>9
<1>6. ASSUME NEW w \in Worker,
             TakeTask(w) \/ DrainEnds(w) \/ Skip(w) \/ Settle(w) \/ PostResult(w) \/ Halt(w)
      PROVE  HostInv'
  <2>1. /\ UNCHANGED <<generation, host, exited, event>> /\ (ReloadAtHead' => ReloadAtHead)
        /\ \E p \in {"pop", "idle", "settle", "post"} : pc' = [pc EXCEPT ![w] = p]
    BY <1>6 DEF TakeTask, DrainEnds, Skip, Settle, PostResult, Halt, locked, ReloadAtHead
  <2>. QED
    BY <1>0, <2>1
<1>7. ASSUME NEW w \in Worker, Run(w) \/ FirstUpdate(w) PROVE HostInv'
  <2>1. host'.generation = host.generation
    BY <1>7, CallKeepsHost
  <2>2. /\ UNCHANGED <<generation, queue, exited, event>>
        /\ pc' = [pc EXCEPT ![w] = "settle"]
    BY <1>7 DEF Run, FirstUpdate
  <2>. QED
    BY <1>0, <2>1, <2>2 DEF ReloadAtHead
<1>8. ASSUME NEW w \in Worker, RefuseLoad(w) \/ ExitHost(w) PROVE HostInv'
  <2>1. /\ UNCHANGED <<generation, queue, event>> /\ host'.generation = 0
        /\ exited' = IF host.generation > 0 THEN exited \union {host.generation} ELSE exited
        /\ \E p \in {"settle", "halt"} : pc' = [pc EXCEPT ![w] = p]
        /\ pc[w] # "idle"
    BY <1>8 DEF RefuseLoad, ExitHost, Teardown, locked, NoHost
  <2>2. \A v \in Worker : pc'[v] # "run"
    BY <1>0, <2>1
  <2>3. ReloadAtHead' => ReloadAtHead
    BY <2>1 DEF ReloadAtHead
  <2>. QED
    BY <1>0, <2>1, <2>2, <2>3
<1>9. ASSUME NEW w \in Worker, LoadHost(w) PROVE HostInv'
  <2>1. host'.generation = event[w].generation
    BY <1>9 DEF LoadHost, Call, NoHost
  <2>2. /\ UNCHANGED <<generation, queue, event>> /\ pc[w] = "run"
        /\ event[w].kind = "Reload"
        /\ exited' = IF host.generation > 0 THEN exited \union {host.generation} ELSE exited
        /\ \E p \in {"settle", "loaded"} : pc' = [pc EXCEPT ![w] = p]
    BY <1>9 DEF LoadHost, Teardown
  <2>3. \A v \in Worker : pc'[v] # "run"
    BY <1>0, <2>2
  <2>4. Unborn(event[w].generation)
    BY <2>2
  <2>5. ReloadAtHead' => ReloadAtHead
    BY <2>2 DEF ReloadAtHead
  <2>6. \A x \in exited' : x < event[w].generation
    BY <1>0, <2>2, <2>4
  <2>7. event[w].generation \in Nat /\ event[w].generation <= generation
    BY <1>0
  <2>8. ReloadAtHead => event[w].generation < generation
    OBVIOUS
  <2>9. exited' \subseteq Nat
    BY <1>0, <2>2
  <2>. QED
    BY <1>0, <2>1, <2>2, <2>3, <2>5, <2>6, <2>7, <2>8, <2>9
<1>10. CASE UNCHANGED vars
  BY <1>10 DEF vars, locked, task, ReloadAtHead
<1>. QED
  BY <1>1, <1>2, <1>3, <1>4, <1>5, <1>6, <1>7, <1>8, <1>9, <1>10 DEF Next, Drain

\* Both in every behaviour.
LEMMA HostInvariant == Spec => [](HostInv /\ UpdateFlagsExact)
<1>1. Init => HostInv /\ UpdateFlagsExact
  BY DEF Init, HostInv, UpdateFlagsExact, HasHost, NoHost, NoEvent, ReloadAtHead, Unborn,
         Running
<1>2. TypeOK /\ DrainInv /\ (GenerationInv /\ ResultInv) /\ (HostInv /\ UpdateFlagsExact)
      /\ [Next]_vars => (HostInv /\ UpdateFlagsExact)'
  BY HostStep, FlagStep
<1>. QED
  BY <1>1, <1>2, TypeCorrect, DrainInvariant, GenerationInvariant, PTL DEF Spec

\* updateQueued and updateRunning are set exactly while an Update is queued or
\* run: the throttle of enqueue never stops a script's updates for good and
\* never lets two wait.
THEOREM FlagsAreExact == Spec => []UpdateFlagsExact
BY HostInvariant, PTL

\* A host is dropped only by a teardown that runs its onExit, and a host that
\* has run it is never the live one again (processLoad, drain).
THEOREM HostsLeaveOnce == Spec => HostLeavesByExit
<1>1. HostInv /\ TypeOK /\ [Next]_vars
      => [/\ HasHost /\ host'.generation # host.generation
                => exited' = exited \union {host.generation}
          /\ HasHost => host.generation \notin exited]_vars
  <2>. SUFFICES ASSUME HostInv, TypeOK, Next, HasHost
                PROVE  /\ host'.generation # host.generation
                          => exited' = exited \union {host.generation}
                       /\ host.generation \notin exited
    OBVIOUS
  <2>1. host.generation \notin exited
    BY DEF HostInv
  <2>2. ASSUME host'.generation # host.generation
        PROVE  exited' = exited \union {host.generation}
    <3>1. PICK w \in Worker : RefuseLoad(w) \/ LoadHost(w) \/ ExitHost(w)
      BY <2>2, CallKeepsHost DEF Next, Drain, Offer, Complete, Stop, StopReturns, Deliver,
           TakeTask, DrainEnds, Pop, Skip, Settle, PostResult, Halt
    <3>. QED
      BY <3>1 DEF RefuseLoad, LoadHost, ExitHost, Teardown
  <2>. QED
    BY <2>1, <2>2
<1>. QED
  BY <1>1, TypeCorrect, HostInvariant, PTL DEF Spec, HostLeavesByExit

----------------------------------------------------------------------------

\* The requests in the queue keep the order in which they were accepted: what
\* enqueue adds is younger than all that is there, or takes the place of its
\* predecessor in a stream.
LEMMA EnqueueRequests ==
    ASSUME TypeOK, RequestInv, NEW e \in Event, Enqueue(e), serial' >= serial,
           serial' \in Nat,
           e.kind \in OwnerKinds => e.serial > serial /\ e.serial <= serial'
    PROVE  RequestInv'
<1>a. \A x \in Event : x.serial \in Nat
  BY DEF Event
<1>b. queue \in Seq(Event) /\ serial \in Nat /\ MaxQueuedEvents \in Nat
  BY RuntimeAssumption DEF RuntimeAssumption, TypeOK, LockedTypeOK, OwnerTypeOK
<1>0. /\ Len(queue) \in Nat /\ DOMAIN queue = 1..Len(queue) /\ queue \in Seq(Event)
      /\ serial \in Nat /\ e.serial \in Nat /\ MaxQueuedEvents \in Nat
      /\ \A i \in DOMAIN queue : queue[i].serial \in Nat
  BY ONLY <1>a, <1>b, e \in Event
<1>. USE DEF RequestInv, QueueDiscipline
<1>1. queue' \in Seq(Event)
  BY EnqueueType DEF TypeOK, LockedTypeOK
<1>2. OnePerStream
  BY DEF OnePerStream
<1>3. PICK from : Origins(e, queue, queue', from)
  BY <1>2, EnqueueOrigins
<1>4. PICK new : new = queue'
  OBVIOUS
<1>5. /\ Origins(e, queue, new, from) /\ new \in Seq(Event)
      /\ DOMAIN new = 1..Len(new) /\ Len(new) \in Nat
  BY <1>1, <1>3, <1>4
<1>6. Cardinality(Counted(new)) <= MaxQueuedEvents
  <2>1. Cardinality(Counted(queue)) <= MaxQueuedEvents
    BY DEF Counted
  <2>. QED
    BY <1>0, <1>5, <2>1, OriginsBounded
<1>7. ASSUME NEW i \in DOMAIN new, new[i].kind \in OwnerKinds
      PROVE  /\ new[i].serial <= serial'
             /\ from[i] # 0 => new[i].serial <= serial
             /\ from[i] = 0 => new[i].serial > serial
  <2>1. CASE from[i] = 0
    BY <1>5, <1>7, <2>1 DEF Origins
  <2>2. CASE from[i] # 0
    <3>1. from[i] \in DOMAIN queue /\ new[i] = queue[from[i]]
      BY <1>0, <1>5, <2>2 DEF Origins
    <3>2. new[i].serial <= serial /\ new[i].serial \in Nat
      BY <1>0, <1>7, <3>1
    <3>. QED
      BY <1>0, <2>2, <3>2
  <2>. QED
    BY <2>1, <2>2
<1>8. ASSUME NEW i \in DOMAIN new, NEW j \in DOMAIN new, i < j
      PROVE  /\ ~(new[i].kind = "Stream" /\ new[j].kind = "Stream" /\ new[j].tag = new[i].tag)
             /\ {new[i].kind, new[j].kind} \subseteq OwnerKinds \ {"Stream"}
                => new[i].serial < new[j].serial
  <2>0. /\ from[i] = 0 => from[j] # 0 /\ e.kind = "Stream"
        /\ from[i] # 0 => from[j] = 0 \/ from[i] < from[j]
    BY <1>5, <1>8 DEF Origins
  <2>1. CASE from[i] = 0
    <3>1. /\ from[j] \in DOMAIN queue /\ new[j] = queue[from[j]]
          /\ new[i].kind = "Stream" /\ new[i].tag = e.tag
      BY <1>0, <1>5, <2>0, <2>1 DEF Origins
    <3>2. queue[from[j]].kind = "Stream" => queue[from[j]].tag # e.tag
      BY <1>5, <2>0, <2>1 DEF Origins
    <3>. QED
      BY <3>1, <3>2
  <2>2. CASE from[i] # 0 /\ from[j] = 0
    <3>1. /\ from[i] \in DOMAIN queue /\ new[i] = queue[from[i]]
          /\ new[j].kind = e.kind /\ new[j].tag = e.tag
      BY <1>0, <1>5, <2>2 DEF Origins
    <3>2. e.kind = "Stream" /\ queue[from[i]].kind = "Stream"
          => queue[from[i]].tag # e.tag
      BY <1>5, <2>2 DEF Origins
    <3>3. new[i].serial \in Nat /\ new[j].serial \in Nat
      BY ONLY <1>a, <1>5
    <3>4. ASSUME new[i].kind \in OwnerKinds, new[j].kind \in OwnerKinds
          PROVE  new[i].serial < new[j].serial
      <4>1. new[i].serial <= serial /\ new[j].serial > serial
        BY <1>7, <2>2, <3>4
      <4>. QED
        BY ONLY <1>0, <3>3, <4>1
    <3>. QED
      BY <3>1, <3>2, <3>4
  <2>3. CASE from[i] # 0 /\ from[j] # 0
    <3>1. /\ from[i] \in DOMAIN queue /\ new[i] = queue[from[i]]
          /\ from[j] \in DOMAIN queue /\ new[j] = queue[from[j]]
          /\ from[i] < from[j]
      BY <1>0, <1>5, <2>0, <2>3 DEF Origins
    <3>. QED
      BY <3>1 DEF Superseded
  <2>. QED
    BY <2>1, <2>2, <2>3
<1>9. /\ \A i, j \in DOMAIN queue' :
            i < j => /\ ~Superseded(queue[i], j)'
                     /\ {queue'[i].kind, queue'[j].kind} \subseteq OwnerKinds \ {"Stream"}
                        => queue'[i].serial < queue'[j].serial
  BY <1>4, <1>8 DEF Superseded
<1>10. \A i \in DOMAIN queue' : queue'[i].kind \in OwnerKinds => queue'[i].serial <= serial'
  BY <1>4, <1>7
<1>11. Cardinality({i \in DOMAIN queue' : queue'[i].kind # "Sound"}) <= MaxQueuedEvents
  BY <1>4, <1>6 DEF Counted
<1>. QED
  BY <1>9, <1>10, <1>11

\* Taking the first event leaves the discipline of the rest.
LEMMA TailRequests ==
    ASSUME TypeOK, RequestInv, queue # <<>>, queue' = Tail(queue), UNCHANGED serial
    PROVE  RequestInv'
<1>. USE DEF RequestInv, QueueDiscipline
<1>0. /\ Len(queue) \in Nat /\ DOMAIN queue = 1..Len(queue) /\ queue \in Seq(Event)
      /\ MaxQueuedEvents \in Nat
  BY RuntimeAssumption DEF RuntimeAssumption, TypeOK, LockedTypeOK
<1>1. /\ DOMAIN queue' = 1..(Len(queue) - 1)
      /\ \A i \in DOMAIN queue' : i + 1 \in DOMAIN queue /\ queue'[i] = queue[i + 1]
  BY <1>0
<1>2. PICK new : new = queue'
  OBVIOUS
<1>3. Cardinality(Counted(new)) <= MaxQueuedEvents
  <2>. DEFINE m == [i \in Counted(new) |-> i + 1]
  <2>1. m \in [Counted(new) -> Counted(queue)]
    BY <1>1, <1>2 DEF Counted
  <2>2. \A i, j \in Counted(new) : i # j => m[i] # m[j]
    BY <1>1, <1>2 DEF Counted
  <2>. HIDE DEF m
  <2>3. m \in Injection(Counted(new), Counted(queue))
    BY <2>1, <2>2 DEF Injection, IsInjective
  <2>4. IsFiniteSet(Counted(queue))
    <3>1. IsFiniteSet(1..Len(queue))
      BY <1>0, FS_Interval
    <3>2. Counted(queue) \in SUBSET (1..Len(queue))
      BY <1>0 DEF Counted
    <3>. QED
      BY <3>1, <3>2, FS_Subset
  <2>5. /\ IsFiniteSet(Counted(new))
        /\ Cardinality(Counted(new)) <= Cardinality(Counted(queue))
    BY <2>3, <2>4, FS_Injection
  <2>6. Cardinality(Counted(new)) \in Nat /\ Cardinality(Counted(queue)) \in Nat
    BY <2>4, <2>5, FS_CardinalityType
  <2>7. Cardinality(Counted(queue)) <= MaxQueuedEvents
    BY DEF Counted
  <2>. QED
    BY <1>0, <2>5, <2>6, <2>7
<1>4. \A i, j \in DOMAIN queue' :
         i < j => /\ ~Superseded(queue[i], j)'
                  /\ {queue'[i].kind, queue'[j].kind} \subseteq OwnerKinds \ {"Stream"}
                     => queue'[i].serial < queue'[j].serial
  <2>. SUFFICES ASSUME NEW i \in DOMAIN queue', NEW j \in DOMAIN queue', i < j
                PROVE  /\ ~Superseded(queue[i], j)'
                       /\ {queue'[i].kind, queue'[j].kind} \subseteq OwnerKinds \ {"Stream"}
                          => queue'[i].serial < queue'[j].serial
    OBVIOUS
  <2>1. /\ i + 1 \in DOMAIN queue /\ queue'[i] = queue[i + 1]
        /\ j + 1 \in DOMAIN queue /\ queue'[j] = queue[j + 1] /\ i + 1 < j + 1
    BY <1>1
  <2>. QED
    BY <2>1 DEF Superseded
<1>5. \A i \in DOMAIN queue' : queue'[i].kind \in OwnerKinds => queue'[i].serial <= serial'
  BY <1>1
<1>6. Cardinality({i \in DOMAIN queue' : queue'[i].kind # "Sound"}) <= MaxQueuedEvents
  BY <1>2, <1>3 DEF Counted
<1>. QED
  BY <1>4, <1>5, <1>6

\* Every step keeps the discipline of the queue.
LEMMA RequestStep == TypeOK /\ RequestInv /\ [Next]_vars => RequestInv'
<1>. SUFFICES ASSUME TypeOK, RequestInv, [Next]_vars PROVE RequestInv'
  OBVIOUS
<1>0. serial \in Nat /\ MaxQueuedEvents \in Nat \ {0}
  BY RuntimeAssumption DEF RuntimeAssumption, TypeOK, OwnerTypeOK
<1>1. ASSUME NEW kind \in OfferKinds, NEW key \in Streams \union {None},
             Offer(kind, key)
      PROVE  RequestInv'
  <2>. DEFINE e == [kind |-> kind, generation |-> generation,
                    serial |-> serial + 1, tag |-> key]
  <2>1. e \in Event
    BY RuntimeAssumption DEF RuntimeAssumption, TypeOK, LockedTypeOK, OwnerTypeOK,
                             Event
  <2>2. Enqueue(e) /\ serial' = serial + 1
    BY <1>1 DEF Offer
  <2>3. e.serial > serial /\ e.serial <= serial' /\ serial' >= serial /\ serial' \in Nat
    BY <1>0, <2>2
  <2>. QED
    BY <2>1, <2>2, <2>3, EnqueueRequests
<1>2. ASSUME NEW op \in inflight, Complete(op) PROVE RequestInv'
  <2>. DEFINE e == [kind |-> op.kind, generation |-> generation,
                    serial |-> 0, tag |-> op]
  <2>1. e \in Event /\ e.kind \notin OwnerKinds
    BY DEF TypeOK, LockedTypeOK, OwnerTypeOK, Event, Op, CompletionKinds, OwnerKinds
  <2>2. Enqueue(e) /\ serial' = serial
    BY <1>2 DEF Complete, owner
  <2>3. serial' >= serial /\ serial' \in Nat
    BY <1>0, <2>2
  <2>. QED
    BY <2>1, <2>2, <2>3, EnqueueRequests
<1>3. ASSUME NEW w \in Worker, Pop(w) PROVE RequestInv'
  BY <1>3, TailRequests DEF Pop, owner
<1>4. CASE Stop
  <2>. DEFINE stop == [kind |-> "Stop", generation |-> generation,
                       serial |-> 0, tag |-> None]
  <2>1. queue' = <<stop>> /\ UNCHANGED serial
    BY <1>4 DEF Stop
  <2>2. DOMAIN queue' = {1} /\ queue'[1].kind = "Stop"
    BY <2>1
  <2>3. {i \in DOMAIN queue' : queue'[i].kind # "Sound"} = {1}
    BY <2>2
  <2>4. Cardinality({1}) = 1
    BY FS_Singleton
  <2>5. Cardinality({i \in DOMAIN queue' : queue'[i].kind # "Sound"}) <= MaxQueuedEvents
    BY <1>0, <2>3, <2>4
  <2>6. "Stop" \notin OwnerKinds
    BY DEF OwnerKinds
  <2>. QED
    BY <2>2, <2>5, <2>6 DEF RequestInv, QueueDiscipline
<1>5. ASSUME NEW w \in Worker, Halt(w) PROVE RequestInv'
  <2>1. DOMAIN queue' = {}
    BY <1>5 DEF Halt
  <2>2. {i \in DOMAIN queue' : queue'[i].kind # "Sound"} = {}
    BY <2>1
  <2>3. Cardinality({}) = 0
    BY FS_EmptySet
  <2>4. Cardinality({i \in DOMAIN queue' : queue'[i].kind # "Sound"}) <= MaxQueuedEvents
    BY <1>0, <2>2, <2>3
  <2>. QED
    BY <2>1, <2>4 DEF RequestInv, QueueDiscipline
<1>6. CASE UNCHANGED <<queue, serial>>
  BY <1>6 DEF RequestInv, QueueDiscipline, Superseded
<1>7. CASE StopReturns \/ Deliver
  BY <1>6, <1>7 DEF StopReturns, Deliver, locked
<1>8. ASSUME NEW w \in Worker,
             \/ TakeTask(w) \/ DrainEnds(w) \/ Skip(w) \/ Run(w) \/ RefuseLoad(w) \/ LoadHost(w)
             \/ FirstUpdate(w) \/ Settle(w) \/ PostResult(w) \/ ExitHost(w)
      PROVE  RequestInv'
  BY <1>6, <1>8 DEF TakeTask, DrainEnds, Skip, Run, RefuseLoad, LoadHost, FirstUpdate,
                    Settle, PostResult, ExitHost, locked, owner
<1>9. CASE UNCHANGED vars
  BY <1>6, <1>9 DEF vars, locked, owner
<1>. QED
  BY <1>1, <1>2, <1>3, <1>4, <1>5, <1>7, <1>8, <1>9 DEF Next, Drain

LEMMA RequestInvariant == Spec => []RequestInv
<1>1. Init => RequestInv
  <2>. SUFFICES ASSUME Init PROVE RequestInv
    OBVIOUS
  <2>1. DOMAIN queue = {}
    BY DEF Init
  <2>2. {i \in DOMAIN queue : queue[i].kind # "Sound"} = {}
    BY <2>1
  <2>3. Cardinality({i \in DOMAIN queue : queue[i].kind # "Sound"}) <= MaxQueuedEvents
    BY <2>2, FS_EmptySet, RuntimeAssumption DEF RuntimeAssumption
  <2>. QED
    BY <2>1, <2>3 DEF RequestInv, QueueDiscipline
<1>2. TypeOK /\ RequestInv /\ [Next]_vars => RequestInv'
  BY RequestStep
<1>. QED
  BY <1>1, <1>2, TypeCorrect, PTL DEF Spec

\* Whatever is offered and completed, in whatever order, the mailbox holds at
\* most kMaxQueuedEvents events besides sounds, one for each coalescing stream,
\* and the requests in the order in which they were accepted (enqueue).
THEOREM MailboxInOrder == Spec => []QueueDiscipline
<1>1. RequestInv => QueueDiscipline
  BY DEF RequestInv
<1>. QED
  BY <1>1, RequestInvariant, PTL

----------------------------------------------------------------------------

\* Fewer operations fit as well.
LEMMA FitLess ==
    ASSUME NEW L, NEW M \in SUBSET L, NEW n, NEW gone, NEW h, Fit(L, n, gone, h)
    PROVE  Fit(M, n, gone, h)
BY DEF Fit

\* When a host goes, with its onExit, its operations are of hosts that are gone;
\* a host that follows is none of those.
LEMMA FitLater ==
    ASSUME NEW L, NEW n, NEW gone, NEW h, NEW gone1, NEW h1, Fit(L, n, gone, h),
           gone \subseteq gone1, h.generation > 0 => h.generation \in gone1,
           h1.generation > 0 => h1.generation \notin gone1
    PROVE  Fit(L, n, gone1, h1)
BY DEF Fit

\* A worker that drains is the only one that can hold operations.
LEMMA OneHolder ==
    ASSUME NEW p, NEW r, NEW e, NEW w \in Worker, \A v \in Worker : v # w => p[v] = "idle"
    PROVE  /\ UNION {r[u].sounds : u \in {v \in Worker : p[v] \in {"loaded", "settle", "post"}}}
              = IF p[w] \in {"loaded", "settle", "post"} THEN r[w].sounds ELSE {}
           /\ {e[u].tag : u \in {v \in Worker : p[v] = "run" /\ e[v].kind \in CompletionKinds}}
              = IF p[w] = "run" /\ e[w].kind \in CompletionKinds THEN {e[w].tag} ELSE {}
OBVIOUS

\* What its operations are before a step of the worker that drains, and after.
LEMMA HoldsNow ==
    ASSUME NEW w \in Worker, \A v \in Worker : v # w => pc[v] = "idle"
    PROVE  /\ Held = IF pc[w] \in {"loaded", "settle", "post"} THEN result[w].sounds ELSE {}
           /\ InHand = IF pc[w] = "run" /\ event[w].kind \in CompletionKinds
                       THEN {event[w].tag} ELSE {}
BY OneHolder DEF Held, InHand

LEMMA HoldsNext ==
    ASSUME NEW w \in Worker, \A v \in Worker : v # w => pc'[v] = "idle"
    PROVE  /\ Held' = IF pc'[w] \in {"loaded", "settle", "post"} THEN result'[w].sounds ELSE {}
           /\ InHand' = IF pc'[w] = "run" /\ event'[w].kind \in CompletionKinds
                        THEN {event'[w].tag} ELSE {}
<1>1. PICK p, r, e : p = pc' /\ r = result' /\ e = event'
  OBVIOUS
<1>2. \A v \in Worker : v # w => p[v] = "idle"
  BY <1>1
<1>3. /\ UNION {r[u].sounds : u \in {v \in Worker : p[v] \in {"loaded", "settle", "post"}}}
         = IF p[w] \in {"loaded", "settle", "post"} THEN r[w].sounds ELSE {}
      /\ {e[u].tag : u \in {v \in Worker : p[v] = "run" /\ e[v].kind \in CompletionKinds}}
         = IF p[w] = "run" /\ e[w].kind \in CompletionKinds THEN {e[w].tag} ELSE {}
  BY <1>2, OneHolder
<1>. QED
  BY <1>1, <1>3 DEF Held, InHand

OneEach ==
    \A i, j \in DOMAIN queue :
       /\ queue[i].kind \in CompletionKinds /\ queue[j].kind \in CompletionKinds
       /\ queue[i].tag = queue[j].tag
       => i = j

\* Enqueue adds at most the operation whose completion it is given.
LEMMA EnqueueOps ==
    ASSUME TypeOK, OnePerStream, OneEach, NEW e \in Event, Enqueue(e),
           e.kind \in CompletionKinds => e.tag \notin Queued
    PROVE  /\ OneEach'
           /\ Queued' \subseteq
                 Queued \union (IF e.kind \in CompletionKinds THEN {e.tag} ELSE {})
<1>0. Len(queue) \in Nat /\ DOMAIN queue = 1..Len(queue)
  BY DEF TypeOK, LockedTypeOK
<1>1. PICK from : Origins(e, queue, queue', from)
  BY EnqueueOrigins
<1>2. PICK new : new = queue'
  OBVIOUS
<1>3. Origins(e, queue, new, from)
  BY <1>1, <1>2
<1>4. new \in Seq(Event)
  BY <1>2, EnqueueType DEF TypeOK, LockedTypeOK
<1>5. Len(new) \in Nat /\ DOMAIN new = 1..Len(new)
  BY <1>4
<1>6. ASSUME NEW i \in DOMAIN new, from[i] = 0
      PROVE  new[i].kind = e.kind /\ new[i].tag = e.tag
  BY <1>3, <1>6 DEF Origins
<1>7. ASSUME NEW i \in DOMAIN new, from[i] # 0
      PROVE  from[i] \in DOMAIN queue /\ new[i] = queue[from[i]]
  BY <1>0, <1>3, <1>7 DEF Origins
<1>8. \A i, j \in DOMAIN new : i # j => from[i] # from[j]
  <2>. SUFFICES ASSUME NEW i \in DOMAIN new, NEW j \in DOMAIN new, i < j
                PROVE  from[i] # from[j]
    BY <1>5
  <2>. QED
    BY <1>0, <1>3, <1>7 DEF Origins
<1>9. ASSUME NEW i \in DOMAIN new, NEW j \in DOMAIN new,
             new[i].kind \in CompletionKinds, new[j].kind \in CompletionKinds,
             new[i].tag = new[j].tag
      PROVE  i = j
  <2>1. CASE from[i] # 0 /\ from[j] # 0
    <3>1. from[i] = from[j]
      BY <1>7, <1>9, <2>1 DEF OneEach
    <3>. QED
      BY <1>8, <3>1
  <2>2. CASE from[i] = 0 /\ from[j] = 0
    BY <1>8, <2>2
  <2>3. CASE from[i] = 0 /\ from[j] # 0
    <3>1. queue[from[j]].tag \in Queued
      BY <1>7, <1>9, <2>3 DEF Queued
    <3>. QED
      BY <1>6, <1>7, <1>9, <2>3, <3>1
  <2>4. CASE from[i] # 0 /\ from[j] = 0
    <3>1. queue[from[i]].tag \in Queued
      BY <1>7, <1>9, <2>4 DEF Queued
    <3>. QED
      BY <1>6, <1>7, <1>9, <2>4, <3>1
  <2>. QED
    BY <2>1, <2>2, <2>3, <2>4
<1>10. ASSUME NEW i \in DOMAIN new, new[i].kind \in CompletionKinds
       PROVE  new[i].tag \in Queued \/ (e.kind \in CompletionKinds /\ new[i].tag = e.tag)
  <2>1. CASE from[i] = 0
    BY <1>6, <1>10, <2>1
  <2>2. CASE from[i] # 0
    BY <1>7, <1>10, <2>2 DEF Queued
  <2>. QED
    BY <2>1, <2>2
<1>11. OneEach'
  BY <1>2, <1>9 DEF OneEach
<1>12. Queued' \subseteq
          Queued \union (IF e.kind \in CompletionKinds THEN {e.tag} ELSE {})
  <2>. SUFFICES ASSUME NEW x \in Queued'
                PROVE  x \in Queued \/ (e.kind \in CompletionKinds /\ x = e.tag)
    OBVIOUS
  <2>1. PICK i \in DOMAIN new : new[i].kind \in CompletionKinds /\ x = new[i].tag
    BY <1>2 DEF Queued
  <2>. QED
    BY <1>10, <2>1
<1>. QED
  BY <1>11, <1>12

\* The first event taken, the operations of the rest are what is left.
LEMMA TailOps ==
    ASSUME TypeOK, OneEach, queue # <<>>, queue' = Tail(queue)
    PROVE  /\ OneEach'
           /\ Queued' \subseteq Queued
           /\ queue[1].kind \in CompletionKinds
              => queue[1].tag \in Queued /\ queue[1].tag \notin Queued'
<1>0. /\ Len(queue) \in Nat /\ DOMAIN queue = 1..Len(queue) /\ queue \in Seq(Event)
      /\ 1 \in DOMAIN queue
  BY DEF TypeOK, LockedTypeOK
<1>1. /\ DOMAIN queue' = 1..(Len(queue) - 1)
      /\ \A i \in DOMAIN queue' : i + 1 \in DOMAIN queue /\ queue'[i] = queue[i + 1]
  BY <1>0
<1>2. OneEach'
  <2>. SUFFICES ASSUME NEW i \in DOMAIN queue', NEW j \in DOMAIN queue',
                       queue'[i].kind \in CompletionKinds, queue'[j].kind \in CompletionKinds,
                       queue'[i].tag = queue'[j].tag
                PROVE  i = j
    BY DEF OneEach
  <2>1. i + 1 = j + 1
    BY <1>1 DEF OneEach
  <2>. QED
    BY <1>1, <2>1
<1>3. ASSUME NEW x \in Queued'
      PROVE  \E i \in DOMAIN queue :
                i > 1 /\ queue[i].kind \in CompletionKinds /\ x = queue[i].tag
  <2>1. PICK i \in DOMAIN queue' : queue'[i].kind \in CompletionKinds /\ x = queue'[i].tag
    BY <1>3 DEF Queued
  <2>2. i + 1 \in DOMAIN queue /\ queue'[i] = queue[i + 1] /\ i + 1 > 1
    BY <1>0, <1>1
  <2>. QED
    BY <2>1, <2>2
<1>4. Queued' \subseteq Queued
  BY <1>3 DEF Queued
<1>5. ASSUME queue[1].kind \in CompletionKinds
      PROVE  queue[1].tag \in Queued /\ queue[1].tag \notin Queued'
  <2>1. queue[1].tag \in Queued
    BY <1>0, <1>5 DEF Queued
  <2>2. queue[1].tag \notin Queued'
    <3>. SUFFICES ASSUME queue[1].tag \in Queued' PROVE FALSE
      OBVIOUS
    <3>1. PICK i \in DOMAIN queue :
             i > 1 /\ queue[i].kind \in CompletionKinds /\ queue[1].tag = queue[i].tag
      BY <1>3
    <3>. QED
      BY <1>0, <1>5, <3>1 DEF OneEach
  <2>. QED
    BY <2>1, <2>2
<1>. QED
  BY <1>2, <1>4, <1>5

\* What a script call may start: one operation, new, for a slot that is free.
Starts(w, h, earlier, started) ==
    /\ \A s \in started :
          s.id = ops + 1 /\ s.host = h.generation /\ h.callbacks[s.ref] = 0
    /\ \A s, t \in started : s = t
    /\ ops' = IF started = {} THEN ops ELSE ops + 1
    /\ host'.generation = h.generation
    /\ \A r \in Ref : host'.callbacks[r] =
          IF \E s \in started : s.ref = r THEN ops + 1 ELSE h.callbacks[r]
    /\ inflight' = inflight \union {s \in started : s.kind = "Async"}
    /\ result'[w].sounds = earlier \union {s \in started : s.kind = "Sound"}

LEMMA CallStarts ==
    ASSUME TypeOK, NEW w \in Worker, NEW h \in Host, NEW earlier, Call(w, h, earlier)
    PROVE  \E started \in SUBSET Op : Starts(w, h, earlier, started)
<1>1. PICK started \in {{}} \union {{op} : op \in Startable(h)} :
         /\ ops' = IF started = {} THEN ops ELSE ops + 1
         /\ host' = [h EXCEPT !.callbacks =
                       [r \in Ref |-> IF \E op \in started : op.ref = r
                                      THEN ops + 1 ELSE h.callbacks[r]]]
         /\ inflight' = inflight \union {op \in started : op.kind = "Async"}
         /\ result' = [result EXCEPT ![w] =
                         [generation |-> event[w].generation, by |-> h.generation,
                          serial |-> event[w].serial,
                          sounds |-> earlier \union
                                       {op \in started : op.kind = "Sound"}]]
  BY DEF Call
<1>2. started \in SUBSET Op
  <2>1. Startable(h) \subseteq Op
    BY StartableIsOp DEF TypeOK, OwnerTypeOK
  <2>. QED
    BY <1>1, <2>1
<1>3. \A s \in started :
         s.id = ops + 1 /\ s.host = h.generation /\ h.callbacks[s.ref] = 0
  <2>. TAKE s \in started
  <2>1. s \in Startable(h)
    BY <1>1
  <2>. QED
    BY <2>1 DEF Startable
<1>4. \A s, t \in started : s = t
  BY <1>1
<1>5. result'[w].sounds = earlier \union {s \in started : s.kind = "Sound"}
  BY <1>1 DEF TypeOK, WorkerTypeOK
<1>6. /\ host'.generation = h.generation
      /\ \A r \in Ref : host'.callbacks[r] =
            IF \E s \in started : s.ref = r THEN ops + 1 ELSE h.callbacks[r]
  BY <1>1 DEF Host
<1>. QED
  BY <1>1, <1>2, <1>3, <1>4, <1>5, <1>6 DEF Starts

\* So the operations fit the host after the call, if those that stay fit the
\* host on which it is made.
LEMMA CallOps ==
    ASSUME TypeOK, NEW w \in Worker, NEW h \in Host, h.generation > 0, NEW earlier,
           Call(w, h, earlier), NEW gone,
           Apart(inflight, earlier, Posted, Queued, {}),
           Fit(inflight \union earlier \union Posted \union Queued, ops, gone, h)
    PROVE  /\ Apart(inflight', result'[w].sounds, Posted, Queued, {})
           /\ Fit(inflight' \union result'[w].sounds \union Posted \union Queued,
                  ops', gone, host')
<1>. DEFINE L == inflight \union earlier \union Posted \union Queued
<1>0. PICK started \in SUBSET Op : Starts(w, h, earlier, started)
  BY CallStarts
<1>1. /\ \A s \in started :
               s.id = ops + 1 /\ s.host = h.generation /\ h.callbacks[s.ref] = 0
      /\ \A s, t \in started : s = t
      /\ ops' = IF started = {} THEN ops ELSE ops + 1
      /\ host'.generation = h.generation
      /\ \A r \in Ref : host'.callbacks[r] =
            IF \E s \in started : s.ref = r THEN ops + 1 ELSE h.callbacks[r]
      /\ inflight' = inflight \union {s \in started : s.kind = "Async"}
      /\ result'[w].sounds = earlier \union {s \in started : s.kind = "Sound"}
  BY <1>0 DEF Starts
<1>2. ops \in Nat /\ ops' \in Nat /\ ops <= ops'
  BY <1>1 DEF TypeOK, OwnerTypeOK
<1>3. L \subseteq Op /\ \A o \in L : o.id \in 1..ops /\ o.ref \in Ref
  BY DEF Fit, Op
<1>4. \A s \in started : s \notin L
  BY <1>1, <1>2, <1>3
<1>5. Apart(inflight', result'[w].sounds, Posted, Queued, {})
  <2>1. \A s \in started : s \notin inflight /\ s \notin earlier /\ s \notin Posted
                           /\ s \notin Queued
    BY <1>4
  <2>. HIDE DEF L
  <2>. QED
    BY <1>1, <2>1 DEF Apart
<1>. DEFINE M == inflight' \union result'[w].sounds \union Posted \union Queued
<1>6. M \subseteq L \union started
  BY <1>1
<1>7. \A o, q \in L \union started : o.id = q.id => o = q
  <2>1. \A o, q \in L : o.id = q.id => o = q
    BY DEF Fit
  <2>2. \A o \in L, s \in started : o.id # s.id
    BY <1>1, <1>2, <1>3
  <2>. HIDE DEF L
  <2>. QED
    BY <1>1, <2>1, <2>2
<1>8. ASSUME NEW o \in L
      PROVE  /\ o \in Op /\ o.id \in 1..ops'
             /\ o.host \in gone \/ (host'.generation > 0 /\ o.host = host'.generation)
             /\ o.host = host'.generation => host'.callbacks[o.ref] = o.id
  <2>1. /\ o \in Op /\ o.id \in 1..ops /\ o.ref \in Ref
        /\ o.host \in gone \/ (h.generation > 0 /\ o.host = h.generation)
        /\ o.host = h.generation => h.callbacks[o.ref] = o.id
    BY <1>3 DEF Fit
  <2>2. o.id \in 1..ops'
    BY <1>2, <2>1
  <2>3. ASSUME o.host = h.generation PROVE host'.callbacks[o.ref] = o.id
    <3>1. h.callbacks[o.ref] # 0
      BY <2>1, <2>3, <1>2
    <3>2. \A s \in started : s.ref # o.ref
      BY <1>1, <3>1
    <3>. QED
      BY <1>1, <2>1, <2>3, <3>2
  <2>. QED
    BY <1>1, <2>1, <2>2, <2>3
<1>9. ASSUME NEW o \in started
      PROVE  /\ o \in Op /\ o.id \in 1..ops'
             /\ host'.generation > 0 /\ o.host = host'.generation
             /\ host'.callbacks[o.ref] = o.id
  <2>1. ops' = ops + 1 /\ o.id = ops + 1 /\ o.ref \in Ref /\ o \in Op
    BY <1>1 DEF Op
  <2>2. host'.callbacks[o.ref] = ops + 1
    BY <1>1, <2>1
  <2>. QED
    BY <1>1, <1>2, <2>1, <2>2
<1>10. Fit(M, ops', gone, host')
  <2>. HIDE DEF L, M
  <2>. QED
    BY <1>6, <1>7, <1>8, <1>9 DEF Fit
<1>. QED
  BY <1>5, <1>10

OneResult ==
    \A i, j \in DOMAIN deferred :
       deferred[i].sounds \intersect deferred[j].sounds # {} => i = j

\* A step that starts nothing and leaves the host alone has only to keep the
\* operations apart.
LEMMA OpsMove ==
    ASSUME OpInv, UNCHANGED <<ops, exited, host>>, OneEach', OneResult',
           Apart(inflight, Held, Posted, Queued, InHand)',
           inflight' \union Held' \union Posted' \union Queued' \union InHand'
              \subseteq inflight \union Held \union Posted \union Queued \union InHand
    PROVE  OpInv'
<1>1. Fit(inflight' \union Held' \union Posted' \union Queued' \union InHand',
          ops, exited, host)
  BY FitLess DEF OpInv
<1>. QED
  BY <1>1 DEF OpInv, OneEach, OneResult

\* The first result taken, the sounds of the others are what is left.
LEMMA TailSounds ==
    ASSUME TypeOK, OneResult, deferred # <<>>, deferred' = Tail(deferred)
    PROVE  /\ OneResult'
           /\ Posted' \subseteq Posted
           /\ Head(deferred).sounds \subseteq Posted
           /\ Head(deferred).sounds \intersect Posted' = {}
<1>0. /\ Len(deferred) \in Nat /\ DOMAIN deferred = 1..Len(deferred)
      /\ deferred \in Seq(ScriptResult) /\ 1 \in DOMAIN deferred
      /\ Head(deferred) = deferred[1]
  BY DEF TypeOK, OwnerTypeOK
<1>1. /\ DOMAIN deferred' = 1..(Len(deferred) - 1)
      /\ \A i \in DOMAIN deferred' :
            i + 1 \in DOMAIN deferred /\ deferred'[i] = deferred[i + 1]
  BY <1>0
<1>2. OneResult'
  <2>. SUFFICES ASSUME NEW i \in DOMAIN deferred', NEW j \in DOMAIN deferred',
                       deferred'[i].sounds \intersect deferred'[j].sounds # {}
                PROVE  i = j
    BY DEF OneResult
  <2>1. i + 1 = j + 1
    BY <1>1 DEF OneResult
  <2>. QED
    BY <1>1, <2>1
<1>3. ASSUME NEW x \in Posted'
      PROVE  \E i \in DOMAIN deferred : i > 1 /\ x \in deferred[i].sounds
  <2>1. PICK i \in DOMAIN deferred' : x \in deferred'[i].sounds
    BY <1>3 DEF Posted
  <2>2. i + 1 \in DOMAIN deferred /\ deferred'[i] = deferred[i + 1] /\ i + 1 > 1
    BY <1>0, <1>1
  <2>. QED
    BY <2>1, <2>2
<1>4. Posted' \subseteq Posted
  BY <1>3 DEF Posted
<1>5. Head(deferred).sounds \subseteq Posted
  BY <1>0 DEF Posted
<1>6. ASSUME NEW x \in Posted', x \in Head(deferred).sounds PROVE FALSE
  <2>1. PICK i \in DOMAIN deferred : i > 1 /\ x \in deferred[i].sounds
    BY <1>3
  <2>2. x \in deferred[1].sounds
    BY <1>0, <1>6
  <2>3. i = 1
    BY <1>0, <2>1, <2>2 DEF OneResult
  <2>. QED
    BY <1>0, <2>1, <2>3
<1>. QED
  BY <1>2, <1>4, <1>5, <1>6

\* The steps of the main thread and of the threads of operations move an
\* operation from one place to the next, or drop it.
LEMMA OwnerOps ==
    ASSUME TypeOK, RequestInv, OpInv,
           \/ \E kind \in OfferKinds, key \in Streams \union {None} : Offer(kind, key)
           \/ \E op \in inflight : Complete(op)
           \/ Stop \/ StopReturns \/ Deliver
    PROVE  OpInv'
<1>0. OnePerStream /\ OneEach /\ OneResult
  BY DEF RequestInv, QueueDiscipline, OnePerStream, OpInv, OneEach, OneResult
<1>1. UNCHANGED <<pc, event, result, ops, exited, host>> /\ UNCHANGED <<Held, InHand>>
  BY DEF Offer, Complete, Stop, StopReturns, Deliver, task, work, owner, Held, InHand
<1>2. Apart(inflight, Held, Posted, Queued, InHand)
  BY DEF OpInv
<1>3. ASSUME UNCHANGED deferred PROVE UNCHANGED Posted /\ OneResult'
  BY <1>0, <1>3 DEF Posted, OneResult
<1>4. ASSUME UNCHANGED queue PROVE UNCHANGED Queued /\ OneEach'
  BY <1>0, <1>4 DEF Queued, OneEach
<1>5. ASSUME NEW kind \in OfferKinds, NEW key \in Streams \union {None},
             Offer(kind, key)
      PROVE  OpInv'
  <2>. DEFINE e == [kind |-> kind, generation |-> generation,
                    serial |-> serial + 1, tag |-> key]
  <2>1. e \in Event /\ e.kind \notin CompletionKinds
    BY RuntimeAssumption DEF RuntimeAssumption, TypeOK, LockedTypeOK, OwnerTypeOK,
                             Event, OwnerKinds, CompletionKinds
  <2>2. Enqueue(e) /\ UNCHANGED <<inflight, deferred>>
    BY <1>5 DEF Offer, work
  <2>. HIDE DEF e
  <2>3. OneEach' /\ Queued' \subseteq Queued
    BY <1>0, <2>1, <2>2, EnqueueOps
  <2>4. UNCHANGED Posted /\ OneResult'
    BY <1>3, <2>2
  <2>5. Apart(inflight, Held, Posted, Queued, InHand)'
    BY <1>1, <1>2, <2>2, <2>3, <2>4 DEF Apart
  <2>6. inflight' \union Held' \union Posted' \union Queued' \union InHand'
           \subseteq inflight \union Held \union Posted \union Queued \union InHand
    BY <1>1, <2>2, <2>3, <2>4
  <2>. QED
    BY <1>1, <2>3, <2>4, <2>5, <2>6, OpsMove
<1>6. ASSUME NEW op \in inflight, Complete(op) PROVE OpInv'
  <2>. DEFINE e == [kind |-> op.kind, generation |-> generation,
                    serial |-> 0, tag |-> op]
  <2>1. e \in Event
    BY DEF TypeOK, LockedTypeOK, OwnerTypeOK, Event, Op
  <2>2. Enqueue(e) /\ UNCHANGED deferred /\ inflight' = inflight \ {op}
    BY <1>6 DEF Complete, owner
  <2>3. op \notin Queued /\ e.tag = op
    BY <1>2 DEF Apart
  <2>. HIDE DEF e
  <2>4. OneEach' /\ Queued' \subseteq Queued \union {op}
    BY <1>0, <2>1, <2>2, <2>3, EnqueueOps
  <2>5. UNCHANGED Posted /\ OneResult'
    BY <1>3, <2>2
  <2>6. Apart(inflight, Held, Posted, Queued, InHand)'
    BY <1>1, <1>2, <2>2, <2>4, <2>5 DEF Apart
  <2>7. inflight' \union Held' \union Posted' \union Queued' \union InHand'
           \subseteq inflight \union Held \union Posted \union Queued \union InHand
    BY <1>1, <2>2, <2>4, <2>5
  <2>. QED
    BY <1>1, <2>4, <2>5, <2>6, <2>7, OpsMove
<1>7. CASE Stop
  <2>1. /\ DOMAIN queue' = {1} /\ queue'[1].kind = "Stop"
        /\ UNCHANGED <<inflight, deferred>>
    BY <1>7 DEF Stop, work
  <2>2. Queued' = {} /\ OneEach'
    BY <2>1 DEF Queued, OneEach, CompletionKinds
  <2>3. UNCHANGED Posted /\ OneResult'
    BY <1>3, <2>1
  <2>4. Apart(inflight, Held, Posted, Queued, InHand)'
    BY <1>1, <1>2, <2>1, <2>2, <2>3 DEF Apart
  <2>5. inflight' \union Held' \union Posted' \union Queued' \union InHand'
           \subseteq inflight \union Held \union Posted \union Queued \union InHand
    BY <1>1, <2>1, <2>2, <2>3
  <2>. QED
    BY <1>1, <2>2, <2>3, <2>4, <2>5, OpsMove
<1>8. CASE StopReturns
  <2>1. UNCHANGED <<inflight, deferred, queue>>
    BY <1>8 DEF StopReturns, locked, work
  <2>2. UNCHANGED <<Posted, Queued>> /\ OneResult' /\ OneEach'
    BY <1>3, <1>4, <2>1
  <2>3. Apart(inflight, Held, Posted, Queued, InHand)'
    BY <1>1, <1>2, <2>1, <2>2
  <2>. QED
    BY <1>1, <2>1, <2>2, <2>3, OpsMove
<1>9. CASE Deliver
  <2>1. /\ deferred # <<>> /\ deferred' = Tail(deferred) /\ UNCHANGED queue
        /\ inflight \subseteq inflight'
        /\ inflight' \subseteq inflight \union Head(deferred).sounds
    BY <1>9 DEF Deliver, locked
  <2>2. /\ OneResult' /\ Posted' \subseteq Posted
        /\ Head(deferred).sounds \subseteq Posted
        /\ Head(deferred).sounds \intersect Posted' = {}
    BY <1>0, <2>1, TailSounds
  <2>3. UNCHANGED Queued /\ OneEach'
    BY <1>4, <2>1
  <2>4. Apart(inflight, Held, Posted, Queued, InHand)'
    BY <1>1, <1>2, <2>1, <2>2, <2>3 DEF Apart
  <2>5. inflight' \union Held' \union Posted' \union Queued' \union InHand'
           \subseteq inflight \union Held \union Posted \union Queued \union InHand
    BY <1>1, <2>1, <2>2, <2>3
  <2>. QED
    BY <1>1, <2>2, <2>3, <2>4, <2>5, OpsMove
<1>. QED
  BY <1>5, <1>6, <1>7, <1>8, <1>9

\* The steps of a worker that start nothing.
LEMMA WorkerOps ==
    ASSUME TypeOK, DrainInv, OpInv, NEW w \in Worker,
           \/ TakeTask(w) \/ DrainEnds(w) \/ Pop(w) \/ Skip(w) \/ Settle(w)
           \/ PostResult(w) \/ Halt(w)
    PROVE  OpInv'
<1>0. /\ OneEach /\ OneResult /\ Apart(inflight, Held, Posted, Queued, InHand)
      /\ \A v, u \in Worker : pc[v] # "idle" /\ pc[u] # "idle" => v = u
      /\ pc \in [Worker -> {"idle", "pop", "run", "loaded", "settle", "post",
                            "exit", "halt"}]
      /\ event \in [Worker -> Event] /\ result \in [Worker -> ScriptResult]
      /\ deferred \in Seq(ScriptResult) /\ queue \in Seq(Event)
  BY DEF OpInv, OneEach, OneResult, DrainInv, SingleDrain, Busy, TypeOK, WorkerTypeOK,
         OwnerTypeOK, LockedTypeOK
<1>1. UNCHANGED <<inflight, ops, exited, host>>
  BY DEF TakeTask, DrainEnds, Pop, Skip, Settle, PostResult, Halt, work, owner
<1>2. ASSUME UNCHANGED deferred PROVE UNCHANGED Posted /\ OneResult'
  BY <1>0, <1>2 DEF Posted, OneResult
<1>3. ASSUME UNCHANGED queue PROVE UNCHANGED Queued /\ OneEach'
  BY <1>0, <1>3 DEF Queued, OneEach
<1>4. CASE TakeTask(w) \/ DrainEnds(w) \/ Settle(w) \/ Halt(w)
  <2>1. /\ UNCHANGED <<event, result, deferred>>
        /\ UNCHANGED queue \/ queue' = <<>>
        /\ \E p \in {"pop", "idle", "post"} :
              pc' = [pc EXCEPT ![w] = p] /\ (p = "post" => pc[w] = "settle")
    BY <1>4 DEF TakeTask, DrainEnds, Settle, Halt, owner
  <2>2. /\ \A v \in Worker : pc'[v] \in {"loaded", "settle", "post"}
                             => pc[v] \in {"loaded", "settle", "post"}
        /\ \A v \in Worker : pc'[v] = "run" => pc[v] = "run"
    BY <1>0, <2>1
  <2>3. Held' \subseteq Held /\ InHand' \subseteq InHand
    BY <2>1, <2>2 DEF Held, InHand
  <2>4. Queued' \subseteq Queued /\ OneEach'
    <3>1. CASE queue' = <<>>
      BY <3>1 DEF Queued, OneEach
    <3>. QED
      BY <1>3, <2>1, <3>1
  <2>5. UNCHANGED Posted /\ OneResult'
    BY <1>2, <2>1
  <2>6. Apart(inflight, Held, Posted, Queued, InHand)'
    BY <1>0, <1>1, <2>3, <2>4, <2>5 DEF Apart
  <2>7. inflight' \union Held' \union Posted' \union Queued' \union InHand'
           \subseteq inflight \union Held \union Posted \union Queued \union InHand
    BY <1>1, <2>3, <2>4, <2>5
  <2>. QED
    BY <1>1, <2>4, <2>5, <2>6, <2>7, OpsMove
<1>5. CASE Pop(w)
  <2>1. /\ queue # <<>> /\ Head(queue) = queue[1] /\ queue' = Tail(queue)
        /\ pc[w] = "pop" /\ UNCHANGED <<result, deferred>>
    BY <1>0, <1>5 DEF Pop, owner
  <2>2. /\ event' = [event EXCEPT ![w] = queue[1]]
        /\ pc' = [pc EXCEPT ![w] = IF queue[1].kind = "Stop" THEN "exit" ELSE "run"]
    BY <1>5, <2>1 DEF Pop
  <2>3. \A v \in Worker : v # w => pc'[v] = "idle"
    BY <1>0, <2>1, <2>2
  <2>4. /\ event'[w] = queue[1]
        /\ pc'[w] = IF queue[1].kind = "Stop" THEN "exit" ELSE "run"
    BY <1>0, <2>2
  <2>5. /\ Held' = {}
        /\ InHand' \subseteq IF queue[1].kind \in CompletionKinds THEN {queue[1].tag} ELSE {}
    BY <2>3, <2>4, HoldsNext
  <2>6. /\ OneEach' /\ Queued' \subseteq Queued
        /\ queue[1].kind \in CompletionKinds
           => queue[1].tag \in Queued /\ queue[1].tag \notin Queued'
    BY <1>0, <2>1, TailOps
  <2>7. UNCHANGED Posted /\ OneResult'
    BY <1>2, <2>1
  <2>8. InHand' \subseteq Queued /\ InHand' \intersect Queued' = {}
    BY <2>5, <2>6
  <2>9. Apart(inflight, Held, Posted, Queued, InHand)'
    BY <1>0, <1>1, <2>5, <2>6, <2>7, <2>8 DEF Apart
  <2>10. inflight' \union Held' \union Posted' \union Queued' \union InHand'
            \subseteq inflight \union Held \union Posted \union Queued \union InHand
    BY <1>1, <2>5, <2>6, <2>7, <2>8
  <2>. QED
    BY <1>1, <2>6, <2>7, <2>9, <2>10, OpsMove
<1>6. CASE Skip(w)
  <2>1. /\ pc[w] = "run" /\ UNCHANGED <<queue, deferred>>
        /\ result' = [result EXCEPT ![w] = NoResult]
        /\ pc' = [pc EXCEPT ![w] = "settle"]
    BY <1>6 DEF Skip, locked, owner
  <2>2. \A v \in Worker : v # w => pc'[v] = "idle"
    BY <1>0, <2>1
  <2>3. pc'[w] = "settle" /\ result'[w].sounds = {}
    BY <1>0, <2>1 DEF NoResult
  <2>4. Held' = {} /\ InHand' = {}
    BY <2>2, <2>3, HoldsNext
  <2>5. UNCHANGED <<Posted, Queued>> /\ OneResult' /\ OneEach'
    BY <1>2, <1>3, <2>1
  <2>6. Apart(inflight, Held, Posted, Queued, InHand)'
    BY <1>0, <1>1, <2>4, <2>5 DEF Apart
  <2>7. inflight' \union Held' \union Posted' \union Queued' \union InHand'
           \subseteq inflight \union Held \union Posted \union Queued \union InHand
    BY <1>1, <2>4, <2>5
  <2>. QED
    BY <1>1, <2>5, <2>6, <2>7, OpsMove
<1>7. CASE PostResult(w)
  <2>1. /\ pc[w] = "post" /\ UNCHANGED <<queue, event, result>>
        /\ deferred' = Append(deferred, result[w])
        /\ pc' = [pc EXCEPT ![w] = "pop"] /\ result[w] \in ScriptResult
    BY <1>0, <1>7 DEF PostResult, locked
  <2>2. \A v \in Worker : v # w => pc'[v] = "idle" /\ pc[v] = "idle"
    BY <1>0, <2>1
  <2>3. Held' = {} /\ InHand' = {} /\ Held = result[w].sounds
    <3>1. pc'[w] = "pop" /\ pc[w] = "post"
      BY <1>0, <2>1
    <3>. QED
      BY <2>2, <3>1, HoldsNext, HoldsNow
  <2>4. UNCHANGED Queued /\ OneEach'
    BY <1>3, <2>1
  <2>5. /\ Len(deferred) \in Nat /\ DOMAIN deferred = 1..Len(deferred)
        /\ DOMAIN deferred' = 1..(Len(deferred) + 1)
        /\ deferred'[Len(deferred) + 1] = result[w]
        /\ \A i \in 1..Len(deferred) : deferred'[i] = deferred[i]
    BY <1>0, <2>1
  <2>6. Posted' \subseteq Posted \union result[w].sounds
    <3>. SUFFICES ASSUME NEW x \in Posted' PROVE x \in Posted \/ x \in result[w].sounds
      OBVIOUS
    <3>1. PICK i \in DOMAIN deferred' : x \in deferred'[i].sounds
      BY DEF Posted
    <3>. QED
      BY <2>5, <3>1 DEF Posted
  <2>7. result[w].sounds \intersect Posted = {}
    BY <1>0, <2>3 DEF Apart
  <2>8. OneResult'
    <3>. SUFFICES ASSUME NEW i \in DOMAIN deferred', NEW j \in DOMAIN deferred',
                         NEW x, x \in deferred'[i].sounds, x \in deferred'[j].sounds
                  PROVE  i = j
      BY DEF OneResult
    <3>1. \A k \in 1..Len(deferred) : deferred'[k].sounds \subseteq Posted
      BY <2>5 DEF Posted
    <3>2. CASE i \in 1..Len(deferred) /\ j \in 1..Len(deferred)
      BY <1>0, <2>5, <3>2 DEF OneResult
    <3>3. CASE i = Len(deferred) + 1 /\ j # Len(deferred) + 1
      BY <2>5, <2>7, <3>1, <3>3
    <3>4. CASE i # Len(deferred) + 1 /\ j = Len(deferred) + 1
      BY <2>5, <2>7, <3>1, <3>4
    <3>5. CASE i = Len(deferred) + 1 /\ j = Len(deferred) + 1
      BY <3>5
    <3>. QED
      BY <2>5, <3>2, <3>3, <3>4, <3>5
  <2>9. Apart(inflight, Held, Posted, Queued, InHand)'
    BY <1>0, <1>1, <2>3, <2>4, <2>6 DEF Apart
  <2>10. inflight' \union Held' \union Posted' \union Queued' \union InHand'
            \subseteq inflight \union Held \union Posted \union Queued \union InHand
    BY <1>1, <2>3, <2>4, <2>6
  <2>. QED
    BY <1>1, <2>4, <2>8, <2>9, <2>10, OpsMove
<1>. QED
  BY <1>4, <1>5, <1>6, <1>7

\* A host goes and takes the callbacks of its operations with it.
LEMMA ExitOps ==
    ASSUME TypeOK, DrainInv, OpInv, NEW w \in Worker, RefuseLoad(w) \/ ExitHost(w)
    PROVE  OpInv'
<1>0. /\ OneEach /\ OneResult /\ Apart(inflight, Held, Posted, Queued, InHand)
      /\ \A v, u \in Worker : pc[v] # "idle" /\ pc[u] # "idle" => v = u
      /\ pc \in [Worker -> {"idle", "pop", "run", "loaded", "settle", "post",
                            "exit", "halt"}]
      /\ result \in [Worker -> ScriptResult]
  BY DEF OpInv, OneEach, OneResult, DrainInv, SingleDrain, Busy, TypeOK, WorkerTypeOK
<1>1. /\ UNCHANGED <<inflight, ops, queue, deferred>> /\ host' = NoHost /\ pc[w] # "idle"
      /\ exited' = IF host.generation > 0 THEN exited \union {host.generation} ELSE exited
      /\ \/ pc' = [pc EXCEPT ![w] = "halt"]
         \/ /\ pc' = [pc EXCEPT ![w] = "settle"]
            /\ result' = [result EXCEPT ![w] = [NoResult EXCEPT !.generation = generation]]
  BY DEF RefuseLoad, ExitHost, Teardown, HasHost, locked, work, owner
<1>2. \A v \in Worker : v # w => pc'[v] = "idle"
  BY <1>0, <1>1
<1>3. pc'[w] = "halt" \/ (pc'[w] = "settle" /\ result'[w].sounds = {})
  BY <1>0, <1>1 DEF NoResult
<1>4. Held' = {} /\ InHand' = {}
  BY <1>2, <1>3, HoldsNext
<1>5. UNCHANGED <<Posted, Queued>> /\ OneResult' /\ OneEach'
  BY <1>0, <1>1 DEF Posted, Queued, OneResult, OneEach
<1>6. Apart(inflight, Held, Posted, Queued, InHand)'
  BY <1>0, <1>1, <1>4, <1>5 DEF Apart
<1>. DEFINE L == inflight \union Held \union Posted \union Queued \union InHand
            M == inflight' \union Held' \union Posted' \union Queued' \union InHand'
<1>7. M \in SUBSET L
  BY <1>1, <1>4, <1>5
<1>8. Fit(L, ops, exited, host)
  BY DEF OpInv
<1>9. PICK gone, h : gone = exited' /\ h = host'
  OBVIOUS
<1>10. /\ exited \subseteq gone /\ (host.generation > 0 => host.generation \in gone)
       /\ ~(h.generation > 0)
  BY <1>1, <1>9 DEF NoHost
<1>11. Fit(L, ops, gone, h)
  <2>. HIDE DEF L
  <2>. QED
    BY <1>8, <1>10, FitLater
<1>12. Fit(M, ops, gone, h)
  <2>. HIDE DEF L, M
  <2>. QED
    BY <1>7, <1>11, FitLess
<1>. QED
  BY <1>1, <1>5, <1>6, <1>9, <1>12 DEF OpInv, OneEach, OneResult

\* A worker that has just loaded a script has its host.
LoadedOnHost == \A w \in Worker : pc[w] = "loaded" => HasHost

LEMMA LoadedStep ==
    TypeOK /\ DrainInv /\ HostInv /\ LoadedOnHost /\ [Next]_vars => LoadedOnHost'
<1>. SUFFICES ASSUME TypeOK, DrainInv, HostInv, LoadedOnHost, [Next]_vars,
                     NEW v \in Worker, pc'[v] = "loaded"
              PROVE  host'.generation > 0
  BY DEF LoadedOnHost, HasHost
<1>0. /\ \A u, w \in Worker : pc[u] # "idle" /\ pc[w] # "idle" => u = w
      /\ pc \in [Worker -> {"idle", "pop", "run", "loaded", "settle", "post",
                            "exit", "halt"}]
      /\ host.generation \in Nat /\ \A w \in Worker : event[w].generation \in Nat
  BY DEF DrainInv, SingleDrain, Busy, TypeOK, WorkerTypeOK, Event
<1>1. pc[v] = "loaded" => host.generation > 0
  BY DEF LoadedOnHost, HasHost
<1>2. CASE \E w \in Worker : Drain(w)
  <2>1. PICK w \in Worker : Drain(w)
    BY <1>2
  <2>2. pc[w] # "idle"
    BY <2>1 DEF Drain, DrainEnds, Pop, Skip, Run, RefuseLoad, LoadHost, FirstUpdate,
                Settle, PostResult, ExitHost, Halt
  <2>3. CASE v # w
    <3>1. \E p \in {"idle", "run", "exit", "pop", "settle", "loaded", "post", "halt"} :
             pc' = [pc EXCEPT ![w] = p]
      BY <2>1 DEF Drain, DrainEnds, Pop, Skip, Run, RefuseLoad, LoadHost, FirstUpdate,
                  Settle, PostResult, ExitHost, Halt
    <3>2. pc'[v] = pc[v]
      BY <1>0, <2>3, <3>1
    <3>. QED
      BY <1>0, <2>2, <2>3, <3>2
  <2>4. CASE v = w /\ LoadHost(w)
    <3>1. host'.generation = event[w].generation /\ pc[w] = "run"
          /\ event[w].kind = "Reload"
      BY <2>4 DEF LoadHost, Call, NoHost
    <3>2. host.generation < event[w].generation
      BY <3>1 DEF HostInv, Unborn
    <3>3. event[w].generation \in Nat
      BY <1>0
    <3>4. PICK a, b : a = event[w].generation /\ b = host.generation
      OBVIOUS
    <3>5. a > 0
      BY ONLY <1>0, <3>2, <3>3, <3>4
    <3>. QED
      BY <3>1, <3>4, <3>5
  <2>5. CASE v = w /\ ~LoadHost(w)
    <3>1. \E p \in {"idle", "run", "exit", "pop", "settle", "post", "halt"} :
             pc' = [pc EXCEPT ![w] = p]
      BY <2>1, <2>5 DEF Drain, DrainEnds, Pop, Skip, Run, RefuseLoad, FirstUpdate,
                        Settle, PostResult, ExitHost, Halt
    <3>. QED
      BY <1>0, <2>5, <3>1
  <2>. QED
    BY <2>3, <2>4, <2>5
<1>3. CASE \E w \in Worker : TakeTask(w)
  <2>1. UNCHANGED host /\ pc[v] = "loaded"
    BY <1>0, <1>3 DEF TakeTask
  <2>. QED
    BY <1>1, <2>1
<1>4. CASE \/ \E kind \in OfferKinds, key \in Streams \union {None} : Offer(kind, key)
           \/ \E op \in inflight : Complete(op)
           \/ Stop \/ StopReturns \/ Deliver \/ UNCHANGED vars
  <2>1. UNCHANGED <<host, pc>>
    BY <1>4 DEF Offer, Complete, Stop, StopReturns, Deliver, vars, task
  <2>. QED
    BY <1>1, <2>1
<1>. QED
  BY <1>2, <1>3, <1>4 DEF Next

\* The steps of a worker that call the script.
LEMMA CallerOps ==
    ASSUME TypeOK, DrainInv, GenerationInv, HostInv, LoadedOnHost, OpInv,
           NEW w \in Worker, Run(w) \/ LoadHost(w) \/ FirstUpdate(w)
    PROVE  OpInv'
<1>0. /\ OneEach /\ OneResult /\ Apart(inflight, Held, Posted, Queued, InHand)
      /\ Fit(inflight \union Held \union Posted \union Queued \union InHand,
             ops, exited, host)
      /\ \A v, u \in Worker : pc[v] # "idle" /\ pc[u] # "idle" => v = u
      /\ pc \in [Worker -> {"idle", "pop", "run", "loaded", "settle", "post",
                            "exit", "halt"}]
      /\ host \in Host /\ host.generation \in Nat
      /\ \A u \in Worker : event[u].generation \in Nat
  BY DEF OpInv, OneEach, OneResult, DrainInv, SingleDrain, Busy, TypeOK, WorkerTypeOK,
         Host, Event
<1>1. /\ UNCHANGED <<queue, deferred>> /\ pc[w] # "idle"
      /\ \E p \in {"settle", "loaded"} : pc' = [pc EXCEPT ![w] = p]
  BY DEF Run, LoadHost, FirstUpdate, owner
<1>2. /\ UNCHANGED <<Posted, Queued>> /\ OneEach' /\ OneResult'
  BY <1>0, <1>1 DEF Posted, Queued, OneEach, OneResult
<1>3. \A v \in Worker : v # w => pc[v] = "idle" /\ pc'[v] = "idle"
  BY <1>0, <1>1
<1>4. pc'[w] \in {"settle", "loaded"}
  BY <1>0, <1>1
<1>5. Held' = result'[w].sounds /\ InHand' = {}
  BY <1>3, <1>4, HoldsNext
<1>6. ASSUME Apart(inflight', result'[w].sounds, Posted, Queued, {}),
             Fit(inflight' \union result'[w].sounds \union Posted \union Queued,
                 ops', exited', host')
      PROVE  OpInv'
  <2>1. PICK a, b, c, d, n, g, h :
           /\ a = inflight' /\ b = result'[w].sounds /\ c = Posted /\ d = Queued
           /\ n = ops' /\ g = exited' /\ h = host'
    OBVIOUS
  <2>2. a \union b \union c \union d \union {} = a \union b \union c \union d
    OBVIOUS
  <2>3. Fit(a \union b \union c \union d \union {}, n, g, h)
    BY <1>6, <2>1, <2>2
  <2>. QED
    BY <1>2, <1>5, <1>6, <2>1, <2>3 DEF OpInv, OneEach, OneResult
<1>. DEFINE L == inflight \union Held \union Posted \union Queued \union InHand
<1>7. CASE Run(w)
  <2>. DEFINE h == IF event[w].kind \in CompletionKinds
                   THEN [host EXCEPT !.callbacks[event[w].tag.ref] = 0] ELSE host
              M == inflight \union {} \union Posted \union Queued
  <2>1. /\ Call(w, h, {}) /\ HasHost /\ UNCHANGED exited /\ pc[w] = "run"
        /\ event[w].kind \in CompletionKinds => Callable(event[w])
    BY <1>7 DEF Run
  <2>2. h \in Host /\ h.generation = host.generation
    BY <1>0 DEF Host
  <2>3. /\ Held = {}
        /\ InHand = IF event[w].kind \in CompletionKinds THEN {event[w].tag} ELSE {}
    BY <1>3, <2>1, HoldsNow
  <2>4. Apart(inflight, {}, Posted, Queued, {})
    BY <1>0 DEF Apart
  <2>5. M \in SUBSET L
    BY <2>3
  <2>6. Fit(M, ops, exited, host)
    <3>. HIDE DEF L, M
    <3>1. Fit(L, ops, exited, host)
      BY <1>0 DEF L
    <3>. QED
      BY <2>5, <3>1, FitLess
  <2>7. ASSUME event[w].kind \in CompletionKinds, NEW o \in M, o.host = host.generation
        PROVE  o.ref # event[w].tag.ref
    <3>1. event[w].tag \in InHand /\ event[w].tag \in L /\ o \in L
      BY <2>3, <2>7
    <3>2. event[w].tag.host = host.generation /\ host.generation > 0
      BY <2>1, <2>7 DEF Callable, HasHost
    <3>3. /\ host.callbacks[event[w].tag.ref] = event[w].tag.id
          /\ host.callbacks[o.ref] = o.id
          /\ event[w].tag.id = o.id => event[w].tag = o
      <4>. HIDE DEF L
      <4>1. Fit(L, ops, exited, host)
        BY <1>0 DEF L
      <4>. QED
        BY <2>7, <3>1, <3>2, <4>1 DEF Fit
    <3>4. event[w].tag # o
      BY <1>0, <2>7, <3>1 DEF Apart
    <3>. QED
      BY <3>3, <3>4
  <2>8. ASSUME NEW o \in M, o.host = host.generation
        PROVE  h.callbacks[o.ref] = host.callbacks[o.ref]
    <3>. HIDE DEF M
    <3>. QED
      BY <1>0, <2>7, <2>8 DEF Host
  <2>9. Fit(M, ops, exited, h)
    <3>. HIDE DEF M, h
    <3>. QED
      BY <2>2, <2>6, <2>8 DEF Fit
  <2>10. h.generation > 0
    BY <2>1, <2>2 DEF HasHost
  <2>11. /\ Apart(inflight', result'[w].sounds, Posted, Queued, {})
         /\ Fit(inflight' \union result'[w].sounds \union Posted \union Queued,
                ops', exited, host')
    <3>. HIDE DEF h
    <3>. QED
      BY <2>1, <2>2, <2>4, <2>9, <2>10, CallOps
  <2>. QED
    BY <1>6, <2>1, <2>11
<1>8. CASE LoadHost(w)
  <2>. DEFINE h == [NoHost EXCEPT !.generation = event[w].generation]
              M == inflight \union {} \union Posted \union Queued
  <2>1. /\ Call(w, h, {}) /\ pc[w] = "run" /\ event[w].kind = "Reload"
        /\ exited' = IF host.generation > 0 THEN exited \union {host.generation} ELSE exited
    BY <1>8 DEF LoadHost, Teardown, HasHost
  <2>2. h \in Host /\ h.generation = event[w].generation
    BY <1>0 DEF Host, NoHost
  <2>3. Unborn(event[w].generation)
    BY <2>1 DEF HostInv
  <2>4. PICK g, n, k : g = event[w].generation /\ n = host.generation /\ k = exited'
    OBVIOUS
  <2>5. g \in Nat /\ n \in Nat /\ n < g /\ \A x \in exited : x < g
    BY <1>0, <2>3, <2>4 DEF Unborn
  <2>6. g > 0
    BY ONLY <2>5
  <2>7. exited \subseteq k /\ (host.generation > 0 => host.generation \in k)
    BY <2>1, <2>4
  <2>8. h.generation > 0 => h.generation \notin k
    <3>1. \A x \in k : x < g
      BY <2>1, <2>4, <2>5
    <3>. QED
      BY <2>2, <2>4, <2>5, <3>1
  <2>9. Held = {} /\ InHand = {}
    BY <1>3, <2>1, HoldsNow DEF CompletionKinds
  <2>10. Apart(inflight, {}, Posted, Queued, {})
    BY <1>0 DEF Apart
  <2>11. M \in SUBSET L
    OBVIOUS
  <2>12. Fit(M, ops, k, h)
    <3>. HIDE DEF L, M, h
    <3>1. Fit(L, ops, exited, host)
      BY <1>0 DEF L
    <3>2. Fit(M, ops, exited, host)
      BY <2>11, <3>1, FitLess
    <3>. QED
      BY <2>7, <2>8, <3>2, FitLater
  <2>13. /\ Apart(inflight', result'[w].sounds, Posted, Queued, {})
         /\ Fit(inflight' \union result'[w].sounds \union Posted \union Queued,
                ops', k, host')
    <3>1. h.generation > 0
      BY <2>2, <2>4, <2>6
    <3>. HIDE DEF h
    <3>. QED
      BY <2>1, <2>2, <2>10, <2>12, <3>1, CallOps
  <2>. QED
    BY <1>6, <2>4, <2>13
<1>9. CASE FirstUpdate(w)
  <2>1. /\ pc[w] = "loaded" /\ UNCHANGED exited
        /\ \/ UNCHANGED <<host, work, result>>
           \/ Call(w, host, result[w].sounds)
    BY <1>9 DEF FirstUpdate
  <2>2. Held = result[w].sounds /\ InHand = {}
    BY <1>3, <2>1, HoldsNow
  <2>3. CASE UNCHANGED <<host, work, result>>
    <3>1. UNCHANGED <<inflight, ops, host>> /\ Held' = Held
      BY <1>5, <2>2, <2>3 DEF work
    <3>2. UNCHANGED <<Posted, Queued>> /\ InHand' = InHand
      BY <1>2, <1>5, <2>2
    <3>3. Apart(inflight, Held, Posted, Queued, InHand)'
      BY <1>0, <3>1, <3>2 DEF Apart
    <3>. QED
      BY <1>2, <2>1, <3>1, <3>2, <3>3, OpsMove
  <2>4. CASE Call(w, host, result[w].sounds)
    <3>1. host.generation > 0
      BY <2>1 DEF LoadedOnHost, HasHost
    <3>2. Apart(inflight, result[w].sounds, Posted, Queued, {})
      BY <1>0, <2>2
    <3>3. Fit(inflight \union result[w].sounds \union Posted \union Queued,
              ops, exited, host)
      <4>1. inflight \union result[w].sounds \union Posted \union Queued = L
        BY <2>2
      <4>. QED
        BY <1>0, <4>1
    <3>4. /\ Apart(inflight', result'[w].sounds, Posted, Queued, {})
          /\ Fit(inflight' \union result'[w].sounds \union Posted \union Queued,
                 ops', exited, host')
      BY <1>0, <2>4, <3>1, <3>2, <3>3, CallOps
    <3>. QED
      BY <1>6, <2>1, <3>4
  <2>. QED
    BY <2>1, <2>3, <2>4
<1>. QED
  BY <1>7, <1>8, <1>9

LEMMA OpStep ==
    TypeOK /\ DrainInv /\ GenerationInv /\ RequestInv /\ HostInv /\ LoadedOnHost /\ OpInv
    /\ [Next]_vars => OpInv'
<1>. SUFFICES ASSUME TypeOK, DrainInv, GenerationInv, RequestInv, HostInv, LoadedOnHost,
                     OpInv, [Next]_vars
              PROVE  OpInv'
  OBVIOUS
<1>1. CASE \/ \E kind \in OfferKinds, key \in Streams \union {None} : Offer(kind, key)
           \/ \E op \in inflight : Complete(op)
           \/ Stop \/ StopReturns \/ Deliver
  BY <1>1, OwnerOps
<1>2. ASSUME NEW w \in Worker, TakeTask(w) \/ Drain(w) PROVE OpInv'
  BY <1>2, WorkerOps, CallerOps, ExitOps DEF Drain
<1>3. CASE UNCHANGED vars
  <2>1. /\ UNCHANGED <<pc, event, result, queue, deferred, inflight, ops, exited, host>>
    BY <1>3 DEF vars, locked, task, owner, work
  <2>. QED
    BY <2>1 DEF OpInv, Held, Posted, Queued, InHand
<1>. QED
  BY <1>1, <1>2, <1>3 DEF Next

LEMMA OperationInvariant == Spec => [](LoadedOnHost /\ OpInv)
<1>1. Init => LoadedOnHost /\ OpInv
  <2>. SUFFICES ASSUME Init PROVE LoadedOnHost /\ OpInv
    OBVIOUS
  <2>1. /\ \A w \in Worker : pc[w] = "idle"
        /\ queue = <<>> /\ deferred = <<>> /\ inflight = {} /\ ops = 0
    BY DEF Init
  <2>2. Held = {} /\ Posted = {} /\ Queued = {} /\ InHand = {}
    BY <2>1 DEF Held, Posted, Queued, InHand
  <2>3. inflight \union Held \union Posted \union Queued \union InHand = {}
    BY <2>1, <2>2
  <2>. QED
    BY <2>1, <2>2, <2>3 DEF LoadedOnHost, OpInv, Apart, Fit
<1>2. TypeOK /\ DrainInv /\ (GenerationInv /\ ResultInv) /\ RequestInv
      /\ (HostInv /\ UpdateFlagsExact) /\ (LoadedOnHost /\ OpInv) /\ [Next]_vars
      => (LoadedOnHost /\ OpInv)'
  BY LoadedStep, OpStep
<1>. QED
  BY <1>1, <1>2, TypeCorrect, DrainInvariant, GenerationInvariant, RequestInvariant,
     HostInvariant, PTL DEF Spec

\* A completion that passes processEvent's guard finds, in the slot it names,
\* the callback that its own operation registered: a Reload gives the slots to a
\* new host and a slot that was freed is taken again, but the operation that
\* holds the slot is always one and the same until its completion has run.
THEOREM CompletionsMeetTheirCallback == Spec => []CompletionMeetsItsCallback
<1>1. OpInv => CompletionMeetsItsCallback
  <2>. SUFFICES ASSUME OpInv, NEW w \in Worker, pc[w] = "run",
                       event[w].kind \in CompletionKinds, HasHost, Callable(event[w])
                PROVE  host.callbacks[event[w].tag.ref] = event[w].tag.id
    BY DEF CompletionMeetsItsCallback
  <2>1. event[w].tag \in InHand
    BY DEF InHand
  <2>2. \A o \in InHand : host.generation > 0 /\ o.host = host.generation
                          => host.callbacks[o.ref] = o.id
    BY DEF OpInv, Fit
  <2>. QED
    BY <2>1, <2>2 DEF Callable, HasHost
<1>. QED
  BY <1>1, OperationInvariant, PTL

----------------------------------------------------------------------------
(* The runtime as its owner sees it.                                       *)

\* What an event that is queued adds to the requests that wait.
LEMMA WaitsAppend ==
    ASSUME NEW q \in Seq(Event), NEW e \in Event
    PROVE  Waits(Append(q, e))
              = Waits(q) \union (IF e.kind \in OwnerKinds THEN {AsRequest(e)} ELSE {})
<1>1. /\ Len(q) \in Nat /\ DOMAIN q = 1..Len(q)
      /\ DOMAIN Append(q, e) = 1..(Len(q) + 1)
      /\ Append(q, e)[Len(q) + 1] = e
      /\ \A i \in 1..Len(q) : Append(q, e)[i] = q[i]
  OBVIOUS
<1>2. PICK p : p = Append(q, e)
  OBVIOUS
<1>3. ASSUME NEW x \in Waits(p)
      PROVE  x \in Waits(q) \/ (e.kind \in OwnerKinds /\ x = AsRequest(e))
  <2>1. PICK i \in DOMAIN p : p[i].kind \in OwnerKinds /\ x = AsRequest(p[i])
    BY <1>3 DEF Waits
  <2>2. CASE i \in 1..Len(q)
    BY <1>1, <1>2, <2>1, <2>2 DEF Waits
  <2>3. CASE i = Len(q) + 1
    BY <1>1, <1>2, <2>1, <2>3
  <2>. QED
    BY <1>1, <1>2, <2>1, <2>2, <2>3
<1>4. ASSUME NEW x \in Waits(q) PROVE x \in Waits(p)
  <2>1. PICK i \in DOMAIN q : q[i].kind \in OwnerKinds /\ x = AsRequest(q[i])
    BY <1>4 DEF Waits
  <2>2. i \in DOMAIN p /\ p[i] = q[i]
    BY <1>1, <1>2, <2>1
  <2>. QED
    BY <2>1, <2>2 DEF Waits
<1>5. e.kind \in OwnerKinds => AsRequest(e) \in Waits(p)
  <2>1. Len(q) + 1 \in DOMAIN p /\ p[Len(q) + 1] = e
    BY <1>1, <1>2
  <2>. QED
    BY <2>1 DEF Waits
<1>6. Waits(p) = Waits(q) \union (IF e.kind \in OwnerKinds THEN {AsRequest(e)} ELSE {})
  BY <1>3, <1>4, <1>5
<1>. QED
  BY <1>2, <1>6

\* A request that leaves the mailbox, from any place.
LEMMA WaitsWithout ==
    ASSUME NEW q \in Seq(Event), Numbered(q), NEW k \in DOMAIN q, q[k].kind \in OwnerKinds,
           NEW p, NEW from, from \in [DOMAIN p -> DOMAIN q \ {k}],
           \A i \in DOMAIN p : p[i] = q[from[i]],
           \A j \in DOMAIN q \ {k} : \E i \in DOMAIN p : from[i] = j
    PROVE  Waits(p) = Waits(q) \ {AsRequest(q[k])}
<1>1. ASSUME NEW x \in Waits(p) PROVE x \in Waits(q) /\ x # AsRequest(q[k])
  <2>1. PICK i \in DOMAIN p : p[i].kind \in OwnerKinds /\ x = AsRequest(p[i])
    BY <1>1 DEF Waits
  <2>2. from[i] \in DOMAIN q /\ from[i] # k /\ p[i] = q[from[i]]
    BY <2>1
  <2>3. q[from[i]].serial # q[k].serial
    BY <2>1, <2>2 DEF Numbered
  <2>. QED
    BY <2>1, <2>2, <2>3 DEF Waits, AsRequest
<1>2. ASSUME NEW x \in Waits(q), x # AsRequest(q[k]) PROVE x \in Waits(p)
  <2>1. PICK j \in DOMAIN q : q[j].kind \in OwnerKinds /\ x = AsRequest(q[j])
    BY <1>2 DEF Waits
  <2>2. PICK i \in DOMAIN p : from[i] = j
    BY <1>2, <2>1
  <2>. QED
    BY <2>1, <2>2 DEF Waits
<1>. QED
  BY <1>1, <1>2

\* A request taken from the head waits no more, and the others still do.
LEMMA WaitsTail ==
    ASSUME NEW q \in Seq(Event), q # <<>>, Numbered(q), q[1].kind \in OwnerKinds
    PROVE  Waits(Tail(q)) = Waits(q) \ {AsRequest(q[1])}
<1>0. PICK p : p = Tail(q)
  OBVIOUS
<1>1. /\ Len(q) \in Nat \ {0} /\ DOMAIN q = 1..Len(q)
      /\ DOMAIN p = 1..(Len(q) - 1)
      /\ \A i \in 1..(Len(q) - 1) : p[i] = q[i + 1]
  BY <1>0
<1>. DEFINE from == [i \in DOMAIN p |-> i + 1]
<1>2. from \in [DOMAIN p -> DOMAIN q \ {1}]
  BY <1>1
<1>3. \A i \in DOMAIN p : p[i] = q[from[i]]
  BY <1>1
<1>4. \A j \in DOMAIN q \ {1} : \E i \in DOMAIN p : from[i] = j
  <2>. SUFFICES ASSUME NEW j \in DOMAIN q \ {1} PROVE \E i \in DOMAIN p : from[i] = j
    OBVIOUS
  <2>1. j - 1 \in DOMAIN p /\ from[j - 1] = j
    BY <1>1
  <2>. QED
    BY <2>1
<1>5. 1 \in DOMAIN q
  BY <1>1
<1>. HIDE DEF from
<1>6. PICK k, f : k \in DOMAIN q /\ k = 1 /\ f = from
  BY <1>5
<1>7. /\ k \in DOMAIN q /\ q[k].kind \in OwnerKinds
      /\ f \in [DOMAIN p -> DOMAIN q \ {k}]
      /\ \A i \in DOMAIN p : p[i] = q[f[i]]
      /\ \A j \in DOMAIN q \ {k} : \E i \in DOMAIN p : f[i] = j
  BY <1>2, <1>3, <1>4, <1>6
<1>8. Waits(p) = Waits(q) \ {AsRequest(q[k])}
  BY ONLY <1>7, q \in Seq(Event), Numbered(q), WaitsWithout
<1>. QED
  BY <1>0, <1>6, <1>8

\* The same for one that is evicted from the middle.
LEMMA WaitsRemove ==
    ASSUME NEW q \in Seq(Event), Numbered(q), NEW k \in DOMAIN q, q[k].kind \in OwnerKinds
    PROVE  Waits(RemoveAt(q, k)) = Waits(q) \ {AsRequest(q[k])}
<1>1. PICK p : p = RemoveAt(q, k)
  OBVIOUS
<1>2. /\ Len(q) \in Nat \ {0} /\ DOMAIN q = 1..Len(q) /\ k \in 1..Len(q)
      /\ p \in Seq(Event) /\ Len(p) = Len(q) - 1 /\ DOMAIN p = 1..(Len(q) - 1)
      /\ \A j \in 1..(Len(q) - 1) : p[j] = q[IF j < k THEN j ELSE j + 1]
  <2>1. p \in Seq(Event)
    BY <1>1, RemoveAtIsSeq
  <2>2. /\ Len(p) = Len(q) - 1
        /\ \A j \in 1..(Len(q) - 1) : p[j] = q[IF j < k THEN j ELSE j + 1]
    BY <1>1, RemoveAtElements
  <2>. QED
    BY <2>1, <2>2
<1>. DEFINE from == [i \in DOMAIN p |-> IF i < k THEN i ELSE i + 1]
<1>3. from \in [DOMAIN p -> DOMAIN q \ {k}]
  BY <1>2
<1>4. \A i \in DOMAIN p : p[i] = q[from[i]]
  BY <1>2
<1>5. \A j \in DOMAIN q \ {k} : \E i \in DOMAIN p : from[i] = j
  <2>. SUFFICES ASSUME NEW j \in DOMAIN q \ {k} PROVE \E i \in DOMAIN p : from[i] = j
    OBVIOUS
  <2>1. CASE j < k
    <3>1. j \in DOMAIN p /\ from[j] = j
      BY <1>2, <2>1
    <3>. QED
      BY <3>1
  <2>2. CASE j > k
    <3>1. j - 1 \in DOMAIN p /\ from[j - 1] = j
      BY <1>2, <2>2
    <3>. QED
      BY <3>1
  <2>. QED
    BY <1>2, <2>1, <2>2
<1>. HIDE DEF from
<1>. QED
  BY <1>1, <1>3, <1>4, <1>5, WaitsWithout

\* A coalescing event waits in the place of the one it supersedes.
LEMMA WaitsReplace ==
    ASSUME NEW q \in Seq(Event), Numbered(q), NEW k \in DOMAIN q, q[k].kind \in OwnerKinds,
           NEW e, e.kind \in OwnerKinds
    PROVE  Waits(ReplaceAt(q, k, e)) = (Waits(q) \ {AsRequest(q[k])}) \union {AsRequest(e)}
<1>1. PICK p : p = ReplaceAt(q, k, e)
  OBVIOUS
<1>2. /\ DOMAIN p = DOMAIN q
      /\ \A i \in DOMAIN q : p[i] = IF i = k THEN e ELSE q[i]
  BY <1>1 DEF ReplaceAt
<1>3. ASSUME NEW x \in Waits(p)
      PROVE  x = AsRequest(e) \/ (x \in Waits(q) /\ x # AsRequest(q[k]))
  <2>1. PICK i \in DOMAIN p : p[i].kind \in OwnerKinds /\ x = AsRequest(p[i])
    BY <1>3 DEF Waits
  <2>2. CASE i = k
    BY <1>2, <2>1, <2>2
  <2>3. CASE i # k
    <3>1. p[i] = q[i] /\ q[i].serial # q[k].serial
      BY <1>2, <2>1, <2>3 DEF Numbered
    <3>. QED
      BY <1>2, <2>1, <3>1 DEF Waits, AsRequest
  <2>. QED
    BY <2>2, <2>3
<1>4. ASSUME NEW x \in Waits(q), x # AsRequest(q[k]) PROVE x \in Waits(p)
  <2>1. PICK j \in DOMAIN q : q[j].kind \in OwnerKinds /\ x = AsRequest(q[j])
    BY <1>4 DEF Waits
  <2>2. j \in DOMAIN p /\ p[j] = q[j]
    BY <1>2, <1>4, <2>1
  <2>. QED
    BY <2>1, <2>2 DEF Waits
<1>5. AsRequest(e) \in Waits(p)
  <2>1. k \in DOMAIN p /\ p[k] = e
    BY <1>2
  <2>. QED
    BY <2>1 DEF Waits
<1>6. Waits(p) = (Waits(q) \ {AsRequest(q[k])}) \union {AsRequest(e)}
  BY <1>3, <1>4, <1>5
<1>. QED
  BY <1>1, <1>6

\* How an event other than a load changes what waits.
Joins(e, old, new) ==
    \/ new = old
    \/ /\ ~stopping /\ ~stopped /\ e.kind # "Reload"
       /\ \/ e.kind \in OwnerKinds /\ new = old \union {AsRequest(e)}
          \/ e.kind \notin OwnerKinds /\ \E r \in old : r.nature = "hint" /\ new = old \ {r}
          \/ /\ e.kind \in OwnerKinds
             /\ \E r \in old :
                   /\ \/ NatureOf(e.kind) # "hint" /\ r.nature = "hint"
                      \/ NatureOf(e.kind) = "stream" /\ r.nature = "stream"
                   /\ new = (old \ {r}) \union {AsRequest(e)}

\* The natures that enqueue tells apart, by kind.
LEMMA Natures ==
    /\ \A k \in OwnerKinds : NatureOf(k) \in {"load", "call", "stream", "hint"}
    /\ \A k \in OwnerKinds : NatureOf(k) = "load" <=> k = "Reload"
    /\ \A k \in OwnerKinds : NatureOf(k) = "stream" <=> k = "Stream"
    /\ \A k \in OwnerKinds : NatureOf(k) = "hint" <=> k \in {"Update", "Hover"}
    /\ \A k \in CompletionKinds : NatureOf(k) = "own" /\ k \notin OwnerKinds
BY DEF OwnerKinds, CompletionKinds, NatureOf

\* Each of the ways through enqueue joins the requests that wait.
LEMMA EnqueueJoins ==
    ASSUME TypeOK, Numbered(queue), NEW e \in Event, Enqueue(e), ~AcceptReload(e)
    PROVE  /\ UNCHANGED <<generation, stopping, stopped>>
           /\ Joins(e, Waits(queue), Waits(queue'))
<1>0. queue \in Seq(Event)
  BY DEF TypeOK, LockedTypeOK
<1>1. UNCHANGED <<generation, stopping, stopped>>
  BY DEF Enqueue, Refuse, Supersede, ThrottleUpdate, RefuseUpdate, AcceptUpdate, Accept,
         Evict, locked, life
<1>2. CASE Refuse(e) \/ ThrottleUpdate(e) \/ RefuseUpdate(e)
  <2>1. UNCHANGED queue
    BY <1>2 DEF Refuse, ThrottleUpdate, RefuseUpdate, locked
  <2>. QED
    BY <1>1, <2>1 DEF Joins
<1>3. CASE Supersede(e)
  <2>1. PICK k \in DOMAIN queue : Superseded(e, k) /\ queue' = ReplaceAt(queue, k, e)
    BY <1>3 DEF Supersede
  <2>2. /\ e.kind = "Stream" /\ queue[k].kind = "Stream" /\ ~stopping /\ ~stopped
        /\ "Stream" \in OwnerKinds /\ NatureOf("Stream") = "stream"
    BY <1>3, <2>1 DEF Supersede, Superseded, Admitted, OwnerKinds, NatureOf
  <2>3. Waits(queue') = (Waits(queue) \ {AsRequest(queue[k])}) \union {AsRequest(e)}
    BY <1>0, <2>1, <2>2, WaitsReplace
  <2>4. AsRequest(queue[k]) \in Waits(queue) /\ AsRequest(queue[k]).nature = "stream"
    BY <2>2 DEF Waits, AsRequest
  <2>. QED
    BY <1>1, <2>2, <2>3, <2>4 DEF Joins
<1>4. CASE AcceptUpdate(e) \/ Accept(e)
  <2>1. /\ queue' = Append(queue, e) /\ ~stopping /\ ~stopped /\ e.kind # "Reload"
    BY <1>4 DEF AcceptUpdate, Accept, Admitted
  <2>2. Waits(queue')
           = Waits(queue) \union (IF e.kind \in OwnerKinds THEN {AsRequest(e)} ELSE {})
    BY <1>0, <2>1, WaitsAppend
  <2>. QED
    BY <1>1, <2>1, <2>2 DEF Joins
<1>5. CASE Evict(e)
  <2>1. PICK k \in DOMAIN queue :
           FirstEvictable(k) /\ queue' = Append(RemoveAt(queue, k), e)
    BY <1>5 DEF Evict
  <2>2. /\ ~stopping /\ ~stopped /\ e.kind \notin {"Reload", "Update", "Hover"}
        /\ queue[k].kind \in {"Update", "Hover"} /\ queue[k].kind \in OwnerKinds
    BY <1>5, <2>1 DEF Evict, Admitted, FirstEvictable, Evictable, OwnerKinds
  <2>3. PICK rest : rest = RemoveAt(queue, k)
    OBVIOUS
  <2>4. rest \in Seq(Event) /\ Waits(rest) = Waits(queue) \ {AsRequest(queue[k])}
    <3>1. RemoveAt(queue, k) \in Seq(Event)
      BY <1>0, RemoveAtIsSeq
    <3>2. Waits(RemoveAt(queue, k)) = Waits(queue) \ {AsRequest(queue[k])}
      BY <1>0, <2>2, WaitsRemove
    <3>. QED
      BY <2>3, <3>1, <3>2
  <2>5. Waits(queue')
           = Waits(rest) \union (IF e.kind \in OwnerKinds THEN {AsRequest(e)} ELSE {})
    BY <2>1, <2>3, <2>4, WaitsAppend
  <2>6. AsRequest(queue[k]) \in Waits(queue) /\ AsRequest(queue[k]).nature = "hint"
    BY <2>2, Natures DEF Waits, AsRequest
  <2>7. e.kind \in OwnerKinds => NatureOf(e.kind) # "hint"
    BY <2>2, Natures
  <2>. QED
    BY <1>1, <2>2, <2>4, <2>5, <2>6, <2>7 DEF Joins
<1>. QED
  BY <1>1, <1>2, <1>3, <1>4, <1>5 DEF Enqueue

\* enqueue gives each request a number no other in the mailbox has.
LEMMA EnqueueNumbered ==
    ASSUME TypeOK, RequestInv, Numbered(queue), NEW e \in Event, Enqueue(e),
           e.kind \in OwnerKinds => e.serial > serial,
           e.kind \in CompletionKinds => e.serial = 0
    PROVE  Numbered(queue')
<1>a. \A x \in Event : x.serial \in Nat
  BY DEF Event
<1>b. queue \in Seq(Event) /\ serial \in Nat
  BY DEF TypeOK, LockedTypeOK, OwnerTypeOK
<1>0. /\ Len(queue) \in Nat /\ DOMAIN queue = 1..Len(queue) /\ serial \in Nat
      /\ e.serial \in Nat /\ \A i \in DOMAIN queue : queue[i].serial \in Nat
  BY ONLY <1>a, <1>b, e \in Event
<1>1. OnePerStream
  BY DEF OnePerStream, RequestInv, QueueDiscipline
<1>2. PICK from : Origins(e, queue, queue', from)
  BY <1>1, EnqueueOrigins
<1>3. PICK new : new = queue'
  OBVIOUS
<1>4. new \in Seq(Event)
  BY <1>3, EnqueueType DEF TypeOK, LockedTypeOK
<1>5. Len(new) \in Nat /\ DOMAIN new = 1..Len(new) /\ Origins(e, queue, new, from)
  BY <1>2, <1>3, <1>4
<1>6. ASSUME NEW i \in DOMAIN new, from[i] = 0
      PROVE  new[i].kind = e.kind /\ new[i].serial = e.serial
  BY <1>5, <1>6 DEF Origins
<1>7. ASSUME NEW i \in DOMAIN new, from[i] # 0
      PROVE  from[i] \in DOMAIN queue /\ new[i] = queue[from[i]]
  BY <1>0, <1>5, <1>7 DEF Origins
<1>8. \A i, j \in DOMAIN new : i # j => from[i] # from[j]
  <2>. SUFFICES ASSUME NEW i \in DOMAIN new, NEW j \in DOMAIN new, i < j
                PROVE  from[i] # from[j]
    BY <1>5
  <2>. QED
    BY <1>0, <1>5, <1>7 DEF Origins
<1>9. ASSUME NEW i \in DOMAIN new, NEW j \in DOMAIN new, from[i] = 0, from[j] # 0,
             new[i].kind \in OwnerKinds, new[j].kind \in OwnerKinds
      PROVE  new[i].serial # new[j].serial
  <2>1. new[i].serial = e.serial /\ e.serial > serial
    BY <1>6, <1>9
  <2>2. from[j] \in DOMAIN queue /\ new[j] = queue[from[j]]
    BY <1>7, <1>9
  <2>3. new[j].serial <= serial /\ new[j].serial \in Nat
    BY <1>0, <1>9, <2>2 DEF RequestInv
  <2>. QED
    BY <1>0, <2>1, <2>3
<1>10. ASSUME NEW i \in DOMAIN new, NEW j \in DOMAIN new,
              new[i].kind \in OwnerKinds, new[j].kind \in OwnerKinds,
              new[i].serial = new[j].serial
       PROVE  i = j
  <2>1. CASE from[i] # 0 /\ from[j] # 0
    <3>1. from[i] = from[j]
      BY <1>7, <1>10, <2>1 DEF Numbered
    <3>. QED
      BY <1>8, <3>1
  <2>2. CASE from[i] = 0 /\ from[j] = 0
    BY <1>8, <2>2
  <2>. QED
    BY <1>9, <1>10, <2>1, <2>2
<1>11. ASSUME NEW i \in DOMAIN new, new[i].kind \in CompletionKinds
       PROVE  new[i].serial = 0
  BY <1>6, <1>7, <1>11 DEF Numbered
<1>. QED
  BY <1>3, <1>10, <1>11 DEF Numbered

\* An event taken from the head leaves the others their numbers.
LEMMA TailNumbered ==
    ASSUME NEW q \in Seq(Event), q # <<>>, Numbered(q)
    PROVE  Numbered(Tail(q))
<1>0. PICK p : p = Tail(q)
  OBVIOUS
<1>1. /\ Len(q) \in Nat \ {0} /\ DOMAIN q = 1..Len(q)
      /\ DOMAIN p = 1..(Len(q) - 1)
      /\ \A i \in DOMAIN p : i \in Nat /\ i + 1 \in DOMAIN q /\ p[i] = q[i + 1]
  BY <1>0
<1>2. ASSUME NEW i \in DOMAIN p, NEW j \in DOMAIN p,
             p[i].kind \in OwnerKinds, p[j].kind \in OwnerKinds, p[i].serial = p[j].serial
      PROVE  i = j
  <2>1. i + 1 = j + 1
    BY <1>1, <1>2 DEF Numbered
  <2>. QED
    BY <1>1, <2>1
<1>3. \A i \in DOMAIN p : p[i].kind \in CompletionKinds => p[i].serial = 0
  BY <1>1 DEF Numbered
<1>4. Numbered(p)
  BY <1>2, <1>3 DEF Numbered
<1>. QED
  BY <1>0, <1>4

\* What is no request leaves no gap.
LEMMA WaitsTailSame ==
    ASSUME NEW q \in Seq(Event), q # <<>>, q[1].kind \notin OwnerKinds
    PROVE  Waits(Tail(q)) = Waits(q)
<1>0. PICK p : p = Tail(q)
  OBVIOUS
<1>1. /\ Len(q) \in Nat \ {0} /\ DOMAIN q = 1..Len(q)
      /\ DOMAIN p = 1..(Len(q) - 1)
      /\ \A i \in DOMAIN p : i + 1 \in DOMAIN q /\ p[i] = q[i + 1]
      /\ \A j \in DOMAIN q : j # 1 => j - 1 \in DOMAIN p /\ p[j - 1] = q[j]
  BY <1>0
<1>2. ASSUME NEW x \in Waits(p) PROVE x \in Waits(q)
  <2>1. PICK i \in DOMAIN p : p[i].kind \in OwnerKinds /\ x = AsRequest(p[i])
    BY <1>2 DEF Waits
  <2>. QED
    BY <1>1, <2>1 DEF Waits
<1>3. ASSUME NEW x \in Waits(q) PROVE x \in Waits(p)
  <2>1. PICK j \in DOMAIN q : q[j].kind \in OwnerKinds /\ x = AsRequest(q[j])
    BY <1>3 DEF Waits
  <2>2. j # 1
    BY <2>1
  <2>. QED
    BY <1>1, <2>1, <2>2 DEF Waits
<1>4. Waits(p) = Waits(q)
  BY <1>2, <1>3
<1>. QED
  BY <1>0, <1>4

\* Every step leaves the requests of the mailbox numbered apart.
LEMMA NumberedStep ==
    TypeOK /\ RequestInv /\ Numbered(queue) /\ [Next]_vars => Numbered(queue')
<1>. SUFFICES ASSUME TypeOK, RequestInv, Numbered(queue), [Next]_vars
              PROVE  Numbered(queue')
  OBVIOUS
<1>0. serial \in Nat /\ generation \in Nat /\ queue \in Seq(Event)
  BY DEF TypeOK, LockedTypeOK, OwnerTypeOK
<1>1. ASSUME NEW kind \in OfferKinds, NEW key \in Streams \union {None}, Offer(kind, key)
      PROVE  Numbered(queue')
  <2>1. PICK e : e = [kind |-> kind, generation |-> generation,
                      serial |-> serial + 1, tag |-> key]
    OBVIOUS
  <2>2. Enqueue(e)
    BY <1>1, <2>1 DEF Offer
  <2>3. e \in Event /\ e.kind \notin CompletionKinds
    BY <1>0, <2>1, RuntimeAssumption DEF RuntimeAssumption, Event, OwnerKinds, CompletionKinds
  <2>4. e.serial > serial
    BY <1>0, <2>1
  <2>. QED
    BY <2>2, <2>3, <2>4, EnqueueNumbered
<1>2. ASSUME NEW op \in inflight, Complete(op) PROVE Numbered(queue')
  <2>1. PICK e : e = [kind |-> op.kind, generation |-> generation,
                      serial |-> 0, tag |-> op]
    OBVIOUS
  <2>2. Enqueue(e)
    BY <1>2, <2>1 DEF Complete
  <2>3. op \in Op /\ op.kind \in CompletionKinds
    BY DEF TypeOK, OwnerTypeOK, Op
  <2>4. e \in Event /\ e.serial = 0
    BY <1>0, <2>1, <2>3 DEF Event
  <2>5. e.kind \notin OwnerKinds
    BY <2>1, <2>3 DEF OwnerKinds, CompletionKinds
  <2>. QED
    BY <2>2, <2>4, <2>5, EnqueueNumbered
<1>3. ASSUME NEW w \in Worker, Pop(w) PROVE Numbered(queue')
  <2>1. queue # <<>> /\ queue' = Tail(queue)
    BY <1>3 DEF Pop
  <2>. QED
    BY <1>0, <2>1, TailNumbered
<1>4. CASE Stop
  <2>1. queue' = <<[kind |-> "Stop", generation |-> generation,
                    serial |-> 0, tag |-> None]>>
    BY <1>4 DEF Stop
  <2>2. DOMAIN queue' = {1}
    BY <2>1
  <2>. QED
    BY <2>1, <2>2 DEF Numbered
<1>5. ASSUME NEW w \in Worker, Halt(w) PROVE Numbered(queue')
  <2>1. DOMAIN queue' = {}
    BY <1>5 DEF Halt
  <2>. QED
    BY <2>1 DEF Numbered
<1>6. CASE UNCHANGED queue
  BY <1>6
<1>7. ASSUME NEW w \in Worker, TakeTask(w) \/ Drain(w), ~Pop(w), ~Halt(w)
      PROVE  UNCHANGED queue
  BY <1>7 DEF TakeTask, Drain, DrainEnds, Skip, Run, RefuseLoad, LoadHost, FirstUpdate,
              Settle, PostResult, ExitHost, locked
<1>8. CASE StopReturns \/ Deliver \/ UNCHANGED vars
  BY <1>8 DEF StopReturns, Deliver, vars, locked
<1>. QED
  BY <1>1, <1>2, <1>3, <1>4, <1>5, <1>6, <1>7, <1>8 DEF Next

\* What a worker holds in hand is its own, and it posts nothing else: the steps of
\* others leave it be.
LEMMA AnswerStep ==
    TypeOK /\ DrainInv /\ GenerationInv /\ HostInv /\ AnswerInv /\ [Next]_vars => AnswerInv'
<1>. SUFFICES ASSUME TypeOK, DrainInv, GenerationInv, HostInv, AnswerInv, [Next]_vars
              PROVE  AnswerInv'
  OBVIOUS
<1>0. /\ \A v, w \in Worker : pc[v] # "idle" /\ pc[w] # "idle" => v = w
      /\ pc \in [Worker -> {"idle", "pop", "run", "loaded", "settle", "post",
                            "exit", "halt"}]
      /\ event \in [Worker -> Event] /\ result \in [Worker -> ScriptResult]
      /\ generation \in Nat /\ host.generation \in Nat /\ host \in Host
      /\ \A w \in Worker : event[w].generation \in Nat
  BY DEF DrainInv, SingleDrain, Busy, TypeOK, WorkerTypeOK, LockedTypeOK, Event, Host
<1>1. ASSUME UNCHANGED <<pc, event, result, host>>,
             generation' \in Nat, generation <= generation'
      PROVE  AnswerInv'
  <2>. SUFFICES ASSUME NEW w \in Worker
                PROVE  /\ Answered(w) => Answered(w)'
                       /\ Failed(w) => Failed(w)'
    BY <1>1 DEF AnswerInv
  <2>1. Answered(w) => Answered(w)'
    BY <1>1 DEF Answered, HasHost
  <2>2. result[w].generation \in Nat
    BY <1>0 DEF ScriptResult
  <2>3. result[w].generation <= generation => result[w].generation <= generation'
    BY ONLY <1>0, <1>1, <2>2
  <2>4. Failed(w) => Failed(w)'
    BY <1>1, <2>3 DEF Failed, HasHost
  <2>. QED
    BY <2>1, <2>4
<1>2. ASSUME NEW w \in Worker, pc[w] # "idle",
             NEW p \in {"idle", "pop", "run", "exit", "halt"}, pc' = [pc EXCEPT ![w] = p]
      PROVE  AnswerInv'
  BY <1>0, <1>2 DEF AnswerInv
<1>3. ASSUME NEW w \in Worker, pc[w] # "idle",
             NEW p \in {"loaded", "settle", "post"}, pc' = [pc EXCEPT ![w] = p],
             \/ Answered(w)' \/ (p # "loaded" /\ Failed(w)')
             \/ p = "settle" /\ result'[w] = NoResult /\ event'[w].kind # "Reload"
      PROVE  AnswerInv'
  BY <1>0, <1>3 DEF AnswerInv
<1>4. ASSUME NEW w \in Worker, Skip(w) PROVE AnswerInv'
  <2>1. /\ pc[w] = "run" /\ pc' = [pc EXCEPT ![w] = "settle"]
        /\ result'[w] = NoResult /\ event'[w].kind # "Reload"
    BY <1>0, <1>4 DEF Skip
  <2>. QED
    BY <1>3, <2>1
<1>5. ASSUME NEW w \in Worker, Run(w) PROVE AnswerInv'
  <2>. DEFINE h == IF event[w].kind \in CompletionKinds
                   THEN [host EXCEPT !.callbacks[event[w].tag.ref] = 0] ELSE host
  <2>1. /\ pc[w] = "run" /\ pc' = [pc EXCEPT ![w] = "settle"] /\ UNCHANGED event
        /\ event[w].kind # "Reload" /\ HasHost /\ Call(w, h, {})
    BY <1>5 DEF Run
  <2>2. h \in Host /\ h.generation = host.generation
    BY <1>0 DEF Host
  <2>3. host.generation = event[w].generation
    BY <2>1 DEF GenerationInv, CallsMeetTheirHost
  <2>4. /\ host'.generation = host.generation
        /\ result'[w].generation = event[w].generation
        /\ result'[w].by = host.generation /\ result'[w].serial = event[w].serial
    <3>. HIDE DEF h
    <3>. QED
      BY <1>0, <2>1, <2>2, CallNames
  <2>5. Answered(w)'
    BY <2>1, <2>3, <2>4 DEF Answered, HasHost
  <2>. QED
    BY <1>3, <2>1, <2>5
<1>6. ASSUME NEW w \in Worker, LoadHost(w) PROVE AnswerInv'
  <2>. DEFINE h == [NoHost EXCEPT !.generation = event[w].generation]
  <2>1. /\ pc[w] = "run" /\ UNCHANGED event /\ event[w].kind = "Reload" /\ Call(w, h, {})
        /\ \E p \in {"loaded", "settle"} : pc' = [pc EXCEPT ![w] = p]
    BY <1>6 DEF LoadHost
  <2>2. h \in Host /\ h.generation = event[w].generation
    BY <1>0 DEF Host, NoHost
  <2>3. host.generation < event[w].generation
    BY <2>1 DEF HostInv, Unborn
  <2>4. event[w].generation > 0
    <3>1. PICK a, b : a = event[w].generation /\ b = host.generation
      OBVIOUS
    <3>2. a \in Nat /\ b \in Nat /\ b < a
      BY <1>0, <2>3, <3>1
    <3>3. a > 0
      BY ONLY <3>2
    <3>. QED
      BY <3>1, <3>3
  <2>5. /\ host'.generation = event[w].generation
        /\ result'[w].generation = event[w].generation
        /\ result'[w].by = event[w].generation /\ result'[w].serial = event[w].serial
    <3>. HIDE DEF h
    <3>. QED
      BY <1>0, <2>1, <2>2, CallNames
  <2>6. Answered(w)'
    BY <2>1, <2>4, <2>5 DEF Answered, HasHost
  <2>. QED
    BY <1>3, <2>1, <2>6
<1>7. ASSUME NEW w \in Worker, RefuseLoad(w) PROVE AnswerInv'
  <2>1. /\ pc[w] = "run" /\ pc' = [pc EXCEPT ![w] = "settle"]
        /\ UNCHANGED <<event, generation>> /\ event[w].kind = "Reload" /\ host' = NoHost
        /\ result'[w] = [NoResult EXCEPT !.generation = generation]
    BY <1>0, <1>7 DEF RefuseLoad, locked
  <2>2. host.generation < event[w].generation /\ event[w].generation <= generation
    BY <2>1 DEF HostInv, Unborn
  <2>3. 0 < generation
    <3>1. PICK a, b : a = event[w].generation /\ b = host.generation
      OBVIOUS
    <3>2. a \in Nat /\ b \in Nat /\ b < a /\ a <= generation /\ generation \in Nat
      BY <1>0, <2>2, <3>1
    <3>. QED
      BY ONLY <3>2
  <2>4. result'[w].by = 0 /\ result'[w].serial = 0 /\ result'[w].generation = generation
    BY <2>1 DEF NoResult
  <2>5. ~HasHost'
    BY <2>1 DEF HasHost, NoHost
  <2>6. generation <= generation
    BY <1>0
  <2>7. Failed(w)'
    BY <2>1, <2>2, <2>3, <2>4, <2>5, <2>6 DEF Failed
  <2>. QED
    BY <1>3, <2>1, <2>7
<1>8. ASSUME NEW w \in Worker, FirstUpdate(w) PROVE AnswerInv'
  <2>1. /\ pc[w] = "loaded" /\ pc' = [pc EXCEPT ![w] = "settle"] /\ UNCHANGED event
        /\ UNCHANGED <<host, result>> \/ Call(w, host, result[w].sounds)
    BY <1>8 DEF FirstUpdate
  <2>2. Answered(w)
    BY <2>1 DEF AnswerInv
  <2>3. CASE UNCHANGED <<host, result>>
    <3>1. Answered(w)'
      BY <2>1, <2>2, <2>3 DEF Answered, HasHost
    <3>. QED
      BY <1>3, <2>1, <3>1
  <2>4. CASE Call(w, host, result[w].sounds)
    <3>1. /\ host'.generation = host.generation
          /\ result'[w].generation = event[w].generation
          /\ result'[w].by = host.generation /\ result'[w].serial = event[w].serial
      BY <1>0, <2>4, CallNames
    <3>2. Answered(w)'
      BY <2>1, <2>2, <3>1 DEF Answered, HasHost
    <3>. QED
      BY <1>3, <2>1, <3>2
  <2>. QED
    BY <2>1, <2>3, <2>4
<1>9. ASSUME NEW w \in Worker, Settle(w) PROVE AnswerInv'
  <2>1. /\ pc[w] = "settle" /\ UNCHANGED <<event, result, host, generation>>
        /\ pc' = [pc EXCEPT ![w] = IF result[w] = NoResult THEN "pop" ELSE "post"]
    BY <1>9 DEF Settle
  <2>2. CASE result[w] = NoResult
    BY <1>2, <2>1, <2>2
  <2>3. CASE result[w] # NoResult
    <3>1. Answered(w) \/ Failed(w)
      BY <2>1, <2>3 DEF AnswerInv
    <3>2. Answered(w)' \/ Failed(w)'
      BY <2>1, <3>1 DEF Answered, Failed, HasHost
    <3>. QED
      BY <1>3, <2>1, <2>3, <3>2
  <2>. QED
    BY <2>2, <2>3
<1>10. ASSUME NEW w \in Worker,
              DrainEnds(w) \/ Pop(w) \/ PostResult(w) \/ ExitHost(w) \/ Halt(w)
       PROVE  AnswerInv'
  <2>1. /\ pc[w] # "idle"
        /\ \E p \in {"idle", "pop", "run", "exit", "halt"} : pc' = [pc EXCEPT ![w] = p]
    BY <1>10 DEF DrainEnds, Pop, PostResult, ExitHost, Halt
  <2>. QED
    BY <1>2, <2>1
<1>11. ASSUME NEW w \in Worker, TakeTask(w) PROVE AnswerInv'
  <2>1. /\ pc[w] = "idle" /\ pc' = [pc EXCEPT ![w] = "pop"]
        /\ UNCHANGED <<event, result, host, generation>>
    BY <1>11 DEF TakeTask
  <2>. SUFFICES ASSUME NEW v \in Worker, v # w
                PROVE  /\ pc'[v] = pc[v] /\ (Answered(v) <=> Answered(v)')
                       /\ Failed(v) <=> Failed(v)'
    BY <1>0, <2>1 DEF AnswerInv
  <2>. QED
    BY <1>0, <2>1 DEF Answered, Failed, HasHost
<1>12. CASE \/ \E kind \in OfferKinds, key \in Streams \union {None} : Offer(kind, key)
            \/ \E op \in inflight : Complete(op)
  <2>1. PICK e : Enqueue(e) /\ UNCHANGED <<pc, event, result, host>>
    BY <1>12 DEF Offer, Complete, task
  <2>2. generation' \in {generation, generation + 1}
    BY <2>1 DEF Enqueue, Refuse, Supersede, ThrottleUpdate, RefuseUpdate, AcceptUpdate,
                Accept, Evict, AcceptReload, locked
  <2>. QED
    BY <1>0, <1>1, <2>1, <2>2
<1>13. CASE Stop \/ StopReturns \/ Deliver \/ UNCHANGED vars
  <2>1. UNCHANGED <<pc, event, result, host, generation>>
    BY <1>13 DEF Stop, StopReturns, Deliver, vars, locked, task
  <2>. QED
    BY <1>0, <1>1, <2>1
<1>. QED
  BY <1>4, <1>5, <1>6, <1>7, <1>8, <1>9, <1>10, <1>11, <1>12, <1>13 DEF Next, Drain

\* What the refinement needs to know of mailbox and workers always holds.
LEMMA ServiceInvariant == Spec => []ServiceInv
<1>1. Init => ServiceInv
  <2>. SUFFICES ASSUME Init PROVE ServiceInv
    OBVIOUS
  <2>1. /\ \A w \in Worker : pc[w] = "idle"
        /\ DOMAIN queue = {}
    BY DEF Init
  <2>. QED
    BY <2>1 DEF ServiceInv, Numbered, AnswerInv
<1>2. TypeOK /\ DrainInv /\ (GenerationInv /\ ResultInv) /\ RequestInv
      /\ (HostInv /\ UpdateFlagsExact) /\ ServiceInv /\ [Next]_vars => ServiceInv'
  BY NumberedStep, AnswerStep DEF ServiceInv
<1>. QED
  BY <1>1, <1>2, TypeCorrect, DrainInvariant, GenerationInvariant, RequestInvariant,
     HostInvariant, PTL DEF Spec

At == {"run", "loaded", "settle", "post"}

\* A worker that drains is the only one that runs anything.
LEMMA OneRunner ==
    ASSUME NEW p, NEW e, NEW w \in Worker, \A v \in Worker : v # w => p[v] = "idle"
    PROVE  {AsRunning(e[u]) : u \in {v \in Worker : p[v] \in At}}
              = IF p[w] \in At THEN {AsRunning(e[w])} ELSE {}
BY DEF At

\* The request in hand is that of the worker that drains.
LEMMA RunsNow ==
    ASSUME NEW w \in Worker, \A v \in Worker : v # w => pc[v] = "idle"
    PROVE  running = IF pc[w] \in At THEN {AsRunning(event[w])} ELSE {}
BY OneRunner DEF running, Working, At

\* So it is after a step of that worker.
LEMMA RunsNext ==
    ASSUME NEW w \in Worker, \A v \in Worker : v # w => pc'[v] = "idle"
    PROVE  running' = IF pc'[w] \in At THEN {AsRunning(event'[w])} ELSE {}
<1>1. PICK p, e : p = pc' /\ e = event'
  OBVIOUS
<1>2. {AsRunning(e[u]) : u \in {v \in Worker : p[v] \in At}}
         = IF p[w] \in At THEN {AsRunning(e[w])} ELSE {}
  BY <1>1, OneRunner
<1>. QED
  BY <1>1, <1>2 DEF running, Working, At

\* What is on its way back.
LEMMA AnswersSeq ==
    ASSUME NEW d \in Seq(ScriptResult)
    PROVE  /\ AsAnswers(d) \in Seq([of: Nat, load: Nat, by: Nat])
           /\ Len(AsAnswers(d)) = Len(d)
           /\ \A i \in 1..Len(d) : AsAnswers(d)[i] = AsAnswer(d[i])
<1>1. Len(d) \in Nat /\ DOMAIN d = 1..Len(d) /\ \A i \in 1..Len(d) : d[i] \in ScriptResult
  OBVIOUS
<1>2. \A r \in ScriptResult : AsAnswer(r) \in [of: Nat, load: Nat, by: Nat]
  BY DEF AsAnswer, ScriptResult
<1>. QED
  BY <1>1, <1>2 DEF AsAnswers

\* A result that is posted goes behind the answers on their way back.
LEMMA AnswersAppend ==
    ASSUME NEW d \in Seq(ScriptResult), NEW r \in ScriptResult
    PROVE  AsAnswers(Append(d, r)) = Append(AsAnswers(d), AsAnswer(r))
<1>1. PICK c : c = Append(d, r)
  OBVIOUS
<1>2. PICK a : a = AsAnswers(d)
  OBVIOUS
<1>3. PICK x : x = AsAnswer(r)
  OBVIOUS
<1>4. PICK A : A = [of: Nat, load: Nat, by: Nat]
  OBVIOUS
<1>5. x \in A
  BY <1>3, <1>4 DEF AsAnswer, ScriptResult
<1>6. /\ c \in Seq(ScriptResult) /\ Len(c) = Len(d) + 1 /\ c[Len(d) + 1] = r
      /\ \A i \in 1..Len(d) : c[i] = d[i]
  BY <1>1, AppendProperties
<1>7. a \in Seq(A) /\ Len(a) = Len(d) /\ \A i \in 1..Len(d) : a[i] = AsAnswer(d[i])
  BY <1>2, <1>4, AnswersSeq
<1>8. PICK b : b = AsAnswers(c)
  OBVIOUS
<1>9. b \in Seq(A) /\ Len(b) = Len(c) /\ \A i \in 1..Len(c) : b[i] = AsAnswer(c[i])
  BY <1>4, <1>6, <1>8, AnswersSeq
<1>10. PICK t : t = Append(a, x)
  OBVIOUS
<1>11. /\ t \in Seq(A) /\ Len(t) = Len(a) + 1 /\ t[Len(a) + 1] = x
       /\ \A i \in 1..Len(a) : t[i] = a[i]
  BY <1>5, <1>7, <1>10, AppendProperties
<1>12. PICK n \in Nat : n = Len(d)
  OBVIOUS
<1>13. \A i \in 1..(n + 1) : i = n + 1 \/ i \in 1..n
  BY <1>12
<1>14. ASSUME NEW i \in 1..(n + 1) PROVE b[i] = t[i]
  <2>1. CASE i = n + 1
    BY <1>3, <1>6, <1>7, <1>9, <1>11, <1>12, <2>1
  <2>2. CASE i \in 1..n
    BY <1>6, <1>7, <1>9, <1>11, <1>12, <2>2
  <2>. QED
    BY <1>13, <2>1, <2>2
<1>15. Len(b) = n + 1 /\ Len(t) = n + 1
  BY <1>6, <1>7, <1>9, <1>11, <1>12
<1>16. b = t
  BY ONLY <1>9, <1>11, <1>14, <1>15, SeqEqual
<1>. QED
  BY <1>1, <1>2, <1>3, <1>8, <1>10, <1>16

\* A result that is delivered leaves the answers behind it.
LEMMA AnswersTail ==
    ASSUME NEW d \in Seq(ScriptResult), d # <<>>
    PROVE  /\ AsAnswers(d) # <<>>
           /\ Head(AsAnswers(d)) = AsAnswer(Head(d))
           /\ AsAnswers(Tail(d)) = Tail(AsAnswers(d))
<1>1. PICK c : c = Tail(d)
  OBVIOUS
<1>2. PICK a : a = AsAnswers(d)
  OBVIOUS
<1>3. PICK A : A = [of: Nat, load: Nat, by: Nat]
  OBVIOUS
<1>4. PICK n \in Nat : n = Len(d)
  OBVIOUS
<1>5. /\ c \in Seq(ScriptResult) /\ Len(c) = n - 1 /\ n > 0 /\ Head(d) = d[1]
      /\ \A i \in 1..(n - 1) : c[i] = d[i + 1]
  BY <1>1, <1>4
<1>6. a \in Seq(A) /\ Len(a) = n /\ \A i \in 1..n : a[i] = AsAnswer(d[i])
  BY <1>2, <1>3, <1>4, AnswersSeq
<1>7. a # <<>> /\ Head(a) = AsAnswer(Head(d))
  BY <1>5, <1>6
<1>8. PICK b : b = AsAnswers(c)
  OBVIOUS
<1>9. b \in Seq(A) /\ Len(b) = n - 1 /\ \A i \in 1..(n - 1) : b[i] = AsAnswer(c[i])
  BY <1>3, <1>5, <1>8, AnswersSeq
<1>10. PICK t : t = Tail(a)
  OBVIOUS
<1>11. /\ t \in Seq(A) /\ Len(t) = n - 1
       /\ \A i \in 1..(n - 1) : t[i] = a[i + 1]
  BY <1>6, <1>7, <1>10, HeadTailProperties
<1>12. ASSUME NEW i \in 1..(n - 1) PROVE b[i] = t[i]
  <2>1. i + 1 \in 1..n
    BY <1>4
  <2>. QED
    BY <1>5, <1>6, <1>9, <1>11, <2>1
<1>13. b = t
  BY ONLY <1>9, <1>11, <1>12, SeqEqual
<1>. QED
  BY <1>1, <1>2, <1>7, <1>8, <1>10, <1>13

\* What is known of a state of the runtime.
RuntimeInv ==
    TypeOK /\ DrainInv /\ GenerationInv /\ RequestInv /\ HostInv /\ ServiceInv

\* The owner asks, or an operation reports.
LEMMA OfferIsAsked ==
    ASSUME RuntimeInv, NEW kind \in OfferKinds, NEW key \in Streams \union {None},
           Offer(kind, key)
    PROVE  Service!Next
<1>0. /\ serial \in Nat /\ generation \in Nat /\ TypeOK /\ Numbered(queue)
  BY DEF RuntimeInv, TypeOK, LockedTypeOK, OwnerTypeOK, ServiceInv
<1>1. PICK e : e = [kind |-> kind, generation |-> generation,
                    serial |-> serial + 1, tag |-> key]
  OBVIOUS
<1>2. /\ e \in Event /\ e.kind \in OwnerKinds /\ e.serial = serial + 1
  BY <1>0, <1>1, RuntimeAssumption DEF RuntimeAssumption, Event
<1>3. /\ Enqueue(e) /\ serial' = serial + 1
      /\ UNCHANGED <<host, pc, event, deferred, delivered>>
  BY <1>1 DEF Offer, task
<1>4. UNCHANGED <<running, host.generation, answers, AsAnswer(delivered)>>
  BY <1>3 DEF running, Working, answers
<1>5. CASE AcceptReload(e)
  <2>1. /\ generation' = generation + 1 /\ UNCHANGED <<stopping, stopped>>
        /\ e.kind = "Reload" /\ ~stopping /\ ~stopped
        /\ queue' = <<[e EXCEPT !.generation = generation + 1]>>
    BY <1>5 DEF AcceptReload, Admitted, life, Reloaded
  <2>2. PICK x : x = [e EXCEPT !.generation = generation + 1]
    OBVIOUS
  <2>3. x.kind = "Reload" /\ x.serial = serial + 1
    BY <1>2, <2>1, <2>2 DEF Event
  <2>4. AsRequest(x) = [of |-> serial + 1, nature |-> "load"]
    BY <2>3 DEF AsRequest, NatureOf
  <2>5. DOMAIN queue' = {1} /\ queue'[1] = x
    BY <2>1, <2>2
  <2>6. waiting' = {AsRequest(x)}
    BY <2>3, <2>5 DEF waiting, Waits, OwnerKinds
  <2>7. Phase = "open" /\ Phase' = "open"
    BY <2>1 DEF Phase
  <2>8. Service!Load
    BY <1>3, <1>4, <2>1, <2>4, <2>6, <2>7 DEF Service!Load, Service!Request
  <2>. QED
    BY <2>8 DEF Service!Next
<1>6. CASE ~AcceptReload(e)
  <2>1. /\ UNCHANGED <<generation, stopping, stopped>>
        /\ Joins(e, waiting, waiting')
    BY <1>0, <1>2, <1>3, <1>6, EnqueueJoins DEF waiting
  <2>2. PICK nature : nature = NatureOf(e.kind)
    OBVIOUS
  <2>3. /\ nature \in Service!Nature /\ (nature = "load" <=> e.kind = "Reload")
        /\ AsRequest(e) = Service!Request(nature)
    BY <1>2, <2>2, Natures DEF Service!Nature, Service!Request, AsRequest
  <2>4. UNCHANGED Phase /\ (~stopping /\ ~stopped => Phase = "open")
    BY <2>1 DEF Phase
  <2>5. \/ UNCHANGED waiting
        \/ /\ Phase = "open" /\ nature # "load"
           /\ \/ waiting' = waiting \union {Service!Request(nature)}
              \/ \E r \in waiting :
                    /\ \/ nature # "hint" /\ r.nature = "hint"
                       \/ nature = "stream" /\ r.nature = "stream"
                    /\ waiting' = (waiting \ {r}) \union {Service!Request(nature)}
    BY <1>2, <2>1, <2>2, <2>3, <2>4 DEF Joins
  <2>6. Service!Ask(nature)
    BY <1>3, <1>4, <2>1, <2>4, <2>5 DEF Service!Ask
  <2>. QED
    BY <2>3, <2>6 DEF Service!Next
<1>. QED
  BY <1>5, <1>6

\* The completion of an operation is no request, but may evict a hint.
LEMMA CompleteDisplaces ==
    ASSUME RuntimeInv, NEW op \in inflight, Complete(op)
    PROVE  Service!Next \/ UNCHANGED Service!serviceVars
<1>0. /\ generation \in Nat /\ TypeOK /\ Numbered(queue)
      /\ op \in Op /\ op.kind \in CompletionKinds
  BY DEF RuntimeInv, TypeOK, LockedTypeOK, OwnerTypeOK, ServiceInv, Op
<1>1. PICK e : e = [kind |-> op.kind, generation |-> generation, serial |-> 0, tag |-> op]
  OBVIOUS
<1>2. e \in Event /\ e.kind \notin OwnerKinds /\ e.kind # "Reload"
  BY <1>0, <1>1 DEF Event, OwnerKinds, CompletionKinds
<1>3. /\ Enqueue(e) /\ UNCHANGED <<serial, host, pc, event, deferred, delivered>>
  BY <1>1 DEF Complete, task, owner
<1>4. UNCHANGED <<running, host.generation, answers, AsAnswer(delivered)>>
  BY <1>3 DEF running, Working, answers
<1>5. /\ UNCHANGED <<generation, stopping, stopped>>
      /\ Joins(e, waiting, waiting')
  BY <1>0, <1>2, <1>3, EnqueueJoins DEF waiting, AcceptReload
<1>6. UNCHANGED Phase /\ (~stopping /\ ~stopped => Phase = "open")
  BY <1>5 DEF Phase
<1>7. CASE UNCHANGED waiting
  BY <1>3, <1>4, <1>5, <1>6, <1>7 DEF Service!serviceVars
<1>8. CASE Phase = "open" /\ \E r \in waiting : r.nature = "hint" /\ waiting' = waiting \ {r}
  <2>1. Service!Displace
    BY <1>3, <1>4, <1>5, <1>6, <1>8 DEF Service!Displace
  <2>. QED
    BY <2>1 DEF Service!Next
<1>. QED
  BY <1>2, <1>5, <1>6, <1>7, <1>8 DEF Joins

\* While the runtime stops nothing is asked of it.
LEMMA NothingWaits ==
    ASSUME RuntimeInv, stopping
    PROVE  waiting = {}
<1>1. \A i \in DOMAIN queue : queue[i].kind \notin OwnerKinds
  BY DEF RuntimeInv, DrainInv, StopInv, OwnerKinds
<1>. QED
  BY <1>1 DEF waiting, Waits

\* stop() discards what waits.
LEMMA StopEnds ==
    ASSUME RuntimeInv, Stop
    PROVE  Service!Next
<1>1. /\ ~stopping /\ ~stopped /\ stopping' = TRUE /\ stopped' = stopped
      /\ queue' = <<[kind |-> "Stop", generation |-> generation,
                     serial |-> 0, tag |-> None]>>
      /\ UNCHANGED <<generation, host, pc, event, deferred, delivered, serial>>
  BY DEF Stop, task
<1>2. Phase = "open" /\ Phase' = "ending"
  BY <1>1 DEF Phase
<1>3. DOMAIN queue' = {1} /\ queue'[1].kind \notin OwnerKinds
  BY <1>1 DEF OwnerKinds
<1>4. waiting' = {}
  BY <1>3 DEF waiting, Waits
<1>5. UNCHANGED <<running, host.generation, answers, AsAnswer(delivered)>>
  BY <1>1 DEF running, Working, answers
<1>6. Service!End
  BY <1>1, <1>2, <1>4, <1>5 DEF Service!End
<1>. QED
  BY <1>6 DEF Service!Next

\* deliverResult shows the oldest answer, if it is of the current load.
LEMMA DeliverShows ==
    ASSUME RuntimeInv, Deliver
    PROVE  Service!Next
<1>1. /\ main = "free" /\ deferred # <<>> /\ deferred' = Tail(deferred)
      /\ delivered' = IF Head(deferred).generation # generation \/ stopped
                      THEN delivered ELSE Head(deferred)
      /\ UNCHANGED <<generation, queue, stopping, stopped, host, pc, event, serial>>
  BY DEF Deliver, locked, life, task
<1>2. deferred \in Seq(ScriptResult)
  BY DEF RuntimeInv, TypeOK, OwnerTypeOK
<1>3. stopping => stopped
  BY <1>1 DEF RuntimeInv, DrainInv, StopInv, StopIsFinal
<1>4. /\ answers # <<>> /\ Head(answers) = AsAnswer(Head(deferred))
      /\ answers' = Tail(answers)
  BY <1>1, <1>2, AnswersTail DEF answers
<1>5. UNCHANGED <<waiting, running, host.generation, Phase>>
  BY <1>1 DEF running, Working, waiting, Phase
<1>6. Phase = "open" <=> ~stopped
  BY <1>3 DEF Phase
<1>7. Head(answers).load = Head(deferred).generation
  BY <1>4 DEF AsAnswer
<1>8. AsAnswer(delivered)' = IF Phase = "open" /\ Head(answers).load = generation
                             THEN Head(answers) ELSE AsAnswer(delivered)
  BY <1>1, <1>4, <1>6, <1>7
<1>9. Service!Show
  BY <1>1, <1>4, <1>5, <1>8 DEF Service!Show
<1>. QED
  BY <1>9 DEF Service!Next

\* The steps of a worker that do not show.
LEMMA HiddenSteps ==
    ASSUME RuntimeInv,
           StopReturns \/ \E w \in Worker : TakeTask(w) \/ DrainEnds(w) \/ Skip(w) \/ Run(w)
                                            \/ FirstUpdate(w)
    PROVE  UNCHANGED Service!serviceVars
<1>0. /\ pc \in [Worker -> {"idle", "pop", "run", "loaded", "settle", "post",
                            "exit", "halt"}]
      /\ TypeOK
  BY DEF RuntimeInv, TypeOK, WorkerTypeOK
<1>1. CASE StopReturns
  <2>1. UNCHANGED <<serial, generation, queue, stopping, stopped, host, pc, event, deferred,
                    delivered>>
    BY <1>1 DEF StopReturns, locked, life, task
  <2>. QED
    BY <2>1 DEF Service!serviceVars, waiting, running, Working, answers, Phase
<1>2. ASSUME NEW w \in Worker,
             TakeTask(w) \/ DrainEnds(w) \/ Skip(w) \/ Run(w) \/ FirstUpdate(w)
      PROVE  UNCHANGED Service!serviceVars
  <2>1. UNCHANGED <<serial, generation, queue, stopping, stopped, event, deferred, delivered>>
    BY <1>2 DEF TakeTask, DrainEnds, Skip, Run, FirstUpdate, locked, life, task, owner
  <2>2. host'.generation = host.generation
    BY <1>0, <1>2, CallKeepsHost DEF TakeTask, DrainEnds, Skip
  <2>3. \E a, b \in {"idle", "pop", "run", "loaded", "settle"} :
           /\ pc[w] = a /\ pc' = [pc EXCEPT ![w] = b]
           /\ a \in {"run", "loaded", "settle", "post"}
              <=> b \in {"run", "loaded", "settle", "post"}
    BY <1>2 DEF TakeTask, DrainEnds, Skip, Run, FirstUpdate
  <2>4. \A v \in Worker : Working(v)' <=> Working(v)
    BY <1>0, <2>3 DEF Working
  <2>5. UNCHANGED running
    BY <2>1, <2>4 DEF running
  <2>. QED
    BY <2>1, <2>2, <2>5 DEF Service!serviceVars, waiting, answers, Phase
<1>. QED
  BY <1>1, <1>2

\* The next event is taken.
LEMMA PopBegins ==
    ASSUME RuntimeInv, NEW w \in Worker, Pop(w)
    PROVE  Service!Next \/ UNCHANGED Service!serviceVars
<1>0. /\ \A v \in Worker : v # w => pc[v] = "idle" /\ pc'[v] = "idle"
      /\ queue \in Seq(Event) /\ Numbered(queue)
      /\ pc \in [Worker -> {"idle", "pop", "run", "loaded", "settle", "post",
                            "exit", "halt"}]
      /\ event \in [Worker -> Event]
  BY DEF Pop, RuntimeInv, DrainInv, SingleDrain, Busy, TypeOK, WorkerTypeOK, LockedTypeOK,
         ServiceInv
<1>a. PICK e : e = Head(queue)
  OBVIOUS
<1>1. e = queue[1]
  <2>1. queue # <<>>
    BY DEF Pop
  <2>. QED
    BY <1>0, <1>a, <2>1
<1>2. /\ pc[w] = "pop" /\ queue # <<>> /\ ~stopped /\ queue' = Tail(queue)
      /\ event' = [event EXCEPT ![w] = e]
      /\ pc' = [pc EXCEPT ![w] = IF e.kind = "Stop" THEN "exit" ELSE "run"]
      /\ UNCHANGED <<serial, generation, host, stopping, stopped, deferred, delivered>>
  BY <1>a DEF Pop, life, owner
<1>3. 1 \in DOMAIN queue /\ DOMAIN queue = 1..Len(queue) /\ Len(queue) \in Nat
  BY <1>0, <1>2
<1>4. /\ e \in Event /\ e.generation = generation /\ (stopping <=> e.kind = "Stop")
  BY <1>0, <1>1, <1>3 DEF RuntimeInv, GenerationInv, DrainInv, StopInv
<1>5. running = {}
  BY <1>0, <1>2, RunsNow DEF At
<1>6. UNCHANGED <<host.generation, answers, AsAnswer(delivered), Phase>>
  BY <1>2 DEF answers, Phase
<1>7. CASE e.kind = "Stop"
  <2>1. pc'[w] = "exit"
    BY <1>0, <1>2, <1>7
  <2>2. running' = {}
    BY <1>0, <2>1, RunsNext DEF At
  <2>3. waiting' = waiting
    BY <1>0, <1>1, <1>2, <1>7, WaitsTailSame DEF waiting, OwnerKinds
  <2>. QED
    BY <1>2, <1>5, <1>6, <2>2, <2>3 DEF Service!serviceVars
<1>8. CASE e.kind # "Stop"
  <2>1. pc'[w] = "run" /\ event'[w] = e
    BY <1>0, <1>2, <1>8
  <2>2. running' = {AsRunning(e)}
    BY <1>0, <2>1, RunsNext DEF At
  <2>3. Phase = "open"
    BY <1>2, <1>4, <1>8 DEF Phase
  <2>4. CASE e.kind \in OwnerKinds
    <3>1. PICK r : r = AsRequest(e)
      OBVIOUS
    <3>2. r \in waiting
      BY <1>1, <1>3, <2>4, <3>1 DEF waiting, Waits
    <3>3. waiting' = waiting \ {r}
      BY <1>0, <1>1, <1>2, <2>4, <3>1, WaitsTail DEF waiting
    <3>4. running' = {[of |-> r.of, nature |-> r.nature, load |-> generation]}
      BY <1>4, <2>2, <3>1 DEF AsRequest, AsRunning
    <3>5. ASSUME r.nature \in {"load", "call", "hint"}, NEW s \in waiting, s.nature # "stream"
          PROVE  r.of <= s.of
      <4>1. PICK i \in DOMAIN queue : queue[i].kind \in OwnerKinds /\ s = AsRequest(queue[i])
        BY <3>5 DEF waiting, Waits
      <4>2. e.kind # "Stream" /\ queue[i].kind # "Stream"
        <5>1. r.nature = NatureOf(e.kind) /\ s.nature = NatureOf(queue[i].kind)
          BY <3>1, <4>1 DEF AsRequest
        <5>. QED
          BY <2>4, <3>5, <4>1, <5>1, Natures
      <4>3. CASE i = 1
        <5>1. r = s /\ r.of \in Nat
          BY <1>1, <1>4, <3>1, <4>1, <4>3 DEF AsRequest, Event
        <5>. QED
          BY <5>1
      <4>4. CASE i # 1
        <5>1. 1 < i
          BY <1>3, <4>4
        <5>2. {queue[1].kind, queue[i].kind} \subseteq OwnerKinds \ {"Stream"}
          BY <1>1, <2>4, <4>1, <4>2
        <5>3. queue[1].serial < queue[i].serial
          BY <1>3, <5>1, <5>2 DEF RuntimeInv, RequestInv, QueueDiscipline
        <5>4. queue[1].serial \in Nat /\ queue[i].serial \in Nat
          <6>1. \A x \in Event : x.serial \in Nat
            BY DEF Event
          <6>2. queue[1] \in Event /\ queue[i] \in Event
            BY <1>0, <1>3
          <6>. QED
            BY ONLY <6>1, <6>2
        <5>5. PICK a, b : a = queue[1].serial /\ b = queue[i].serial
          OBVIOUS
        <5>6. a <= b
          BY ONLY <5>3, <5>4, <5>5
        <5>. QED
          BY <1>1, <3>1, <4>1, <5>5, <5>6 DEF AsRequest
      <4>. QED
        BY <4>3, <4>4
    <3>6. Service!Begin
      BY <1>2, <1>5, <1>6, <2>3, <3>2, <3>3, <3>4, <3>5 DEF Service!Begin
    <3>. QED
      BY <3>6 DEF Service!Next
  <2>5. CASE e.kind \notin OwnerKinds
    <3>1. e.kind \in CompletionKinds
      BY <1>4, <1>8, <2>5 DEF Event
    <3>2. e.serial = 0 /\ NatureOf(e.kind) = "own"
      BY <1>0, <1>1, <1>3, <3>1, Natures DEF Numbered
    <3>3. Service!Own \notin waiting
      <4>. SUFFICES ASSUME Service!Own \in waiting PROVE FALSE
        OBVIOUS
      <4>1. PICK i \in DOMAIN queue :
               queue[i].kind \in OwnerKinds /\ Service!Own = AsRequest(queue[i])
        BY DEF waiting, Waits
      <4>2. NatureOf(queue[i].kind) = "own"
        BY <4>1 DEF Service!Own, AsRequest
      <4>. QED
        BY <4>1, <4>2, Natures
    <3>4. waiting' = waiting
      BY <1>0, <1>1, <1>2, <2>5, WaitsTailSame DEF waiting
    <3>5. PICK r : r = Service!Own
      OBVIOUS
    <3>6. r.of = 0 /\ r.nature = "own" /\ waiting' = waiting \ {r}
      BY <3>3, <3>4, <3>5 DEF Service!Own
    <3>7. running' = {[of |-> r.of, nature |-> r.nature, load |-> generation]}
      BY <1>4, <2>2, <3>2, <3>6 DEF AsRunning
    <3>8. Service!Begin
      BY <1>2, <1>5, <1>6, <2>3, <3>5, <3>6, <3>7 DEF Service!Begin
    <3>. QED
      BY <3>8 DEF Service!Next
  <2>. QED
    BY <2>4, <2>5
<1>. QED
  BY <1>7, <1>8

\* A script takes the place of its predecessor, or none does.
LEMMA LoadReplaces ==
    ASSUME RuntimeInv, NEW w \in Worker, LoadHost(w) \/ RefuseLoad(w)
    PROVE  Service!Next
<1>0. /\ \A v \in Worker : v # w => pc[v] = "idle"
      /\ pc \in [Worker -> {"idle", "pop", "run", "loaded", "settle", "post",
                            "exit", "halt"}]
      /\ host \in Host /\ event[w].generation \in Nat /\ result \in [Worker -> ScriptResult]
  BY DEF LoadHost, RefuseLoad, RuntimeInv, DrainInv, SingleDrain, Busy, TypeOK,
         WorkerTypeOK, Host, Event
<1>1. /\ pc[w] = "run" /\ event[w].kind = "Reload" /\ UNCHANGED event
      /\ \E p \in {"loaded", "settle"} : pc' = [pc EXCEPT ![w] = p]
      /\ UNCHANGED <<serial, generation, queue, stopping, stopped, deferred, delivered>>
  BY DEF LoadHost, RefuseLoad, locked, life, owner
<1>2. pc'[w] \in {"loaded", "settle"} /\ \A v \in Worker : v # w => pc'[v] = "idle"
  BY <1>0, <1>1
<1>3. running = {AsRunning(event[w])}
  BY <1>0, <1>1, RunsNow DEF At
<1>4. running' = {AsRunning(event[w])}
  BY <1>1, <1>2, RunsNext DEF At
<1>5. host'.generation \in {0, event[w].generation}
  <2>1. CASE LoadHost(w)
    <3>1. PICK h : h = [NoHost EXCEPT !.generation = event[w].generation]
      OBVIOUS
    <3>2. h \in Host /\ h.generation = event[w].generation /\ Call(w, h, {})
      BY <1>0, <2>1, <3>1 DEF Host, NoHost, LoadHost
    <3>. QED
      BY <1>0, <3>2, CallNames
  <2>2. CASE RefuseLoad(w)
    BY <2>2 DEF RefuseLoad, NoHost
  <2>. QED
    BY <2>1, <2>2
<1>6. host.generation < event[w].generation
  BY <1>1 DEF RuntimeInv, HostInv, Unborn
<1>7. PICK r : r = AsRunning(event[w])
  OBVIOUS
<1>8. r.nature = "load" /\ r.load = event[w].generation
  BY <1>1, <1>7 DEF AsRunning, NatureOf
<1>9. UNCHANGED <<waiting, answers, AsAnswer(delivered), Phase, running>>
  BY <1>1, <1>3, <1>4 DEF waiting, answers, Phase
<1>10. Service!Replace
  BY <1>1, <1>3, <1>5, <1>6, <1>7, <1>8, <1>9 DEF Service!Replace
<1>. QED
  BY <1>10 DEF Service!Next

\* The script has nothing to say, or its answer is posted.
LEMMA SettlePasses ==
    ASSUME RuntimeInv, NEW w \in Worker, Settle(w)
    PROVE  Service!Next \/ UNCHANGED Service!serviceVars
<1>0. /\ \A v \in Worker : v # w => pc[v] = "idle"
      /\ pc \in [Worker -> {"idle", "pop", "run", "loaded", "settle", "post",
                            "exit", "halt"}]
      /\ event[w] \in Event
  BY DEF Settle, RuntimeInv, DrainInv, SingleDrain, Busy, TypeOK, WorkerTypeOK
<1>1. /\ pc[w] = "settle"
      /\ pc' = [pc EXCEPT ![w] = IF result[w] = NoResult THEN "pop" ELSE "post"]
      /\ UNCHANGED <<serial, generation, host, queue, stopping, stopped, event, deferred,
                     delivered>>
  BY DEF Settle, life, owner
<1>2. \A v \in Worker : v # w => pc'[v] = "idle"
  BY <1>0, <1>1
<1>3. running = {AsRunning(event[w])}
  BY <1>0, <1>1, RunsNow DEF At
<1>4. UNCHANGED <<waiting, host.generation, answers, AsAnswer(delivered), Phase>>
  BY <1>1 DEF waiting, answers, Phase
<1>5. CASE result[w] = NoResult
  <2>1. pc'[w] = "pop"
    BY <1>0, <1>1, <1>5
  <2>2. running' = {}
    BY <1>2, <2>1, RunsNext DEF At
  <2>3. result[w].by = 0 /\ result[w].generation = 0
    BY <1>5 DEF NoResult
  <2>4. ~Answered(w) /\ ~Failed(w)
    BY <2>3 DEF Answered, Failed, HasHost
  <2>5. event[w].kind # "Reload"
    BY <1>1, <2>4 DEF RuntimeInv, ServiceInv, AnswerInv
  <2>6. PICK r : r = AsRunning(event[w])
    OBVIOUS
  <2>7. r.nature # "load"
    <3>1. event[w].kind \in OwnerKinds \union CompletionKinds \union {"Stop"}
      BY <1>0 DEF Event
    <3>2. NatureOf("Stop") = "own"
      BY DEF NatureOf
    <3>3. NatureOf(event[w].kind) # "load"
      BY <2>5, <3>1, <3>2, Natures
    <3>. QED
      BY <2>6, <3>3 DEF AsRunning
  <2>8. Service!Pass
    BY <1>1, <1>3, <1>4, <2>2, <2>6, <2>7 DEF Service!Pass
  <2>. QED
    BY <2>8 DEF Service!Next
<1>6. CASE result[w] # NoResult
  <2>1. pc'[w] = "post"
    BY <1>0, <1>1, <1>6
  <2>2. running' = {AsRunning(event[w])}
    BY <1>1, <1>2, <2>1, RunsNext DEF At
  <2>. QED
    BY <1>1, <1>3, <1>4, <2>2 DEF Service!serviceVars
<1>. QED
  BY <1>5, <1>6

\* A posted result is the answer of the script, or the news that there is none.
LEMMA PostAnswers ==
    ASSUME RuntimeInv, NEW w \in Worker, PostResult(w)
    PROVE  Service!Next
<1>0. /\ \A v \in Worker : v # w => pc[v] = "idle"
      /\ pc \in [Worker -> {"idle", "pop", "run", "loaded", "settle", "post",
                            "exit", "halt"}]
      /\ result[w] \in ScriptResult /\ deferred \in Seq(ScriptResult) /\ host.generation \in Nat
  BY DEF PostResult, RuntimeInv, DrainInv, SingleDrain, Busy, TypeOK, WorkerTypeOK, OwnerTypeOK
<1>1. /\ pc[w] = "post" /\ pc' = [pc EXCEPT ![w] = "pop"]
      /\ deferred' = Append(deferred, result[w])
      /\ UNCHANGED <<serial, generation, host, queue, stopping, stopped, event, delivered>>
  BY DEF PostResult, locked, life
<1>2. /\ pc'[w] = "pop" /\ \A v \in Worker : v # w => pc'[v] = "idle"
  BY <1>0, <1>1
<1>3. running = {AsRunning(event[w])}
  BY <1>0, <1>1, RunsNow DEF At
<1>4. running' = {}
  BY <1>2, RunsNext DEF At
<1>5. UNCHANGED <<waiting, host.generation, AsAnswer(delivered), Phase>>
  BY <1>1 DEF waiting, Phase
<1>6. answers' = Append(answers, AsAnswer(result[w]))
  BY <1>0, <1>1, AnswersAppend DEF answers
<1>7. Answered(w) \/ Failed(w)
  BY <1>1 DEF RuntimeInv, ServiceInv, AnswerInv
<1>8. PICK r : r = AsRunning(event[w])
  OBVIOUS
<1>9. r.of = event[w].serial /\ r.load = event[w].generation
      /\ r.nature = NatureOf(event[w].kind)
  BY <1>8 DEF AsRunning
<1>10. CASE Answered(w)
  <2>1. /\ host.generation = r.load
        /\ AsAnswer(result[w]) = [of |-> r.of, load |-> r.load, by |-> host.generation]
    BY <1>9, <1>10 DEF Answered, AsAnswer
  <2>2. Service!Answer
    BY <1>1, <1>3, <1>4, <1>5, <1>6, <1>8, <2>1 DEF Service!Answer
  <2>. QED
    BY <2>2 DEF Service!Next
<1>11. CASE Failed(w)
  <2>1. host.generation = 0 /\ r.nature = "load"
    BY <1>0, <1>9, <1>11 DEF Failed, HasHost, NatureOf
  <2>2. PICK g : g = result[w].generation
    OBVIOUS
  <2>3. AsAnswer(result[w]) = [of |-> 0, load |-> g, by |-> 0]
    BY <1>11, <2>2 DEF Failed, AsAnswer
  <2>4. g \in r.load..generation
    <3>1. g \in Nat /\ event[w].generation \in Nat /\ generation \in Nat
      BY <1>0, <2>2 DEF ScriptResult, RuntimeInv, TypeOK, WorkerTypeOK, LockedTypeOK, Event
    <3>2. r.load <= g /\ g <= generation
      BY <1>9, <1>11, <2>2 DEF Failed
    <3>. QED
      BY <1>9, <3>1, <3>2
  <2>5. Service!Fail
    BY <1>1, <1>3, <1>4, <1>5, <1>6, <1>8, <2>1, <2>3, <2>4 DEF Service!Fail
  <2>. QED
    BY <2>5 DEF Service!Next
<1>. QED
  BY <1>7, <1>10, <1>11

\* The script leaves, and the end is announced.
LEMMA ExitLeaves ==
    ASSUME RuntimeInv, NEW w \in Worker, ExitHost(w) \/ Halt(w)
    PROVE  Service!Next
<1>0. /\ \A v \in Worker : v # w => pc[v] = "idle"
      /\ pc \in [Worker -> {"idle", "pop", "run", "loaded", "settle", "post",
                            "exit", "halt"}]
      /\ pc[w] \in {"exit", "halt"} /\ host.generation \in Nat
  BY DEF ExitHost, Halt, RuntimeInv, DrainInv, SingleDrain, Busy, TypeOK, WorkerTypeOK
<1>1. /\ \E p \in {"idle", "halt"} : pc' = [pc EXCEPT ![w] = p]
      /\ UNCHANGED <<serial, generation, event, stopping, deferred, delivered>>
  BY DEF ExitHost, Halt, locked, life, owner
<1>2. /\ pc'[w] \in {"idle", "halt"} /\ \A v \in Worker : v # w => pc'[v] = "idle"
  BY <1>0, <1>1
<1>3. running = {} /\ running' = {}
  BY <1>0, <1>2, RunsNow, RunsNext DEF At
<1>4. stopping /\ ~stopped /\ Phase = "ending"
  BY <1>0 DEF RuntimeInv, DrainInv, StopInv, Phase
<1>5. UNCHANGED <<answers, AsAnswer(delivered)>>
  BY <1>1 DEF answers
<1>6. CASE ExitHost(w)
  <2>1. host'.generation = 0 /\ UNCHANGED <<queue, stopped>>
    BY <1>6 DEF ExitHost, NoHost, locked, life
  <2>2. UNCHANGED <<waiting, Phase>>
    BY <1>1, <2>1 DEF waiting, Phase
  <2>3. Service!Leave
    BY <1>1, <1>3, <1>4, <1>5, <2>1, <2>2 DEF Service!Leave
  <2>. QED
    BY <2>3 DEF Service!Next
<1>7. CASE Halt(w)
  <2>1. /\ pc[w] = "halt" /\ queue' = <<>> /\ stopped' = TRUE /\ UNCHANGED host
    BY <1>7 DEF Halt
  <2>2. host.generation = 0
    BY <1>0, <2>1 DEF RuntimeInv, DrainInv, StopInv, HasHost
  <2>3. Phase' = "ended"
    BY <2>1 DEF Phase
  <2>4. waiting = {}
    BY <1>4, NothingWaits
  <2>5. waiting' = {}
    <3>1. DOMAIN queue' = {}
      BY <2>1
    <3>. QED
      BY <3>1 DEF waiting, Waits
  <2>6. Service!Ended
    BY <1>1, <1>3, <1>4, <1>5, <2>1, <2>2, <2>3, <2>4, <2>5 DEF Service!Ended
  <2>. QED
    BY <2>6 DEF Service!Next
<1>. QED
  BY <1>6, <1>7

\* Every step of the runtime is one of the service, or does not show.
LEMMA ServiceStep ==
    RuntimeInv /\ [Next]_vars => [Service!Next]_Service!serviceVars
<1>. SUFFICES ASSUME RuntimeInv, [Next]_vars
              PROVE  Service!Next \/ UNCHANGED Service!serviceVars
  OBVIOUS
<1>1. CASE \E kind \in OfferKinds, key \in Streams \union {None} : Offer(kind, key)
  BY <1>1, OfferIsAsked
<1>2. CASE \E op \in inflight : Complete(op)
  BY <1>2, CompleteDisplaces
<1>3. CASE Stop
  BY <1>3, StopEnds
<1>4. CASE Deliver
  BY <1>4, DeliverShows
<1>5. CASE StopReturns
  BY <1>5, HiddenSteps
<1>6. ASSUME NEW w \in Worker, TakeTask(w) \/ Drain(w)
      PROVE  Service!Next \/ UNCHANGED Service!serviceVars
  <2>1. CASE TakeTask(w) \/ DrainEnds(w) \/ Skip(w) \/ Run(w) \/ FirstUpdate(w)
    BY <2>1, HiddenSteps
  <2>2. CASE Pop(w)
    BY <2>2, PopBegins
  <2>3. CASE LoadHost(w) \/ RefuseLoad(w)
    BY <2>3, LoadReplaces
  <2>4. CASE Settle(w)
    BY <2>4, SettlePasses
  <2>5. CASE PostResult(w)
    BY <2>5, PostAnswers
  <2>6. CASE ExitHost(w) \/ Halt(w)
    BY <2>6, ExitLeaves
  <2>. QED
    BY <1>6, <2>1, <2>2, <2>3, <2>4, <2>5, <2>6 DEF Drain
<1>7. CASE UNCHANGED vars
  <2>1. UNCHANGED <<serial, generation, queue, stopping, stopped, host, pc, event, deferred,
                    delivered>>
    BY <1>7 DEF vars, locked, life, task, owner
  <2>. QED
    BY <2>1 DEF Service!serviceVars, waiting, running, Working, answers, Phase
<1>. QED
  BY <1>1, <1>2, <1>3, <1>4, <1>5, <1>6, <1>7 DEF Next

\* A new runtime is a service of which nothing was asked.
LEMMA ServiceStarts == Init => Service!Init
<1>. SUFFICES ASSUME Init PROVE Service!Init
  OBVIOUS
<1>1. /\ DOMAIN queue = {} /\ deferred = <<>> /\ \A w \in Worker : pc[w] = "idle"
      /\ serial = 0 /\ generation = 0 /\ host = NoHost /\ delivered = NoResult
      /\ ~stopping /\ ~stopped
  BY DEF Init
<1>2. waiting = {} /\ running = {} /\ answers = <<>> /\ Phase = "open"
  BY <1>1 DEF waiting, Waits, running, Working, answers, AsAnswers, Phase
<1>3. host.generation = 0 /\ AsAnswer(delivered) = [of |-> 0, load |-> 0, by |-> 0]
  BY <1>1 DEF NoHost, NoResult, AsAnswer
<1>. QED
  BY <1>1, <1>2, <1>3 DEF Service!Init

\* enqueue, drain, processEvent, deliverResult and stop together are the script of
\* ScriptService: whatever the interleaving, an accepted call is dropped by a
\* reload or the stop alone, requests are begun once and in order, by the host
\* they were meant for, and an answer is shown in order or, its host out of
\* date, not at all.
THEOREM RuntimeImplementsService == Spec => ServiceIsImplemented
<1>1. TypeOK /\ DrainInv /\ (GenerationInv /\ ResultInv) /\ RequestInv
      /\ (HostInv /\ UpdateFlagsExact) /\ ServiceInv
      => RuntimeInv
  BY DEF RuntimeInv
<1>. QED
  BY <1>1, ServiceStarts, ServiceStep, TypeCorrect, DrainInvariant, GenerationInvariant,
     RequestInvariant, HostInvariant, ServiceInvariant, PTL
     DEF Spec, ServiceIsImplemented, Service!Spec
=============================================================================
