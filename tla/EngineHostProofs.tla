-------------------------- MODULE EngineHostProofs ---------------------------
(***************************************************************************)
(* Proofs about EngineHost, for any commands, queries, workers and         *)
(* listeners: its types, that every request is handled once, that nothing  *)
(* a panic left behind is ever published, that no background result is     *)
(* left without a wake, that updates and replies come in order, that a     *)
(* query sees what arrived before it, and that a stop loses none of that.  *)
(***************************************************************************)
EXTENDS EngineHost, SequenceTheorems, TLAPS

-----------------------------------------------------------------------------
(* The channel.                                                             *)

\* A job put into the channel comes behind the others.
LEMMA Enqueued ==
    ASSUME queue \in Seq(Jobs), NEW j \in Jobs, Enqueue(j)
    PROVE  /\ queue' \in Seq(Jobs)
           /\ DOMAIN queue = 1 .. Len(queue)
           /\ DOMAIN queue' = 1 .. (Len(queue) + 1)
           /\ \A i \in DOMAIN queue : i \in DOMAIN queue' /\ queue'[i] = queue[i]
           /\ queue'[Len(queue) + 1] = j
           /\ Len(queue) + 1 \in DOMAIN queue'
BY AppendProperties, LenProperties DEF Enqueue

\* The job received is the first one, and the others move up.
LEMMA Received ==
    ASSUME queue \in Seq(Jobs), NEW j, Receive(j)
    PROVE  /\ queue' \in Seq(Jobs)
           /\ j \in Jobs
           /\ 1 \in DOMAIN queue /\ queue[1] = j
           /\ \A i \in DOMAIN queue' :
                 i \in Nat \ {0} /\ i + 1 \in DOMAIN queue /\ queue'[i] = queue[i + 1]
           /\ \A i \in DOMAIN queue : i # 1 =>
                 i \in Nat /\ i - 1 \in DOMAIN queue' /\ queue'[i - 1] = queue[i]
BY HeadTailProperties, LenProperties DEF Receive

-----------------------------------------------------------------------------
(* Types, and every request handled once.                                   *)

\* At first every value is of its type and no request is anywhere.
LEMMA InitTyped == Init => TypeOK /\ HandledOnce
<1> SUFFICES ASSUME Init PROVE TypeOK /\ HandledOnce
  OBVIOUS
<1>1. /\ queue = <<"wake">> /\ queue \in Seq(Jobs)
      /\ DOMAIN queue = {1} /\ queue[1] = "wake"
  BY DEF Init, Jobs
<1>2. TypeOK
  BY <1>1 DEF Init, TypeOK, Phases, Outcomes, Effects
<1>3. HandledOnce
  BY <1>1, HostAssumption DEF Init, HandledOnce
<1> QED
  BY <1>2, <1>3

\* Every step keeps the types.
LEMMA NextTypeOK == TypeOK /\ HandledOnce /\ [Next]_vars => TypeOK'
<1> SUFFICES ASSUME TypeOK, HandledOnce, [Next]_vars PROVE TypeOK'
  OBVIOUS
<1> USE HostAssumption
    DEF TypeOK, Phases, Outcomes, Effects, hostVars, listVars, callVars, wakeVars
<1>1. CASE TakeWake
  <2>1. queue' \in Seq(Jobs)
    BY <1>1, Received DEF TakeWake
  <2> QED
    BY <1>1, <2>1 DEF TakeWake
<1>2. CASE TakeStop
  <2>1. queue' \in Seq(Jobs)
    BY <1>2, Received DEF TakeStop
  <2> QED
    BY <1>2, <2>1 DEF TakeStop
<1>3. ASSUME NEW r \in Requests, TakeRequest(r) PROVE TypeOK'
  <2>1. queue' \in Seq(Jobs)
    BY <1>3, Received DEF TakeRequest
  <2> QED
    BY <1>3, <2>1 DEF TakeRequest
<1>4. CASE Disconnect
  BY <1>4 DEF Disconnect
<1>5. CASE DropReceiver
  BY <1>5 DEF DropReceiver
<1>6. CASE RunWake
  BY <1>6 DEF RunWake
<1>7. CASE RefusePoisoned
  BY <1>7 DEF RefusePoisoned
<1>8. CASE RunCommand
  BY <1>8 DEF RunCommand
<1>9. CASE PanicCommand
  BY <1>9 DEF PanicCommand
<1>10. CASE RunQuery
  BY <1>10 DEF RunQuery, Settled
<1>11. CASE Publish
  BY <1>11 DEF Publish, AfterPublish, HandledOnce
<1>12. CASE CopyListeners
  BY <1>12 DEF CopyListeners
<1>13. CASE ToldAll
  BY <1>13 DEF ToldAll, AfterPublish, HandledOnce
<1>14. CASE Reply
  BY <1>14 DEF Reply
<1>15. ASSUME NEW l \in Listeners, TellOne(l) PROVE TypeOK'
  BY <1>15 DEF TellOne
<1>16. ASSUME NEW r \in Requests, Dispatch(r) PROVE TypeOK'
  <2>1. CASE CanSend
    <3>1. Enqueue(r) /\ phase' = [phase EXCEPT ![r] = "queued"]
      BY <1>16, <2>1 DEF Dispatch
    <3>2. queue' \in Seq(Jobs)
      BY <3>1, Enqueued DEF Jobs
    <3>3. arrived' \in [Queries -> SUBSET Commands]
      <4> DEFINE before == {c \in Commands : phase[c] # "new"}
      <4>1. before \in SUBSET Commands
        OBVIOUS
      <4>2. arrived' = IF r \in Queries THEN [arrived EXCEPT ![r] = before] ELSE arrived
        BY <1>16, <2>1 DEF Dispatch
      <4> HIDE DEF before
      <4>3. CASE r \in Queries
        BY <4>1, <4>2, <4>3
      <4>4. CASE r \notin Queries
        BY <4>2, <4>4
      <4> QED
        BY <4>3, <4>4
    <3> QED
      BY <1>16, <2>1, <3>1, <3>2, <3>3 DEF Dispatch
  <2>2. CASE ~CanSend
    <3>1. /\ phase' = [phase EXCEPT ![r] = "done"]
          /\ outcome' = [outcome EXCEPT ![r] = "engine_stopped"]
          /\ replyRev' = [replyRev EXCEPT ![r] = revision]
          /\ UNCHANGED <<queue, arrived>>
          /\ UNCHANGED <<engine, job, poisoned, own, hostVars, listVars, returned,
                         cancelled, seen, wakeVars, handles, broken, ahead>>
      BY <1>16, <2>2 DEF Dispatch
    <3> QED
      BY <3>1
  <2> QED
    BY <2>1, <2>2
<1>17. ASSUME NEW r \in Requests, Cancel(r) PROVE TypeOK'
  BY <1>17 DEF Cancel
<1>18. ASSUME NEW r \in Requests, Return(r) PROVE TypeOK'
  <2>1. cancelled \in [Requests -> BOOLEAN]
    OBVIOUS
  <2>2. \/ cancelled' = cancelled
        \/ cancelled' = [cancelled EXCEPT ![r] = TRUE]
        \/ cancelled' = [cancelled EXCEPT ![r] = FALSE]
    <3>1. (r \in Queries) = TRUE \/ (r \in Queries) = FALSE
      OBVIOUS
    <3>2. \/ cancelled' = cancelled
          \/ cancelled' = [cancelled EXCEPT ![r] = (r \in Queries)]
      BY <1>18, Zenon DEF Return
    <3> QED
      BY <3>1, <3>2, Zenon
  <2> QED
    <3>1. cancelled' \in [Requests -> BOOLEAN]
      BY <2>1, <2>2
    <3>2. returned' \in [Requests -> Outcomes]
      BY <1>18 DEF Return
    <3>3. UNCHANGED <<queue, engine, job, poisoned, own, hostVars, listVars,
                      phase, outcome, replyRev, arrived, seen, wakeVars, handles,
                      broken, ahead>>
      BY <1>18 DEF Return
    <3> QED
      BY <3>1, <3>2, <3>3
<1>19. ASSUME NEW r \in Requests, Timeout(r) PROVE TypeOK'
  BY <1>19 DEF Timeout
<1>20. ASSUME NEW q \in Queries, Answer(q) PROVE TypeOK'
  BY <1>20 DEF Answer, Settled, Requests
<1>21. ASSUME NEW q \in Queries, ReplyQuery(q) PROVE TypeOK'
  BY <1>21 DEF ReplyQuery, Requests
<1>22. CASE Stop
  <2>1. queue' \in Seq(Jobs)
    BY <1>22, Enqueued DEF Stop, Jobs
  <2> QED
    BY <1>22, <2>1 DEF Stop
<1>23. CASE DropHandles
  BY <1>23 DEF DropHandles
<1>24. ASSUME NEW l \in Listeners, Subscribe(l) \/ Snapshot(l) \/ Unsubscribe(l)
       PROVE  TypeOK'
  BY <1>24 DEF Subscribe, Snapshot, Unsubscribe
<1>25. ASSUME NEW w \in Workers, Deliver(w) \/ WakeSwap(w) \/ WakeUndo(w)
       PROVE  TypeOK'
  <2>1. CASE WakeSwap(w)
    <3>1. woke' \in [Workers -> BOOLEAN]
      BY <2>1, Zenon DEF WakeSwap
    <3> QED
      BY <2>1, <3>1 DEF WakeSwap
  <2>2. CASE Deliver(w)
    BY <2>2 DEF Deliver
  <2>3. CASE WakeUndo(w)
    BY <2>3 DEF WakeUndo
  <2> QED
    BY <1>25, <2>1, <2>2, <2>3
<1>26. ASSUME NEW w \in Workers, WakeSend(w) PROVE TypeOK'
  <2>1. queue' \in Seq(Jobs)
    BY <1>26, Enqueued DEF WakeSend, Jobs
  <2> QED
    BY <1>26, <2>1 DEF WakeSend
<1>27. CASE UNCHANGED vars
  BY <1>27 DEF vars
<1> QED
  BY <1>1, <1>2, <1>3, <1>4, <1>5, <1>6, <1>7, <1>8, <1>9, <1>10, <1>11, <1>12,
     <1>13, <1>14, <1>15, <1>16, <1>17, <1>18, <1>19, <1>20, <1>21, <1>22, <1>23,
     <1>24, <1>25, <1>26, <1>27
     DEF Next, EngineStep, WakeStep

\* What is left in the channel after a job is taken out of it.
LEMMA ReceivedOnce ==
    ASSUME TypeOK, HandledOnce, NEW j, Receive(j)
    PROVE  \A i \in DOMAIN queue' :
              queue'[i] \in Requests =>
                  /\ phase[queue'[i]] = "queued"
                  /\ queue'[i] # j
                  /\ \A m \in DOMAIN queue' : queue'[m] = queue'[i] => m = i
<1> SUFFICES ASSUME NEW i \in DOMAIN queue', queue'[i] \in Requests
             PROVE  /\ phase[queue'[i]] = "queued"
                    /\ queue'[i] # j
                    /\ \A m \in DOMAIN queue' : queue'[m] = queue'[i] => m = i
  OBVIOUS
<1>1. \A m \in DOMAIN queue' :
         m \in Nat \ {0} /\ m + 1 \in DOMAIN queue /\ queue'[m] = queue[m + 1]
  BY Received DEF TypeOK
<1>2. 1 \in DOMAIN queue /\ queue[1] = j
  BY Received DEF TypeOK
<1>3. phase[queue'[i]] = "queued"
  BY <1>1 DEF HandledOnce
<1>4. queue'[i] # j
  <2> SUFFICES ASSUME queue[i + 1] = queue[1] PROVE FALSE
    BY <1>1, <1>2
  <2>1. 1 = i + 1
    BY <1>1, <1>2 DEF HandledOnce
  <2> QED
    BY <1>1, <2>1
<1>5. ASSUME NEW m \in DOMAIN queue', queue'[m] = queue'[i] PROVE m = i
  <2>1. m + 1 = i + 1
    BY <1>1, <1>5 DEF HandledOnce
  <2> QED
    BY <1>1, <2>1
<1> QED
  BY <1>3, <1>4, <1>5

\* A job put into the channel is there once.
LEMMA EnqueuedOnce ==
    ASSUME TypeOK, HandledOnce, NEW j \in Jobs, Enqueue(j), UNCHANGED <<engine, job>>,
           \/ j \notin Requests /\ UNCHANGED phase
           \/ j \in Requests /\ phase[j] = "new" /\ phase' = [phase EXCEPT ![j] = "queued"]
    PROVE  HandledOnce'
<1> DEFINE n == Len(queue) + 1
<1>1. /\ \A i \in DOMAIN queue : i \in DOMAIN queue' /\ queue'[i] = queue[i]
      /\ queue'[n] = j
      /\ \A i \in DOMAIN queue' : i \in DOMAIN queue \/ i = n
  BY Enqueued DEF TypeOK
<1> HIDE DEF n
<1>2. \A i \in DOMAIN queue : queue[i] \in Requests => queue[i] # j
  BY DEF HandledOnce
<1>3. ASSUME NEW i \in DOMAIN queue', queue'[i] \in Requests
      PROVE  /\ phase'[queue'[i]] = "queued"
             /\ \A m \in DOMAIN queue' : queue'[m] = queue'[i] => m = i
  <2>1. CASE i = n
    <3>1. queue'[i] = j /\ phase'[j] = "queued"
      BY <1>1, <1>3, <2>1 DEF TypeOK
    <3>2. \A m \in DOMAIN queue' : queue'[m] = j => m = n
      BY <1>1, <1>2, <1>3, <3>1
    <3> QED
      BY <2>1, <3>1, <3>2
  <2>2. CASE i \in DOMAIN queue
    <3>1. queue'[i] = queue[i] /\ queue[i] # j /\ phase[queue[i]] = "queued"
      BY <1>1, <1>2, <1>3, <2>2 DEF HandledOnce
    <3>2. phase'[queue[i]] = "queued"
      BY <1>3, <3>1 DEF TypeOK
    <3>3. \A m \in DOMAIN queue' : queue'[m] = queue[i] => m = i
      BY <1>1, <1>3, <2>2, <3>1 DEF HandledOnce
    <3> QED
      BY <3>1, <3>2, <3>3
  <2> QED
    BY <1>1, <2>1, <2>2
<1>4. ASSUME engine \in {"run", "publish", "copy", "tell", "reply"}
      PROVE  job # "none" /\ (job \in Requests => phase'[job] = "running")
  BY <1>4 DEF HandledOnce, TypeOK
<1> QED
  BY <1>3, <1>4 DEF HandledOnce

\* A request that is neither queued nor running may change its phase freely.
LEMMA ElsewhereOnce ==
    ASSUME TypeOK, HandledOnce, NEW r \in Requests, NEW p,
           phase[r] \notin {"queued", "running"},
           phase' = [phase EXCEPT ![r] = p], UNCHANGED <<queue, engine, job>>
    PROVE  HandledOnce'
BY DEF HandledOnce, TypeOK

\* No step puts a request into the channel again.
LEMMA NextHandledOnce == TypeOK /\ HandledOnce /\ [Next]_vars => HandledOnce'
<1> SUFFICES ASSUME TypeOK, HandledOnce, [Next]_vars PROVE HandledOnce'
  OBVIOUS
<1> USE DEF TypeOK
<1>same. ASSUME UNCHANGED <<queue, engine, job, phase>> PROVE HandledOnce'
  BY <1>same DEF HandledOnce
<1>kept. ASSUME UNCHANGED <<queue, phase>>,
                engine' \in {"run", "publish", "copy", "tell", "reply"} =>
                    /\ job' # "none"
                    /\ job' \in Requests => phase[job'] = "running",
                engine' # "woken"
         PROVE  HandledOnce'
  BY <1>kept DEF HandledOnce
<1>1. CASE TakeWake
  BY <1>1, ReceivedOnce DEF TakeWake, HandledOnce, callVars
<1>2. CASE TakeStop
  BY <1>2, ReceivedOnce DEF TakeStop, HandledOnce, callVars
<1>3. ASSUME NEW r \in Requests, TakeRequest(r) PROVE HandledOnce'
  <2>1. /\ Receive(r) /\ job' = r /\ engine' = "run"
        /\ phase' = [phase EXCEPT ![r] = "running"]
    BY <1>3 DEF TakeRequest
  <2>2. phase'[r] = "running" /\ r # "none"
    BY <2>1, HostAssumption
  <2>3. \A i \in DOMAIN queue' :
           queue'[i] \in Requests =>
               /\ phase'[queue'[i]] = "queued"
               /\ \A m \in DOMAIN queue' : queue'[m] = queue'[i] => m = i
    BY <2>1, ReceivedOnce
  <2> QED
    BY <2>1, <2>2, <2>3 DEF HandledOnce
<1>4. CASE Disconnect
  BY <1>4, <1>kept DEF Disconnect, callVars
<1>5. CASE DropReceiver
  BY <1>5 DEF DropReceiver, HandledOnce
<1>6. CASE RunWake
  BY <1>6, <1>kept, HostAssumption DEF RunWake, HandledOnce, callVars
<1>7. CASE RefusePoisoned
  BY <1>7, <1>kept DEF RefusePoisoned, HandledOnce
<1>8. CASE RunCommand
  BY <1>8, <1>kept DEF RunCommand, HandledOnce
<1>9. CASE PanicCommand
  BY <1>9, <1>kept DEF PanicCommand, HandledOnce
<1>10. CASE RunQuery
  BY <1>10 DEF RunQuery, HandledOnce
<1>11. CASE Publish
  BY <1>11, <1>kept DEF Publish, AfterPublish, HandledOnce, callVars
<1>12. CASE CopyListeners
  BY <1>12, <1>kept DEF CopyListeners, HandledOnce, callVars
<1>13. CASE ToldAll
  BY <1>13, <1>kept DEF ToldAll, AfterPublish, HandledOnce, callVars
<1>14. CASE Reply
  BY <1>14 DEF Reply, HandledOnce
<1>15. ASSUME NEW l \in Listeners, TellOne(l) PROVE HandledOnce'
  BY <1>15, <1>same DEF TellOne, callVars
<1>16. ASSUME NEW r \in Requests, Dispatch(r) PROVE HandledOnce'
  <2>1. CASE CanSend
    BY <1>16, <2>1, EnqueuedOnce DEF Dispatch, Jobs
  <2>2. CASE ~CanSend
    BY <1>16, <2>2, ElsewhereOnce DEF Dispatch
  <2> QED
    BY <2>1, <2>2
<1>17. ASSUME NEW r \in Requests, Cancel(r) \/ Return(r) \/ Timeout(r) PROVE HandledOnce'
  BY <1>17, <1>same DEF Cancel, Return, Timeout
<1>20. ASSUME NEW q \in Queries, Answer(q) PROVE HandledOnce'
  BY <1>20, ElsewhereOnce DEF Answer, Requests
<1>21. ASSUME NEW q \in Queries, ReplyQuery(q) PROVE HandledOnce'
  BY <1>21, ElsewhereOnce DEF ReplyQuery, Requests
<1>22. CASE Stop
  BY <1>22, EnqueuedOnce, HostAssumption DEF Stop, Jobs, callVars
<1>23. CASE DropHandles
  BY <1>23, <1>same DEF DropHandles, callVars
<1>24. ASSUME NEW l \in Listeners, Subscribe(l) \/ Snapshot(l) \/ Unsubscribe(l)
       PROVE  HandledOnce'
  BY <1>24, <1>same DEF Subscribe, Snapshot, Unsubscribe, callVars
<1>25. ASSUME NEW w \in Workers, Deliver(w) \/ WakeSwap(w) \/ WakeUndo(w)
       PROVE  HandledOnce'
  BY <1>25, <1>same DEF Deliver, WakeSwap, WakeUndo, callVars
<1>26. ASSUME NEW w \in Workers, WakeSend(w) PROVE HandledOnce'
  <2>1. CASE Enqueue("wake")
    BY <1>26, <2>1, EnqueuedOnce, HostAssumption DEF WakeSend, Jobs, callVars
  <2>2. CASE UNCHANGED queue
    BY <1>26, <2>2, <1>same DEF WakeSend, callVars
  <2> QED
    BY <1>26, <2>1, <2>2 DEF WakeSend
<1>27. CASE UNCHANGED vars
  BY <1>27, <1>same DEF vars, callVars
<1> QED
  BY <1>1, <1>2, <1>3, <1>4, <1>5, <1>6, <1>7, <1>8, <1>9, <1>10, <1>11, <1>12,
     <1>13, <1>14, <1>15, <1>16, <1>17, <1>20, <1>21, <1>22, <1>23, <1>24, <1>25,
     <1>26, <1>27
     DEF Next, EngineStep, WakeStep


\* Every value stays of its type, whatever the threads do.
THEOREM TypeCorrect == Spec => [](TypeOK /\ HandledOnce)
BY InitTyped, NextTypeOK, NextHandledOnce, PTL DEF Spec

-----------------------------------------------------------------------------
(* What a panic leaves behind.                                              *)

\* The invariant: an engine that broke is poisoned and cannot publish, and
\* what broke it had not been published before.
PanicInv == EffectsAreNew /\ PoisonStops /\ PanicsNeverShow

\* At first nothing is broken.
LEMMA InitPanicInv == Init => PanicInv
BY DEF Init, PanicInv, EffectsAreNew, PoisonStops, PanicsNeverShow

\* Every step keeps what a panic left behind away from the published state.
LEMMA NextPanicInv ==
    TypeOK /\ HandledOnce /\ PanicInv /\ [Next]_vars => PanicInv'
<1> SUFFICES ASSUME TypeOK, HandledOnce, PanicInv, [Next]_vars PROVE PanicInv'
  OBVIOUS
<1> USE DEF TypeOK, PanicInv, EffectsAreNew, PoisonStops, PanicsNeverShow,
            hostVars, callVars, wakeVars
\* No effect, no failure, and no step towards a publication.
<1>calm. ASSUME UNCHANGED <<own, published, poisoned, broken, ready, waking>>,
                \A c \in Commands :
                    phase'[c] \in {"new", "queued"} => phase[c] \in {"new", "queued"},
                engine' = "run" => engine = "run" /\ UNCHANGED job,
                engine' \in {"woken", "publish", "copy", "tell"} =>
                    engine \in {"woken", "publish", "copy", "tell"}
         PROVE  PanicInv'
  BY <1>calm
<1>1. CASE TakeWake
  BY <1>1 DEF TakeWake
<1>2. CASE TakeStop
  BY <1>2, <1>calm DEF TakeStop
<1>3. ASSUME NEW r \in Requests, TakeRequest(r) PROVE PanicInv'
  <2>1. phase[r] = "queued"
    <3>1. 1 \in DOMAIN queue /\ queue[1] = r
      BY <1>3, Received DEF TakeRequest
    <3> QED
      BY <3>1 DEF HandledOnce
  <2>2. /\ job' = r /\ engine' = "run" /\ phase' = [phase EXCEPT ![r] = "running"]
        /\ UNCHANGED <<own, published, poisoned, broken, ready, waking>>
    BY <1>3 DEF TakeRequest
  <2> QED
    BY <2>1, <2>2
<1>4. CASE Disconnect
  BY <1>4, <1>calm DEF Disconnect
<1>5. CASE DropReceiver
  BY <1>5, <1>calm, HostAssumption DEF DropReceiver, Requests
<1>6. CASE RunWake
  <2>1. /\ ~poisoned /\ broken = {}
        /\ own' = own \cup ready /\ ready' = {}
        /\ UNCHANGED <<published, phase, waking>>
        /\ \/ engine' = "publish" /\ UNCHANGED <<poisoned, broken>>
           \/ engine' = "idle" /\ poisoned' = TRUE /\ broken' = ready
    BY <1>6 DEF RunWake
  <2>2. ready \cap published = {} /\ \A c \in Commands : c \notin ready
    BY HostAssumption DEF Requests
  <2> QED
    BY <2>1, <2>2
<1>7. CASE RefusePoisoned
  BY <1>7, <1>calm DEF RefusePoisoned
<1>8. CASE RunCommand
  <2>1. /\ ~poisoned /\ broken = {} /\ job \in Commands /\ phase[job] = "running"
        /\ own' \subseteq own \cup {job} /\ own \subseteq own'
        /\ engine' = "publish"
        /\ UNCHANGED <<published, phase, waking, ready, poisoned, broken>>
    BY <1>8 DEF RunCommand, HandledOnce
  <2>2. job \notin Workers
    BY <2>1, HostAssumption DEF Requests
  <2> QED
    BY <2>1, <2>2
<1>9. CASE PanicCommand
  <2>1. /\ ~poisoned /\ broken' = {job} /\ job \in Commands /\ phase[job] = "running"
        /\ own' \subseteq own \cup {job} /\ own \subseteq own'
        /\ engine' = "reply" /\ poisoned'
        /\ UNCHANGED <<published, phase, waking, ready>>
    BY <1>9 DEF PanicCommand, HandledOnce
  <2>2. job \notin Workers
    BY <2>1, HostAssumption DEF Requests
  <2>3. job \notin published
    BY <1>9 DEF PanicCommand
  <2> QED
    BY <2>1, <2>2, <2>3
<1>10. CASE RunQuery
  <2>1. /\ UNCHANGED <<own, published, broken, ready, waking>>
        /\ ~poisoned /\ engine' = "idle"
        /\ \A c \in Commands : phase'[c] = phase[c]
    BY <1>10, HostAssumption DEF RunQuery, Requests
  <2> QED
    BY <2>1
<1>11. CASE Publish
  <2>1. ~poisoned /\ broken = {} /\ published' = own
    BY <1>11 DEF Publish
  <2> QED
    BY <1>11, <2>1 DEF Publish, AfterPublish
<1>12. CASE CopyListeners
  BY <1>12, <1>calm DEF CopyListeners
<1>13. CASE ToldAll
  BY <1>13, <1>calm DEF ToldAll, AfterPublish
<1>14. CASE Reply
  BY <1>14, <1>calm DEF Reply
<1>15. ASSUME NEW l \in Listeners, TellOne(l) PROVE PanicInv'
  BY <1>15, <1>calm DEF TellOne
<1>16. ASSUME NEW r \in Requests, Dispatch(r) PROVE PanicInv'
  <2>1. /\ phase[r] = "new"
        /\ \/ phase' = [phase EXCEPT ![r] = "queued"]
           \/ phase' = [phase EXCEPT ![r] = "done"]
        /\ UNCHANGED <<own, published, poisoned, broken, ready, waking, engine, job>>
    BY <1>16 DEF Dispatch
  <2>2. \A c \in Commands :
           phase'[c] \in {"new", "queued"} => phase[c] \in {"new", "queued"}
    BY <2>1 DEF Requests
  <2> QED
    BY <2>1, <2>2, <1>calm
<1>17. ASSUME NEW r \in Requests, Cancel(r) \/ Return(r) \/ Timeout(r) PROVE PanicInv'
  BY <1>17, <1>calm DEF Cancel, Return, Timeout
<1>20. ASSUME NEW q \in Queries, Answer(q) \/ ReplyQuery(q) PROVE PanicInv'
  BY <1>20, <1>calm, HostAssumption DEF Answer, ReplyQuery, Requests
<1>22. CASE Stop
  BY <1>22, <1>calm DEF Stop
<1>23. CASE DropHandles
  BY <1>23, <1>calm DEF DropHandles
<1>24. ASSUME NEW l \in Listeners, Subscribe(l) \/ Snapshot(l) \/ Unsubscribe(l)
       PROVE  PanicInv'
  BY <1>24, <1>calm DEF Subscribe, Snapshot, Unsubscribe
<1>25. ASSUME NEW w \in Workers, Deliver(w) PROVE PanicInv'
  BY <1>25 DEF Deliver
<1>26. ASSUME NEW w \in Workers, WakeStep(w) PROVE PanicInv'
  <2>1. /\ UNCHANGED <<own, published, poisoned, broken, ready, phase, engine, job>>
        /\ \A v \in Workers : waking'[v] = "working" => waking[v] = "working"
    BY <1>26 DEF WakeStep, WakeSwap, WakeSend, WakeUndo
  <2> QED
    BY <2>1
<1>27. CASE UNCHANGED vars
  BY <1>27, <1>calm DEF vars
<1> QED
  BY <1>1, <1>2, <1>3, <1>4, <1>5, <1>6, <1>7, <1>8, <1>9, <1>10, <1>11, <1>12,
     <1>13, <1>14, <1>15, <1>16, <1>17, <1>20, <1>22, <1>23, <1>24, <1>25, <1>26,
     <1>27
     DEF Next, EngineStep

\* Nothing that a panicking command or wake left in the engine is ever
\* published, by itself or by any later job.
THEOREM PanicsAreHidden == Spec => []PanicsNeverShow
<1>1. PanicInv => PanicsNeverShow
  BY DEF PanicInv
<1> QED
  BY TypeCorrect, InitPanicInv, NextPanicInv, <1>1, PTL DEF Spec


-----------------------------------------------------------------------------
(* Wakes.                                                                   *)

\* The invariant: `pending` never stands for a wake that is not coming, so
\* a result that finds it set needs no wake of its own.
WakeInv == PendingIsInFlight /\ NoLostWake

\* At first no result was delivered.
LEMMA InitWakeInv == Init => WakeInv
<1> SUFFICES ASSUME Init PROVE WakeInv
  OBVIOUS
<1>1. 1 \in DOMAIN queue /\ queue[1] = "wake" /\ ready = {}
  BY DEF Init
<1> QED
  BY <1>1 DEF Init, WakeInv, PendingIsInFlight, NoLostWake, WakeComes

\* A wake that is not the job at hand stays in the channel.
LEMMA WakeStays ==
    ASSUME TypeOK, NEW j, Receive(j), j # "wake", UNCHANGED waking, WakeComes
    PROVE  WakeComes'
<1>1. CASE \E v \in Workers : waking[v] = "send"
  BY <1>1 DEF WakeComes
<1>2. CASE \E i \in DOMAIN queue : queue[i] = "wake"
  <2>1. PICK i \in DOMAIN queue : queue[i] = "wake"
    BY <1>2
  <2>2. i # 1
    BY <2>1, Received DEF TypeOK
  <2>3. i - 1 \in DOMAIN queue' /\ queue'[i - 1] = "wake"
    BY <2>1, <2>2, Received DEF TypeOK
  <2> QED
    BY <2>3 DEF WakeComes
<1> QED
  BY <1>1, <1>2 DEF WakeComes

\* A job put into the channel takes no wake out of it.
LEMMA WakeKept ==
    ASSUME TypeOK, NEW j \in Jobs, Enqueue(j), UNCHANGED waking, WakeComes
    PROVE  WakeComes'
BY Enqueued DEF TypeOK, WakeComes

\* Every step leaves a wake for what was delivered.
LEMMA NextWakeInv == TypeOK /\ WakeInv /\ [Next]_vars => WakeInv'
<1> SUFFICES ASSUME TypeOK, WakeInv, [Next]_vars PROVE WakeInv'
  OBVIOUS
<1> USE DEF TypeOK, WakeInv, PendingIsInFlight, NoLostWake, hostVars, callVars, wakeVars
\* The engine goes on as it was, no result comes or goes, and no wake is lost.
<1>calm. ASSUME UNCHANGED <<wakePending, waking, ready>>,
                WakeComes => WakeComes',
                handles' => handles,
                engine' \in {"stopping", "gone"}
                    \/ (engine \notin {"stopping", "gone"} /\ (engine = "woken" => engine' = "woken")),
                engine = "gone" => engine' = "gone",
                ~poisoned' => ~poisoned
         PROVE  WakeInv'
  BY <1>calm
<1>same. ASSUME UNCHANGED <<queue, waking>> PROVE WakeComes' <=> WakeComes
  BY <1>same DEF WakeComes
<1>1. CASE TakeWake
  BY <1>1 DEF TakeWake, Receive
<1>2. CASE TakeStop
  BY <1>2 DEF TakeStop, Receive
<1>3. ASSUME NEW r \in Requests, TakeRequest(r) PROVE WakeInv'
  <2>1. WakeComes => WakeComes'
    BY <1>3, WakeStays, HostAssumption DEF TakeRequest
  <2> QED
    BY <1>3, <2>1, <1>calm DEF TakeRequest, Receive
<1>4. CASE Disconnect
  BY <1>4 DEF Disconnect
<1>5. CASE DropReceiver
  BY <1>5 DEF DropReceiver
<1>6. CASE RunWake
  BY <1>6, <1>same DEF RunWake
<1>7. CASE RefusePoisoned \/ RunCommand \/ PanicCommand \/ RunQuery
  BY <1>7, <1>calm, <1>same DEF RefusePoisoned, RunCommand, PanicCommand, RunQuery
<1>11. CASE Publish \/ CopyListeners \/ ToldAll \/ Reply
  BY <1>11, <1>calm, <1>same DEF Publish, CopyListeners, ToldAll, Reply, AfterPublish
<1>15. ASSUME NEW l \in Listeners,
              TellOne(l) \/ Subscribe(l) \/ Snapshot(l) \/ Unsubscribe(l)
       PROVE  WakeInv'
  BY <1>15, <1>same DEF TellOne, Subscribe, Snapshot, Unsubscribe
<1>16. ASSUME NEW r \in Requests, Dispatch(r) PROVE WakeInv'
  <2>1. WakeComes => WakeComes'
    BY <1>16, WakeKept, <1>same DEF Dispatch, Jobs
  <2> QED
    BY <1>16, <2>1 DEF Dispatch
<1>17. ASSUME NEW r \in Requests, Cancel(r) \/ Return(r) \/ Timeout(r) PROVE WakeInv'
  BY <1>17, <1>same DEF Cancel, Return, Timeout
<1>20. ASSUME NEW q \in Queries, Answer(q) \/ ReplyQuery(q) PROVE WakeInv'
  BY <1>20, <1>same DEF Answer, ReplyQuery
<1>22. CASE Stop
  <2>1. WakeComes => WakeComes'
    BY <1>22, WakeKept DEF Stop, Jobs
  <2> QED
    BY <1>22, <2>1 DEF Stop
<1>23. CASE DropHandles
  BY <1>23, <1>same DEF DropHandles
<1>25. ASSUME NEW w \in Workers, Deliver(w) PROVE WakeInv'
  <2>1. WakeComes => WakeComes'
    BY <1>25 DEF Deliver, WakeComes
  <2> QED
    BY <1>25, <2>1 DEF Deliver
<1>26. ASSUME NEW w \in Workers, WakeSwap(w) PROVE WakeInv'
  <2>1. WakeComes => WakeComes'
    BY <1>26 DEF WakeSwap, WakeComes
  <2>2. ~wakePending => waking'[w] = "send" /\ WakeComes'
    BY <1>26 DEF WakeSwap, WakeComes
  <2>3. /\ \A v \in Workers : waking'[v] = "undo" => waking[v] = "undo"
        /\ \A v \in Workers : v # w => waking'[v] = waking[v]
        /\ (wakePending /\ waking'[w] = "returned") \/ waking'[w] = "send"
        /\ UNCHANGED <<engine, handles, ready, poisoned>>
    BY <1>26 DEF WakeSwap
  <2> QED
    BY <2>1, <2>2, <2>3
<1>27. ASSUME NEW w \in Workers, WakeSend(w) PROVE WakeInv'
  <2>1. CASE CanSend /\ handles
    <3>1. /\ Enqueue("wake") /\ "wake" \in Jobs
          /\ waking' = [waking EXCEPT ![w] = "returned"]
          /\ UNCHANGED <<engine, handles, ready, poisoned, wakePending>>
      BY <1>27, <2>1 DEF WakeSend, Jobs
    <3>2. WakeComes'
      BY <3>1, Enqueued DEF WakeComes
    <3> QED
      BY <3>1, <3>2
  <2>2. CASE ~(CanSend /\ handles)
    BY <1>27, <2>2 DEF WakeSend, CanSend
  <2> QED
    BY <2>1, <2>2
<1>28. ASSUME NEW w \in Workers, WakeUndo(w) PROVE WakeInv'
  BY <1>28 DEF WakeUndo
<1>29. CASE UNCHANGED vars
  BY <1>29, <1>same DEF vars
<1> QED
  BY <1>1, <1>2, <1>3, <1>4, <1>5, <1>6, <1>7, <1>11, <1>15, <1>16, <1>17, <1>20,
     <1>22, <1>23, <1>25, <1>26, <1>27, <1>28, <1>29
     DEF Next, EngineStep, WakeStep

\* No background result is left without a wake while the engine takes any.
THEOREM WakesAreNotLost == Spec => []NoLostWake
<1>1. WakeInv => NoLostWake
  BY DEF WakeInv
<1> QED
  BY TypeCorrect, InitWakeInv, NextWakeInv, <1>1, PTL DEF Spec

-----------------------------------------------------------------------------
(* What listeners are told, and when a reply runs.                          *)

\* The invariant: nobody knows of a revision that is not published yet, only
\* tell() has calls left to make, and from its publication on the effect of
\* the command at hand is in the published state.
UpdatesInv ==
    /\ \A l \in Listeners : told[l] <= revision /\ snap[l] <= revision
    /\ telling # {} => engine = "tell"
    /\ \A c \in Commands : replyRev[c] <= revision
    /\ engine \in {"copy", "tell", "reply"} =>
          (job \in Commands /\ job \in own \ broken => job \in published)
    /\ SnapshotPlusUpdates
    /\ RepliesFollowUpdates

\* At first no listener was told anything.
LEMMA InitUpdatesInv == Init => UpdatesInv
<1> SUFFICES ASSUME Init PROVE UpdatesInv
  OBVIOUS
<1>1. /\ engine = "idle" /\ telling = {} /\ revision = 0
      /\ \A l \in Listeners : told[l] = 0 /\ snap[l] = 0 /\ listening[l] = "new"
      /\ \A c \in Commands : phase[c] = "new" /\ replyRev[c] = 0
  BY DEF Init, Requests
<1> QED
  BY <1>1 DEF UpdatesInv, SnapshotPlusUpdates, RepliesFollowUpdates

\* Every step keeps listeners up to date but for the calls that are left to make.
LEMMA NextUpdatesInv ==
    TypeOK /\ HandledOnce /\ PanicInv /\ UpdatesInv /\ [Next]_vars => UpdatesInv'
<1> SUFFICES ASSUME TypeOK, HandledOnce, PanicInv, UpdatesInv, [Next]_vars
             PROVE  UpdatesInv'
  OBVIOUS
<1>types. /\ revision \in Nat
          /\ told \in [Listeners -> Nat] /\ snap \in [Listeners -> Nat]
          /\ replyRev \in [Requests -> Nat] /\ phase \in [Requests -> Phases]
          /\ listening \in [Listeners -> {"new", "subscribed", "live", "dropped"}]
          /\ Commands \subseteq Requests /\ Queries \subseteq Requests
  BY DEF TypeOK, Requests
<1>new. \A c \in Commands :
           phase[c] \in {"new", "queued"} \/ (engine = "run" /\ job = c) => c \notin own
  BY DEF PanicInv, EffectsAreNew
<1> USE DEF UpdatesInv, SnapshotPlusUpdates, RepliesFollowUpdates, View,
            hostVars, listVars, callVars
\* Nothing is published, told or answered, and no command changes the engine.
<1>calm. ASSUME UNCHANGED <<published, revision, telling, listening, snap, told>>,
                own' = own \/ (own \subseteq own' /\ own' \cap Commands = own \cap Commands),
                broken \subseteq broken',
                UNCHANGED replyRev,
                \A c \in Commands : phase'[c] = "done" => phase[c] = "done",
                engine = "tell" => engine' = "tell" \/ telling = {},
                engine = "copy" => engine' = "copy",
                engine' \in {"copy", "tell", "reply"} =>
                    engine \in {"copy", "tell", "reply"} /\ UNCHANGED job
         PROVE  UpdatesInv'
  BY <1>calm, <1>types
<1>1. CASE TakeWake \/ TakeStop
  BY <1>1, <1>calm DEF TakeWake, TakeStop, Receive
<1>2. ASSUME NEW r \in Requests, TakeRequest(r) PROVE UpdatesInv'
  BY <1>2, <1>calm, <1>types DEF TakeRequest, Receive
<1>3. CASE Disconnect
  BY <1>3, <1>calm DEF Disconnect
<1>4. CASE DropReceiver
  BY <1>4, <1>calm, <1>types DEF DropReceiver
<1>5. CASE RunWake
  <2>1. ready \cap Commands = {}
    BY HostAssumption DEF TypeOK, Requests
  <2>2. broken \subseteq broken'
    BY <1>5 DEF RunWake
  <2> QED
    BY <1>5, <2>1, <2>2, <1>calm DEF RunWake
<1>6. CASE RefusePoisoned
  BY <1>6, <1>new, <1>types DEF RefusePoisoned
<1>7. CASE RunCommand \/ PanicCommand
  <2>1. /\ phase[job] = "running" /\ job \in Commands
        /\ own \subseteq own' /\ own' \subseteq own \cup {job}
        /\ \/ engine' = "publish" /\ UNCHANGED broken
           \/ engine' = "reply" /\ broken' = broken \cup {job}
        /\ engine = "run"
        /\ UNCHANGED <<hostVars, listVars, phase, replyRev, job>>
    BY <1>7 DEF RunCommand, PanicCommand, HandledOnce, Requests
  <2> QED
    BY <2>1, <1>types
<1>8. CASE RunQuery
  <2>1. \A c \in Commands : phase'[c] = phase[c]
    BY <1>8, HostAssumption, <1>types DEF RunQuery
  <2> QED
    BY <1>8, <2>1, <1>calm DEF RunQuery
<1>9. CASE Publish
  <2>1. published \subseteq own
    BY DEF PanicInv, EffectsAreNew
  <2>2. CASE own = published
    BY <1>9, <2>2, <1>types DEF Publish, AfterPublish
  <2>3. CASE own # published
    <3>1. /\ engine' = "copy" /\ published' = own /\ revision' = revision + 1
          /\ engine = "publish" /\ telling' = telling
          /\ UNCHANGED <<own, broken, job, listening, snap, told, phase, replyRev>>
      BY <1>9, <2>3 DEF Publish
    <3>2. \A n \in Nat : n <= revision => n <= revision + 1
      BY <1>types
    <3> QED
      BY <2>1, <3>1, <3>2, <1>types
  <2> QED
    BY <2>2, <2>3
<1>10. CASE CopyListeners
  BY <1>10, <1>types DEF CopyListeners
<1>11. ASSUME NEW l \in Listeners, TellOne(l) PROVE UpdatesInv'
  BY <1>11, <1>types DEF TellOne
<1>12. CASE ToldAll
  BY <1>12, <1>types DEF ToldAll, AfterPublish
<1>13. CASE Reply
  <2>1. /\ engine = "reply" /\ engine' = "idle" /\ job \in Requests
        /\ phase' = [phase EXCEPT ![job] = "done"]
        /\ replyRev' = [replyRev EXCEPT ![job] = revision]
        /\ UNCHANGED <<own, published, broken, revision, telling, listening, snap, told>>
    BY <1>13 DEF Reply, TypeOK
  <2>2. telling = {} /\ \A l \in Listeners : listening[l] = "live" => View(l) = revision
    BY <2>1
  <2>3. \A c \in Commands : c # job => phase'[c] = phase[c] /\ replyRev'[c] = replyRev[c]
    BY <2>1, <1>types
  <2>4. job \in Commands => phase'[job] = "done" /\ replyRev'[job] = revision
    BY <2>1, <1>types
  <2> QED
    BY <2>1, <2>2, <2>3, <2>4, <1>types
<1>14. ASSUME NEW r \in Requests, Dispatch(r) PROVE UpdatesInv'
  <2>1. CASE CanSend
    BY <1>14, <2>1, <1>calm, <1>types DEF Dispatch
  <2>2. CASE ~CanSend
    <3>1. /\ phase[r] = "new" /\ engine = "gone" /\ engine' = "gone"
          /\ phase' = [phase EXCEPT ![r] = "done"]
          /\ replyRev' = [replyRev EXCEPT ![r] = revision]
          /\ UNCHANGED <<own, published, broken, job, revision, telling, listening, snap, told>>
      BY <1>14, <2>2 DEF Dispatch, CanSend
    <3>2. telling = {} /\ \A l \in Listeners : listening[l] = "live" => View(l) = revision
      BY <3>1
    <3>3. \A c \in Commands : c # r => phase'[c] = phase[c] /\ replyRev'[c] = replyRev[c]
      BY <3>1, <1>types
    <3>4. r \in Commands => r \notin own /\ phase'[r] = "done" /\ replyRev'[r] = revision
      BY <3>1, <1>new, <1>types
    <3> QED
      BY <3>1, <3>2, <3>3, <3>4, <1>types
  <2> QED
    BY <2>1, <2>2
<1>15. ASSUME NEW r \in Requests, Cancel(r) \/ Return(r) \/ Timeout(r) PROVE UpdatesInv'
  BY <1>15, <1>calm DEF Cancel, Return, Timeout
<1>16. ASSUME NEW q \in Queries, Answer(q) \/ ReplyQuery(q) PROVE UpdatesInv'
  <2>1. \A c \in Commands : phase'[c] = phase[c] /\ replyRev'[c] = replyRev[c]
    BY <1>16, HostAssumption, <1>types DEF Answer, ReplyQuery
  <2>2. UNCHANGED <<engine, job, own, broken, hostVars, listVars>>
    BY <1>16 DEF Answer, ReplyQuery
  <2> QED
    BY <2>1, <2>2, <1>types
<1>17. CASE Stop \/ DropHandles
  BY <1>17, <1>calm DEF Stop, DropHandles
<1>18. ASSUME NEW l \in Listeners, Subscribe(l) \/ Snapshot(l) \/ Unsubscribe(l)
       PROVE  UpdatesInv'
  <2>1. /\ UNCHANGED <<engine, job, own, broken, published, revision, telling, told,
                       phase, replyRev>>
        /\ \A m \in Listeners : listening'[m] = "live" =>
              \/ snap'[m] = snap[m] /\ listening[m] = "live"
              \/ snap'[m] = revision
        /\ \A m \in Listeners : snap'[m] \in {snap[m], revision}
    BY <1>18, <1>types DEF Subscribe, Snapshot, Unsubscribe
  <2> QED
    BY <2>1, <1>types
<1>19. ASSUME NEW w \in Workers, Deliver(w) \/ WakeStep(w) PROVE UpdatesInv'
  BY <1>19, <1>calm DEF Deliver, WakeStep, WakeSwap, WakeSend, WakeUndo, wakeVars
<1>20. CASE UNCHANGED vars
  BY <1>20, <1>calm DEF vars
<1> QED
  BY <1>1, <1>2, <1>3, <1>4, <1>5, <1>6, <1>7, <1>8, <1>9, <1>10, <1>11, <1>12,
     <1>13, <1>14, <1>15, <1>16, <1>17, <1>18, <1>19, <1>20
     DEF Next, EngineStep

\* Listeners are up to date in every reachable state.
LEMMA UpdatesInvariant == Spec => []UpdatesInv
BY TypeCorrect, InitPanicInv, NextPanicInv, InitUpdatesInv, NextUpdatesInv, PTL DEF Spec

\* A listener that subscribes and then takes a snapshot is up to date whenever
\* tell() has no call of it left to make.
THEOREM NoUpdateIsMissed == Spec => []SnapshotPlusUpdates
<1>1. UpdatesInv => SnapshotPlusUpdates
  BY DEF UpdatesInv
<1> QED
  BY UpdatesInvariant, <1>1, PTL

\* A command's reply runs after its effect is published and after every live
\* listener was told of the revision it carries.
THEOREM RepliesComeLast == Spec => []RepliesFollowUpdates
<1>1. UpdatesInv => RepliesFollowUpdates
  BY DEF UpdatesInv
<1> QED
  BY UpdatesInvariant, <1>1, PTL

-----------------------------------------------------------------------------
(* Arrival order.                                                           *)

\* Where a request is: in the channel while it is queued, at the engine while
\* it is running; a command is nowhere else, and lost only with the channel,
\* which is empty from then on.
Located ==
    /\ \A r \in Requests :
          /\ phase[r] = "queued" => \E i \in DOMAIN queue : queue[i] = r
          /\ phase[r] = "running" =>
                job = r /\ engine \in {"run", "publish", "copy", "tell", "reply"}
    /\ \A c \in Commands :
          /\ phase[c] \in {"new", "queued", "running", "done", "lost"}
          /\ engine # "gone" => phase[c] # "lost"
    /\ engine = "gone" => queue = <<>>

\* The commands that arrived before a queued query are those that are not
\* behind it in the channel.
InOrder ==
    \A i \in DOMAIN queue : queue[i] \in Queries =>
        \A c \in Commands :
            c \in arrived[queue[i]] <=>
                /\ phase[c] # "new"
                /\ \A j \in DOMAIN queue : j > i => queue[j] # c

\* When a query runs, the commands before it are done and no other has begun.
RunsInOrder ==
    engine = "run" /\ job \in Queries =>
        \A c \in Commands :
            /\ c \in arrived[job] => phase[c] = "done"
            /\ c \notin arrived[job] => phase[c] \in {"new", "queued"}

\* What a provider saw is what the commands before its query did, for good.
SeenInOrder ==
    \A q \in Queries : phase[q] = "open" =>
        \A c \in Commands :
            /\ c \in arrived[q] => phase[c] = "done" /\ (c \in own <=> c \in seen[q])
            /\ c \in seen[q] => c \in arrived[q]

OrderInv == Located /\ InOrder /\ RunsInOrder /\ SeenInOrder

\* At first no query is queued.
LEMMA InitOrderInv == Init => OrderInv
<1> SUFFICES ASSUME Init PROVE OrderInv
  OBVIOUS
<1>1. /\ \A r \in Requests : phase[r] = "new"
      /\ Commands \subseteq Requests /\ Queries \subseteq Requests
      /\ \A i \in DOMAIN queue : queue[i] = "wake"
      /\ engine = "idle"
  BY DEF Init, Requests
<1>2. "wake" \notin Queries
  BY HostAssumption DEF Requests
<1> QED
  BY <1>1, <1>2 DEF OrderInv, Located, InOrder, RunsInOrder, SeenInOrder

\* A request stays where its phase says it is.
LEMMA NextLocated ==
    TypeOK /\ HandledOnce /\ Located /\ [Next]_vars => Located'
<1> SUFFICES ASSUME TypeOK, HandledOnce, Located, [Next]_vars PROVE Located'
  OBVIOUS
<1>types. /\ phase \in [Requests -> Phases] /\ queue \in Seq(Jobs)
          /\ Commands \subseteq Requests /\ Queries \subseteq Requests
          /\ Commands \cap Queries = {}
  BY HostAssumption DEF TypeOK, Requests
<1> USE DEF Located, callVars
\* Nothing is put into the channel or taken out of it, and the engine keeps
\* the job it has.
<1>calm. ASSUME UNCHANGED <<queue, phase, job>>,
                engine \in {"run", "publish", "copy", "tell", "reply"} =>
                    \/ engine' \in {"run", "publish", "copy", "tell", "reply"}
                    \/ job \notin Requests,
                engine = "gone" <=> engine' = "gone"
         PROVE  Located'
  BY <1>calm
\* A job other than the one received stays in the channel.
<1>stays. ASSUME NEW j, Receive(j), NEW r \in Requests, r # j, phase[r] = "queued"
          PROVE  \E i \in DOMAIN queue' : queue'[i] = r
  <2>1. PICK i \in DOMAIN queue : queue[i] = r
    BY <1>stays
  <2>2. i # 1
    BY <1>stays, <2>1, <1>types, Received
  <2>3. i - 1 \in DOMAIN queue' /\ queue'[i - 1] = r
    BY <1>stays, <1>types, <2>1, <2>2, Received
  <2> QED
    BY <2>3
\* A job put into the channel moves no other.
<1>kept. ASSUME NEW j \in Jobs, CanSend, Enqueue(j), UNCHANGED <<engine, job>>,
                \A r \in Requests : phase'[r] = phase[r] \/ (r = j /\ phase'[r] = "queued")
         PROVE  Located'
  <2>1. \A r \in Requests : phase'[r] = "queued" => \E i \in DOMAIN queue' : queue'[i] = r
    BY <1>kept, <1>types, Enqueued
  <2> QED
    BY <1>kept, <2>1, <1>types DEF CanSend
<1>1. CASE TakeWake \/ TakeStop
  <2>1. PICK j \in {"wake", "stop"} : Receive(j)
    BY <1>1 DEF TakeWake, TakeStop
  <2>2. j \notin Requests
    BY HostAssumption
  <2> QED
    BY <1>1, <1>stays, <2>1, <2>2 DEF TakeWake, TakeStop, Receive
<1>2. ASSUME NEW r \in Requests, TakeRequest(r) PROVE Located'
  <2>1. /\ Receive(r) /\ job' = r /\ engine' = "run" /\ engine = "idle"
        /\ phase' = [phase EXCEPT ![r] = "running"]
    BY <1>2 DEF TakeRequest, Receive
  <2> QED
    BY <2>1, <1>stays, <1>types
<1>3. CASE Disconnect
  BY <1>3 DEF Disconnect
<1>4. CASE DropReceiver
  BY <1>4, <1>types DEF DropReceiver
<1>5. CASE RunWake
  BY <1>5, <1>calm, HostAssumption DEF RunWake, HandledOnce
<1>6. CASE RefusePoisoned \/ RunCommand \/ PanicCommand
  BY <1>6, <1>calm DEF RefusePoisoned, RunCommand, PanicCommand
<1>7. CASE RunQuery
  <2>1. /\ engine = "run" /\ engine' = "idle" /\ job \in Queries
        /\ \E p \in {"answering", "open"} : phase' = [phase EXCEPT ![job] = p]
        /\ UNCHANGED <<queue, job>>
    BY <1>7 DEF RunQuery
  <2> QED
    BY <2>1, <1>types
<1>8. CASE Publish \/ CopyListeners
  BY <1>8, <1>calm, HostAssumption DEF Publish, AfterPublish, CopyListeners
<1>9. ASSUME NEW l \in Listeners, TellOne(l) PROVE Located'
  BY <1>9, <1>calm DEF TellOne
<1>10. CASE ToldAll
  BY <1>10, <1>calm, HostAssumption DEF ToldAll, AfterPublish
<1>11. CASE Reply
  BY <1>11, <1>types DEF Reply, TypeOK
<1>12. ASSUME NEW r \in Requests, Dispatch(r) PROVE Located'
  <2>1. CASE CanSend
    BY <1>12, <2>1, <1>kept, <1>types DEF Dispatch, Jobs
  <2>2. CASE ~CanSend
    BY <1>12, <2>2, <1>types DEF Dispatch, CanSend
  <2> QED
    BY <2>1, <2>2
<1>13. ASSUME NEW r \in Requests, Cancel(r) \/ Return(r) \/ Timeout(r) PROVE Located'
  BY <1>13, <1>calm DEF Cancel, Return, Timeout
<1>14. ASSUME NEW q \in Queries, Answer(q) \/ ReplyQuery(q) PROVE Located'
  BY <1>14, <1>types DEF Answer, ReplyQuery
<1>15. CASE Stop
  BY <1>15, <1>kept DEF Stop, Jobs
<1>16. CASE DropHandles
  BY <1>16, <1>calm DEF DropHandles
<1>17. ASSUME NEW l \in Listeners, Subscribe(l) \/ Snapshot(l) \/ Unsubscribe(l)
       PROVE  Located'
  BY <1>17, <1>calm DEF Subscribe, Snapshot, Unsubscribe
<1>18. ASSUME NEW w \in Workers, Deliver(w) \/ WakeSwap(w) \/ WakeUndo(w) PROVE Located'
  BY <1>18, <1>calm DEF Deliver, WakeSwap, WakeUndo
<1>19. ASSUME NEW w \in Workers, WakeSend(w) PROVE Located'
  BY <1>19, <1>kept, <1>calm DEF WakeSend, Jobs
<1>20. CASE UNCHANGED vars
  BY <1>20, <1>calm DEF vars
<1> QED
  BY <1>1, <1>2, <1>3, <1>4, <1>5, <1>6, <1>7, <1>8, <1>9, <1>10, <1>11, <1>12,
     <1>13, <1>14, <1>15, <1>16, <1>17, <1>18, <1>19, <1>20
     DEF Next, EngineStep, WakeStep

\* The channel keeps the order of arrival.
LEMMA NextInOrder ==
    TypeOK /\ HandledOnce /\ Located /\ InOrder /\ [Next]_vars => InOrder'
<1> SUFFICES ASSUME TypeOK, HandledOnce, Located, InOrder, [Next]_vars PROVE InOrder'
  OBVIOUS
<1>types. /\ phase \in [Requests -> Phases] /\ queue \in Seq(Jobs)
          /\ arrived \in [Queries -> SUBSET Commands]
          /\ Commands \subseteq Requests /\ Queries \subseteq Requests
          /\ Commands \cap Queries = {}
  BY HostAssumption DEF TypeOK, Requests
<1> USE DEF InOrder, callVars
\* No job moves and no command arrives.
<1>calm. ASSUME UNCHANGED <<queue, arrived>>,
                \A c \in Commands : phase'[c] = "new" <=> phase[c] = "new"
         PROVE  InOrder'
  BY <1>calm
\* The job at the front is taken; what is behind it keeps its order.
<1>taken. ASSUME NEW j, Receive(j), UNCHANGED arrived,
                 \A c \in Commands : phase'[c] = "new" <=> phase[c] = "new"
          PROVE  InOrder'
  <2>1. /\ \A i \in DOMAIN queue' :
              i \in Nat \ {0} /\ i + 1 \in DOMAIN queue /\ queue'[i] = queue[i + 1]
        /\ \A i \in DOMAIN queue : i # 1 =>
              i \in Nat /\ i - 1 \in DOMAIN queue' /\ queue'[i - 1] = queue[i]
    BY <1>taken, <1>types, Received
  <2> SUFFICES ASSUME NEW i \in DOMAIN queue', queue'[i] \in Queries, NEW c \in Commands
               PROVE  c \in arrived[queue'[i]] <=>
                          /\ phase[c] # "new"
                          /\ \A m \in DOMAIN queue' : m > i => queue'[m] # c
    BY <1>taken
  <2>2. c \in arrived[queue'[i]] <=>
            /\ phase[c] # "new"
            /\ \A m \in DOMAIN queue : m > i + 1 => queue[m] # c
    BY <2>1
  <2>3. ASSUME \A m \in DOMAIN queue' : m > i => queue'[m] # c, NEW m \in DOMAIN queue,
               m > i + 1
        PROVE  queue[m] # c
    <3>1. m # 1 /\ m \in Nat
      BY <2>1, <2>3, <1>types
    <3>2. m - 1 \in DOMAIN queue' /\ queue'[m - 1] = queue[m]
      BY <2>1, <3>1
    <3> QED
      BY <2>1, <2>3, <3>1, <3>2
  <2>4. ASSUME \A m \in DOMAIN queue : m > i + 1 => queue[m] # c, NEW m \in DOMAIN queue',
               m > i
        PROVE  queue'[m] # c
    BY <2>1, <2>4
  <2> QED
    BY <2>2, <2>3, <2>4
<1>1. CASE TakeWake \/ TakeStop
  <2>1. PICK j : Receive(j)
    BY <1>1 DEF TakeWake, TakeStop
  <2> QED
    BY <1>1, <2>1, <1>taken DEF TakeWake, TakeStop
<1>2. ASSUME NEW r \in Requests, TakeRequest(r) PROVE InOrder'
  <2>1. Receive(r) /\ UNCHANGED arrived /\ phase' = [phase EXCEPT ![r] = "running"]
    BY <1>2 DEF TakeRequest
  <2>2. phase[r] = "queued"
    <3>1. 1 \in DOMAIN queue /\ queue[1] = r
      BY <2>1, <1>types, Received
    <3> QED
      BY <3>1 DEF HandledOnce
  <2>3. \A c \in Commands : phase'[c] = "new" <=> phase[c] = "new"
    BY <2>1, <2>2, <1>types
  <2> QED
    BY <2>1, <2>3, <1>taken
<1>3. CASE Disconnect
  BY <1>3, <1>calm DEF Disconnect
<1>4. CASE DropReceiver
  BY <1>4 DEF DropReceiver
<1>5. CASE RunWake \/ RefusePoisoned \/ RunCommand \/ PanicCommand
  BY <1>5, <1>calm DEF RunWake, RefusePoisoned, RunCommand, PanicCommand
<1>6. CASE RunQuery
  <2>1. \A c \in Commands : phase'[c] = phase[c]
    BY <1>6, <1>types DEF RunQuery
  <2> QED
    BY <1>6, <2>1, <1>calm DEF RunQuery
<1>7. CASE Publish \/ CopyListeners \/ ToldAll
  BY <1>7, <1>calm DEF Publish, CopyListeners, ToldAll
<1>8. ASSUME NEW l \in Listeners,
             TellOne(l) \/ Subscribe(l) \/ Snapshot(l) \/ Unsubscribe(l)
      PROVE  InOrder'
  BY <1>8, <1>calm DEF TellOne, Subscribe, Snapshot, Unsubscribe
<1>9. CASE Reply
  <2>1. phase[job] = "running" /\ phase' = [phase EXCEPT ![job] = "done"]
    BY <1>9 DEF Reply, HandledOnce, TypeOK
  <2> QED
    BY <1>9, <2>1, <1>calm, <1>types DEF Reply
<1>10. ASSUME NEW r \in Requests, Dispatch(r), CanSend PROVE InOrder'
  <2> DEFINE n == Len(queue) + 1
  <2>1. /\ Enqueue(r) /\ r \in Jobs /\ phase[r] = "new"
        /\ phase' = [phase EXCEPT ![r] = "queued"]
    BY <1>10 DEF Dispatch, Jobs
  <2>2. /\ \A i \in DOMAIN queue :
              i \in Nat /\ i < n /\ i \in DOMAIN queue' /\ queue'[i] = queue[i]
        /\ n \in Nat /\ n \in DOMAIN queue' /\ queue'[n] = r
        /\ \A i \in DOMAIN queue' : i \in DOMAIN queue \/ i = n
    BY <2>1, <1>types, Enqueued
  <2> HIDE DEF n
  <2>3. \A i \in DOMAIN queue : queue[i] # r
    BY <2>1 DEF HandledOnce
  <2>4. \A c \in Commands :
           c # r => (phase'[c] = "new" <=> phase[c] = "new")
    BY <2>1, <1>types
  <2> SUFFICES ASSUME NEW i \in DOMAIN queue', queue'[i] \in Queries, NEW c \in Commands
               PROVE  c \in arrived'[queue'[i]] <=>
                          /\ phase'[c] # "new"
                          /\ \A m \in DOMAIN queue' : m > i => queue'[m] # c
    OBVIOUS
  <2>5. CASE i = n
    <3>1. r \in Queries /\ queue'[i] = r /\ c # r
      BY <2>2, <2>5, <1>types
    <3>2. arrived'[r] = {d \in Commands : phase[d] # "new"}
      BY <1>10, <3>1, <1>types DEF Dispatch
    <3>3. \A m \in DOMAIN queue' : ~(m > i)
      BY <2>2, <2>5
    <3> QED
      BY <2>4, <3>1, <3>2, <3>3
  <2>6. CASE i \in DOMAIN queue
    <3>1. queue'[i] = queue[i] /\ queue[i] # r
      BY <2>2, <2>3, <2>6
    <3>2. arrived'[queue[i]] = arrived[queue[i]]
      <4>1. CASE r \in Queries
        <5>1. arrived' = [arrived EXCEPT ![r] = {d \in Commands : phase[d] # "new"}]
          BY <1>10, <4>1 DEF Dispatch
        <5> QED
          BY <5>1, <3>1, <1>types, Zenon
      <4>2. CASE r \notin Queries
        BY <1>10, <4>2 DEF Dispatch
      <4> QED
        BY <4>1, <4>2
    <3>3. c \in arrived[queue[i]] <=>
              /\ phase[c] # "new"
              /\ \A m \in DOMAIN queue : m > i => queue[m] # c
      BY <2>6, <3>1
    <3>4. CASE c = r
      BY <2>1, <2>2, <2>6, <3>1, <3>2, <3>3, <3>4
    <3>5. CASE c # r
      <4>1. (\A m \in DOMAIN queue' : m > i => queue'[m] # c)
                <=> (\A m \in DOMAIN queue : m > i => queue[m] # c)
        BY <2>2, <3>5
      <4> QED
        BY <2>4, <3>1, <3>2, <3>3, <3>5, <4>1
    <3> QED
      BY <3>4, <3>5
  <2> QED
    BY <2>2, <2>5, <2>6
<1>11. ASSUME NEW r \in Requests, Dispatch(r), ~CanSend PROVE InOrder'
  <2>1. phase' = [phase EXCEPT ![r] = "done"] /\ UNCHANGED <<queue, arrived>>
    BY <1>11 DEF Dispatch
  <2>2. queue = <<>>
    BY <1>11 DEF CanSend, Located
  <2> QED
    BY <2>1, <2>2
<1>12. ASSUME NEW r \in Requests, Cancel(r) \/ Return(r) \/ Timeout(r) PROVE InOrder'
  BY <1>12, <1>calm DEF Cancel, Return, Timeout
<1>13. ASSUME NEW q \in Queries, Answer(q) \/ ReplyQuery(q) PROVE InOrder'
  <2>1. \A c \in Commands : phase'[c] = phase[c]
    BY <1>13, <1>types DEF Answer, ReplyQuery
  <2> QED
    BY <1>13, <2>1, <1>calm DEF Answer, ReplyQuery
<1>14. ASSUME NEW j \in {"stop", "wake"}, Enqueue(j), UNCHANGED <<phase, arrived>>
       PROVE  InOrder'
  <2>1. j \in Jobs /\ j \notin Requests
    BY HostAssumption DEF Jobs
  <2>2. /\ \A i \in DOMAIN queue : i \in DOMAIN queue' /\ queue'[i] = queue[i]
        /\ \A i \in DOMAIN queue' : i \in DOMAIN queue \/ queue'[i] = j
    BY <1>14, <2>1, <1>types, Enqueued
  <2> QED
    BY <1>14, <2>1, <2>2, <1>types
<1>15. CASE Stop
  BY <1>15, <1>14 DEF Stop
<1>16. CASE DropHandles
  BY <1>16, <1>calm DEF DropHandles
<1>17. ASSUME NEW w \in Workers, Deliver(w) \/ WakeSwap(w) \/ WakeUndo(w) PROVE InOrder'
  BY <1>17, <1>calm DEF Deliver, WakeSwap, WakeUndo
<1>18. ASSUME NEW w \in Workers, WakeSend(w) PROVE InOrder'
  BY <1>18, <1>14, <1>calm DEF WakeSend
<1>19. CASE UNCHANGED vars
  BY <1>19, <1>calm DEF vars
<1> QED
  BY <1>1, <1>2, <1>3, <1>4, <1>5, <1>6, <1>7, <1>8, <1>9, <1>10, <1>11, <1>12,
     <1>13, <1>15, <1>16, <1>17, <1>18, <1>19
     DEF Next, EngineStep, WakeStep

\* A query is taken after what was queued before it.
LEMMA NextRunsInOrder ==
    TypeOK /\ HandledOnce /\ OrderInv /\ [Next]_vars => RunsInOrder'
<1> SUFFICES ASSUME TypeOK, HandledOnce, OrderInv, [Next]_vars PROVE RunsInOrder'
  OBVIOUS
<1>types. /\ phase \in [Requests -> Phases] /\ queue \in Seq(Jobs)
          /\ arrived \in [Queries -> SUBSET Commands]
          /\ Commands \subseteq Requests /\ Queries \subseteq Requests
          /\ Commands \cap Queries = {}
  BY HostAssumption DEF TypeOK, Requests
<1> USE DEF OrderInv, RunsInOrder, callVars
\* The engine is not about to run a query, or nothing changes for the one it has.
<1>idle. ASSUME engine' # "run" PROVE RunsInOrder'
  BY <1>idle
<1>calm. ASSUME UNCHANGED <<job, engine, arrived, phase>> PROVE RunsInOrder'
  BY <1>calm
<1>1. ASSUME NEW q \in Queries, TakeRequest(q) PROVE RunsInOrder'
  <2>1. /\ Receive(q) /\ job' = q /\ UNCHANGED arrived /\ engine = "idle"
        /\ phase' = [phase EXCEPT ![q] = "running"]
    BY <1>1 DEF TakeRequest, Receive
  <2>2. 1 \in DOMAIN queue /\ queue[1] = q
    BY <2>1, <1>types, Received
  <2> SUFFICES ASSUME NEW c \in Commands
               PROVE  /\ c \in arrived[q] => phase[c] = "done"
                      /\ c \notin arrived[q] => phase[c] \in {"new", "queued"}
    BY <2>1, <1>types
  <2>3. c \in arrived[q] <=>
            /\ phase[c] # "new"
            /\ \A j \in DOMAIN queue : j > 1 => queue[j] # c
    BY <2>2 DEF InOrder
  <2>4. \A j \in DOMAIN queue : queue[j] = c => j > 1
    <3>1. DOMAIN queue = 1 .. Len(queue)
      BY <1>types, LenProperties
    <3> QED
      BY <2>2, <3>1, <1>types
  <2>5. phase[c] \in {"new", "queued", "done"}
    BY <2>1, <1>types DEF Located
  <2>6. CASE phase[c] = "new"
    BY <2>3, <2>6
  <2>7. CASE phase[c] = "queued"
    <3>1. PICK j \in DOMAIN queue : queue[j] = c
      BY <2>7, <1>types DEF Located
    <3> QED
      BY <2>3, <2>4, <2>7, <3>1
  <2>8. CASE phase[c] = "done"
    <3>1. \A j \in DOMAIN queue : queue[j] # c
      BY <2>8, <1>types DEF HandledOnce
    <3> QED
      BY <2>3, <2>8, <3>1
  <2> QED
    BY <2>5, <2>6, <2>7, <2>8
<1>2. ASSUME NEW r \in Commands, TakeRequest(r) PROVE RunsInOrder'
  BY <1>2, <1>types DEF TakeRequest
<1>3. ASSUME NEW r \in Requests, TakeRequest(r) PROVE RunsInOrder'
  BY <1>1, <1>2, <1>3 DEF Requests
<1>4. CASE TakeWake \/ TakeStop \/ Disconnect \/ DropReceiver \/ RunWake
  BY <1>4, <1>idle DEF TakeWake, TakeStop, Disconnect, DropReceiver, RunWake
<1>5. CASE RefusePoisoned \/ RunCommand \/ PanicCommand \/ RunQuery
  BY <1>5, <1>idle DEF RefusePoisoned, RunCommand, PanicCommand, RunQuery
<1>6. CASE Publish \/ CopyListeners \/ ToldAll \/ Reply
  BY <1>6, <1>idle DEF Publish, CopyListeners, ToldAll, Reply, AfterPublish
<1>7. ASSUME NEW l \in Listeners,
             TellOne(l) \/ Subscribe(l) \/ Snapshot(l) \/ Unsubscribe(l)
      PROVE  RunsInOrder'
  BY <1>7, <1>calm DEF TellOne, Subscribe, Snapshot, Unsubscribe
<1>8. ASSUME NEW r \in Requests, Dispatch(r), CanSend, engine = "run", job \in Queries
      PROVE  RunsInOrder'
  <2>1. /\ phase[r] = "new" /\ phase' = [phase EXCEPT ![r] = "queued"]
        /\ UNCHANGED <<engine, job>>
    BY <1>8 DEF Dispatch
  <2>2. r # job
    BY <1>8, <2>1 DEF HandledOnce
  <2>3. arrived'[job] = arrived[job]
    <3>1. CASE r \in Queries
      <4>1. arrived' = [arrived EXCEPT ![r] = {d \in Commands : phase[d] # "new"}]
        BY <1>8, <3>1 DEF Dispatch
      <4> QED
        BY <4>1, <2>2, <1>8, <1>types, Zenon
    <3>2. CASE r \notin Queries
      BY <1>8, <3>2 DEF Dispatch
    <3> QED
      BY <3>1, <3>2
  <2> QED
    BY <1>8, <2>1, <2>3, <1>types
<1>9. ASSUME NEW r \in Requests, Dispatch(r) PROVE RunsInOrder'
  BY <1>8, <1>9 DEF Dispatch, CanSend
<1>10. ASSUME NEW r \in Requests, Cancel(r) \/ Return(r) \/ Timeout(r) PROVE RunsInOrder'
  BY <1>10, <1>calm DEF Cancel, Return, Timeout
<1>11. ASSUME NEW q \in Queries, Answer(q) \/ ReplyQuery(q) PROVE RunsInOrder'
  <2>1. \A c \in Commands : phase'[c] = phase[c]
    BY <1>11, <1>types DEF Answer, ReplyQuery
  <2> QED
    BY <1>11, <2>1 DEF Answer, ReplyQuery
<1>12. CASE Stop \/ DropHandles
  BY <1>12, <1>calm DEF Stop, DropHandles
<1>13. ASSUME NEW w \in Workers, Deliver(w) \/ WakeStep(w) PROVE RunsInOrder'
  BY <1>13, <1>calm DEF Deliver, WakeStep, WakeSwap, WakeSend, WakeUndo
<1>14. CASE UNCHANGED vars
  BY <1>14, <1>calm DEF vars
<1> QED
  BY <1>3, <1>4, <1>5, <1>6, <1>7, <1>9, <1>10, <1>11, <1>12, <1>13, <1>14
     DEF Next, EngineStep

\* What a query was run on stays what was queued before it.
LEMMA NextSeenInOrder ==
    TypeOK /\ HandledOnce /\ PanicInv /\ OrderInv /\ [Next]_vars => SeenInOrder'
<1> SUFFICES ASSUME TypeOK, HandledOnce, PanicInv, OrderInv, [Next]_vars
             PROVE  SeenInOrder'
  OBVIOUS
<1>types. /\ phase \in [Requests -> Phases] /\ queue \in Seq(Jobs)
          /\ arrived \in [Queries -> SUBSET Commands]
          /\ seen \in [Queries -> SUBSET Effects]
          /\ Commands \subseteq Requests /\ Queries \subseteq Requests
          /\ Commands \cap Queries = {} /\ Workers \cap Commands = {}
  BY HostAssumption DEF TypeOK, Requests
<1> USE DEF OrderInv, SeenInOrder, callVars
\* No query opens, no command is undone, and what the engine keeps changes
\* at most by commands that are not done.
<1>calm. ASSUME UNCHANGED <<arrived, seen>>,
                \A q \in Queries : phase'[q] = "open" => phase[q] = "open",
                \A c \in Commands : phase[c] = "done" =>
                    phase'[c] = "done" /\ (c \in own' <=> c \in own)
         PROVE  SeenInOrder'
  BY <1>calm
<1>1. CASE TakeWake \/ TakeStop \/ Disconnect
  BY <1>1, <1>calm DEF TakeWake, TakeStop, Disconnect
<1>2. ASSUME NEW r \in Requests, TakeRequest(r) PROVE SeenInOrder'
  <2>1. phase[r] = "queued"
    <3>1. 1 \in DOMAIN queue /\ queue[1] = r
      BY <1>2, <1>types, Received DEF TakeRequest
    <3> QED
      BY <3>1 DEF HandledOnce
  <2> QED
    BY <1>2, <2>1, <1>calm, <1>types DEF TakeRequest
<1>3. CASE DropReceiver
  BY <1>3, <1>calm, <1>types DEF DropReceiver
<1>4. CASE RunWake
  <2>1. ready \subseteq Workers
    BY DEF TypeOK
  <2> QED
    BY <1>4, <2>1, <1>calm, <1>types DEF RunWake
<1>5. CASE RefusePoisoned
  BY <1>5, <1>calm DEF RefusePoisoned
<1>6. CASE RunCommand \/ PanicCommand
  <2>1. /\ phase[job] = "running" /\ own' \subseteq own \cup {job} /\ own \subseteq own'
        /\ UNCHANGED <<phase, arrived, seen>>
    BY <1>6, <1>types DEF RunCommand, PanicCommand, HandledOnce
  <2> QED
    BY <2>1, <1>calm
<1>7. CASE RunQuery
  <2>1. /\ engine = "run" /\ job \in Queries /\ UNCHANGED <<own, arrived>>
        /\ \/ UNCHANGED seen /\ phase' = [phase EXCEPT ![job] = "answering"]
           \/ /\ seen' = [seen EXCEPT ![job] = own]
              /\ \E p \in Phases : phase' = [phase EXCEPT ![job] = p]
    BY <1>7 DEF RunQuery, Phases
  <2>2. \A c \in Commands : phase'[c] = phase[c]
    BY <2>1, <1>types
  <2>3. \A q \in Queries : q # job => phase'[q] = phase[q] /\ seen'[q] = seen[q]
    BY <2>1, <1>types
  <2>4. phase'[job] = "open" => seen'[job] = own
    BY <2>1, <1>types
  <2>5. \A c \in Commands :
           /\ c \in arrived[job] => phase[c] = "done"
           /\ c \in own => c \in arrived[job]
    BY <2>1 DEF RunsInOrder, PanicInv, EffectsAreNew
  <2> QED
    BY <2>1, <2>2, <2>3, <2>4, <2>5
<1>8. CASE Publish \/ CopyListeners \/ ToldAll
  BY <1>8, <1>calm DEF Publish, CopyListeners, ToldAll
<1>9. CASE Reply
  BY <1>9, <1>calm, <1>types DEF Reply
<1>10. ASSUME NEW l \in Listeners,
              TellOne(l) \/ Subscribe(l) \/ Snapshot(l) \/ Unsubscribe(l)
       PROVE  SeenInOrder'
  BY <1>10, <1>calm DEF TellOne, Subscribe, Snapshot, Unsubscribe
<1>11. ASSUME NEW r \in Requests, Dispatch(r) PROVE SeenInOrder'
  <2>1. /\ phase[r] = "new" /\ UNCHANGED <<own, seen>>
        /\ \E p \in {"queued", "done"} : phase' = [phase EXCEPT ![r] = p]
    BY <1>11 DEF Dispatch
  <2>2. ASSUME NEW q \in Queries, phase'[q] = "open"
        PROVE  phase[q] = "open" /\ arrived'[q] = arrived[q]
    <3>1. q # r /\ phase[q] = "open"
      BY <2>1, <2>2, <1>types
    <3>2. CASE UNCHANGED arrived
      BY <3>1, <3>2
    <3>3. CASE arrived' = [arrived EXCEPT ![r] = {d \in Commands : phase[d] # "new"}]
      BY <3>1, <3>3, <2>2, <1>types, Zenon
    <3> QED
      BY <1>11, <3>2, <3>3 DEF Dispatch
  <2>3. \A c \in Commands : phase[c] = "done" => phase'[c] = "done"
    BY <2>1, <1>types
  <2> QED
    BY <2>1, <2>2, <2>3
<1>12. ASSUME NEW r \in Requests, Cancel(r) \/ Return(r) \/ Timeout(r) PROVE SeenInOrder'
  BY <1>12, <1>calm DEF Cancel, Return, Timeout
<1>13. ASSUME NEW q \in Queries, Answer(q) \/ ReplyQuery(q) PROVE SeenInOrder'
  <2>1. \A c \in Commands : phase'[c] = phase[c]
    BY <1>13, <1>types DEF Answer, ReplyQuery
  <2> QED
    BY <1>13, <2>1, <1>calm, <1>types DEF Answer, ReplyQuery
<1>14. CASE Stop \/ DropHandles
  BY <1>14, <1>calm DEF Stop, DropHandles
<1>15. ASSUME NEW w \in Workers, Deliver(w) \/ WakeStep(w) PROVE SeenInOrder'
  BY <1>15, <1>calm DEF Deliver, WakeStep, WakeSwap, WakeSend, WakeUndo
<1>16. CASE UNCHANGED vars
  BY <1>16, <1>calm DEF vars
<1> QED
  BY <1>1, <1>2, <1>3, <1>4, <1>5, <1>6, <1>7, <1>8, <1>9, <1>10, <1>11, <1>12,
     <1>13, <1>14, <1>15, <1>16
     DEF Next, EngineStep

\* Order of arrival is kept in every reachable state.
LEMMA OrderInvariant == Spec => []OrderInv
<1>1. TypeOK /\ HandledOnce /\ PanicInv /\ OrderInv /\ [Next]_vars => OrderInv'
  BY NextLocated, NextInOrder, NextRunsInOrder, NextSeenInOrder DEF OrderInv
<1> QED
  BY TypeCorrect, InitPanicInv, NextPanicInv, InitOrderInv, <1>1, PTL DEF Spec

\* An unanswered query was run on the state that the commands queued before it
\* left, and on nothing of those queued after it.
THEOREM ArrivalOrder == Spec => []QueriesSeeEarlierCommands
<1>1. OrderInv => QueriesSeeEarlierCommands
  BY DEF OrderInv, SeenInOrder, QueriesSeeEarlierCommands
<1> QED
  BY OrderInvariant, <1>1, PTL

-----------------------------------------------------------------------------
(* Stop.                                                                    *)

\* The requests queued before a stop stay in front of it, and once the
\* engine stops none of them is left in the channel.
StopInv ==
    /\ \A i, j \in DOMAIN queue : queue[i] = "stop" /\ queue[j] = "stop" => i = j
    /\ \A r \in ahead :
          /\ phase[r] \notin {"new", "lost"}
          /\ engine = "stopping" => phase[r] # "queued"
          /\ \A i \in DOMAIN queue : queue[i] = r =>
                \E k \in DOMAIN queue : k > i /\ queue[k] = "stop"

\* At first nothing is ahead of a stop.
LEMMA InitStopInv == Init => StopInv
<1> SUFFICES ASSUME Init PROVE StopInv
  OBVIOUS
<1>1. ahead = {} /\ \A i \in DOMAIN queue : queue[i] = "wake"
  BY DEF Init
<1> QED
  BY <1>1 DEF StopInv

\* What is ahead of a stop stays ahead of it or is run.
LEMMA NextStopInv ==
    TypeOK /\ HandledOnce /\ Located /\ StopInv /\ [Next]_vars => StopInv'
<1> SUFFICES ASSUME TypeOK, HandledOnce, Located, StopInv, [Next]_vars PROVE StopInv'
  OBVIOUS
<1>types. /\ phase \in [Requests -> Phases] /\ queue \in Seq(Jobs)
          /\ ahead \subseteq Requests /\ "stop" \notin Requests
          /\ Commands \subseteq Requests /\ Queries \subseteq Requests
          /\ DOMAIN queue = 1 .. Len(queue)
  BY HostAssumption, LenProperties DEF TypeOK, Requests
<1> USE DEF StopInv, callVars
\* No job moves, and no request comes to be new or lost.
<1>calm. ASSUME UNCHANGED <<queue, ahead>>,
                \A r \in Requests : phase'[r] = phase[r]
                    \/ (phase[r] # "lost" /\ phase'[r] \notin {"new", "queued", "lost"}),
                engine' = "stopping" => engine = "stopping" \/ queue = <<>>
         PROVE  StopInv'
  <2>1. ASSUME queue = <<>>, NEW r \in ahead PROVE phase[r] # "queued"
    BY <2>1, <1>types DEF Located
  <2> QED
    BY <1>calm, <2>1, <1>types
\* The job at the front is taken, and it is not a stop.
<1>taken. ASSUME NEW j, Receive(j), j # "stop", UNCHANGED ahead, engine' # "stopping",
                 \A r \in Requests : phase'[r] \in {"new", "lost"} => phase[r] = phase'[r]
          PROVE  StopInv'
  <2>1. /\ 1 \in DOMAIN queue /\ queue[1] = j
        /\ \A i \in DOMAIN queue' :
              i \in Nat \ {0} /\ i + 1 \in DOMAIN queue /\ queue'[i] = queue[i + 1]
        /\ \A i \in DOMAIN queue : i # 1 =>
              i \in Nat /\ i - 1 \in DOMAIN queue' /\ queue'[i - 1] = queue[i]
    BY <1>taken, <1>types, Received
  <2>2. ASSUME NEW i \in DOMAIN queue', NEW k \in DOMAIN queue',
               queue'[i] = "stop", queue'[k] = "stop"
        PROVE  i = k
    <3>1. i + 1 = k + 1
      BY <2>1, <2>2
    <3> QED
      BY <2>1, <3>1
  <2>3. ASSUME NEW r \in ahead, NEW i \in DOMAIN queue', queue'[i] = r
        PROVE  \E k \in DOMAIN queue' : k > i /\ queue'[k] = "stop"
    <3>1. PICK k \in DOMAIN queue : k > i + 1 /\ queue[k] = "stop"
      BY <2>1, <2>3
    <3>2. k # 1 /\ k \in Nat
      BY <1>taken, <2>1, <3>1
    <3>3. k - 1 \in DOMAIN queue' /\ queue'[k - 1] = "stop" /\ k - 1 > i
      BY <2>1, <3>1, <3>2
    <3> QED
      BY <3>3
  <2> QED
    BY <1>taken, <2>2, <2>3, <1>types
<1>1. CASE TakeWake
  BY <1>1, <1>taken DEF TakeWake
<1>2. CASE TakeStop
  <2>1. /\ Receive("stop") /\ UNCHANGED <<ahead, phase>> /\ engine' = "stopping"
    BY <1>2 DEF TakeStop
  <2>2. /\ 1 \in DOMAIN queue /\ queue[1] = "stop"
        /\ \A i \in DOMAIN queue' :
              i \in Nat \ {0} /\ i + 1 \in DOMAIN queue /\ queue'[i] = queue[i + 1]
    BY <2>1, <1>types, Received
  <2>3. ASSUME NEW r \in ahead, NEW i \in DOMAIN queue, queue[i] = r PROVE FALSE
    <3>1. PICK k \in DOMAIN queue : k > i /\ queue[k] = "stop"
      BY <2>3
    <3>2. k = 1 /\ i \in Nat /\ i >= 1
      BY <2>2, <3>1, <1>types
    <3> QED
      BY <3>1, <3>2
  <2>4. \A r \in ahead : phase[r] # "queued"
    BY <2>3, <1>types DEF Located
  <2>5. \A i \in DOMAIN queue' : queue'[i] # "stop" /\ queue'[i] \notin ahead
    <3>1. ASSUME NEW i \in DOMAIN queue', queue'[i] = "stop" PROVE FALSE
      <4>1. i + 1 = 1
        BY <2>2, <3>1
      <4> QED
        BY <2>2, <4>1
    <3> QED
      BY <2>2, <2>3, <3>1
  <2> QED
    BY <2>1, <2>4, <2>5
<1>3. ASSUME NEW r \in Requests, TakeRequest(r) PROVE StopInv'
  <2>1. /\ Receive(r) /\ UNCHANGED ahead /\ engine' = "run"
        /\ phase' = [phase EXCEPT ![r] = "running"]
    BY <1>3 DEF TakeRequest
  <2>2. \A s \in Requests : phase'[s] \in {"new", "lost"} => phase[s] = phase'[s]
    BY <2>1, <1>types
  <2> QED
    BY <2>1, <2>2, <1>taken, <1>types
<1>4. CASE Disconnect
  BY <1>4, <1>calm DEF Disconnect
<1>5. CASE DropReceiver
  BY <1>5, <1>types DEF DropReceiver
<1>6. CASE RunWake \/ RefusePoisoned \/ RunCommand \/ PanicCommand
  BY <1>6, <1>calm DEF RunWake, RefusePoisoned, RunCommand, PanicCommand
<1>7. CASE RunQuery
  <2>1. /\ phase[job] = "running" /\ job \in Requests
        /\ \E p \in {"answering", "open"} : phase' = [phase EXCEPT ![job] = p]
        /\ UNCHANGED <<queue, ahead>> /\ engine' = "idle"
    BY <1>7, <1>types DEF RunQuery, HandledOnce
  <2> QED
    BY <2>1, <1>calm, <1>types
<1>8. CASE Publish \/ CopyListeners \/ ToldAll
  BY <1>8, <1>calm DEF Publish, CopyListeners, ToldAll, AfterPublish
<1>9. ASSUME NEW l \in Listeners,
             TellOne(l) \/ Subscribe(l) \/ Snapshot(l) \/ Unsubscribe(l)
      PROVE  StopInv'
  BY <1>9, <1>calm DEF TellOne, Subscribe, Snapshot, Unsubscribe
<1>10. CASE Reply
  <2>1. phase[job] = "running" /\ job \in Requests
    BY <1>10 DEF Reply, HandledOnce, TypeOK
  <2> QED
    BY <1>10, <2>1, <1>calm, <1>types DEF Reply
<1>11. ASSUME NEW r \in Requests, Dispatch(r), CanSend PROVE StopInv'
  <2> DEFINE n == Len(queue) + 1
  <2>1. /\ Enqueue(r) /\ r \in Jobs /\ phase[r] = "new" /\ UNCHANGED <<ahead, engine>>
        /\ phase' = [phase EXCEPT ![r] = "queued"]
    BY <1>11 DEF Dispatch, Jobs
  <2>2. /\ \A i \in DOMAIN queue : i \in DOMAIN queue' /\ queue'[i] = queue[i]
        /\ \A i \in DOMAIN queue' : i \in DOMAIN queue \/ queue'[i] = r
    BY <2>1, <1>types, Enqueued
  <2>3. r \notin ahead /\ r # "stop"
    BY <2>1, <1>types
  <2>4. \A i \in DOMAIN queue' :
           queue'[i] = "stop" \/ queue'[i] \in ahead => i \in DOMAIN queue /\ queue'[i] = queue[i]
    BY <2>2, <2>3
  <2>5. \A s \in ahead : phase'[s] = phase[s]
    BY <2>1, <2>3, <1>types
  <2> QED
    BY <2>1, <2>2, <2>4, <2>5
<1>12. ASSUME NEW r \in Requests, Dispatch(r), ~CanSend PROVE StopInv'
  BY <1>12, <1>calm, <1>types DEF Dispatch, CanSend
<1>13. ASSUME NEW r \in Requests, Cancel(r) \/ Return(r) \/ Timeout(r) PROVE StopInv'
  BY <1>13, <1>calm DEF Cancel, Return, Timeout
<1>14. ASSUME NEW q \in Queries, Answer(q) \/ ReplyQuery(q) PROVE StopInv'
  BY <1>14, <1>calm, <1>types DEF Answer, ReplyQuery
<1>15. CASE Stop
  <2> DEFINE n == Len(queue) + 1
  <2>1. /\ Enqueue("stop") /\ "stop" \in Jobs /\ UNCHANGED <<phase, engine>>
        /\ ahead' = {r \in Requests : phase[r] = "queued"}
        /\ \A i \in DOMAIN queue : queue[i] # "stop"
        /\ engine # "stopping"
    BY <1>15 DEF Stop, Jobs
  <2>2. /\ \A i \in DOMAIN queue : i < n /\ i \in DOMAIN queue' /\ queue'[i] = queue[i]
        /\ n \in DOMAIN queue' /\ queue'[n] = "stop"
        /\ \A i \in DOMAIN queue' : i \in DOMAIN queue \/ i = n
    BY <2>1, <1>types, Enqueued
  <2> HIDE DEF n
  <2>3. \A i \in DOMAIN queue' : queue'[i] \in Requests =>
           \E k \in DOMAIN queue' : k > i /\ queue'[k] = "stop"
    BY <2>2, <1>types
  <2>4. \A i, j \in DOMAIN queue' : queue'[i] = "stop" /\ queue'[j] = "stop" => i = j
    BY <2>1, <2>2
  <2> QED
    BY <2>1, <2>3, <2>4
<1>16. CASE DropHandles
  BY <1>16, <1>calm DEF DropHandles
<1>17. ASSUME NEW w \in Workers, Deliver(w) \/ WakeSwap(w) \/ WakeUndo(w) PROVE StopInv'
  BY <1>17, <1>calm DEF Deliver, WakeSwap, WakeUndo
<1>18. ASSUME NEW w \in Workers, WakeSend(w) PROVE StopInv'
  <2>1. CASE Enqueue("wake")
    <3>1. /\ \A i \in DOMAIN queue : i \in DOMAIN queue' /\ queue'[i] = queue[i]
          /\ \A i \in DOMAIN queue' : i \in DOMAIN queue \/ queue'[i] = "wake"
      BY <2>1, <1>types, Enqueued DEF Jobs
    <3>2. "wake" \notin ahead
      BY HostAssumption, <1>types
    <3> QED
      BY <1>18, <3>1, <3>2 DEF WakeSend
  <2>2. CASE UNCHANGED queue
    BY <1>18, <2>2, <1>calm DEF WakeSend
  <2> QED
    BY <1>18, <2>1, <2>2 DEF WakeSend
<1>19. CASE UNCHANGED vars
  BY <1>19, <1>calm DEF vars
<1> QED
  BY <1>1, <1>2, <1>3, <1>4, <1>5, <1>6, <1>7, <1>8, <1>9, <1>10, <1>11, <1>12,
     <1>13, <1>14, <1>15, <1>16, <1>17, <1>18, <1>19
     DEF Next, EngineStep, WakeStep

\* What was queued when stop() was called is run: none of it is dropped with
\* the channel.
THEOREM StopComesLast == Spec => []StopRunsWhatIsAhead
<1>1. StopInv => StopRunsWhatIsAhead
  BY DEF StopInv, StopRunsWhatIsAhead
<1>2. OrderInv => Located
  BY DEF OrderInv
<1> QED
  BY TypeCorrect, OrderInvariant, InitStopInv, NextStopInv, <1>1, <1>2, PTL DEF Spec

=============================================================================
