------------------------------ MODULE EngineHost ------------------------------
(***************************************************************************)
(* The command host of crates/bern-command: one engine on a thread of its  *)
(* own, a channel of jobs into it, replies out of it, a versioned state    *)
(* published to listeners, and the waker through which background work     *)
(* comes back to the engine (src/wake.rs).  The threads are the engine,    *)
(* the callers that dispatch requests, the providers that hold unanswered  *)
(* queries, and the background workers that each deliver one result.       *)
(*                                                                         *)
(* The state the engine keeps is the set of commands and results that have *)
(* changed it; a command that changes nothing leaves that set alone.       *)
(***************************************************************************)
EXTENDS Naturals, Sequences, FiniteSets

CONSTANTS
    Commands,   \* requests whose catalog entry is a command
    Queries,    \* requests whose catalog entry is a read-only query
    Blocking,   \* the requests made with dispatch_blocking or query_blocking
    Workers,    \* background work: each delivers one result and wakes once
    Listeners   \* state listeners: each subscribes once

Requests == Commands \cup Queries

ASSUME HostAssumption ==
    /\ Commands \cap Queries = {}
    /\ Blocking \subseteq Requests
    /\ Requests \cap Workers = {}
    /\ Requests \cap {"wake", "stop", "none"} = {}

VARIABLES
    queue,       \* the channel: requests, "wake" and "stop"
    engine,      \* where the engine thread is
    job,         \* the job it is handling
    poisoned,    \* Worker::poisoned
    own,         \* the engine's own state
    published,   \* Shared::state.1
    revision,    \* Shared::state.0
    telling,     \* listeners tell() has copied and not called yet
    listening,   \* per listener: "new", "subscribed", "live", "dropped"
    snap,        \* per listener: revision of the snapshot it took
    told,        \* per listener: revision of the last update it received
    phase,       \* per request: how far it has come
    outcome,     \* per request: the result its answer was settled with
    replyRev,    \* per request: CommandOutcome::revision
    returned,    \* per request: what the blocking caller got
    cancelled,   \* per request: its Cancellation
    wakePending, \* Waker::pending
    waking,      \* per worker: where its call of Waker::wake is
    woke,        \* per worker: what wake() returned
    ready,       \* results delivered and not taken in
    handles,     \* some Host handle is alive
    arrived,     \* history: per query, the commands queued before it
    seen,        \* history: per query, the engine state its provider saw
    broken,      \* history: jobs and results whose handling panicked
    ahead        \* history: the requests already queued when stop was called

hostVars  == <<published, revision, telling>>
listVars  == <<listening, snap, told>>
callVars  == <<phase, outcome, replyRev, returned, cancelled, arrived, seen>>
wakeVars  == <<wakePending, waking, woke, ready>>
vars == <<queue, engine, job, poisoned, own, hostVars, listVars, callVars,
          wakeVars, handles, broken, ahead>>

Phases   == {"new", "queued", "running", "open", "answering", "done", "lost"}
Outcomes == {"none", "ok", "error", "cancelled", "engine_failed",
             "engine_stopped", "query_timeout"}
Jobs     == Requests \cup {"wake", "stop"}
Effects  == Commands \cup Workers

TypeOK ==
    /\ queue \in Seq(Jobs)
    /\ engine \in {"idle", "woken", "run", "publish", "copy", "tell", "reply",
                   "stopping", "gone"}
    /\ job \in Requests \cup {"wake", "none"}
    /\ engine \in {"run", "reply"} => job \in Requests
    /\ poisoned \in BOOLEAN
    /\ own \subseteq Effects
    /\ published \subseteq Effects
    /\ revision \in Nat
    /\ telling \subseteq Listeners
    /\ listening \in [Listeners -> {"new", "subscribed", "live", "dropped"}]
    /\ snap \in [Listeners -> Nat]
    /\ told \in [Listeners -> Nat]
    /\ phase \in [Requests -> Phases]
    /\ outcome \in [Requests -> Outcomes]
    /\ replyRev \in [Requests -> Nat]
    /\ returned \in [Requests -> Outcomes]
    /\ cancelled \in [Requests -> BOOLEAN]
    /\ wakePending \in BOOLEAN
    /\ waking \in [Workers -> {"working", "swap", "send", "undo", "returned"}]
    /\ woke \in [Workers -> BOOLEAN]
    /\ ready \subseteq Workers
    /\ handles \in BOOLEAN
    /\ arrived \in [Queries -> SUBSET Commands]
    /\ seen \in [Queries -> SUBSET Effects]
    /\ broken \subseteq Effects
    /\ ahead \subseteq Requests

\* Host::start_thread: the new host has queued the first wake.
Init ==
    /\ queue = <<"wake">>
    /\ engine = "idle"
    /\ job = "none"
    /\ poisoned = FALSE
    /\ own = {}
    /\ published = {}
    /\ revision = 0
    /\ telling = {}
    /\ listening = [l \in Listeners |-> "new"]
    /\ snap = [l \in Listeners |-> 0]
    /\ told = [l \in Listeners |-> 0]
    /\ phase = [r \in Requests |-> "new"]
    /\ outcome = [r \in Requests |-> "none"]
    /\ replyRev = [r \in Requests |-> 0]
    /\ returned = [r \in Requests |-> "none"]
    /\ cancelled = [r \in Requests |-> FALSE]
    /\ wakePending = TRUE
    /\ waking = [w \in Workers |-> "working"]
    /\ woke = [w \in Workers |-> FALSE]
    /\ ready = {}
    /\ handles = TRUE
    /\ arrived = [q \in Queries |-> {}]
    /\ seen = [q \in Queries |-> {}]
    /\ broken = {}
    /\ ahead = {}

-----------------------------------------------------------------------------
(* The channel.  A send fails once the receiver is dropped.  The waker's    *)
(* sender is weak, so its sends also fail once every Host handle is gone.   *)

CanSend == engine # "gone"

\* Mutant: a job that overtakes those already queued.
EnqueueFirst(j) == queue' = <<j>> \o queue

Enqueue(j) == queue' = Append(queue, j)

\* A request nobody has answered whose reply is dropped with the channel.
Waiting(r) == phase[r] \in {"queued", "running", "open", "answering"}

\* Host::dispatch_cancellable, and the start of the blocking calls.
Dispatch(r) ==
    /\ handles
    /\ phase[r] = "new"
    /\ \/ /\ CanSend
          /\ Enqueue(r)
          /\ phase' = [phase EXCEPT ![r] = "queued"]
          /\ arrived' = IF r \in Queries
                        THEN [arrived EXCEPT ![r] =
                                {c \in Commands : phase[c] # "new"}]
                        ELSE arrived
          /\ UNCHANGED <<outcome, replyRev>>
       \/ /\ ~CanSend
          /\ phase' = [phase EXCEPT ![r] = "done"]
          /\ outcome' = [outcome EXCEPT ![r] = "engine_stopped"]
          /\ replyRev' = [replyRev EXCEPT ![r] = revision]
          /\ UNCHANGED <<queue, arrived>>
    /\ UNCHANGED <<engine, job, poisoned, own, hostVars, listVars, returned,
                   cancelled, seen, wakeVars, handles, broken, ahead>>

\* Cancellation::cancel by the requester; commands ignore it.
Cancel(r) ==
    /\ r \in Queries
    /\ Waiting(r)
    /\ ~cancelled[r]
    /\ cancelled' = [cancelled EXCEPT ![r] = TRUE]
    /\ UNCHANGED <<queue, engine, job, poisoned, own, hostVars, listVars,
                   phase, outcome, replyRev, returned, arrived, seen,
                   wakeVars, handles, broken, ahead>>

\* The receiver of a blocking call gets the outcome, or learns that the
\* reply was dropped with the engine's channel.
Return(r) ==
    /\ r \in Blocking
    /\ returned[r] = "none"
    /\ \/ /\ phase[r] = "done"
          /\ returned' = [returned EXCEPT ![r] = outcome[r]]
          /\ UNCHANGED cancelled
       \/ /\ phase[r] = "lost"
          /\ returned' = [returned EXCEPT ![r] = "engine_stopped"]
          /\ cancelled' = [cancelled EXCEPT ![r] = r \in Queries]
    /\ UNCHANGED <<queue, engine, job, poisoned, own, hostVars, listVars,
                   phase, outcome, replyRev, arrived, seen, wakeVars, handles,
                   broken, ahead>>

\* query_blocking gives up: the query is cancelled, a late answer ignored.
Timeout(q) ==
    /\ q \in Blocking \cap Queries
    /\ returned[q] = "none"
    /\ Waiting(q)
    /\ returned' = [returned EXCEPT ![q] = "query_timeout"]
    /\ cancelled' = [cancelled EXCEPT ![q] = TRUE]
    /\ UNCHANGED <<queue, engine, job, poisoned, own, hostVars, listVars,
                   phase, outcome, replyRev, arrived, seen, wakeVars, handles,
                   broken, ahead>>

\* Host::stop queues a Stop behind the jobs already there, as often as it is
\* called. Only the first is modelled: it drops the whole queue behind it, later
\* stops with it, and the frontend stops once (bern_app_stop).
Stop ==
    /\ handles
    /\ CanSend
    /\ \A i \in DOMAIN queue : queue[i] # "stop"
    /\ engine # "stopping"
    /\ Enqueue("stop")
    /\ ahead' = {r \in Requests : phase[r] = "queued"}
    /\ UNCHANGED <<engine, job, poisoned, own, hostVars, listVars, callVars,
                   wakeVars, handles, broken>>

\* The last Host handle is dropped; a blocking caller still holds one.
DropHandles ==
    /\ handles
    /\ \A r \in Blocking : phase[r] # "new" => returned[r] # "none"
    /\ handles' = FALSE
    /\ UNCHANGED <<queue, engine, job, poisoned, own, hostVars, listVars,
                   callVars, wakeVars, broken, ahead>>

-----------------------------------------------------------------------------
(* Listeners.                                                               *)

Subscribe(l) ==
    /\ handles
    /\ listening[l] = "new"
    /\ listening' = [listening EXCEPT ![l] = "subscribed"]
    /\ UNCHANGED <<queue, engine, job, poisoned, own, hostVars, snap, told,
                   callVars, wakeVars, handles, broken, ahead>>

\* Host::snapshot, taken by a subscriber to start from.
Snapshot(l) ==
    /\ handles
    /\ listening[l] = "subscribed"
    /\ listening' = [listening EXCEPT ![l] = "live"]
    /\ snap' = [snap EXCEPT ![l] = revision]
    /\ UNCHANGED <<queue, engine, job, poisoned, own, hostVars, told,
                   callVars, wakeVars, handles, broken, ahead>>

Unsubscribe(l) ==
    /\ listening[l] \in {"subscribed", "live"}
    /\ listening' = [listening EXCEPT ![l] = "dropped"]
    /\ UNCHANGED <<queue, engine, job, poisoned, own, hostVars, snap, told,
                   callVars, wakeVars, handles, broken, ahead>>

-----------------------------------------------------------------------------
(* Background work: deliver a result, then Waker::wake.                     *)

Deliver(w) ==
    /\ waking[w] = "working"
    /\ ready' = ready \cup {w}
    /\ waking' = [waking EXCEPT ![w] = "swap"]
    /\ UNCHANGED <<queue, engine, job, poisoned, own, hostVars, listVars,
                   callVars, wakePending, woke, handles, broken, ahead>>

\* pending.swap(true): a wake that waits already takes this result too.
WakeSwap(w) ==
    /\ waking[w] = "swap"
    /\ wakePending' = TRUE
    /\ waking' = [waking EXCEPT ![w] = IF wakePending THEN "returned" ELSE "send"]
    /\ woke' = [woke EXCEPT ![w] = wakePending]
    /\ UNCHANGED <<queue, engine, job, poisoned, own, hostVars, listVars,
                   callVars, ready, handles, broken, ahead>>

WakeSend(w) ==
    /\ waking[w] = "send"
    /\ IF CanSend /\ handles
       THEN /\ Enqueue("wake")
            /\ waking' = [waking EXCEPT ![w] = "returned"]
            /\ woke' = [woke EXCEPT ![w] = TRUE]
       ELSE /\ waking' = [waking EXCEPT ![w] = "undo"]
            /\ UNCHANGED <<queue, woke>>
    /\ UNCHANGED <<engine, job, poisoned, own, hostVars, listVars, callVars,
                   wakePending, ready, handles, broken, ahead>>

WakeUndo(w) ==
    /\ waking[w] = "undo"
    /\ wakePending' = FALSE
    /\ waking' = [waking EXCEPT ![w] = "returned"]
    /\ UNCHANGED <<queue, engine, job, poisoned, own, hostVars, listVars,
                   callVars, woke, ready, handles, broken, ahead>>

-----------------------------------------------------------------------------
(* The engine thread.                                                       *)

\* receiver.recv(), then the head of Worker::handle.
Receive(j) ==
    /\ engine = "idle"
    /\ queue # <<>>
    /\ j = Head(queue)
    /\ queue' = Tail(queue)

\* Mutant: Worker::wake without Waker::taken.
TakeWakeUntaken ==
    /\ Receive("wake")
    /\ job' = "wake"
    /\ engine' = IF poisoned THEN "idle" ELSE "woken"
    /\ UNCHANGED <<poisoned, own, hostVars, listVars, callVars, wakeVars,
                   handles, broken, ahead>>

\* Worker::wake: Waker::taken comes before the engine's own wake.
TakeWake ==
    /\ Receive("wake")
    /\ job' = "wake"
    /\ wakePending' = FALSE
    /\ engine' = IF poisoned THEN "idle" ELSE "woken"
    /\ UNCHANGED <<poisoned, own, hostVars, listVars, callVars, waking, woke,
                   ready, handles, broken, ahead>>

TakeStop ==
    /\ Receive("stop")
    /\ engine' = "stopping"
    /\ UNCHANGED <<job, poisoned, own, hostVars, listVars, callVars, wakeVars,
                   handles, broken, ahead>>

TakeRequest(r) ==
    /\ Receive(r)
    /\ job' = r
    /\ engine' = "run"
    /\ phase' = [phase EXCEPT ![r] = "running"]
    /\ UNCHANGED <<poisoned, own, hostVars, listVars, outcome, replyRev,
                   returned, cancelled, arrived, seen, wakeVars, handles,
                   broken, ahead>>

\* recv() fails once no sender is left and the channel is empty.
Disconnect ==
    /\ engine = "idle"
    /\ queue = <<>>
    /\ ~handles
    /\ engine' = "stopping"
    /\ UNCHANGED <<queue, job, poisoned, own, hostVars, listVars, callVars,
                   wakeVars, handles, broken, ahead>>

\* The thread returns: the receiver goes, and with it every queued reply.
DropReceiver ==
    /\ engine = "stopping"
    /\ engine' = "gone"
    /\ queue' = <<>>
    /\ phase' = [r \in Requests |-> IF phase[r] = "queued" THEN "lost"
                                    ELSE phase[r]]
    /\ UNCHANGED <<job, poisoned, own, hostVars, listVars, outcome, replyRev,
                   returned, cancelled, arrived, seen, wakeVars, handles,
                   broken, ahead>>

\* EngineProtocol::wake takes every result that is ready, or panics.
RunWake ==
    /\ engine = "woken"
    /\ own' = own \cup ready
    /\ ready' = {}
    /\ \/ engine' = "publish" /\ UNCHANGED <<poisoned, broken>>
       \/ /\ engine' = "idle"
          /\ poisoned' = TRUE
          /\ broken' = broken \cup ready
    /\ UNCHANGED <<queue, job, hostVars, listVars, callVars, wakePending,
                   waking, woke, handles, ahead>>

\* Mutant: a poisoned engine drops the reply.
RefuseSilently ==
    /\ engine = "run"
    /\ poisoned
    /\ engine' = "idle"
    /\ UNCHANGED <<queue, job, poisoned, own, hostVars, listVars, callVars,
                   wakeVars, handles, broken, ahead>>

\* A poisoned engine runs nothing, queries included, and publishes nothing.
RefusePoisoned ==
    /\ engine = "run"
    /\ poisoned
    /\ outcome' = [outcome EXCEPT ![job] = "engine_failed"]
    /\ engine' = "reply"
    /\ UNCHANGED <<queue, job, poisoned, own, hostVars, listVars, phase,
                   replyRev, returned, cancelled, arrived, seen, wakeVars,
                   handles, broken, ahead>>

\* Mutant: the reply runs without a publication before it.
RunCommandUnpublished ==
    /\ engine = "run"
    /\ job \in Commands
    /\ ~poisoned
    /\ \E effect \in SUBSET {job}, result \in {"ok", "error"} :
          /\ own' = own \cup effect
          /\ outcome' = [outcome EXCEPT ![job] = result]
    /\ engine' = "reply"
    /\ UNCHANGED <<queue, job, poisoned, hostVars, listVars, phase, replyRev,
                   returned, cancelled, arrived, seen, wakeVars, handles,
                   broken, ahead>>

\* A command rejected by validate, or run with or without an effect and with
\* either result.
RunCommand ==
    /\ engine = "run"
    /\ job \in Commands
    /\ ~poisoned
    /\ \E effect \in SUBSET {job}, result \in {"ok", "error"} :
          /\ own' = own \cup effect
          /\ outcome' = [outcome EXCEPT ![job] = result]
    /\ engine' = "publish"
    /\ UNCHANGED <<queue, job, poisoned, hostVars, listVars, phase, replyRev,
                   returned, cancelled, arrived, seen, wakeVars, handles,
                   broken, ahead>>

\* Mutant: the panic is caught and nothing else.
PanicCommandUnpoisoned ==
    /\ engine = "run"
    /\ job \in Commands
    /\ ~poisoned
    /\ \E effect \in SUBSET {job} : own' = own \cup effect
    /\ outcome' = [outcome EXCEPT ![job] = "engine_failed"]
    /\ broken' = broken \cup {job}
    /\ engine' = "reply"
    /\ UNCHANGED <<queue, job, poisoned, hostVars, listVars, phase, replyRev,
                   returned, cancelled, arrived, seen, wakeVars, handles, ahead>>

\* A command that panics, half way through its effect or before it.
PanicCommand ==
    /\ engine = "run"
    /\ job \in Commands
    /\ ~poisoned
    /\ \E effect \in SUBSET {job} : own' = own \cup effect
    /\ outcome' = [outcome EXCEPT ![job] = "engine_failed"]
    /\ poisoned' = TRUE
    /\ broken' = broken \cup {job}
    /\ engine' = "reply"
    /\ UNCHANGED <<queue, job, hostVars, listVars, phase, replyRev, returned,
                   cancelled, arrived, seen, wakeVars, handles, ahead>>

\* The result QueryAnswer::finish settles on.
Settled(q, result) == IF cancelled[q] THEN "cancelled" ELSE result

\* The query path of Worker::handle: an invalid or already cancelled query
\* never reaches its provider; a provider that panics drops the answer while
\* unwinding, unless it has handed the answer on.
RunQuery ==
    /\ engine = "run"
    /\ job \in Queries
    /\ ~poisoned
    /\ engine' = "idle"
    /\ \/ \* validate fails, or nobody waits any more
          /\ outcome' = [outcome EXCEPT ![job] = Settled(job, "error")]
          /\ phase' = [phase EXCEPT ![job] = "answering"]
          /\ UNCHANGED <<seen, poisoned>>
       \/ \* the provider keeps the answer
          /\ ~cancelled[job]
          /\ seen' = [seen EXCEPT ![job] = own]
          /\ phase' = [phase EXCEPT ![job] = "open"]
          /\ poisoned' \in BOOLEAN
          /\ UNCHANGED outcome
       \/ \* it panics with the answer
          /\ ~cancelled[job]
          /\ seen' = [seen EXCEPT ![job] = own]
          /\ phase' = [phase EXCEPT ![job] = "answering"]
          /\ outcome' = [outcome EXCEPT ![job] = Settled(job, "engine_failed")]
          /\ poisoned' = TRUE
    /\ UNCHANGED <<queue, job, own, hostVars, listVars, replyRev, returned,
                   cancelled, arrived, wakeVars, handles, broken, ahead>>

\* QueryAnswer::send, or its Drop, on whatever thread holds the answer: the
\* cancellation is looked at here and the reply runs in the next step.
Answer(q) ==
    /\ phase[q] = "open"
    /\ \E result \in {"ok", "error"} :
          outcome' = [outcome EXCEPT ![q] = Settled(q, result)]
    /\ phase' = [phase EXCEPT ![q] = "answering"]
    /\ UNCHANGED <<queue, engine, job, poisoned, own, hostVars, listVars,
                   replyRev, returned, cancelled, arrived, seen, wakeVars,
                   handles, broken, ahead>>

ReplyQuery(q) ==
    /\ phase[q] = "answering"
    /\ phase' = [phase EXCEPT ![q] = "done"]
    /\ replyRev' = [replyRev EXCEPT ![q] = revision]
    /\ UNCHANGED <<queue, engine, job, poisoned, own, hostVars, listVars,
                   outcome, returned, cancelled, arrived, seen, wakeVars,
                   handles, broken, ahead>>

\* What follows a publication: nothing after a wake, the reply after a command.
AfterPublish == IF job = "wake" THEN "idle" ELSE "reply"

\* Mutant: the new state is stored and no listener told.
PublishUntold ==
    /\ engine = "publish"
    /\ engine' = AfterPublish
    /\ published' = own
    /\ revision' = IF own = published THEN revision ELSE revision + 1
    /\ UNCHANGED <<queue, job, poisoned, own, telling, listVars, callVars,
                   wakeVars, handles, broken, ahead>>

\* publish_with under the state lock: a new revision only for a difference.
Publish ==
    /\ engine = "publish"
    /\ IF own = published
       THEN /\ engine' = AfterPublish
            /\ UNCHANGED <<published, revision>>
       ELSE /\ engine' = "copy"
            /\ published' = own
            /\ revision' = revision + 1
    /\ UNCHANGED <<queue, job, poisoned, own, telling, listVars, callVars,
                   wakeVars, handles, broken, ahead>>

\* tell: copy the listeners under their lock, then call them without it.
CopyListeners ==
    /\ engine = "copy"
    /\ engine' = "tell"
    /\ telling' = {l \in Listeners : listening[l] \in {"subscribed", "live"}}
    /\ UNCHANGED <<queue, job, poisoned, own, published, revision, listVars,
                   callVars, wakeVars, handles, broken, ahead>>

TellOne(l) ==
    /\ engine = "tell"
    /\ l \in telling
    /\ told' = [told EXCEPT ![l] = revision]
    /\ telling' = telling \ {l}
    /\ UNCHANGED <<queue, engine, job, poisoned, own, published, revision,
                   listening, snap, callVars, wakeVars, handles, broken, ahead>>

ToldAll ==
    /\ engine = "tell"
    /\ telling = {}
    /\ engine' = AfterPublish
    /\ UNCHANGED <<queue, job, poisoned, own, hostVars, listVars, callVars,
                   wakeVars, handles, broken, ahead>>

\* The end of Worker::handle: the outcome carries the revision just published.
Reply ==
    /\ engine = "reply"
    /\ engine' = "idle"
    /\ phase' = [phase EXCEPT ![job] = "done"]
    /\ replyRev' = [replyRev EXCEPT ![job] = revision]
    /\ UNCHANGED <<queue, job, poisoned, own, hostVars, listVars, outcome,
                   returned, cancelled, arrived, seen, wakeVars, handles,
                   broken, ahead>>

EngineStep ==
    \/ TakeWake \/ TakeStop \/ Disconnect \/ DropReceiver
    \/ RunWake \/ RefusePoisoned \/ RunCommand \/ PanicCommand \/ RunQuery
    \/ \E r \in Requests : TakeRequest(r)
    \/ Publish \/ CopyListeners \/ ToldAll \/ Reply
    \/ \E l \in Listeners : TellOne(l)

WakeStep(w) == WakeSwap(w) \/ WakeSend(w) \/ WakeUndo(w)

Next ==
    \/ EngineStep
    \/ \E r \in Requests : Dispatch(r) \/ Cancel(r) \/ Return(r) \/ Timeout(r)
    \/ \E q \in Queries : Answer(q) \/ ReplyQuery(q)
    \/ Stop \/ DropHandles
    \/ \E l \in Listeners : Subscribe(l) \/ Snapshot(l) \/ Unsubscribe(l)
    \/ \E w \in Workers : Deliver(w) \/ WakeStep(w)

Spec == Init /\ [][Next]_vars

(* Fairness: the scheduler runs the engine thread, the threads inside       *)
(* Waker::wake and inside QueryAnswer::finish, and the timer and receiver   *)
(* of a blocked caller.  Nothing makes a provider answer, a caller call, a  *)
(* worker deliver or a host stop.                                           *)
Fairness ==
    /\ WF_vars(EngineStep)
    /\ \A w \in Workers : WF_vars(WakeStep(w))
    /\ \A q \in Queries : WF_vars(ReplyQuery(q)) /\ WF_vars(Timeout(q))
    /\ \A r \in Requests : WF_vars(Return(r))

FairSpec == Spec /\ Fairness

-----------------------------------------------------------------------------
(* What the host promises.                                                  *)

\* What a listener knows: the snapshot it took or the last update, if later.
View(l) == IF told[l] > snap[l] THEN told[l] ELSE snap[l]

\* A wake is in the channel, or a worker is about to put one there.
WakeComes ==
    \/ \E i \in DOMAIN queue : queue[i] = "wake"
    \/ \E v \in Workers : waking[v] = "send"

\* What makes NoLostWake inductive: `pending` stands for a wake that comes as
\* long as the engine takes any, and is only undone once it takes none.
PendingIsInFlight ==
    /\ wakePending /\ handles /\ engine \notin {"stopping", "gone"} => WakeComes
    /\ \A v \in Workers : waking[v] = "undo" => ~handles \/ engine = "gone"

\* A background result whose wake() returned true is on its way into the
\* engine: a wake is queued, about to be queued, or just about to run.  (wake
\* clears `pending` before it takes the results, wake.rs:48; a result that
\* arrives in between must not be left to wait for somebody else's wake.)
NoLostWake ==
    \A w \in ready :
        (waking[w] = "returned" /\ handles /\ ~poisoned
            /\ engine \notin {"stopping", "gone"})
        => engine = "woken" \/ WakeComes

\* A subscriber that takes its snapshot after subscribing misses nothing: its
\* view is the current revision, unless tell() is still on its way to it.
SnapshotPlusUpdates ==
    \A l \in Listeners : listening[l] = "live" =>
        View(l) = revision \/ engine = "copy" \/ l \in telling

\* When a command's reply runs, its effect is published and every live
\* listener has been told of the revision the reply carries (publish before
\* reply at the end of Worker::handle).
RepliesFollowUpdates ==
    \A c \in Commands : phase[c] = "done" =>
        /\ c \in own \ broken => c \in published
        /\ \A l \in Listeners : listening[l] = "live" => replyRev[c] <= View(l)

\* Every request is handled once: it is in the channel once and only while
\* it is queued, and the job at hand is the one request that is running
\* (Worker::handle takes each Job by value).
HandledOnce ==
    /\ \A i \in DOMAIN queue :
          queue[i] \in Requests =>
              /\ phase[queue[i]] = "queued"
              /\ \A j \in DOMAIN queue : queue[j] = queue[i] => j = i
    /\ engine \in {"run", "publish", "copy", "tell", "reply"} =>
          /\ job # "none"
          /\ job \in Requests => phase[job] = "running"
    /\ engine = "woken" => job = "wake"

\* A command or a result that is still to come is nowhere in the engine.
EffectsAreNew ==
    /\ published \subseteq own
    /\ \A c \in Commands :
          phase[c] \in {"new", "queued"} \/ (engine = "run" /\ job = c) => c \notin own
    /\ \A w \in Workers :
          /\ w \in ready => w \notin own
          /\ waking[w] = "working" => w \notin own \cup ready

\* What makes PanicsNeverShow inductive: an engine that broke is poisoned, and
\* a poisoned engine is on no path that publishes.
PoisonStops ==
    /\ ~poisoned => broken = {}
    /\ poisoned => engine \notin {"woken", "publish", "copy", "tell"}

\* What a panicking command or wake left in the engine is never published,
\* neither by itself nor by any later job (Worker::poisoned).
PanicsNeverShow == published \cap broken = {}

\* A query's provider sees the state left by the commands queued before it
\* and by no later one (module comment of bern-command, "arrival order").
QueriesSeeEarlierCommands ==
    \A q \in Queries : phase[q] = "open" =>
        \A c \in Commands \cap own : c \in seen[q] <=> c \in arrived[q]

\* Requests queued before the first stop are run, not dropped with the channel
\* (Host::stop, "after already queued commands").
StopRunsWhatIsAhead == \A r \in ahead : phase[r] # "lost"

\* A caller of dispatch_blocking or query_blocking gets a result, whatever the
\* provider, a panic, a stop or a timeout does.
BlockingReturns ==
    \A r \in Blocking : phase[r] # "new" ~> returned[r] # "none"
=============================================================================
