------------------------------ MODULE MediaHub ------------------------------
(***************************************************************************)
(* The media hub (bern-media/src/hub.rs) with what runs its players: the   *)
(* executor of the engine's own device, and pages, each served by a thread *)
(* of its own, between which the router of bern-transport-ws/src/          *)
(* channel.rs chooses.  The hub has two locks: `state` around each change, *)
(* and `send` around a change and the requests it makes.  An executor      *)
(* performs requests in order, answers some later, and reports at any time *)
(* what its players do.                                                    *)
(*                                                                         *)
(* A player is the application's, or the one video of a page's window.     *)
(* Replies to callers, the updates told to listeners, who keep the newest  *)
(* revision, the views, and volume and muting, which need no source, are   *)
(* left out.                                                               *)
(***************************************************************************)
EXTENDS Naturals, Sequences, FiniteSets, SequencesExt

CONSTANTS
    Application,  \* the players declared for the whole application
    Pages,        \* connections of pages
    Windows,      \* those whose window has a video: each owns the player of its name
    Urls,         \* sources
    None,
    MaxRequests,  \* requests the hub makes
    MaxVersion,   \* source versions of a player
    MaxReports    \* reports of a page on their way

ASSUME MediaAssumption ==
    /\ Application \cap Pages = {} /\ Windows \subseteq Pages
    /\ IsFiniteSet(Application)
    /\ None \notin Application \cup Pages \cup Urls \cup {"device"}
    /\ {"device", "caller"} \cap Pages = {}
    /\ MaxRequests \in Nat /\ MaxVersion \in Nat /\ MaxReports \in Nat

PlayerIds == Application \cup Windows
Executors == Pages \cup {"device"}

VARIABLES
    hub,         \* the hub's State
    sending,     \* who holds the send lock, with the requests still to hand over
    router,      \* RouterState: executors in the order they attached, claims
    thread,      \* per page: where the thread of its connection is
    device,      \* the device's executor was attached
    inbox,       \* per executor: requests it was handed
    performing,  \* per executor: requests it answers later
    backend,     \* per executor: what it loaded for a player
    outbox,      \* per page: what it reported
    moved,       \* history: players the router now sends elsewhere
    reborn,      \* history: players created again before the old ones were gone
    raced        \* history: an executor attached while the last one was given up

executorVars == <<inbox, performing, backend, outbox>>
histories == <<moved, reborn, raced>>
vars == <<hub, sending, router, thread, device, executorVars, histories>>

\* What an executor observed is reduced to the request whose load it is about
\* (`of`, 0 before a report).  History: the request of the source's load (`load`),
\* and whether no one is left to answer the newest request (`lost`).
NewPlayer ==
    [source |-> None, version |-> 0, of |-> 0, request |-> 0, status |-> "none", runner |-> FALSE, load |-> 0,
     lost |-> FALSE]
NoElement == [version |-> 0, load |-> 0]

Receiving == <<"receive">>

Init ==
    /\ hub = [players |-> [p \in Application |-> NewPlayer], executor |-> "none",
              pending |-> {}, next_request |-> 0]
    /\ sending = {}
    /\ router = [executors |-> <<>>, players |-> [p \in PlayerIds |-> None]]
    /\ thread = [c \in Pages |-> <<"new">>]
    /\ device = FALSE
    /\ inbox = [e \in Executors |-> <<>>]
    /\ performing = [e \in Executors |-> {}]
    /\ backend = [e \in Executors |-> [p \in PlayerIds |-> NoElement]]
    /\ outbox = [c \in Pages |-> <<>>]
    /\ moved = {}
    /\ reborn = {}
    /\ raced = FALSE

-----------------------------------------------------------------------------
(* The hub.                                                                *)

Existing == DOMAIN hub.players

\* State::runner_of.
RunnerOf(h, p) == IF h.players[p].runner THEN "router" ELSE h.executor

\* State::track.
Tracked(h, p) ==
    LET id == h.next_request + 1
    IN [h EXCEPT !.next_request = id,
                 !.players[p] = [@ EXCEPT !.request = id, !.status = "accepted", !.lost = FALSE],
                 !.pending = @ \cup {[request |-> id, player |-> p]}]

\* The request just tracked, for what runs the player.
Request(h, p, op) ==
    [request |-> h.next_request, player |-> p, version |-> h.players[p].version,
     op |-> op, to |-> RunnerOf(h, p)]

\* A new source version, with nothing observed yet.
Sourced(h, p, url) ==
    LET player == h.players[p]
    IN [h EXCEPT !.players[p] =
           [player EXCEPT !.version = @ + 1, !.source = url, !.of = 0, !.load = 0]]

\* The load of it.
Loads(h, p) ==
    LET t == Tracked(h, p)
    IN [t EXCEPT !.players[p].load = t.next_request]

\* Mutant: the requests are handed over outside the lock.
SendAnyway == TRUE

\* Whether the send lock can be taken.
SendFree == sending = {}

\* The thread `by` leaves the state lock with requests to hand over.
Sends(by, requests) ==
    sending' = IF requests = <<>> THEN sending
               ELSE sending \cup {[by |-> by, requests |-> requests]}

\* The lock and room for n more requests, a bound of the model.
Locks(n) == SendFree /\ hub.next_request + n <= MaxRequests

\* Mutant: players keep what the last executor loaded.
AttachedUnloaded(h, e, left) == <<[h EXCEPT !.executor = e], <<>> >>

\* attach_executor: every player without a runner loads again.
Attached(h, e, left) ==
    LET again == {p \in left : h.players[p].source # None}
        order == SetToSeq(again)
        id(p) == h.next_request + CHOOSE i \in DOMAIN order : order[i] = p
        Loading(p) == [h.players[p] EXCEPT !.version = @ + 1, !.of = 0, !.load = id(p),
                                           !.request = id(p), !.status = "accepted",
                                           !.lost = FALSE]
    IN <<[h EXCEPT !.executor = e,
                   !.players = [p \in DOMAIN h.players |->
                                   IF p \in again THEN Loading(p)
                                   ELSE IF p \in left THEN [h.players[p] EXCEPT !.of = 0]
                                   ELSE h.players[p]],
                   !.pending = @ \cup {[request |-> id(p), player |-> p] : p \in again},
                   !.next_request = @ + Len(order)],
         [i \in DOMAIN order |->
             [request |-> h.next_request + i, player |-> order[i], op |-> "load",
              version |-> h.players[order[i]].version + 1, to |-> e]]>>

AttachExecutor(by, e) ==
    LET left == {p \in Existing : ~hub.players[p].runner}
        result == Attached(hub, e, left)
    IN /\ Locks(Cardinality(left))
       /\ \A p \in left : hub.players[p].version < MaxVersion
       /\ hub' = result[1]
       /\ Sends(by, result[2])

\* forget_runner: what pages ran stops; what waited for them ends.
ForgetRunner ==
    LET ran == {p \in Existing : hub.players[p].runner}
        stopped == [p \in Existing |->
                       IF p \in ran
                       THEN [hub.players[p] EXCEPT !.runner = FALSE, !.source = None,
                                 !.version = @ + 1, !.of = 0, !.load = 0]
                       ELSE hub.players[p]]
    IN /\ SendFree
       /\ \A p \in ran : hub.players[p].version < MaxVersion
       /\ hub' = [hub EXCEPT !.players = stopped,
                             !.pending = {w \in @ : w.player \notin ran}]

\* Mutant: requests that wait stay accepted.
DetachedAccepted(h) == [h EXCEPT !.executor = "none", !.pending = {}]

\* detach_executor: requests that wait fail.
Detached(h) ==
    [h EXCEPT !.executor = "none", !.pending = {},
              !.players = [p \in DOMAIN h.players |->
                              [h.players[p] EXCEPT
                                  !.status = IF @ = "accepted" THEN "answered" ELSE @,
                                  !.lost = FALSE]]]

\* Mutant: what waits for a released player keeps waiting.
RemovedWaiting(h, p) ==
    [h EXCEPT !.players = [q \in DOMAIN h.players \ {p} |-> h.players[q]],
              !.next_request = @ + 1]

\* remove: the player and what waits for it; the release is a request too.
Removed(h, p) ==
    [h EXCEPT !.players = [q \in DOMAIN h.players \ {p} |-> h.players[q]],
              !.pending = {w \in @ : w.player # p},
              !.next_request = @ + 1]

\* release, and release_window of a page's window.
Release(by, p) ==
    /\ Locks(IF p \in Existing THEN 1 ELSE 0)
    /\ IF p \in Existing
       THEN LET h == Removed(hub, p)
                e == RunnerOf(hub, p)
            IN /\ hub' = h
               /\ Sends(by, IF e = "none" THEN <<>>
                            ELSE <<[request |-> h.next_request, player |-> p, op |-> "release",
                                    version |-> hub.players[p].version, to |-> e]>>)
       ELSE UNCHANGED <<hub, sending>>

\* bind: only another source is a new version.
Bind(by, p, url) ==
    /\ Locks(1)
    /\ hub.players[p].version < MaxVersion
    /\ hub.players[p].source # url
    /\ LET s == Sourced(hub, p, url)
           t == IF url = None THEN Tracked(s, p) ELSE Loads(s, p)
       IN IF RunnerOf(hub, p) = "none" THEN hub' = s /\ UNCHANGED sending
          ELSE /\ hub' = t
               /\ Sends(by, <<Request(t, p, IF url = None THEN "unload" ELSE "load")>>)

\* A new source runs where it is opened.
RunsOn(h, p, page) == [h EXCEPT !.players[p].runner = page]

\* route, Open: of a page with an executor, or of anyone else.
Open(by, page, p, url) ==
    /\ Locks(1)
    /\ p \in Application
    /\ page \/ hub.executor # "none"
    /\ hub.players[p].version < MaxVersion
    /\ LET t == Loads(Sourced(RunsOn(hub, p, page), p, url), p)
       IN hub' = t /\ Sends(by, <<Request(t, p, "load")>>)

\* route, Play, Pause and Seek.
Control(by, p) ==
    /\ Locks(1)
    /\ p \in Existing
    /\ RunnerOf(hub, p) # "none"
    /\ hub.players[p].source # None
    /\ LET t == Tracked(hub, p)
       IN hub' = t /\ Sends(by, <<Request(t, p, "control")>>)

\* They are refused when nothing runs the player, and without a source or with
\* one that was reported, as failed.
Refused(p) ==
    /\ SendFree
    /\ \/ RunnerOf(hub, p) = "none"
       \/ hub.players[p].source = None
       \/ hub.players[p].of # 0
    /\ UNCHANGED <<hub, sending>>

\* complete: a request that no longer waits is ignored, and only the newest
\* of a player shows.
Completed(h, id) ==
    LET known == {w \in h.pending : w.request = id}
        shown == {w.player : w \in known}
    IN [h EXCEPT !.pending = @ \ known,
                 !.players = [p \in DOMAIN h.players |->
                                 IF p \in shown /\ h.players[p].request = id
                                 THEN [h.players[p] EXCEPT !.status = "answered"]
                                 ELSE h.players[p]]]

\* Mutant: reports of any version are merged.
CurrentAnyway(r) == hub.executor # "none" /\ r.player \in Existing

\* A report is merged only when it is about the current version.
Current(r) ==
    /\ hub.executor # "none"
    /\ r.player \in Existing
    /\ hub.players[r.player].version = r.version

\* observe.
Observed(h, r) ==
    IF Current(r)
    THEN [h EXCEPT !.players[r.player].of = r.load]
    ELSE h

-----------------------------------------------------------------------------
(* The router.                                                             *)

\* The page that gets the requests of a player: the one that claimed it, or
\* the last one that attached.
Routed(p) ==
    IF router.players[p] \in Range(router.executors) THEN router.players[p]
    ELSE IF router.executors = <<>> THEN None
    ELSE Last(router.executors)

\* History: the router now sends what a page holds to another.
Moves ==
    moved' = moved \cup {p \in Existing : /\ hub.players[p].source # None
                                          /\ RunnerOf(hub, p) = "router"
                                          /\ Routed(p) # None
                                          /\ Routed(p)' # Routed(p)}

\* No one will answer these requests.
Unanswered(h, requests) ==
    [h EXCEPT !.players = [p \in DOMAIN h.players |->
        IF h.players[p].request \in requests /\ h.players[p].status = "accepted"
        THEN [h.players[p] EXCEPT !.lost = TRUE] ELSE h.players[p]]]

Claims(c, p) == router' = [router EXCEPT !.players[p] = c] /\ Moves

\* Page c attached and did not leave.
Connected(c) ==
    thread[c][1] \in {"receive", "check", "attach", "unclaim", "open", "control"}

\* The thread that holds the lock hands over its next request.  A page that
\* is gone gets nothing, and without a page the request is dropped.
Execute(s) ==
    /\ s.requests # <<>>
    /\ LET r == Head(s.requests)
           e == IF r.to = "device" THEN "device" ELSE Routed(r.player)
           reached == e = "device" \/ e \in {c \in Pages : Connected(c)}
       IN /\ sending' = (sending \ {s}) \cup
                        (IF Len(s.requests) = 1 THEN {}
                         ELSE {[s EXCEPT !.requests = Tail(@)]})
          /\ inbox' = IF reached THEN [inbox EXCEPT ![e] = Append(@, r)] ELSE inbox
          /\ hub' = IF reached THEN hub ELSE Unanswered(hub, {r.request})
          /\ moved' = IF r.op = "load" THEN moved \ {r.player} ELSE moved
    /\ UNCHANGED <<router, thread, device, performing, backend, outbox, reborn, raced>>

-----------------------------------------------------------------------------
(* The connections of pages.                                               *)

Goes(c, to) == thread' = [thread EXCEPT ![c] = to]

\* The thread of c is between messages, and heard all reports sent before.
Takes(c) ==
    /\ thread[c] = Receiving
    /\ \A s \in sending : s.by # c
    /\ outbox[c] = <<>>

GivingUp == {c \in Pages : thread[c][1] \in {"forget", "compare", "drop"}}

\* MediaAttach: a page tells the router first, ...
Attach(c) ==
    /\ thread[c] = <<"new">>
    /\ router' = [router EXCEPT !.executors = Append(@, c)]
    /\ Goes(c, IF router.executors = <<>> THEN <<"check">> ELSE Receiving)
    /\ raced' = (raced \/ GivingUp # {})
    /\ Moves
    /\ UNCHANGED <<hub, sending, device, executorVars, reborn>>

\* Mutant: the first page takes over what the engine runs itself.
TakesOver(c) == TRUE

\* An engine that has an executor keeps it.
Lacking(c) == hub.executor = "none"

\* ... the first then looks whether anything runs the players, ...
Check(c) ==
    /\ thread[c] = <<"check">>
    /\ Goes(c, IF Lacking(c) THEN <<"attach">> ELSE Receiving)
    /\ UNCHANGED <<hub, sending, router, device, executorVars, histories>>

\* ... and attaches the router.
AttachRouter(c) ==
    /\ thread[c] = <<"attach">>
    /\ AttachExecutor(c, "router")
    /\ Goes(c, Receiving)
    /\ UNCHANGED <<router, device, executorVars, histories>>

\* MediaCreate: the page claims its player and runs it.
Create(c) ==
    /\ Takes(c)
    /\ c \in Windows \ Existing
    /\ hub' = [hub EXCEPT !.players = [p \in Existing \cup {c} |->
                  IF p = c THEN [NewPlayer EXCEPT !.runner = TRUE] ELSE hub.players[p]]]
    /\ router' = [router EXCEPT !.players[c] = c]
    /\ reborn' = IF \E e \in Executors : \/ backend[e][c] # NoElement
                                          \/ \E r \in Range(inbox[e]) : r.player = c
                 THEN reborn \cup {c} ELSE reborn
    /\ UNCHANGED <<sending, thread, device, executorVars, moved, raced>>

\* MediaBind.
BindSource(c) ==
    /\ Takes(c)
    /\ c \in Existing
    /\ \E url \in Urls \cup {None} : Bind(c, c, url)
    /\ UNCHANGED <<router, thread, device, executorVars, histories>>

\* MediaRelease: the player is released ...
ReleaseSource(c) ==
    /\ Takes(c)
    /\ c \in Existing
    /\ Release(c, c)
    /\ Goes(c, <<"unclaim">>)
    /\ moved' = moved \ {c}
    /\ reborn' = reborn \ {c}
    /\ UNCHANGED <<router, device, executorVars, raced>>

\* ... and the claim forgotten.
Unclaim(c) ==
    /\ thread[c] = <<"unclaim">>
    /\ \A s \in sending : s.by # c
    /\ router' = [router EXCEPT !.players[c] = None]
    /\ Goes(c, Receiving)
    /\ UNCHANGED <<hub, sending, device, executorVars, histories>>

\* MediaView: the page that shows a player claims it.
View(c, p) ==
    /\ Takes(c)
    /\ Claims(c, p)
    /\ UNCHANGED <<hub, sending, thread, device, executorVars, reborn, raced>>

\* A command of a page claims the player ...
Command(c) ==
    /\ Takes(c)
    /\ \E p \in Application :
          /\ Claims(c, p)
          /\ \/ Goes(c, <<"control", p>>)
             \/ \E url \in Urls : Goes(c, <<"open", p, url>>)
    /\ UNCHANGED <<hub, sending, device, executorVars, reborn, raced>>

\* ... before the hub routes it.
RouteCommand(c) ==
    /\ \/ thread[c][1] = "open" /\ Open(c, TRUE, thread[c][2], thread[c][3])
       \/ thread[c][1] = "control" /\ (Control(c, thread[c][2]) \/ Refused(thread[c][2]))
    /\ Goes(c, Receiving)
    /\ UNCHANGED <<router, device, executorVars, histories>>

Completes(c) == {r \in Range(outbox[c]) : r.type = "complete"}

\* The connection of page c is over; Connection::closed releases its window,
LeavePage(c) ==
    /\ thread[c] = Receiving
    /\ \A s \in sending : s.by # c
    /\ Goes(c, <<"release">>)
    /\ hub' = Unanswered(hub, {r.request : r \in Range(inbox[c]) \cup performing[c] \cup Completes(c)})
    /\ inbox' = [inbox EXCEPT ![c] = <<>>]
    /\ performing' = [performing EXCEPT ![c] = {}]
    /\ backend' = [backend EXCEPT ![c] = [p \in PlayerIds |-> NoElement]]
    /\ outbox' = [outbox EXCEPT ![c] = <<>>]
    /\ UNCHANGED <<sending, router, device, moved, reborn, raced>>

ReleaseWindow(c) ==
    /\ thread[c] = <<"release">>
    /\ Release(c, c)
    /\ Goes(c, <<"detach">>)
    /\ UNCHANGED <<router, device, executorVars, histories>>

\* leaves the router,
Detach(c) ==
    /\ thread[c] = <<"detach">>
    /\ \A s \in sending : s.by # c
    /\ LET at == CHOOSE i \in DOMAIN router.executors : router.executors[i] = c
           left == RemoveAt(router.executors, at)
       IN /\ router' = [executors |-> left,
                        players |-> [p \in PlayerIds |->
                                        IF router.players[p] = c THEN None ELSE router.players[p]]]
          /\ Goes(c, IF left = <<>> THEN <<"forget">> ELSE <<"gone">>)
    /\ Moves
    /\ UNCHANGED <<hub, sending, device, executorVars, reborn, raced>>

\* and when no page is left, what pages ran is forgotten,
Forget(c) ==
    /\ thread[c] = <<"forget">>
    /\ ForgetRunner
    /\ Goes(c, <<"compare">>)
    /\ UNCHANGED <<sending, router, device, executorVars, histories>>

\* and the executor, when it is the router, given up.
Compare(c) ==
    /\ thread[c] = <<"compare">>
    /\ Goes(c, IF hub.executor = "router" THEN <<"drop">> ELSE <<"gone">>)
    /\ UNCHANGED <<hub, sending, router, device, executorVars, histories>>

Drop(c) ==
    /\ thread[c] = <<"drop">>
    /\ SendFree
    /\ hub' = Detached(hub)
    /\ Goes(c, <<"gone">>)
    /\ UNCHANGED <<sending, router, device, executorVars, histories>>

Connection(c) ==
    \/ Attach(c) \/ Check(c) \/ AttachRouter(c)
    \/ Create(c) \/ BindSource(c) \/ ReleaseSource(c) \/ Unclaim(c) \/ Command(c) \/ RouteCommand(c)
    \/ \E p \in Application : View(c, p)
    \/ LeavePage(c) \/ ReleaseWindow(c) \/ Detach(c) \/ Forget(c) \/ Compare(c) \/ Drop(c)

-----------------------------------------------------------------------------
(* The device, other callers, and what executors do.                       *)

\* bern_media_executor_attached, once.
AttachDevice ==
    /\ ~device
    /\ device' = TRUE
    /\ AttachExecutor("device", "device")
    /\ raced' = (raced \/ \E c \in Pages : thread[c][1] \in {"attach", "drop"})
    /\ UNCHANGED <<router, thread, executorVars, moved, reborn>>

\* The CLI, an engine, a page that runs no players.
Call ==
    /\ \E p \in PlayerIds :
          \/ p \in Application /\ \E url \in Urls : Open("caller", FALSE, p, url)
          \/ Control("caller", p)
    /\ UNCHANGED <<router, thread, device, executorVars, histories>>

\* Executed or failed, the answer to a request is the answer.
Answer(r) == [type |-> "complete", request |-> r.request]

Heard(h, r) ==
    IF r.type = "complete" THEN Completed(h, r.request) ELSE Observed(h, r)

\* The device tells the hub itself, a page sends a message.
Tells(e, r) ==
    IF e = "device" THEN hub' = Heard(hub, r) /\ UNCHANGED outbox
    ELSE /\ Len(outbox[e]) < MaxReports
         /\ outbox' = [outbox EXCEPT ![e] = Append(@, r)]
         /\ UNCHANGED hub

\* An executor performs its next request; one about another version than the
\* one it has loaded is stale.  A page's element that was released keeps its
\* listeners, and may still report what it had queued (HtmlPlayer.release).
Perform(e) ==
    /\ inbox[e] # <<>>
    /\ LET r == Head(inbox[e])
           Loaded(version, load) ==
               /\ backend' = [backend EXCEPT ![e][r.player] = [version |-> version, load |-> load]]
               /\ Tells(e, Answer(r))
               /\ UNCHANGED performing
       IN \/ r.op = "load" /\ Loaded(r.version, r.request)
          \/ r.op = "unload" /\ Loaded(r.version, 0)
          \/ r.op = "release" /\ Loaded(0, 0)
          \/ /\ \/ r.op = "control" /\ backend[e][r.player].version # r.version
                \/ r.op = "release"
             /\ Tells(e, Answer(r))
             /\ UNCHANGED <<performing, backend>>
          \/ /\ r.op = "control"
             /\ backend[e][r.player].version = r.version
             /\ performing' = [performing EXCEPT ![e] = @ \cup {r}]
             /\ UNCHANGED <<hub, backend, outbox>>
    /\ inbox' = [inbox EXCEPT ![e] = Tail(@)]
    /\ UNCHANGED <<sending, router, thread, device, histories>>

\* What it started has settled, or was refused.
Settle(e, r) ==
    /\ r \in performing[e]
    /\ performing' = [performing EXCEPT ![e] = @ \ {r}]
    /\ Tells(e, Answer(r))
    /\ UNCHANGED <<sending, router, thread, device, inbox, backend, histories>>

\* What an executor's player does is reported with the version it has loaded.
Report(e, p) ==
    /\ backend[e][p].load # 0
    /\ Tells(e, [type |-> "observe", player |-> p, version |-> backend[e][p].version,
                 load |-> backend[e][p].load])
    /\ UNCHANGED <<sending, router, thread, device, inbox, performing, backend, histories>>

\* The thread of a page's connection passes on what the page said, between
\* messages.
Hear(c) ==
    /\ thread[c] = Receiving
    /\ \A s \in sending : s.by # c
    /\ outbox[c] # <<>>
    /\ outbox' = [outbox EXCEPT ![c] = Tail(@)]
    /\ hub' = Heard(hub, Head(outbox[c]))
    /\ UNCHANGED <<sending, router, thread, device, inbox, performing, backend, histories>>

Next ==
    \/ \E c \in Pages : Connection(c) \/ Hear(c)
    \/ \E s \in sending : Execute(s)
    \/ AttachDevice
    \/ Call
    \/ \E e \in Executors :
          \/ Perform(e)
          \/ \E r \in performing[e] : Settle(e, r)
          \/ \E p \in PlayerIds : Report(e, p)

Spec == Init /\ [][Next]_vars

-----------------------------------------------------------------------------

\* The hub's players, requests and locks are well formed: whatever waits,
\* waits for a player that exists.
MediaTypeOK ==
    /\ Application \subseteq Existing /\ Existing \subseteq PlayerIds
    /\ \A p \in Existing :
          /\ hub.players[p].source \in Urls \cup {None}
          /\ hub.players[p].version \in 0 .. MaxVersion
          /\ hub.players[p].status \in {"none", "accepted", "answered"}
    /\ hub.executor \in {"none", "device", "router"}
    /\ hub.pending \subseteq [request : 1 .. hub.next_request, player : Existing]
    /\ Cardinality(sending) <= 1

\* "Requests reach the executor in the order the hub accepted them"
\* (hub.rs:95), whoever's thread hands them over.
RequestsInOrder ==
    \A e \in Executors : \A i, j \in 1 .. Len(inbox[e]) :
        i < j => inbox[e][i].request < inbox[e][j].request

Handed(e) ==
    Range(inbox[e]) \cup performing[e] \cup (IF e = "device" THEN {} ELSE Completes(e))

\* Some executor will still say what becomes of request id.
IsComing(id) ==
    \/ \E s \in sending : \E r \in Range(s.requests) : r.request = id
    \/ \E e \in Executors : \E r \in Handed(e) : r.request = id

\* What became of the newest request of p will be said.
AnswerIsComing(p) ==
    /\ [request |-> hub.players[p].request, player |-> p] \in hub.pending
    /\ IsComing(hub.players[p].request)

\* A player says "accepted" only while the request waits and an executor has
\* it, unless the page that had it left and others, or the device, are still
\* there, or an executor came while the last one was given up (complete,
\* detach_executor, forget_runner).
AcceptedIsComing ==
    \A p \in Existing :
        LET player == hub.players[p]
            orphan == player.lost /\ (hub.executor # "none" \/ router.executors # <<>>)
        IN player.status = "accepted" /\ ~orphan /\ ~raced => AnswerIsComing(p)

\* "Late reports from an older source never overwrite the newer one"
\* (hub.rs:6), unless the player was created again while its page still had
\* the released one: its versions start over.
ReportsAreCurrent ==
    \A p \in Existing \ reborn :
        hub.players[p].of # 0 => hub.players[p].of = hub.players[p].load

\* Who gets the next request about p.
Holder(p) ==
    IF RunnerOf(hub, p) = "router" THEN Routed(p)
    ELSE IF RunnerOf(hub, p) = "device" THEN "device" ELSE None

\* Executor e loaded what p has now, or has the request to.
Holds(e, p) ==
    LET player == hub.players[p]
        Loading(r) == /\ r.player = p /\ r.op = "load"
                      /\ r.version = player.version /\ r.request = player.load
    IN \/ backend[e][p] = [version |-> player.version, load |-> player.load]
       \/ \E r \in Range(inbox[e]) : Loading(r)
       \/ \E s \in sending : \E r \in Range(s.requests) : Loading(r)

\* The next request about p goes to who holds what p has, or is to load it.
GoesToHolder(p) ==
    LET e == Holder(p)
    IN hub.players[p].source # None /\ e # None /\ (e \in Pages => thread[e] = Receiving) =>
           Holds(e, p)

\* "commands are routed to the executor that actually holds that player"
\* (Docs/Design.md:2361).
RequestsGoToHolders == \A p \in Existing : GoesToHolder(p)

\* They are, unless the router changed its mind, or an executor came while the
\* last one was given up (hub.rs, attach_executor; channel.rs, claim, detach).
RoutedToHolder == ~raced => \A p \in Existing \ moved : GoesToHolder(p)

\* "The initiating executor holds browser-local sources.  A view mounted in
\* another tab must not steal its load" (channel.rs:512): the load of what a page
\* opens is handed over to that page.
InitiatorGetsLoad ==
    [][\A s \in sending \ sending' :
          LET r == Head(s.requests)
          IN r.player \in Application /\ r.op = "load" /\ hub.players[r.player].runner =>
                 inbox'[s.by] = Append(inbox[s.by], r)]_vars

Settled ==
    /\ sending = {}
    /\ \A c \in Pages : thread[c][1] \in {"new", "receive", "gone"}

\* "If it ran players the others take over" (channel.rs:822): while a page with
\* an executor is there, something runs the players.
PlayersHaveExecutor ==
    Settled => (router.executors # <<>> => hub.executor # "none")

\* What a page that left was to answer is answered by another then, or ends.
AcceptedIsAnswered ==
    Settled => \A p \in Existing : hub.players[p].status = "accepted" => AnswerIsComing(p)

\* Others take over, unless executors came while the last one was given up; the router
\* runs players only with pages, and no page takes over from the device
\* (Connection::handle, MediaAttach; Connection::closed).
OthersTakeOver ==
    ~raced =>
        /\ PlayersHaveExecutor
        /\ Settled => /\ hub.executor = "router" => router.executors # <<>>
                      /\ device => hub.executor = "device"

=============================================================================
