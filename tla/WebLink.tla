------------------------------ MODULE WebLink ------------------------------
(***************************************************************************)
(* A web page and the engine host it talks to: bern-ffi/src/remote.rs and  *)
(* the link of bern.js on the page's side, one thread; the connections of  *)
(* bern-transport-ws/src/channel.rs on the host's, one thread each, and    *)
(* the engine thread that tells their listeners.  A connection is lost at  *)
(* any time, and each side notices on its own after any prefix of what was *)
(* sent to it; the host may crash and start again as a new engine.  The    *)
(* engine's own steps are those of EngineHost, and only the ones another   *)
(* thread can see are kept; what players do is MediaHub's.                 *)
(***************************************************************************)
EXTENDS Naturals, Sequences, FiniteSets, SequencesExt

CONSTANTS
    Commands,        \* the commands the page sends, each once
    Queries,         \* the queries it sends, which may be cancelled
    Fields,          \* the fields of the engine's state
    Changes,         \* the sets of fields one publication may change
    Windows,         \* window instances, each with a video of its own source
    MaxConnections,  \* connections the page opens
    MaxEngines,      \* engine hosts, each after the crash of the last one
    MaxChanges       \* publications of one engine

Requests == Commands \cup Queries

\* The page's own requests are none of these.
ASSUME LinkAssumption ==
    /\ Commands \cap Queries = {}
    /\ Changes \subseteq SUBSET Fields \ {{}}
    /\ {"open", "subscribe"} \cap Requests = {}
    /\ MaxConnections \in Nat /\ MaxEngines \in Nat \ {0} /\ MaxChanges \in Nat

Connections == 1 .. MaxConnections
SessionIds == [engine : 1 .. MaxEngines, connection : Connections]
NoSession == [engine |-> 0, connection |-> 0]

\* What a field holds is told by its last change: engine and revision.
Values == [engine : 0 .. MaxEngines, revision : 0 .. MaxChanges]
Players == [session : SessionIds \cup {NoSession}, window : Windows]
Owners == Players

VARIABLES
    link,      \* bern.js `link`: socket and what the page concludes from it
    remote,    \* the page's Remote
    cancelled, \* queries whose caller no longer waits
    outcome,   \* what the caller of a request was told
    toHost,    \* per connection: messages of the page
    toPage,    \* per connection: messages of the host
    conn,      \* per connection: the host's ConnectionState and its status
    step,      \* per connection: where its thread is
    engine,    \* the engine host that runs
    revision, state,  \* what it published
    jobs,      \* its queue
    at, job, told, telling,  \* its thread: position, job, changes, listeners left
    asked,     \* queries whose answer is still to come
    sessions,  \* its registered sessions
    players,   \* its hub's players with their owners
    ran,       \* history: how often a command ran
    overtaken, \* history: changes told before an older State was sent
    races      \* history: what happened while the page reconnected

pageVars == <<link, remote, cancelled, outcome>>
channelVars == <<toHost, toPage>>
connVars == <<conn, step>>
engineVars == <<engine, revision, state, jobs, at, job, told, telling, asked, ran>>
hostVars == <<connVars, engineVars, sessions, players>>
histories == <<overtaken, races>>
vars == <<pageVars, channelVars, hostVars, histories>>

NewLink == [socket |-> 0, ready |-> FALSE, engineID |-> 0,
            sessionID |-> NoSession, problem |-> "none"]
NewRemote ==
    [connected |-> FALSE, engine_id |-> 0, session_id |-> NoSession,
     previous |-> NoSession, revision |-> 0, pending |-> {},
     values |-> [f \in Fields |-> [engine |-> 0, revision |-> 0]],
     windows |-> [w \in Windows |-> "new"], created |-> {}]
NewConnection == [status |-> "none", session |-> NoSession, listed |-> {},
                  windows |-> {}, subscribed |-> FALSE, queries |-> {}]
Listening == <<"receive">>
Background == [request |-> "wake", connection |-> 0]

Init ==
    /\ link = NewLink
    /\ remote = NewRemote
    /\ cancelled = {}
    /\ outcome = [r \in Requests |-> "new"]
    /\ toHost = [c \in Connections |-> <<>>]
    /\ toPage = [c \in Connections |-> <<>>]
    /\ conn = [c \in Connections |-> NewConnection]
    /\ step = [c \in Connections |-> Listening]
    /\ engine = 1
    /\ revision = 0
    /\ state = [f \in Fields |-> [engine |-> 1, revision |-> 0]]
    /\ jobs = <<>>
    /\ at = "idle"
    /\ job = Background
    /\ told = {}
    /\ telling = {}
    /\ asked = {}
    /\ sessions = {}
    /\ players = {}
    /\ ran = [r \in Commands |-> 0]
    /\ overtaken = [c \in Connections |-> {}]
    /\ races = {}

-----------------------------------------------------------------------------
(* The page.  One thread: link, Remote and the windows.                    *)

Alive(c) == conn[c].status \in {"new", "open"}

\* link.send: what is posted while the socket is not open is dropped, and what
\* reaches no host is lost.
Posted(messages) ==
    [c \in Connections |->
        IF c = link.socket /\ link'.ready /\ Alive(c)
        THEN toHost[c] \o messages ELSE toHost[c]]

OpenWindows == {w \in Windows : remote.windows[w] = "open"}

\* Mutant: an owner is not qualified by the session.
QualifiedNot(w) == [session |-> NoSession, window |-> w]

\* Remote::qualified.
Qualified(w) == [session |-> remote.session_id, window |-> w]

WindowsMessage == [type |-> "session_windows", windows |-> OpenWindows]
CreateMessage(player, owner) ==
    [type |-> "media_create", player |-> player, owner |-> owner]

\* sweep_cancelled: whoever gave up a query is told, and so is the host.
Swept(waiting) == waiting \cap cancelled
Cancels(waiting) == SetToSeq({[type |-> "cancel", request |-> q] : q \in Swept(waiting)})

\* What becomes of the page with message m: its Remote is r, the callers in
\* `answered` are told `answer`, and the sweep follows.
Took(r, posts, answered, answer) ==
    /\ remote' = [r EXCEPT !.pending = @ \ cancelled]
    /\ outcome' = [q \in Requests |->
                      IF q \in answered THEN answer
                      ELSE IF q \in Swept(r.pending) THEN "cancelled" ELSE outcome[q]]
    /\ toPage' = [toPage EXCEPT ![link.socket] = Tail(@)]
    /\ toHost' = Posted(posts \o Cancels(r.pending))
    /\ UNCHANGED <<cancelled, hostVars, histories>>

Incoming(type) ==
    /\ link.ready
    /\ toPage[link.socket] # <<>>
    /\ Head(toPage[link.socket]).type = type

Message == Head(toPage[link.socket])

\* link.open: a new socket, and Remote::open introduces the page.
Dial ==
    /\ link.socket = 0
    /\ link.problem \in {"none", "lost"}
    /\ \E c \in Connections :
          /\ conn[c].status = "none"
          /\ \A d \in Connections : d < c => conn[d].status # "none"
          /\ link' = [link EXCEPT !.socket = c, !.ready = TRUE]
          /\ conn' = [conn EXCEPT ![c].status = "new"]
          /\ toHost' = [toHost EXCEPT ![c] = <<[type |-> "hello"]>>]
          /\ races' = IF \E d \in Connections : conn[d].status \in {"new", "open", "closing"}
                      THEN races \cup {"late"} ELSE races
    /\ UNCHANGED <<remote, cancelled, outcome, toPage, step, engineVars,
                   sessions, players, overtaken>>

\* Mutant: the waiting requests are dropped without a word.
ClosedSilently ==
    /\ link.socket # 0
    /\ link' = [link EXCEPT !.socket = 0, !.ready = FALSE,
                            !.problem = IF @ = "none" THEN "lost" ELSE @]
    /\ remote' = [remote EXCEPT
                     !.connected = FALSE, !.pending = {}, !.session_id = NoSession,
                     !.previous = IF remote.session_id = NoSession THEN @ ELSE remote.session_id]
    /\ toPage' = [toPage EXCEPT ![link.socket] = <<>>]
    /\ UNCHANGED <<cancelled, outcome, toHost, hostVars, histories>>

\* Mutant: the waiting requests are said not to have been sent.
ClosedRefuses ==
    /\ link.socket # 0
    /\ link' = [link EXCEPT !.socket = 0, !.ready = FALSE,
                            !.problem = IF @ = "none" THEN "lost" ELSE @]
    /\ remote' = [remote EXCEPT
                     !.connected = FALSE, !.pending = {}, !.session_id = NoSession,
                     !.previous = IF remote.session_id = NoSession THEN @ ELSE remote.session_id]
    /\ outcome' = [r \in Requests |->
                      IF r \in remote.pending THEN "unavailable" ELSE outcome[r]]
    /\ toPage' = [toPage EXCEPT ![link.socket] = <<>>]
    /\ UNCHANGED <<cancelled, toHost, hostVars, histories>>

\* The close event: Remote::closed.  Callers learn that the outcome is
\* unknown, and the session may be resumed.
Closed ==
    /\ link.socket # 0
    /\ link' = [link EXCEPT !.socket = 0, !.ready = FALSE,
                            !.problem = IF @ = "none" THEN "lost" ELSE @]
    /\ remote' = [remote EXCEPT
                     !.connected = FALSE, !.pending = {}, !.session_id = NoSession,
                     !.previous = IF remote.session_id = NoSession THEN @ ELSE remote.session_id]
    /\ outcome' = [r \in Requests |-> IF r \in remote.pending THEN "lost" ELSE outcome[r]]
    /\ toPage' = [toPage EXCEPT ![link.socket] = <<>>]
    /\ UNCHANGED <<cancelled, toHost, hostVars, histories>>

\* What is left of the last session: it survives only on the same engine.
Resumes(id) == IF remote.previous.engine = id THEN remote.previous ELSE NoSession

TakeWelcome ==
    /\ Incoming("welcome")
    /\ UNCHANGED link
    /\ Took([remote EXCEPT !.engine_id = Message.engine, !.previous = NoSession,
                           !.pending = @ \cup {"open", "subscribe"}],
            <<[type |-> "open_session", resume |-> Resumes(Message.engine)],
              [type |-> "subscribe"]>>,
            {}, "")

\* The session first, then what the page already shows.
TakeSessionOpened ==
    /\ Incoming("session_opened")
    /\ UNCHANGED link
    /\ LET id == Message.session
           again == {CreateMessage(p.player, [session |-> id, window |-> p.owner]) :
                        p \in remote.created}
       IN Took([remote EXCEPT !.session_id = id, !.pending = @ \ {"open"}],
               <<WindowsMessage>> \o SetToSeq(again), {}, "")

\* link.status, connected: another engine ends the page.
Connects(id, session) ==
    IF link.engineID \notin {0, id}
    THEN [link EXCEPT !.problem = "restarted"]
    ELSE [link EXCEPT !.engineID = id, !.sessionID = session, !.problem = "none"]

TakeState ==
    /\ Incoming("state")
    /\ link' = Connects(remote.engine_id, remote.session_id)
    /\ Took([remote EXCEPT !.values = Message.values, !.revision = Message.revision,
                           !.connected = TRUE, !.pending = @ \ {"subscribe"}],
            <<>>, {}, "")

\* Mutant: an update is compared one too high.
AppliesLater(m) == m.revision > remote.revision + 1

\* An update no newer than the mirror is ignored, before any sweep.
Applies(m) == m.revision > remote.revision

TakeUpdate ==
    /\ Incoming("update")
    /\ UNCHANGED link
    /\ \/ /\ Applies(Message)
          /\ Took([remote EXCEPT
                     !.values = [f \in Fields |-> IF f \in Message.fields
                                                 THEN Message.values[f] ELSE @[f]],
                     !.revision = Message.revision],
                  <<>>, {}, "")
       \/ /\ ~Applies(Message)
          /\ toPage' = [toPage EXCEPT ![link.socket] = Tail(@)]
          /\ UNCHANGED <<remote, cancelled, outcome, toHost, hostVars, histories>>

\* A result nobody waits for any more is ignored.
TakeResult ==
    /\ Incoming("result")
    /\ UNCHANGED link
    /\ Took([remote EXCEPT !.pending = @ \ {Message.request}],
            <<>>, remote.pending \cap {Message.request}, "done")

\* An error that answers no request fails the link for good.
TakeError ==
    /\ Incoming("error")
    /\ link' = [link EXCEPT !.ready = FALSE, !.problem = "failed"]
    /\ Took(remote, <<>>, {}, "")

\* RemoteEngine::dispatch.
Dispatch(r) ==
    /\ outcome[r] = "new"
    /\ link.engineID # 0
    /\ UNCHANGED link
    /\ remote' = [remote EXCEPT
                     !.pending = (@ \ cancelled) \cup (IF remote.connected THEN {r} ELSE {})]
    /\ outcome' = [q \in Requests |->
                      IF q = r THEN IF remote.connected THEN "waiting" ELSE "unavailable"
                      ELSE IF q \in Swept(remote.pending) THEN "cancelled" ELSE outcome[q]]
    /\ toHost' = Posted(Cancels(remote.pending) \o
                        IF remote.connected
                        THEN <<[type |-> "command", request |-> r, engine |-> remote.engine_id]>>
                        ELSE <<>>)
    /\ UNCHANGED <<cancelled, toPage, hostVars, histories>>

\* A newer request supersedes a query; the next sweep finds it.
Supersede(q) ==
    /\ outcome[q] = "waiting"
    /\ q \notin cancelled
    /\ cancelled' = cancelled \cup {q}
    /\ UNCHANGED <<link, remote, outcome, channelVars, hostVars, histories>>

\* History: the page is between its socket and its first State.
Between == IF link.ready /\ ~remote.connected THEN races \cup {"between"} ELSE races

\* Mutant: the last window that closes is not reported.
ReportsSome(now) ==
    IF remote.connected /\ now # {}
    THEN <<[type |-> "session_windows", windows |-> now]>>
    ELSE <<>>

\* windows_changed: only a connected page reports.
Reports(now) ==
    IF remote.connected
    THEN <<[type |-> "session_windows", windows |-> now]>>
    ELSE <<>>

\* WindowManager.open and the Video it builds: bern_window_opened, then
\* media.create.  Only a page that was connected once builds windows.
OpenWindow(w) ==
    /\ link.engineID # 0
    /\ remote.windows[w] = "new"
    /\ UNCHANGED link
    /\ LET player == [session |-> link.sessionID, window |-> w]
       IN /\ remote' = [remote EXCEPT !.windows[w] = "open",
                           !.created = @ \cup {[player |-> player, owner |-> w]}]
          /\ toHost' = Posted(Reports(OpenWindows \cup {w})
                              \o <<CreateMessage(player, Qualified(w))>>)
    /\ races' = Between
    /\ UNCHANGED <<cancelled, outcome, toPage, hostVars, overtaken>>

\* finishClose: the Video releases its player, then bern_window_closed
\* releases the window's and reports.
CloseWindow(w) ==
    /\ remote.windows[w] = "open"
    /\ UNCHANGED link
    /\ LET own == {p \in remote.created : p.owner = w}
           releases == {[type |-> "media_release", player |-> p.player] : p \in own}
       IN /\ remote' = [remote EXCEPT !.windows[w] = "closed", !.created = @ \ own]
          /\ toHost' = Posted(SetToSeq(releases)
                              \o <<[type |-> "media_release_window", owner |-> Qualified(w)]>>
                              \o Reports(OpenWindows \ {w}))
    /\ races' = Between
    /\ UNCHANGED <<cancelled, outcome, toPage, hostVars, overtaken>>

\* location.reload, some time after the engine was found to be another.
Reload ==
    /\ link.problem = "restarted"
    /\ link' = NewLink
    /\ remote' = NewRemote
    /\ cancelled' = {}
    /\ outcome' = [r \in Requests |->
                      IF outcome[r] = "waiting" THEN "reloaded" ELSE outcome[r]]
    /\ toPage' = [c \in Connections |-> IF c = link.socket THEN <<>> ELSE toPage[c]]
    /\ UNCHANGED <<toHost, hostVars, histories>>

PageTakes ==
    \/ TakeWelcome \/ TakeSessionOpened \/ TakeState \/ TakeUpdate
    \/ TakeResult \/ TakeError

Page ==
    \/ Dial \/ Closed \/ PageTakes \/ Reload
    \/ \E r \in Requests : Dispatch(r)
    \/ \E q \in Queries : Supersede(q)
    \/ \E w \in Windows : OpenWindow(w) \/ CloseWindow(w)

-----------------------------------------------------------------------------
(* The host's connections.                                                 *)

\* The thread of connection c takes a message of a type.
HostTakes(c, type) ==
    /\ step[c] = Listening
    /\ conn[c].status = IF type = "hello" THEN "new" ELSE "open"
    /\ toHost[c] # <<>>
    /\ Head(toHost[c]).type = type
    /\ toHost' = [toHost EXCEPT ![c] = Tail(@)]

Asked(c) == Head(toHost[c])

\* What the host sends, unless one side has gone from the connection.
Sent(c, m) ==
    [toPage EXCEPT ![c] =
        IF Alive(c) /\ link.socket = c /\ link.ready THEN Append(@, m) ELSE @]

Goes(c, s) == step' = [step EXCEPT ![c] = s]

\* The handshake of a page of this program.
Welcome(c) ==
    /\ HostTakes(c, "hello")
    /\ conn' = [conn EXCEPT ![c].status = "open"]
    /\ toPage' = Sent(c, [type |-> "welcome", engine |-> engine])
    /\ UNCHANGED <<pageVars, step, engineVars, sessions, players, histories>>

Registered(id) == \E s \in sessions : s.id = id

\* Mutant: a session is resumed although it still is another connection's.
ResumableTwice(id) == id.engine = engine

\* A session can be resumed on its engine once nobody has it.
Resumable(id) == id.engine = engine /\ ~Registered(id)

OpenSession(c) ==
    /\ HostTakes(c, "open_session")
    /\ LET id == Asked(c).resume
       IN Goes(c, <<"register", IF Resumable(id) THEN id
                                ELSE [engine |-> engine, connection |-> c]>>)
    /\ UNCHANGED <<pageVars, toPage, conn, engineVars, sessions, players, histories>>

Register(c) ==
    /\ step[c][1] = "register"
    /\ LET id == step[c][2]
       IN /\ sessions' = {s \in sessions : s.id # id} \cup {[id |-> id, connection |-> c]}
          /\ conn' = [conn EXCEPT ![c].session = id]
          /\ toPage' = Sent(c, [type |-> "session_opened", session |-> id])
    /\ Goes(c, Listening)
    /\ UNCHANGED <<pageVars, toHost, engineVars, players, histories>>

\* The listener first, ...
Subscribe(c) ==
    /\ HostTakes(c, "subscribe")
    /\ conn' = [conn EXCEPT ![c].subscribed = TRUE]
    /\ Goes(c, <<"snapshot">>)
    /\ UNCHANGED <<pageVars, toPage, engineVars, sessions, players, histories>>

\* ... then a snapshot, ...
Snapshot(c) ==
    /\ step[c][1] = "snapshot"
    /\ Goes(c, <<"state", revision, state>>)
    /\ UNCHANGED <<pageVars, channelVars, conn, engineVars, sessions, players, histories>>

\* ... which is sent after whatever the engine thread told meanwhile.
SendState(c) ==
    /\ step[c][1] = "state"
    /\ toPage' = Sent(c, [type |-> "state", revision |-> step[c][2], values |-> step[c][3]])
    /\ Goes(c, Listening)
    /\ UNCHANGED <<pageVars, toHost, conn, engineVars, sessions, players, histories>>

\* A request that names another engine would be refused; a page names the
\* one that welcomed it.
Command(c) ==
    /\ HostTakes(c, "command")
    /\ Asked(c).engine = engine
    /\ jobs' = Append(jobs, [request |-> Asked(c).request, connection |-> c])
    /\ conn' = [conn EXCEPT ![c].queries = @ \cup ({Asked(c).request} \cap Queries)]
    /\ UNCHANGED <<pageVars, toPage, step, engine, revision, state, at, job, told,
                   telling, asked, ran, sessions, players, histories>>

\* The query is cancelled: its answer will say so.
Cancel(c) ==
    /\ HostTakes(c, "cancel")
    /\ conn' = [conn EXCEPT ![c].queries = @ \ {Asked(c).request}]
    /\ UNCHANGED <<pageVars, toPage, step, engineVars, sessions, players, histories>>

ReportWindows(c) ==
    /\ HostTakes(c, "session_windows")
    /\ LET now == Asked(c).windows
           id == conn[c].session
       IN conn' = [conn EXCEPT ![c] = [@ EXCEPT !.listed = now,
                      !.windows = conn[c].windows \cup {[session |-> id, window |-> w] : w \in now}]]
    /\ UNCHANGED <<pageVars, toPage, step, engineVars, sessions, players, histories>>

\* A player that exists is an error that answers no request.
CreatePlayer(c) ==
    /\ HostTakes(c, "media_create")
    /\ IF \E p \in players : p.player = Asked(c).player
       THEN /\ toPage' = Sent(c, [type |-> "error"])
            /\ UNCHANGED players
       ELSE /\ players' = players \cup {[player |-> Asked(c).player, owner |-> Asked(c).owner]}
            /\ UNCHANGED toPage
    /\ UNCHANGED <<pageVars, connVars, engineVars, sessions, histories>>

ReleasePlayer(c) ==
    /\ HostTakes(c, "media_release")
    /\ players' = {p \in players : p.player # Asked(c).player}
    /\ UNCHANGED <<pageVars, toPage, connVars, engineVars, sessions, histories>>

ReleaseWindow(c) ==
    /\ HostTakes(c, "media_release_window")
    /\ players' = {p \in players : p.owner # Asked(c).owner}
    /\ UNCHANGED <<pageVars, toPage, connVars, engineVars, sessions, histories>>

\* The host finds the connection gone: Connection::closed, whose steps other
\* threads see.
Leave(c) ==
    /\ conn[c].status \in {"new", "open"}
    /\ step[c] = Listening
    /\ conn' = [conn EXCEPT ![c] = [@ EXCEPT !.status = "closing", !.subscribed = FALSE,
                                             !.queries = {}]]
    /\ Goes(c, <<"unregister">>)
    /\ toHost' = [toHost EXCEPT ![c] = <<>>]
    /\ UNCHANGED <<pageVars, toPage, engineVars, sessions, players, histories>>

Unregister(c) ==
    /\ step[c][1] = "unregister"
    /\ sessions' = {s \in sessions : s.id # conn[c].session}
    /\ Goes(c, <<"release">>)
    /\ UNCHANGED <<pageVars, channelVars, conn, engineVars, players, histories>>

\* The players of the windows it ever reported are released, one by one.
ReleaseReported(c) ==
    /\ step[c][1] = "release"
    /\ \E w \in conn[c].windows :
          /\ players' = {p \in players : p.owner # w}
          /\ conn' = [conn EXCEPT ![c].windows = @ \ {w}]
    /\ UNCHANGED <<pageVars, channelVars, step, engineVars, sessions, histories>>

Gone(c) ==
    /\ step[c][1] = "release"
    /\ conn[c].windows = {}
    /\ conn' = [conn EXCEPT ![c].status = "gone"]
    /\ Goes(c, Listening)
    /\ UNCHANGED <<pageVars, channelVars, engineVars, sessions, players, histories>>

HostStep(c) ==
    \/ Welcome(c) \/ OpenSession(c) \/ Register(c) \/ Subscribe(c) \/ Snapshot(c)
    \/ SendState(c) \/ Command(c) \/ Cancel(c) \/ ReportWindows(c) \/ CreatePlayer(c)
    \/ ReleasePlayer(c) \/ ReleaseWindow(c) \/ Unregister(c) \/ ReleaseReported(c) \/ Gone(c)

-----------------------------------------------------------------------------
(* The engine thread.                                                      *)

\* Mutant: the reply runs before the listeners are told.
PublishReplying(changed) ==
    /\ revision < MaxChanges
    /\ revision' = revision + 1
    /\ state' = [f \in Fields |-> IF f \in changed
                                  THEN [engine |-> engine, revision |-> revision + 1]
                                  ELSE state[f]]
    /\ told' = changed
    /\ at' = "reply"

\* publish: the changed fields, under the state lock.
Publish(changed) ==
    /\ revision < MaxChanges
    /\ revision' = revision + 1
    /\ state' = [f \in Fields |-> IF f \in changed
                                  THEN [engine |-> engine, revision |-> revision + 1]
                                  ELSE state[f]]
    /\ told' = changed
    /\ at' = "copy"

\* A wake that changes the state.
Wake(changed) ==
    /\ at = "idle"
    /\ Publish(changed)
    /\ job' = Background
    /\ UNCHANGED <<pageVars, channelVars, connVars, engine, jobs, telling, asked, ran,
                   sessions, players, histories>>

\* A command runs, and publishes what it changed.
RunCommand ==
    /\ at = "idle"
    /\ jobs # <<>>
    /\ LET next == Head(jobs)
       IN /\ next.request \in Commands
          /\ job' = next
          /\ jobs' = Tail(jobs)
          /\ ran' = [ran EXCEPT ![next.request] = @ + 1]
    /\ \/ \E changed \in Changes : Publish(changed)
       \/ at' = "reply" /\ UNCHANGED <<revision, state, told>>
    /\ UNCHANGED <<pageVars, channelVars, connVars, engine, telling, asked,
                   sessions, players, histories>>

\* A query is handed to its provider, who answers on any thread, or never.
RunQuery ==
    /\ at = "idle"
    /\ jobs # <<>>
    /\ Head(jobs).request \in Queries
    /\ asked' = asked \cup {Head(jobs)}
    /\ jobs' = Tail(jobs)
    /\ UNCHANGED <<pageVars, channelVars, connVars, engine, revision, state, at, job,
                   told, telling, ran, sessions, players, histories>>

Result(j) == [type |-> "result", request |-> j.request, revision |-> revision]

AnswerQuery(j) ==
    /\ j \in asked
    /\ asked' = asked \ {j}
    /\ conn' = [conn EXCEPT ![j.connection].queries = @ \ {j.request}]
    /\ toPage' = Sent(j.connection, Result(j))
    /\ UNCHANGED <<pageVars, toHost, step, engine, revision, state, jobs, at, job, told,
                   telling, ran, sessions, players, histories>>

\* tell: the listeners at this moment ...
CopyListeners ==
    /\ at = "copy"
    /\ telling' = {c \in Connections : conn[c].subscribed}
    /\ at' = "tell"
    /\ UNCHANGED <<pageVars, channelVars, connVars, engine, revision, state, jobs, job,
                   told, asked, ran, sessions, players, histories>>

\* ... are called one after the other.
Tell(c) ==
    /\ at = "tell"
    /\ c \in telling
    /\ telling' = telling \ {c}
    /\ toPage' = Sent(c, [type |-> "update", revision |-> revision, fields |-> told,
                          values |-> [f \in told |-> state[f]]])
    /\ overtaken' = [overtaken EXCEPT
                        ![c] = IF step[c][1] = "state" THEN @ \cup told ELSE @ \ told]
    /\ UNCHANGED <<pageVars, toHost, connVars, engine, revision, state, jobs, at, job,
                   told, asked, ran, sessions, players, races>>

Told ==
    /\ at = "tell"
    /\ telling = {}
    /\ at' = IF job = Background THEN "idle" ELSE "reply"
    /\ told' = {}
    /\ UNCHANGED <<pageVars, channelVars, connVars, engine, revision, state, jobs, job,
                   telling, asked, ran, sessions, players, histories>>

\* The reply runs once everyone was told.
Reply ==
    /\ at = "reply"
    /\ at' = "idle"
    /\ job' = Background
    /\ toPage' = Sent(job.connection, Result(job))
    /\ UNCHANGED <<pageVars, toHost, connVars, engine, revision, state, jobs, told,
                   telling, asked, ran, sessions, players, histories>>

Engine == RunCommand \/ RunQuery \/ CopyListeners \/ (\E c \in Connections : Tell(c))
              \/ Told \/ Reply

\* The engine host crashes, and another is started.
Restart ==
    /\ engine < MaxEngines
    /\ engine' = engine + 1
    /\ revision' = 0
    /\ state' = [f \in Fields |-> [engine |-> engine + 1, revision |-> 0]]
    /\ jobs' = <<>> /\ at' = "idle" /\ job' = Background
    /\ told' = {} /\ telling' = {} /\ asked' = {}
    /\ sessions' = {} /\ players' = {}
    /\ conn' = [c \in Connections |->
                   IF conn[c].status = "none" THEN conn[c]
                   ELSE [NewConnection EXCEPT !.status = "gone"]]
    /\ step' = [c \in Connections |-> Listening]
    /\ toHost' = [c \in Connections |-> <<>>]
    /\ UNCHANGED <<pageVars, toPage, ran, histories>>

Host ==
    \/ \E c \in Connections : HostStep(c) \/ Leave(c)
    \/ \E changed \in Changes : Wake(changed)
    \/ \E j \in asked : AnswerQuery(j)
    \/ Engine
    \/ Restart

Next == Page \/ Host

Spec == Init /\ [][Next]_vars

\* The page notices a connection that is gone.
PageNotices == Closed /\ (~link.ready \/ ~Alive(link.socket))

\* The page's event loop, the threads of the connections and the engine thread
\* run; a write to a socket returns; a closed connection is noticed.  Nothing
\* is assumed of users, providers, the network or whoever starts the host.
FairSpec ==
    /\ Spec
    /\ WF_vars(PageTakes)
    /\ WF_vars(PageNotices)
    /\ \A c \in Connections : WF_vars(HostStep(c))
    /\ WF_vars(Engine)

-----------------------------------------------------------------------------
\* Nothing is on its way between the engine and the page on connection c.
Quiet(c) ==
    /\ link.socket = c
    /\ link.ready
    /\ remote.connected
    /\ Alive(c)
    /\ step[c] = Listening
    /\ toHost[c] = <<>>
    /\ toPage[c] = <<>>
    /\ at = "idle"

\* And every other connection is over.
Settled(c) ==
    /\ Quiet(c)
    /\ \A d \in Connections \ {c} : conn[d].status \in {"none", "gone"}

\* A connected page that heard everything sent to it shows the engine's state,
\* except fields whose change was told between the snapshot and the State it
\* made, until they change again (Connection::handle, Subscribe; Remote's State
\* and Update).
MirrorFollows ==
    \A c \in Connections :
        Quiet(c) => \A f \in Fields \ overtaken[c] : remote.values[f] = state[f]

\* After a reconnect the page resynchronizes from a full snapshot
\* (remote.rs:11).
MirrorResynchronizes ==
    \A c \in Connections : Quiet(c) => remote.values = state

\* A caller learns the result of its command after the page's mirror has what
\* the engine had published by then: replies do not overtake updates on the
\* way (the listeners are told first, and one channel keeps the order).
RepliesFollowMirror ==
    [][\A r \in Commands :
          outcome[r] = "waiting" /\ outcome'[r] = "done" /\ remote.engine_id = engine =>
              \A f \in Fields \ overtaken[link.socket] :
                  state[f].revision <= Message.revision => remote.values[f] = state[f]]_vars

\* "Nothing is sent again by itself" (bern.js:1153): a command runs at most
\* once, one that was refused never ran, and one that was answered did.
OutcomesAreTrue ==
    \A r \in Commands :
        /\ ran[r] <= 1
        /\ outcome[r] \in {"new", "unavailable"} => ran[r] = 0
        /\ outcome[r] = "done" => ran[r] = 1

\* No two connections serve one session, and a session is registered to the
\* connection that serves it, whose page knows it, however the ends of older
\* connections and a resumption interleave.
SessionsAreOwn ==
    /\ \A s, t \in sessions : s.id = t.id => s = t
    /\ \A c \in Connections :
          conn[c].status = "open" /\ conn[c].session # NoSession =>
              [id |-> conn[c].session, connection |-> c] \in sessions
    /\ remote.connected /\ Alive(link.socket) =>
          conn[link.socket].session = remote.session_id

\* External entries see the windows the page shows, unless one opened or
\* closed between the session and the first State of a connection
\* (Remote::windows_changed).
WindowsAreListed ==
    \A c \in Connections :
        Quiet(c) /\ "between" \notin races => conn[c].listed = OpenWindows

\* "The page's open windows changed; external entries list them" (remote.rs:561),
\* whenever they changed.
AllWindowsAreListed ==
    \A c \in Connections : Quiet(c) => conn[c].listed = OpenWindows

\* "After a reconnect its windows, players and views carry over" (remote.rs,
\* SessionOpened), and the players of what was closed are released: the hub
\* has exactly the players of the page's windows and the link never fails,
\* unless the page was faster than the end of its old connection or changed
\* its windows while it connected.
PlayersCarryOver ==
    races = {} =>
        /\ link.problem # "failed"
        /\ \A c \in Connections :
              Settled(c) => {p.player : p \in players} = {p.player : p \in remote.created}

\* They do, however fast the page reconnects and whatever it opens meanwhile
\* (remote.rs:294).
AllPlayersCarryOver ==
    \A c \in Connections :
        Settled(c) => {p.player : p \in players} = {p.player : p \in remote.created}

\* A page that lost its connection goes on: "the same session is restored [...]
\* and the notice disappears" (Docs/Implementation/Web.md:270).
LinkSurvives == link.problem # "failed"

\* Every command that waits is told something, whatever happens to the host
\* and the connection.
RequestsEnd ==
    \A r \in Commands : outcome[r] = "waiting" ~> outcome[r] # "waiting"

=============================================================================
