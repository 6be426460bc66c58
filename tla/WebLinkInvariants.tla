-------------------------- MODULE WebLinkInvariants --------------------------
(***************************************************************************)
(* What holds of WebLink in every state: the types, and the invariants on  *)
(* which the theorems of WebLinkProofs rest; and what its steps do, as     *)
(* those proofs speak of it.                                               *)
(***************************************************************************)
EXTENDS WebLink

-----------------------------------------------------------------------------
(* The types.                                                               *)

LinkRecords ==
    [socket : 0 .. MaxConnections, ready : BOOLEAN, engineID : 0 .. MaxEngines,
     sessionID : SessionIds \cup {NoSession},
     problem : {"none", "lost", "restarted", "failed"}]

PageRecords ==
    [connected : BOOLEAN, engine_id : 0 .. MaxEngines,
     session_id : SessionIds \cup {NoSession}, previous : SessionIds \cup {NoSession},
     revision : 0 .. MaxChanges, pending : SUBSET (Requests \cup {"open", "subscribe"}),
     values : [Fields -> Values], windows : [Windows -> {"new", "open", "closed"}],
     created : SUBSET [player : Players, owner : Windows]]

ConnectionRecords ==
    [status : {"none", "new", "open", "closing", "gone"},
     session : SessionIds \cup {NoSession}, listed : SUBSET Windows,
     windows : SUBSET Owners, subscribed : BOOLEAN, queries : SUBSET Queries]

\* What a page sends.
FromPage ==
    [type : {"hello", "subscribe"}]
      \cup [type : {"open_session"}, resume : SessionIds \cup {NoSession}]
      \cup [type : {"session_windows"}, windows : SUBSET Windows]
      \cup [type : {"media_create"}, player : Players, owner : Owners]
      \cup [type : {"media_release"}, player : Players]
      \cup [type : {"media_release_window"}, owner : Owners]
      \cup [type : {"cancel"}, request : Queries]
      \cup [type : {"command"}, request : Requests, engine : 0 .. MaxEngines]

\* What the host sends.
Updates ==
    UNION {[type : {"update"}, revision : 0 .. MaxChanges, fields : {F},
            values : [F -> Values]] : F \in SUBSET Fields}
FromHost ==
    [type : {"welcome"}, engine : 1 .. MaxEngines]
      \cup [type : {"session_opened"}, session : SessionIds]
      \cup [type : {"state"}, revision : 0 .. MaxChanges, values : [Fields -> Values]]
      \cup [type : {"result"}, request : Requests, revision : 0 .. MaxChanges]
      \cup [type : {"error"}]
      \cup Updates

PageTyped ==
    /\ link \in LinkRecords /\ remote \in PageRecords
    /\ link.ready => link.socket # 0
    /\ cancelled \subseteq Queries
    /\ IsFiniteSet(cancelled) /\ IsFiniteSet(remote.created)
    /\ DOMAIN outcome = Requests

ChannelsTyped ==
    /\ toHost \in [Connections -> Seq(FromPage)]
    /\ toPage \in [Connections -> Seq(FromHost)]

\* A thread is at a step its connection can be at.
StepTyped(c) ==
    \/ step[c] = Listening /\ conn[c].status # "closing"
    \/ /\ conn[c].status = "open"
       /\ \/ \E id \in SessionIds : step[c] = <<"register", id>>
          \/ step[c] = <<"snapshot">>
          \/ \E n \in 0 .. MaxChanges, v \in [Fields -> Values] : step[c] = <<"state", n, v>>
    \/ step[c] \in {<<"unregister">>, <<"release">>} /\ conn[c].status = "closing"

ConnectionsTyped ==
    /\ conn \in [Connections -> ConnectionRecords]
    /\ step = [c \in Connections |-> step[c]]
    /\ \A c \in Connections : StepTyped(c)
    /\ sessions \subseteq [id : SessionIds, connection : Connections]
    /\ players \subseteq [player : Players, owner : Owners]
    /\ overtaken \in [Connections -> SUBSET Fields]

Jobs == [request : Requests, connection : Connections]
EngineTyped ==
    /\ engine \in 1 .. MaxEngines /\ revision \in 0 .. MaxChanges
    /\ state \in [Fields -> Values]
    /\ jobs \in Seq(Jobs) /\ asked \subseteq [request : Queries, connection : Connections]
    /\ at \in {"idle", "copy", "tell", "reply"}
    /\ job \in [request : Commands, connection : Connections] \cup {Background}
    /\ at = "reply" => job # Background
    /\ told \subseteq Fields /\ telling \subseteq Connections
    /\ ran \in [Commands -> Nat]

LinkTypeOK == PageTyped /\ ChannelsTyped /\ ConnectionsTyped /\ EngineTyped

-----------------------------------------------------------------------------
(* The handshake of a connection.                                           *)

\* A message of type t is on its way; at most one; always before one of type u.
Tagged(s, t) == \E i \in DOMAIN s : s[i].type = t
Once(s, t) == \A i, j \in DOMAIN s : s[i].type = t /\ s[j].type = t => i = j
Before(s, t, u) == \A i, j \in DOMAIN s : s[i].type = t /\ s[j].type = u => i < j

\* How far connection c is.
Welcoming(c) == Tagged(toPage[c], "welcome")
Opening(c) == Tagged(toHost[c], "open_session")
Subscribing(c) == Tagged(toHost[c], "subscribe")
Registering(c) == step[c][1] = "register"
Serving(c) == conn[c].session # NoSession
Snapping(c) == step[c][1] \in {"snapshot", "state"}
Showing(c) == Tagged(toPage[c], "state") \/ (link.socket = c /\ remote.connected)
Opened(c, id) == \E i \in DOMAIN toPage[c] :
                    toPage[c][i].type = "session_opened" /\ toPage[c][i].session = id

\* What belongs to the handshake is on its way once, and in its order.
Ordered(c) ==
    /\ Once(toHost[c], "hello") /\ Once(toHost[c], "open_session")
    /\ Once(toHost[c], "subscribe")
    /\ Once(toPage[c], "welcome") /\ Once(toPage[c], "session_opened")
    /\ Before(toHost[c], "open_session", "subscribe")
    /\ Before(toPage[c], "session_opened", "state")

\* A step of the handshake is taken when those after it were not.
Staged(c) ==
    /\ c # link.socket => toPage[c] = <<>>
    /\ conn[c].status = "none" => toHost[c] = <<>> /\ c # link.socket
    /\ conn[c].status \in {"none", "new"} =>
         /\ ~Welcoming(c) /\ ~Opening(c) /\ ~Subscribing(c) /\ ~Showing(c)
         /\ ~Tagged(toPage[c], "session_opened")
         /\ ~Serving(c) /\ ~conn[c].subscribed
    /\ Tagged(toHost[c], "hello") => conn[c].status = "new"
    /\ Welcoming(c) => /\ ~Opening(c) /\ ~Subscribing(c) /\ ~Registering(c)
                       /\ ~Serving(c) /\ ~Snapping(c) /\ ~Showing(c)
    /\ Opening(c) => ~Registering(c) /\ ~Serving(c) /\ ~Snapping(c) /\ ~Showing(c)
    /\ Registering(c) => ~Serving(c) /\ ~Showing(c)
    /\ Subscribing(c) => /\ Opening(c) \/ Registering(c) \/ Serving(c)
                         /\ ~Snapping(c) /\ ~Showing(c)
    /\ Snapping(c) => Serving(c) /\ ~Showing(c)
    /\ Showing(c) /\ Alive(c) => Serving(c)

\* What the page knows of its session.
Known ==
    /\ \A c \in Connections :
         /\ c = link.socket /\ link.ready /\ Alive(c) /\ Serving(c) =>
              remote.session_id = conn[c].session \/ Opened(c, conn[c].session)
         /\ \A id \in SessionIds : Opened(c, id) =>
              /\ remote.session_id = NoSession
              /\ Alive(c) => conn[c].session = id
    /\ remote.session_id # NoSession \/ remote.connected => link.socket # 0
    /\ remote.session_id # NoSession /\ Alive(link.socket) =>
         remote.session_id = conn[link.socket].session
    /\ remote.connected /\ Alive(link.socket) => remote.session_id # NoSession

Handshakes == (\A c \in Connections : Ordered(c) /\ Staged(c)) /\ Known

-----------------------------------------------------------------------------
(* Sessions.                                                                *)

\* The page has the session, or will.
Held(id) ==
    \/ remote.session_id = id \/ remote.previous = id
    \/ \E c \in Connections : Opened(c, id)

\* Connection c is about to serve it.
Resuming(c, id) ==
    \/ \E i \in DOMAIN toHost[c] : toHost[c][i].type = "open_session" /\ toHost[c][i].resume = id
    \/ step[c] = <<"register", id>>

\* It is in use.
Used(id) ==
    \/ Held(id) \/ Registered(id)
    \/ \E c \in Connections : Resuming(c, id) \/ conn[c].session = id

\* Nobody serves a session that another connection serves or is to serve.
Apart ==
    /\ \A c, d \in Connections, id \in SessionIds :
         Resuming(c, id) => ~Held(id) /\ (Resuming(d, id) => c = d)
    /\ \A c \in Connections, id \in SessionIds :
         step[c] = <<"register", id>> => id.engine = engine /\ ~Registered(id)
    /\ \A id \in SessionIds : Used(id) =>
         /\ id.engine <= engine
         /\ id.engine = engine => Serving(id.connection) \/ Registering(id.connection)
    /\ \A s, t \in sessions : s.id = t.id => s = t
    /\ \A c \in Connections :
         Serving(c) /\ (conn[c].status = "open" \/ step[c][1] = "unregister") =>
           [id |-> conn[c].session, connection |-> c] \in sessions

-----------------------------------------------------------------------------
(* Requests.                                                                *)

Asks(m, r) == m.type = "command" /\ m.request = r
Queued(r) == \E i \in DOMAIN jobs : jobs[i].request = r
Unsent(r) == outcome[r] \in {"new", "unavailable"}

\* A command is in one place at a time, ...
OnTheWay(r) ==
    /\ \A c, d \in Connections : \A i \in DOMAIN toHost[c], j \in DOMAIN toHost[d] :
         Asks(toHost[c][i], r) /\ Asks(toHost[d][j], r) => c = d /\ i = j
    /\ \A c \in Connections : \A i \in DOMAIN toHost[c] :
         Asks(toHost[c][i], r) => ran[r] = 0 /\ ~Queued(r) /\ ~Unsent(r)
InQueue(r) ==
    /\ \A i, j \in DOMAIN jobs : jobs[i].request = r /\ jobs[j].request = r => i = j
    /\ Queued(r) => ran[r] = 0 /\ ~Unsent(r)

\* ... and runs when it leaves the queue.
Ran(r) ==
    /\ ran[r] <= 1
    /\ ran[r] = 1 => ~Unsent(r)
    /\ job.request = r /\ job # Background => ran[r] = 1
    /\ \A c \in Connections : \A i \in DOMAIN toPage[c] :
         toPage[c][i].type = "result" /\ toPage[c][i].request = r => ran[r] = 1
    /\ outcome[r] = "done" => ran[r] = 1

Single == \A r \in Commands : OnTheWay(r) /\ InQueue(r) /\ Ran(r)

-----------------------------------------------------------------------------
(* Windows.                                                                 *)

\* The last report on its way is of the windows w.
Reporting(s, w) ==
    \E i \in DOMAIN s : /\ s[i].type = "session_windows" /\ s[i].windows = w
                        /\ \A j \in DOMAIN s : j > i => s[j].type # "session_windows"

\* The host knows the windows of the page, or will by the last report.
Listing(c) ==
    \/ Reporting(toHost[c], OpenWindows)
    \/ ~Tagged(toHost[c], "session_windows") /\ conn[c].listed = OpenWindows

\* The page has a session on c and changed no window while it connected.
Attentive(c) ==
    /\ c = link.socket /\ link.ready /\ Alive(c)
    /\ "between" \notin races /\ remote.session_id # NoSession

Reported == \A c \in Connections : Attentive(c) => Listing(c)

-----------------------------------------------------------------------------
(* The mirror.                                                              *)

\* Connection c is still to be told of the last publication.
Untold(c) == at = "copy" \/ (at = "tell" /\ c \in telling)

\* Its revision, or the one before.
ToldUpTo(c) == IF Untold(c) THEN revision - 1 ELSE revision

\* Messages that tell of the state: updates and answers in the order of what they
\* are about, and a State.
Ranked(m) == m.type = "update" \/ (m.type = "result" /\ m.request \in Commands)
Tells(m) == Ranked(m) \/ m.type = "state"
Brings(m, f) == m.type = "update" /\ f \in m.fields /\ m.revision = state[f].revision

\* The last change of field f comes by message i or later of c, or will be told
\* after all that are on their way, unless the connection is lost.
Coming(c, i, f) ==
    \/ \E j \in DOMAIN toPage[c] : j >= i /\ Brings(toPage[c][j], f)
    \/ /\ Alive(c) => Untold(c) /\ f \in told
       /\ \A j \in DOMAIN toPage[c] :
            Ranked(toPage[c][j]) => toPage[c][j].revision < state[f].revision

\* What values v of revision n lack of field f is coming.
Follows(c, i, n, v, f) ==
    IF state[f].revision <= n THEN v[f] = state[f] ELSE Coming(c, i, f)

\* The page is connected to the engine that runs, or will know it is.
Greeted(c) == \E i \in DOMAIN toPage[c] :
                 toPage[c][i].type = "welcome" /\ toPage[c][i].engine = engine
Current(c) ==
    /\ c = link.socket /\ link.ready
    /\ Greeted(c) \/ (~Welcoming(c) /\ remote.engine_id = engine)

\* The mirror, the States on their way and the snapshot taken follow the engine, ...
Mirrored(c) ==
    Current(c) /\ remote.connected =>
      /\ remote.revision <= revision
      /\ \A f \in Fields \ overtaken[c] : Follows(c, 1, remote.revision, remote.values, f)
Stated(c) ==
    Current(c) => \A i \in DOMAIN toPage[c] : toPage[c][i].type = "state" =>
      \A f \in Fields \ overtaken[c] : Follows(c, i, toPage[c][i].revision, toPage[c][i].values, f)
Taken(c) ==
    step[c][1] = "state" =>
      /\ step[c][2] <= revision
      /\ \A f \in Fields \ overtaken[c] :
           IF state[f].revision <= step[c][2] THEN step[c][3][f] = state[f]
           ELSE Untold(c) /\ f \in told

\* ... except for fields told in between, which the next change repairs.
Overtaken(c) ==
    overtaken[c] # {} =>
      /\ ~Welcoming(c) /\ ~Opening(c) /\ ~Subscribing(c) /\ ~Registering(c)
      /\ step[c][1] # "snapshot"
      /\ step[c][1] = "state" => step[c][2] <= ToldUpTo(c)
      /\ Current(c) =>
           /\ remote.connected => remote.revision <= ToldUpTo(c)
           /\ \A i \in DOMAIN toPage[c] :
                toPage[c][i].type = "state" => toPage[c][i].revision <= ToldUpTo(c)

\* Updates and answers come in the order of what they are about.
Queue(c) ==
    Current(c) =>
      /\ \A i, j \in DOMAIN toPage[c] :
           i < j /\ Ranked(toPage[c][i]) /\ toPage[c][j].type = "update" =>
             toPage[c][i].revision < toPage[c][j].revision
      /\ \A i \in DOMAIN toPage[c] :
           /\ Tells(toPage[c][i]) => toPage[c][i].revision <= revision
           /\ Ranked(toPage[c][i]) => toPage[c][i].revision <= ToldUpTo(c)
           /\ \A f \in Fields : toPage[c][i].type = "update" /\ f \in toPage[c][i].fields =>
                /\ toPage[c][i].values[f] = [engine |-> engine, revision |-> toPage[c][i].revision]
                /\ state[f].revision >= toPage[c][i].revision

\* A connection that did not say hello was sent and owed nothing.
Fresh(c) == conn[c].status \in {"none", "new"}
Untouched(c) ==
    Fresh(c) =>
      /\ toPage[c] = <<>> /\ c \notin telling /\ overtaken[c] = {}
      /\ job.connection # c
      /\ \A j \in asked : j.connection # c
      /\ \A i \in DOMAIN jobs : jobs[i].connection # c

\* Whom the engine tells, and who is welcomed by it.
Listens(c) ==
    /\ (Snapping(c) \/ Showing(c)) /\ Alive(c) => conn[c].subscribed
    /\ c = link.socket /\ link.ready /\ Alive(c) /\ ~Fresh(c) => Current(c)
    /\ \A i \in DOMAIN toPage[c] :
         toPage[c][i].type = "welcome" => toPage[c][i].engine <= engine

Follow(c) ==
    /\ Mirrored(c) /\ Stated(c) /\ Taken(c) /\ Overtaken(c) /\ Queue(c)
    /\ Untouched(c) /\ Listens(c)

\* What was published, and what the page knows of it.
Published ==
    /\ \A f \in Fields : state[f].engine = engine /\ state[f].revision <= revision
    /\ at \in {"copy", "tell"} => \A f \in told : state[f].revision = revision
    /\ remote.engine_id <= engine
    /\ \A r \in Commands : outcome[r] = "waiting" /\ r \in remote.pending => remote.connected

Mirrors == (\A c \in Connections : Follow(c)) /\ Published

-----------------------------------------------------------------------------
(* Players.                                                                 *)

\* Player x is at place i of connection c: the hub has it (0), or message i asks
\* for it.
Places(c) == {0} \cup DOMAIN toHost[c]
Stands(c, x, i) ==
    \/ i = 0 /\ \E p \in players : p.player = x
    \/ /\ i \in DOMAIN toHost[c]
       /\ toHost[c][i].type = "media_create" /\ toHost[c][i].player = x

\* Message m releases player x, or what window w has.
Releases(m, x) == m.type = "media_release" /\ m.player = x
Closes(m, w) ==
    \/ m.type = "media_release" /\ m.player.window = w
    \/ m.type = "media_release_window" /\ m.owner.window = w

\* A window has one player, which the page has or is about to be rid of.
Placed(c) ==
    /\ \A x, y \in Players, i, j \in Places(c) :
         Stands(c, x, i) /\ Stands(c, y, j) /\ x.window = y.window => x = y /\ i = j
    /\ \A x \in Players, i \in Places(c) : Stands(c, x, i) =>
         /\ remote.windows[x.window] # "new"
         /\ \/ \E p \in remote.created : p.player = x
            \/ \E j \in DOMAIN toHost[c] : j > i /\ Releases(toHost[c][j], x)
    /\ \A p \in remote.created : \E i \in Places(c) : Stands(c, p.player, i)
    /\ \A w \in Windows, i \in DOMAIN toHost[c] :
         Closes(toHost[c][i], w) => remote.windows[w] = "closed"

\* The page has said nothing of windows and players, and the hub has none.
Shows == {"session_windows", "media_create", "media_release", "media_release_window"}
Bare(c) == players = {} /\ \A i \in DOMAIN toHost[c] : toHost[c][i].type \notin Shows

\* A player's owner is reported before it is created, so the host releases it
\* when it loses the connection.
Lives(c) == conn[c].status \in {"new", "open", "closing"}
Covered(c) ==
    /\ Lives(c) => \A p \in players : p.owner \in conn[c].windows
    /\ Alive(c) => \A i \in DOMAIN toHost[c] : toHost[c][i].type = "media_create" =>
         /\ Serving(c) /\ toHost[c][i].owner.session = conn[c].session
         /\ \/ toHost[c][i].owner \in conn[c].windows
            \/ \E j \in DOMAIN toHost[c] :
                 /\ j < i /\ toHost[c][j].type = "session_windows"
                 /\ toHost[c][i].owner.window \in toHost[c][j].windows
         /\ toHost[c][i].owner.window = toHost[c][i].player.window

\* Players and owners are named after windows.
Named ==
    /\ \A p \in players : p.owner.window = p.player.window
    /\ \A p \in remote.created : p.player.window = p.owner /\ remote.windows[p.owner] = "open"
    /\ \A p, q \in remote.created : p.owner = q.owner => p = q

\* The connections take turns, and no creation fails.
CarriesOver ==
    races = {} =>
      /\ link.problem # "failed"
      /\ \A c \in Connections : ~Tagged(toPage[c], "error") /\ Covered(c)
      /\ \A c, d \in Connections : Lives(c) /\ Lives(d) => c = d
      /\ (\A c \in Connections : ~Lives(c)) => players = {}
      /\ Named
      /\ \A c \in Connections : c = link.socket /\ link.ready /\ Alive(c) =>
           IF remote.session_id = NoSession THEN Bare(c) ELSE Placed(c)

-----------------------------------------------------------------------------
(* The steps, as the proofs speak of them.                                  *)

\* What t has of the types T comes from s, which lost k messages.
Moved(s, t, T) ==
    \E k \in Nat : \A i \in DOMAIN t :
        t[i].type \in T => i + k \in DOMAIN s /\ t[i] = s[i + k]

\* And t has all of it.
Kept(s, t, T) ==
    /\ Moved(s, t, T)
    /\ \A j \in DOMAIN s : s[j].type \in T => \E i \in DOMAIN t : t[i] = s[j]

\* The first message from the host is taken, and the page posts `posts`.
Consumed(t, posts) ==
    /\ link.ready /\ link.socket \in Connections
    /\ toPage[link.socket] \in Seq(FromHost) /\ toPage[link.socket] # <<>>
    /\ Message \in FromHost /\ Message.type = t
    /\ 1 \in DOMAIN toPage[link.socket] /\ Message = toPage[link.socket][1]
    /\ \A c \in Connections :
         toPage'[c] = IF c = link.socket THEN Tail(toPage[c]) ELSE toPage[c]
    /\ posts \in Seq(FromPage)
    /\ \A c \in Connections :
         toHost'[c] = IF c = link.socket /\ link'.ready /\ Alive(c)
                      THEN toHost[c] \o posts ELSE toHost[c]
    /\ UNCHANGED <<cancelled, hostVars, histories>>

\* The messages that open a session and subscribe.
Opens(id) == <<[type |-> "open_session", resume |-> id], [type |-> "subscribe"]>>

\* The page shows the session again what it already has.
Again(id) == SetToSeq({CreateMessage(p.player, [session |-> id, window |-> p.owner]) :
                          p \in remote.created})

\* The page posts `posts` and takes nothing.
Posts(posts) ==
    /\ posts \in Seq(FromPage)
    /\ UNCHANGED <<link, toPage, hostVars, overtaken>>
    /\ \A c \in Connections :
         toHost'[c] = IF c = link.socket /\ link.ready /\ Alive(c)
                      THEN toHost[c] \o posts ELSE toHost[c]

\* The page with window w in state s and the players made, and those it has when w
\* is opened.
Arranged(w, s, made) ==
    [remote EXCEPT !.windows = [remote.windows EXCEPT ![w] = s], !.created = made]

WithPlayer(w) ==
    remote.created \cup {[player |-> [session |-> link.sessionID, window |-> w], owner |-> w]}

\* A page dials with connection c.
Dials(c) ==
    /\ link.socket = 0 /\ link.problem \in {"none", "lost"}
    /\ conn[c].status = "none"
    /\ link' = [link EXCEPT !.socket = c, !.ready = TRUE]
    /\ conn' = [conn EXCEPT ![c].status = "new"]
    /\ toHost' = [toHost EXCEPT ![c] = <<[type |-> "hello"]>>]
    /\ races \subseteq races'
    /\ races' = {} => \A d \in Connections : ~Lives(d)
    /\ UNCHANGED <<remote, cancelled, outcome, toPage, step, engineVars,
                   sessions, players, overtaken>>

\* Whatever was on its way to the page is lost.
Drops ==
    /\ toPage' \in [Connections -> Seq(FromHost)]
    /\ \A c \in Connections : toPage'[c] = IF c = link.socket THEN <<>> ELSE toPage[c]
    /\ link'.socket = 0 /\ ~link'.ready
    /\ UNCHANGED <<toHost, hostVars, histories>>

\* What c alone does to its connection and thread.
OneConnection(c) ==
    /\ \A d \in Connections : d # c => conn'[d] = conn[d] /\ step'[d] = step[d]
    /\ UNCHANGED <<pageVars, overtaken, races>>

\* Nobody but the engine thread does anything.
EngineAlone ==
    UNCHANGED <<pageVars, toHost, step, sessions, players, races, engine>>

\* A publication.
Publishes(changed) ==
    /\ at = "idle" /\ at' = "copy" /\ told' = changed
    /\ revision' = revision + 1
    /\ state' = [f \in Fields |-> IF f \in changed
                                  THEN [engine |-> engine, revision |-> revision + 1]
                                  ELSE state[f]]

\* What a listener is told.
Tidings == [type |-> "update", revision |-> revision, fields |-> told,
            values |-> [f \in told |-> state[f]]]

\* Results on their way are what was there before, or of commands that ran.
ResultsTrue ==
    \A c \in Connections : \A i \in DOMAIN toPage'[c] :
        toPage'[c][i].type = "result" =>
          \/ \E j \in DOMAIN toPage[c] : toPage[c][j] = toPage'[c][i]
          \/ toPage'[c][i].request \notin Commands
          \/ ran[toPage'[c][i].request] = 1

\* What the handshake is made of.
HostTags == {"hello", "open_session", "subscribe"}
PageTags == {"welcome", "session_opened", "state"}

\* What of connection c matters to the handshake.
Tags(c) ==
    /\ \A x \in HostTags : Tagged(toHost'[c], x) <=> Tagged(toHost[c], x)
    /\ \A x \in PageTags : Tagged(toPage'[c], x) <=> Tagged(toPage[c], x)
SameHost(c) ==
    /\ Kept(toHost[c], toHost'[c], HostTags)
    /\ \A s \in {"none", "new"} : conn'[c].status = s <=> conn[c].status = s
    /\ Alive(c)' <=> Alive(c)
    /\ conn'[c].session = conn[c].session /\ conn'[c].subscribed = conn[c].subscribed
    /\ Registering(c)' <=> Registering(c)
    /\ Snapping(c)' <=> Snapping(c)
    /\ conn[c].status = "none" => toHost'[c] = toHost[c]
SamePage(c) ==
    /\ Kept(toPage[c], toPage'[c], PageTags)
    /\ c = link'.socket <=> c = link.socket
    /\ c = link.socket => remote'.connected = remote.connected
    /\ c # link.socket => toPage'[c] = toPage[c]

\* Session id is the only one that is asked for.
Asking(s, id) == \A i \in DOMAIN s : s[i].type = "open_session" => s[i].resume = id

\* What t tells of the state s told, which lost its first k messages.
Passed(s, t, k) ==
    /\ \A j \in DOMAIN s : j > k => j - k \in DOMAIN t /\ t[j - k] = s[j]
    /\ \A i \in DOMAIN t : Tells(t[i]) => i + k \in DOMAIN s /\ t[i] = s[i + k]

\* The engine publishes and tells nothing.
EngineStill == UNCHANGED <<engine, revision, state, at, told, telling>>

\* What followed the engine still does, on a connection it tells.
Carried(c) ==
    \A v : \A i \in Nat, n \in Nat, f \in Fields :
        /\ n <= revision /\ Current(c) /\ (Alive(c) => conn[c].subscribed)
        /\ Follows(c, i, n, v, f)
        => Follows(c, i, n, v, f)'

\* A connection is told of the last publication.
Telling(c) ==
    /\ at = "tell" /\ c \in telling /\ telling' = telling \ {c}
    /\ Tidings \in FromHost
    /\ toPage'[c] = IF Alive(c) /\ link.socket = c /\ link.ready
                    THEN Append(toPage[c], Tidings) ELSE toPage[c]
    /\ overtaken'[c] = IF step[c][1] = "state" THEN overtaken[c] \cup told
                       ELSE overtaken[c] \ told
    /\ UNCHANGED <<link, remote, toHost, step, conn, engine, revision, state, jobs, at, job,
                   told, asked>>

\* The first k messages on c were taken; others than about windows and players may
\* have followed.
Forwards(c, k) ==
    /\ k \in {0, 1}
    /\ \A j \in DOMAIN toHost[c] : j > k =>
         j - k \in DOMAIN toHost'[c] /\ toHost'[c][j - k] = toHost[c][j]
    /\ \A i \in DOMAIN toHost'[c] : toHost'[c][i].type \in Shows =>
         i + k \in DOMAIN toHost[c] /\ toHost'[c][i] = toHost[c][i + k]
    /\ DOMAIN toHost[c] \subseteq Nat \ {0} /\ DOMAIN toHost'[c] \subseteq Nat \ {0}

\* The page adds messages q to what it said.
Appended(c, q) ==
    /\ toHost[c] \in Seq(FromPage) /\ q \in Seq(FromPage)
    /\ toHost'[c] = toHost[c] \o q

\* Sequence q is a message, then those of t and of u.
LedOut(q, h, t, u) ==
    /\ 1 \in DOMAIN q /\ q[1] = h[1]
    /\ \A i \in DOMAIN t : \E j \in DOMAIN q : q[j] = t[i]
    /\ \A i \in DOMAIN q : \/ i = 1
                           \/ i - 1 \in DOMAIN t /\ q[i] = t[i - 1] /\ 1 < i /\ i \in Nat
                           \/ \E j \in DOMAIN u : q[i] = u[j]

\* What the page says to a session that was opened: its windows, and its players
\* as made tells, none of them twice.
Recalls(q, made) ==
    /\ 1 \in DOMAIN q /\ q[1] = WindowsMessage
    /\ \A i \in DOMAIN q : q[i].type \in {"session_windows", "media_create", "cancel"}
    /\ \A i \in DOMAIN q : q[i].type = "media_create" =>
         1 < i /\ \E p \in remote.created : q[i] = made[p]
    /\ \A i, j \in DOMAIN q : q[i].type = "media_create" /\ q[i] = q[j] => i = j
    /\ \A p \in remote.created : \E i \in DOMAIN q : q[i] = made[p]

=============================================================================
