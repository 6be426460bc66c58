--------------------------- MODULE SessionRequests ---------------------------
(***************************************************************************)
(* Session commands of external entries, on their way to the frontend and  *)
(* back: UiBridge in crates/bern-ffi/src/lib.rs.  An entry of the local    *)
(* control channel waits in a thread of its own, up to a timeout.  The     *)
(* entries of an engine host wait in WebSession::forward of                *)
(* crates/bern-transport-ws/src/channel.rs while the page's Remote         *)
(* (crates/bern-ffi/src/remote.rs) runs the command and posts the answer.  *)
(* The frontend is one thread: it takes the requests in order, performs    *)
(* each in its own time, and reports its windows to the session of         *)
(* UiSession, whose facts decide what a window's commands may do.          *)
(***************************************************************************)
EXTENDS UiSession

CONSTANTS
    Local,      \* entries of the control channel of the frontend's process
    Forwarded,  \* entries of a host, for the page connected to it
    Offering,   \* presentations that offer the presentation command
    NoWindow,   \* of a command that is about none
    None,       \* an empty channel
    MaxCalls,   \* bound: commands of an entry
    MaxLinks    \* bound: connections of the page

Callers == Local \cup Forwarded
Links == 1 .. MaxLinks

ASSUME RequestsAssumption ==
    /\ Local \cap Forwarded = {}
    /\ Offering \subseteq Facts
    /\ MaxCalls \in Nat /\ MaxLinks \in Nat

\* A window id, as WindowInstance::id spells it.
WindowIds == [kind : Kinds, generation : 1 .. MaxOpens]

Commands == {"list", "inspect", "minimize"}

\* One command of each sort `run` tells apart.
Calls == [command : {"list", "inspect"}, window : {NoWindow}]
           \cup [command : {"minimize"}, window : WindowIds]
NoCall == [command |-> "inspect", window |-> NoWindow]

\* Who is told of a result: the n-th call of an entry.
Asked == [caller : Callers, number : 0 .. MaxCalls]

\* "done" carries the window whose facts are the result; asked is whose
\* command the frontend or the session answered.
Results == [status : {"done", "refused", "failed", "stale", "ended", "unknown"},
            window : WindowIds \cup {NoWindow}, asked : Asked]
Result(status, window, asked) ==
    [status |-> status, window |-> window, asked |-> asked]

ASSUME NoneAssumption == NoWindow \notin WindowIds /\ None \notin Results

Steps == {"idle", "routed", "checked", "inserted", "waiting", "late"}

VARIABLES
    caller,    \* the entries' threads: step, call, and what they were told
    reply,     \* per entry: what the channel of its call holds
    requests,  \* UiBridge::pending
    next,      \* UiBridge::next
    inbox,     \* requests posted to the frontend's thread
    acting,    \* requests the frontend performs
    running,   \* the app runs, and its session is registered
    link,      \* the page's connections so far
    linked,    \* and whether the last one is up
    sessions,  \* connections whose WebSession the host has registered
    waiting,   \* per connection: WebSession::waiting
    sent,      \* per connection: requests numbered by WebSession::next
    toPage,    \* messages of the last connection
    toHost,
    performed, \* history: calls the frontend acted on
    strayed    \* history: connections told what an older one had asked

bridgeVars == <<requests, next, inbox, acting>>
linkVars == <<link, linked, sessions, toPage, toHost, strayed>>
hostVars == <<waiting, sent>>
vars == <<sessionVars, caller, reply, bridgeVars, running, linkVars, hostVars,
          performed>>

Init ==
    /\ SessionInit
    /\ caller = [c \in Callers |->
                   [step |-> "idle", call |-> NoCall, number |-> 0, via |-> 0,
                    request |-> 0, result |-> None]]
    /\ reply = [c \in Callers |-> None]
    /\ requests = <<>>
    /\ next = 1
    /\ inbox = <<>>
    /\ acting = {}
    /\ running = TRUE
    /\ link = 0
    /\ linked = FALSE
    /\ sessions = {}
    /\ waiting = [l \in Links |-> <<>>]
    /\ sent = [l \in Links |-> 0]
    /\ toPage = <<>>
    /\ toHost = <<>>
    /\ performed = {}
    /\ strayed = {}

\* Maps from ids, as functions.
With(f, x, v) == [y \in DOMAIN f \cup {x} |-> IF y = x THEN v ELSE f[y]]
Without(f, x) == [y \in DOMAIN f \ {x} |-> f[y]]

-----------------------------------------------------------------------------
(* The entries.  Each call has a channel of its own: whoever answers an     *)
(* earlier one is not heard.                                                *)

Me(c) == [caller |-> c, number |-> caller[c].number]

\* The call returns: its thread may make another.
Returns(c, result) ==
    caller' = [caller EXCEPT ![c] = [@ EXCEPT !.step = "idle", !.result = result]]

Heard(asked) == Me(asked.caller) = asked /\ caller[asked.caller].step # "idle"

Tell(result) ==
    reply' = IF Heard(result.asked)
               THEN [reply EXCEPT ![result.asked.caller] = result] ELSE reply

\* Sessions::handle finds the session and leaves the registry's lock.
Call(c, call) ==
    /\ caller[c].step = "idle"
    /\ caller[c].number < MaxCalls
    /\ \/ /\ c \in Local /\ running
          /\ caller' = [caller EXCEPT ![c] =
                          [step |-> "routed", call |-> call, number |-> @.number + 1,
                           via |-> 0, request |-> 0, result |-> None]]
       \/ /\ c \in Forwarded
          /\ \E l \in sessions :
               caller' = [caller EXCEPT ![c] =
                            [step |-> "routed", call |-> call,
                             number |-> @.number + 1, via |-> l, request |-> 0,
                             result |-> None]]
    /\ reply' = [reply EXCEPT ![c] = None]
    /\ UNCHANGED <<sessionVars, bridgeVars, running, linkVars, hostVars, performed>>

\* run, first part: what the session answers from its own records.
Answerable(call) ==
    \/ call.command = "list"
    \/ /\ call.command = "minimize"
       /\ ~ /\ OpenState(call.window.kind, call.window.generation)
            /\ facts[call.window.kind] \in Offering

AtOnce(call, asked) ==
    Result(IF call.command = "list" THEN "done" ELSE "refused", NoWindow, asked)

Check(c) ==
    /\ c \in Local
    /\ caller[c].step = "routed"
    /\ IF Answerable(caller[c].call)
         THEN Returns(c, AtOnce(caller[c].call, Me(c)))
         ELSE caller' = [caller EXCEPT ![c].step = "checked"]
    /\ UNCHANGED <<sessionVars, reply, bridgeVars, running, linkVars, hostVars,
                   performed>>

\* UiBridge::pending; `from` is the connection a forwarded request came by, and
\* `id` the host's name for it.
Request(call, asked, from, id) ==
    [call |-> call, asked |-> asked, from |-> from, id |-> id]
Fetched == next + 1

\* run, second part: the request is pending before the frontend hears of it.
Insert(c) ==
    /\ caller[c].step = "checked"
    /\ requests' = With(requests, next, Request(caller[c].call, Me(c), 0, 0))
    /\ next' = Fetched
    /\ caller' = [caller EXCEPT ![c] = [@ EXCEPT !.step = "inserted", !.request = next]]
    /\ UNCHANGED <<sessionVars, reply, inbox, acting, running, linkVars, hostVars,
                   performed>>

Announce(c) ==
    /\ caller[c].step = "inserted"
    /\ inbox' = Append(inbox, [request |-> caller[c].request,
                                call |-> caller[c].call, asked |-> Me(c)])
    /\ caller' = [caller EXCEPT ![c].step = "waiting"]
    /\ UNCHANGED <<sessionVars, reply, requests, next, acting, running, linkVars,
                   hostVars, performed>>

\* Mutant: every request of a connection has the same id.
ForwardedAsSame(l) == 1

ForwardedAs(l) == sent[l] + 1

\* WebSession::forward, up to the wait.  The session may have ended by now.
Forward(c) ==
    LET l == caller[c].via
        id == ForwardedAs(l)
    IN  /\ c \in Forwarded
        /\ caller[c].step = "routed"
        /\ sent' = [sent EXCEPT ![l] = id]
        /\ waiting' = [waiting EXCEPT ![l] = With(@, id, Me(c))]
        /\ toPage' = IF linked /\ link = l
                       THEN Append(toPage, [call |-> caller[c].call, asked |-> Me(c),
                                            id |-> id])
                       ELSE toPage
        /\ caller' = [caller EXCEPT ![c] = [@ EXCEPT !.step = "waiting", !.request = id]]
        /\ UNCHANGED <<sessionVars, reply, bridgeVars, running, link, linked,
                       sessions, toHost, strayed, performed>>

\* recv_timeout.
Receive(c) ==
    /\ caller[c].step = "waiting"
    /\ reply[c] # None
    /\ Returns(c, reply[c])
    /\ UNCHANGED <<sessionVars, reply, bridgeVars, running, linkVars, hostVars,
                   performed>>
TimeOut(c) ==
    /\ caller[c].step = "waiting"
    /\ reply[c] = None
    /\ caller' = [caller EXCEPT ![c].step = "late"]
    /\ UNCHANGED <<sessionVars, reply, bridgeVars, running, linkVars, hostVars,
                   performed>>

\* Mutant: the timed out request stays pending.
WithdrawnNot(c) == UNCHANGED <<requests, waiting>>

Withdrawn(c) ==
    LET l == caller[c].via
        id == caller[c].request
    IN  \/ /\ c \in Local
           /\ requests' = Without(requests, id)
           /\ UNCHANGED waiting
        \/ /\ c \in Forwarded
           /\ waiting' = [waiting EXCEPT ![l] = Without(@, id)]
           /\ UNCHANGED requests

\* Mutant: a timeout is told as if nothing had been done.
UiTimeoutRefused(c) == Result("refused", NoWindow, Me(c))

UiTimeout(c) == Result("unknown", NoWindow, Me(c))

\* Once the time is over, what was sent meanwhile is not looked at.
Withdraw(c) ==
    /\ caller[c].step = "late"
    /\ Withdrawn(c)
    /\ Returns(c, UiTimeout(c))
    /\ UNCHANGED <<sessionVars, reply, next, inbox, acting, running, linkVars, sent,
                   performed>>

-----------------------------------------------------------------------------
(* The frontend's thread, and the page's, which is the same.                *)

\* Where the answer of a request goes: into the channel of the entry, or to
\* the host by the connection the page has now.
Answer(request, result) ==
    IF request.from = 0
      THEN /\ Tell(result)
           /\ UNCHANGED <<toHost, strayed>>
      ELSE /\ toHost' = IF linked
                          THEN Append(toHost, [id |-> request.id, result |-> result,
                                          command |-> request.call.command])
                          ELSE toHost
           /\ strayed' = IF linked /\ request.from # link
                           THEN strayed \cup {link} ELSE strayed
           /\ UNCHANGED reply

\* Mutant: any instance of the kind answers for the window.
PresentedKind(window, asked) ==
    IF open[window.kind]
      THEN Result("done", [kind |-> window.kind, generation |-> generation[window.kind]],
                  asked)
      ELSE Result("stale", NoWindow, asked)

\* complete, for a presentation command: the instance as the session sees it.
Presented(window, asked) ==
    IF OpenState(window.kind, window.generation)
      THEN Result("done", window, asked)
      ELSE Result("stale", NoWindow, asked)

Completed(request, ok) ==
    IF ~ok THEN Result("failed", NoWindow, request.asked)
    ELSE IF request.call.command = "minimize"
           THEN Presented(request.call.window, request.asked)
           ELSE Result("done", NoWindow, request.asked)

\* complete; a request nobody waits for is left alone.
Complete(r, ok) ==
    IF r \in DOMAIN requests
      THEN /\ requests' = Without(requests, r)
           /\ Answer(requests[r], Completed(requests[r], ok))
      ELSE UNCHANGED <<requests, reply, toHost, strayed>>

\* The frontend takes a request and performs it, whether or not an entry still
\* waits; it fails a command of a window it no longer shows.
Begin ==
    LET message == Head(inbox)
        call == message.call
    IN  /\ running
        /\ inbox # <<>>
        /\ inbox' = Tail(inbox)
        /\ \/ /\ call.window # NoWindow => OpenState(call.window.kind,
                                                     call.window.generation)
              /\ acting' = acting \cup {message.request}
              /\ performed' = performed \cup {message.asked}
              /\ UNCHANGED <<requests, reply, toHost, strayed>>
           \/ /\ call.window # NoWindow
              /\ ~OpenState(call.window.kind, call.window.generation)
              /\ Complete(message.request, FALSE)
              /\ UNCHANGED <<acting, performed>>
        /\ UNCHANGED <<sessionVars, caller, next, running, link, linked, sessions,
                       toPage, hostVars>>

\* It answers when it is done, which may be long after.
Finish(r, ok) ==
    /\ running
    /\ r \in acting
    /\ acting' = acting \ {r}
    /\ Complete(r, ok)
    /\ UNCHANGED <<sessionVars, caller, next, inbox, running, link, linked,
                   sessions, toPage, hostVars, performed>>

\* The page's Remote gets a forwarded command and runs it on the same bridge.
PageRun ==
    LET message == Head(toPage)
        request == Request(message.call, message.asked, link, message.id)
    IN  /\ running
        /\ toPage # <<>>
        /\ toPage' = Tail(toPage)
        /\ \/ /\ Answerable(message.call)
              /\ Answer(request, AtOnce(message.call, message.asked))
              /\ UNCHANGED bridgeVars
           \/ /\ ~Answerable(message.call)
              /\ requests' = With(requests, next, request)
              /\ next' = Fetched
              /\ inbox' = Append(inbox, [request |-> next, call |-> message.call,
                                          asked |-> message.asked])
              /\ UNCHANGED <<acting, reply, toHost, strayed>>
        /\ UNCHANGED <<sessionVars, caller, running, link, linked, sessions,
                       hostVars, performed>>

\* bern_window_opened, bern_window_closed, bern_window_facts.
Windows ==
    /\ running
    /\ \E k \in Kinds :
         \/ WindowOpened(k)
         \/ WindowClosed(k, generation[k])
         \/ \E f \in Facts : WindowFacts(k, generation[k], f)
    /\ UNCHANGED <<caller, reply, bridgeVars, running, linkVars, hostVars, performed>>

\* bern_app_stop: the session is unregistered and the frontend answers nothing
\* any more; entries that found the session before go on.
Stop ==
    /\ running
    /\ running' = FALSE
    /\ UNCHANGED <<sessionVars, caller, reply, bridgeVars, linkVars, hostVars,
                   performed>>

-----------------------------------------------------------------------------
(* The host's end of the page's connections.                                *)

\* The page connects, again, and opens a session.
Connect ==
    /\ running
    /\ ~linked
    /\ link < MaxLinks
    /\ link' = link + 1
    /\ linked' = TRUE
    /\ sessions' = sessions \cup {link + 1}
    /\ UNCHANGED <<sessionVars, caller, reply, bridgeVars, running, toPage, toHost,
                   strayed, hostVars, performed>>

Lose ==
    /\ linked
    /\ linked' = FALSE
    /\ toPage' = <<>>
    /\ toHost' = <<>>
    /\ UNCHANGED <<sessionVars, caller, reply, bridgeVars, running, link, sessions,
                   strayed, hostVars, performed>>

\* Connection::closed, whenever the host notices: unregister, then end.
Closed(l) ==
    /\ l \in sessions
    /\ ~(linked /\ link = l)
    /\ sessions' = sessions \ {l}
    /\ waiting' = [waiting EXCEPT ![l] = <<>>]
    /\ reply' = [c \in Callers |->
                   IF \E id \in DOMAIN waiting[l] : waiting[l][id] = Me(c)
                     THEN Result("ended", NoWindow, Me(c)) ELSE reply[c]]
    /\ UNCHANGED <<sessionVars, caller, bridgeVars, running, link, linked, toPage,
                   toHost, strayed, sent, performed>>

\* What the entry can read: a value of another command's type is malformed.
Decoded(message, command) ==
    IF message.result.status = "done" /\ message.command # command
      THEN Result("failed", NoWindow, message.result.asked)
      ELSE message.result

\* WebSession::answer.
SessionResult ==
    LET message == Head(toHost)
    IN  /\ toHost # <<>>
        /\ toHost' = Tail(toHost)
        /\ IF message.id \in DOMAIN waiting[link]
             THEN LET asked == waiting[link][message.id]
                  IN  /\ waiting' = [waiting EXCEPT ![link] = Without(@, message.id)]
                      /\ reply' = IF Heard(asked)
                                    THEN [reply EXCEPT ![asked.caller] =
                                            Decoded(message,
                                                    caller[asked.caller].call.command)]
                                    ELSE reply
             ELSE UNCHANGED <<waiting, reply>>
        /\ UNCHANGED <<sessionVars, caller, bridgeVars, running, link, linked,
                       sessions, toPage, strayed, sent, performed>>

-----------------------------------------------------------------------------
(* What an entry's thread does by itself.                                   *)

CallerStep(c) ==
    \/ Check(c) \/ Insert(c) \/ Announce(c) \/ Forward(c)
    \/ Receive(c) \/ TimeOut(c) \/ Withdraw(c)

Next ==
    \/ \E c \in Callers : CallerStep(c) \/ \E call \in Calls : Call(c, call)
    \/ Begin
    \/ \E r \in acting, ok \in BOOLEAN : Finish(r, ok)
    \/ PageRun
    \/ Windows
    \/ Stop
    \/ Connect
    \/ Lose
    \/ \E l \in Links : Closed(l)
    \/ SessionResult

Spec == Init /\ [][Next]_vars

-----------------------------------------------------------------------------
TypeSessions ==
    /\ generation \in [Kinds -> 0 .. MaxOpens]
    /\ open \in [Kinds -> BOOLEAN]
    /\ facts \in [Kinds -> Facts \cup {Unknown}]

Threads ==
    [step : Steps, call : Calls \cup {NoCall}, number : 0 .. MaxCalls,
     via : 0 .. MaxLinks, request : Nat, result : Results \cup {None}]
Pending == [call : Calls, asked : Asked, from : 0 .. MaxLinks, id : Nat]
Posted(n) == [request : 1 .. n - 1, call : Calls, asked : Asked]
Messages == [call : Calls, asked : Asked, id : Nat]
Answers == [id : Nat, result : Results, command : Commands]

EntriesTyped ==
    /\ caller \in [Callers -> Threads]
    /\ reply \in [Callers -> Results \cup {None}]

BridgeTyped ==
    /\ next \in Nat \ {0}
    /\ DOMAIN requests \subseteq 1 .. next - 1
    /\ \A r \in DOMAIN requests : requests[r] \in Pending
    /\ inbox \in Seq(Posted(next))
    /\ acting \subseteq 1 .. next - 1
    /\ performed \subseteq Asked

HostTyped ==
    /\ sent \in [Links -> Nat]
    /\ DOMAIN waiting = Links
    /\ \A l \in Links :
         /\ DOMAIN waiting[l] \subseteq 1 .. sent[l]
         /\ \A id \in DOMAIN waiting[l] : waiting[l][id] \in Asked

LinkTyped ==
    /\ running \in BOOLEAN /\ linked \in BOOLEAN
    /\ link \in 0 .. MaxLinks
    /\ sessions \subseteq Links /\ strayed \subseteq Links
    /\ toPage \in Seq(Messages)
    /\ toHost \in Seq(Answers)

RequestsTypeOK == TypeSessions /\ EntriesTyped /\ BridgeTyped /\ HostTyped /\ LinkTyped

Returned(c) == caller[c].step = "idle" /\ caller[c].result # None

\* "Run a session command on the page and wait for its answer" (channel.rs:254):
\* what an entry is told is the answer to its own call.
AnswersAreOwn == \A c \in Callers : Returned(c) => caller[c].result.asked = Me(c)

\* It is, but for the connections that a late answer to an older connection's
\* request has reached (WebSession::answer); entries of the control channel are
\* never mixed up.
AnswersAreOwnUnlessStrayed ==
    \A c \in Callers :
        Returned(c) /\ caller[c].via \notin strayed => caller[c].result.asked = Me(c)

\* An answer tells what the frontend did: a command that succeeded was performed,
\* one that was refused was not and never will be.  After a timeout, the end of
\* the page or a failure nothing is said of what was done.
OutcomesAreTrue ==
    \A c \in Callers :
        Returned(c) /\ caller[c].result.asked = Me(c) /\ caller[c].call.command # "list" =>
            /\ caller[c].result.status \in {"done", "stale"} => Me(c) \in performed
            /\ caller[c].result.status = "refused" =>
                 /\ Me(c) \notin performed
                 /\ \A i \in DOMAIN inbox : inbox[i].asked # Me(c)

\* The facts a presentation command answers with are of the instance it was about,
\* though the kind's window may have closed and opened again while it ran.
PresentsTheAskedWindow ==
    \A c \in Callers :
        Returned(c) /\ caller[c].result.asked = Me(c) /\ caller[c].result.status = "done"
        /\ caller[c].call.command = "minimize"
            => caller[c].result.window = caller[c].call.window

\* A pending request has an entry that waits for it: what timed out is forgotten,
\* in the bridge for local entries and in the session for forwarded ones.
PendingIsAwaited ==
    /\ \A r \in DOMAIN requests :
         requests[r].from = 0 =>
             LET c == requests[r].asked.caller
             IN  Heard(requests[r].asked) /\ caller[c].request = r
    /\ \A l \in Links : \A id \in DOMAIN waiting[l] :
         Heard(waiting[l][id]) /\ caller[waiting[l][id].caller].request = id
=============================================================================
