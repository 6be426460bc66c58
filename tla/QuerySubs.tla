------------------------------ MODULE QuerySubs ------------------------------
(***************************************************************************)
(* Query subscriptions: bern-runtime/src/query.rs (the subscriptions and   *)
(* their versions), bern-ffi/src/query.rs (requests, answers, refreshes)   *)
(* and the Query view of a native runtime (bern-gtk/src/query.rs).         *)
(*                                                                         *)
(* Three kinds of actors share the subscriptions under one lock: the UI    *)
(* thread opens, requests, closes and shows; the engine thread runs        *)
(* queries and, after a change of state, asks again for what read it; the  *)
(* providers answer from threads of their own.  Every one of them unlocks  *)
(* before it calls the frontend or the engine, so the order in which the   *)
(* calls arrive is not the order in which the state changed.               *)
(*                                                                         *)
(* Abstractions.  One state field, whose value is the number of its        *)
(* changes; an answer is the parameters it was asked for and the value the *)
(* provider saw.  The job queue carries nothing but queries: a command may *)
(* run whenever the engine thread is free.  The tally of discarded answers *)
(* and the traces are left out.                                            *)
(***************************************************************************)
EXTENDS Naturals, Sequences, SequencesExt

CONSTANTS
  Queries,       \* the queries of the catalog
  Reading,       \* those that read the state field, `#[reads(...)]`
  Params,        \* parameters of a request
  None,          \* no parameters, no data, no request in flight
  MaxSubs,       \* bound: subscriptions opened
  MaxRequests,   \* bound: requests the UI thread makes
  MaxChanges,    \* bound: changes of the state field
  MaxWindows     \* bound: instances of the window

ASSUME QueryAssumption ==
  /\ Reading \subseteq Queries
  /\ None \notin Params \cup Nat
  /\ {MaxSubs, MaxRequests, MaxChanges, MaxWindows} \subseteq Nat

VARIABLES
  window,      \* the generation of the window, and whether it is open
  open,
  next,        \* the last subscription id
  entries,     \* the live subscriptions, by id
  cancelled,   \* the tickets whose cancellation is set
  asking,      \* the UI thread between request and send: what it will send
  requests,    \* the requests the UI thread has made
  field,       \* the engine's state field
  due,         \* a change is published and its refresh has not begun
  telling,     \* the refreshes still to be shown and sent
  shown,       \* whether the next of them has been shown
  jobs,        \* the engine's queue
  running,     \* the queries whose providers have not answered
  answers,     \* answers applied, on their way to the frontend
  inbox,       \* what the frontend's event loop has not handled yet
  views        \* what each mounted view shows, by subscription

uiVars == <<window, open, next, requests>>
engineVars == <<field, due, telling, shown>>
vars == <<uiVars, entries, cancelled, asking, engineVars, jobs, running,
          answers, inbox, views>>

Ids == 1..MaxSubs
Data == [params : Params, seen : 0..MaxChanges]
Phases == {"idle", "loading", "ready", "refreshing", "failed"}

\* What on_query carries: the state of a subscription at a version.
State == [version : Nat, phase : Phases, data : Data \cup {None}]
Post == [id : Ids, state : State]
Ticket == [id : Ids, version : Nat]
Job == [id : Ids, version : Nat, params : Params]

\* A request between the lock and the engine: what to send, what to show.
Sending == [job : Job, state : State]

ASSUME NoneAssumption == None \notin Sending

Entry == [window : 1..MaxWindows, query : Queries, params : Params \cup {None},
          inFlight : Nat \cup {None}, state : State]

TypeOK ==
  /\ window \in 0..MaxWindows /\ open \in BOOLEAN
  /\ open => window # 0
  /\ next \in 0..MaxSubs /\ requests \in 0..MaxRequests
  /\ DOMAIN entries \subseteq 1..next
  /\ \A id \in DOMAIN entries : entries[id] \in Entry
  /\ cancelled \subseteq Ticket
  /\ asking \in Sending \cup {None}
  /\ field \in 0..MaxChanges /\ due \in BOOLEAN /\ shown \in BOOLEAN
  /\ telling \subseteq Sending
  /\ jobs \in Seq(Job)
  /\ running \subseteq [job : Job, seen : 0..MaxChanges]
  /\ answers \subseteq Post
  /\ inbox \in Seq(Post)
  /\ DOMAIN views \subseteq 1..next
  /\ \A id \in DOMAIN views : views[id] \in State

Idle == [version |-> 0, phase |-> "idle", data |-> None]

Init ==
  /\ window = 0 /\ open = FALSE /\ next = 0 /\ requests = 0
  /\ entries = <<>> /\ views = <<>>
  /\ cancelled = {} /\ asking = None
  /\ field = 0 /\ due = FALSE /\ telling = {} /\ shown = FALSE
  /\ jobs = <<>> /\ running = {} /\ answers = {} /\ inbox = <<>>

-----------------------------------------------------------------------------
(* The subscriptions.                                                      *)

\* The ticket of a request in flight; a request that was answered has none.
InFlight(id) ==
  IF entries[id].inFlight = None THEN {}
  ELSE {[id |-> id, version |-> entries[id].inFlight]}

\* Query::request: the next version, loading or refreshing what is shown.
Requested(e, params) ==
  LET version == e.state.version + 1 IN
  [e EXCEPT !.params = params, !.inFlight = version,
            !.state = [version |-> version,
                       phase |-> IF @.data = None THEN "loading" ELSE "refreshing",
                       data |-> @.data]]

\* Query::resolve, for the current ticket of a live subscription.
Resolved(e, data) ==
  [e EXCEPT !.inFlight = None,
            !.state = IF data = None THEN [@ EXCEPT !.phase = "failed"]
                      ELSE [@ EXCEPT !.phase = "ready", !.data = data]]

\* Mutant: one cancelled request cancels the whole subscription.
SupersededById(job) == \E ticket \in cancelled : ticket.id = job.id

\* A ticket whose request was superseded or whose subscription ended.
Superseded(job) == [id |-> job.id, version |-> job.version] \in cancelled

Current(job) ==
  /\ job.id \in DOMAIN entries
  /\ entries[job.id].state.version = job.version
  /\ ~Superseded(job)

SendingOf(id, e) ==
  [job |-> [id |-> id, version |-> e.state.version, params |-> e.params],
   state |-> e.state]
\* QuerySubscriptions::close, for every id of a set.
End(ids) ==
  /\ entries' = [id \in DOMAIN entries \ ids |-> entries[id]]
  /\ cancelled' = cancelled \cup UNION {InFlight(id) : id \in ids \cap DOMAIN entries}

-----------------------------------------------------------------------------
(* The UI thread.                                                          *)

\* The window opens, and another instance after it closed.
OpenWindow ==
  /\ asking = None /\ ~open /\ window < MaxWindows
  /\ open' = TRUE /\ window' = window + 1
  /\ UNCHANGED <<next, requests, entries, cancelled, asking, engineVars, jobs,
                 running, answers, inbox, views>>

\* bern_window_closed: the subscriptions of the instance end; its views are
\* disposed of by the toolkit, before or after.
CloseWindow ==
  /\ asking = None /\ open
  /\ open' = FALSE
  /\ End({id \in DOMAIN entries : entries[id].window = window})
  /\ UNCHANGED <<window, next, requests, asking, engineVars, jobs, running,
                 answers, inbox, views>>

\* A Query view is mounted: bern_query_open, and the frontend listens.
Mount ==
  /\ asking = None /\ open /\ next < MaxSubs
  /\ next' = next + 1
  /\ \E query \in Queries :
       LET e == [window |-> window, query |-> query, params |-> None,
                 inFlight |-> None, state |-> Idle]
       IN entries' = [id \in DOMAIN entries \cup {next'} |->
                        IF id = next' THEN e ELSE entries[id]]
  /\ views' = [id \in DOMAIN views \cup {next'} |->
                 IF id = next' THEN Idle ELSE views[id]]
  /\ UNCHANGED <<window, open, requests, cancelled, asking, engineVars, jobs,
                 running, answers, inbox>>

\* The view is disposed of: the frontend stops listening, bern_query_close.
Unmount(id) ==
  /\ asking = None /\ id \in DOMAIN views
  /\ views' = [i \in DOMAIN views \ {id} |-> views[i]]
  /\ End({id})
  /\ UNCHANGED <<uiVars, asking, engineVars, jobs, running, answers, inbox>>

\* bern_query_request, under the lock: the previous request is cancelled and
\* the state to return is taken.  Parameters equal to the last ones are a
\* retry.  A request to an ended subscription fails and changes nothing.
Request(id, params) ==
  /\ asking = None /\ requests < MaxRequests
  /\ id \in DOMAIN views \cap DOMAIN entries
  /\ requests' = requests + 1
  /\ entries' = [entries EXCEPT ![id] = Requested(@, params)]
  /\ cancelled' = cancelled \cup InFlight(id)
  /\ asking' = SendingOf(id, entries'[id])
  /\ UNCHANGED <<window, open, next, engineVars, jobs, running, answers, inbox,
                 views>>

\* Mutant, as templates/bern.js: the view takes whatever arrives last.
ShowLast(id, state) ==
  IF id \in DOMAIN views THEN [views EXCEPT ![id] = state] ELSE views

\* A view takes a state unless it already shows a later version.
Show(id, state) ==
  IF id \in DOMAIN views /\ state.version >= views[id].version
  THEN [views EXCEPT ![id] = state] ELSE views

\* bern_query_request sends the job and returns; the view takes the state.
SendRequest ==
  /\ asking # None
  /\ jobs' = Append(jobs, asking.job)
  /\ views' = Show(asking.job.id, asking.state)
  /\ asking' = None
  /\ UNCHANGED <<uiVars, entries, cancelled, engineVars, running, answers, inbox>>

\* The event loop handles the next on_query.
Receive ==
  /\ asking = None /\ inbox # <<>>
  /\ views' = Show(Head(inbox).id, Head(inbox).state)
  /\ inbox' = Tail(inbox)
  /\ UNCHANGED <<uiVars, entries, cancelled, asking, engineVars, jobs, running,
                 answers>>

-----------------------------------------------------------------------------
(* The engine thread and the providers.                                    *)

EngineFree == ~due /\ telling = {}

\* A command changes the field and publishes it.
Change ==
  /\ EngineFree /\ field < MaxChanges
  /\ field' = field + 1 /\ due' = TRUE
  /\ UNCHANGED <<uiVars, entries, cancelled, asking, telling, shown, jobs, running,
                 answers, inbox, views>>

\* Mutant: a request that is loading already is not asked again.
StaleSettled == {id \in DOMAIN entries : /\ entries[id].query \in Reading
                                         /\ entries[id].params # None
                                         /\ entries[id].inFlight = None}

\* The subscriptions a change of the field makes stale: those that read it
\* and have been asked for something.
Stale == {id \in DOMAIN entries :
            entries[id].query \in Reading /\ entries[id].params # None}

\* refresh, under the lock: all of them get a new version at once.
Refresh ==
  /\ due
  /\ due' = FALSE /\ shown' = FALSE
  /\ entries' = [id \in DOMAIN entries |->
                   IF id \in Stale THEN Requested(entries[id], entries[id].params)
                   ELSE entries[id]]
  /\ cancelled' = cancelled \cup UNION {InFlight(id) : id \in Stale}
  /\ telling' = {SendingOf(id, entries'[id]) : id \in Stale}
  /\ UNCHANGED <<uiVars, asking, field, jobs, running, answers, inbox, views>>

\* The subscriptions are a map ordered by id.
NextTold(s) == s \in telling /\ \A t \in telling : s.job.id <= t.job.id

\* refresh, one subscription after the other: first on_query ...
ShowRefresh(s) ==
  /\ NextTold(s) /\ ~shown
  /\ shown' = TRUE
  /\ inbox' = Append(inbox, [id |-> s.job.id, state |-> s.state])
  /\ UNCHANGED <<uiVars, entries, cancelled, asking, field, due, telling, jobs,
                 running, answers, views>>

\* ... and then the job.
SendRefresh(s) ==
  /\ NextTold(s) /\ shown
  /\ shown' = FALSE
  /\ jobs' = Append(jobs, s.job)
  /\ telling' = telling \ {s}
  /\ UNCHANGED <<uiVars, entries, cancelled, asking, field, due, running, answers,
                 inbox, views>>

\* The engine takes a query: a provider reads the field and answers later,
\* unless the request was superseded while it was queued.
RunQuery ==
  /\ EngineFree /\ jobs # <<>>
  /\ LET job == Head(jobs) IN
     running' = IF Superseded(job) THEN running
                ELSE running \cup {[job |-> job, seen |-> field]}
  /\ jobs' = Tail(jobs)
  /\ UNCHANGED <<uiVars, entries, cancelled, asking, engineVars, answers, inbox, views>>

\* A provider answers, with data or with an error: the closure of `send`
\* resolves under the lock and takes the state to show, if it is current.
Answer(r) ==
  /\ r \in running
  /\ running' = running \ {r}
  /\ IF Current(r.job)
     THEN \E data \in {None, [params |-> r.job.params, seen |-> r.seen]} :
            /\ entries' = [entries EXCEPT ![r.job.id] = Resolved(@, data)]
            /\ answers' = answers \cup {[id |-> r.job.id, state |-> entries'[r.job.id].state]}
     ELSE UNCHANGED <<entries, answers>>
  /\ UNCHANGED <<uiVars, cancelled, asking, engineVars, jobs, inbox, views>>

\* The provider's thread, unlocked, calls on_query.
Call(answer) ==
  /\ answer \in answers
  /\ answers' = answers \ {answer}
  /\ inbox' = Append(inbox, answer)
  /\ UNCHANGED <<uiVars, entries, cancelled, asking, engineVars, jobs, running, views>>

-----------------------------------------------------------------------------
Next ==
  \/ OpenWindow \/ CloseWindow \/ Mount
  \/ \E id \in Ids : Unmount(id)
  \/ \E id \in Ids, params \in Params : Request(id, params)
  \/ SendRequest \/ Receive
  \/ Change \/ Refresh \/ RunQuery
  \/ \E s \in telling : ShowRefresh(s) \/ SendRefresh(s)
  \/ \E r \in running : Answer(r)
  \/ \E answer \in answers : Call(answer)

Spec == Init /\ [][Next]_vars

-----------------------------------------------------------------------------
(* Properties.                                                             *)

\* What is on its way from a subscription to the engine or to its view.
Asked == IF asking = None THEN {} ELSE {asking.job}
Told == {s.job : s \in telling}
Answering == {r.job : r \in running}
Tickets == Asked \cup Told \cup ToSet(jobs) \cup Answering

Quiet(id) ==
  /\ \A job \in Tickets : job.id # id
  /\ \A post \in answers \cup ToSet(inbox) : post.id # id

\* Once nothing is on its way for a subscription, its view shows exactly what
\* the session holds, whatever the order in which the engine thread and the
\* providers called on_query after they unlocked (query.rs send, refresh).
ViewsConverge ==
  \A id \in DOMAIN entries \cap DOMAIN views :
    Quiet(id) => views[id] = entries[id].state

\* A view that shows an answer as ready, at the version of its session,
\* shows the answer to the last parameters; and when nothing is on its way
\* and no refresh is due, that answer saw the latest value of what the query
\* reads: a change between a request and its answer is never missed.
AnswersAreCurrent ==
  \A id \in DOMAIN entries \cap DOMAIN views :
    LET e == entries[id]  v == views[id] IN
    v.phase = "ready" /\ v.version = e.state.version =>
      /\ v.data.params = e.params
      /\ e.query \in Reading /\ Quiet(id) /\ ~due => v.data.seen = field

\* A subscription has at most one request that is not cancelled, of its
\* current version, and an ended one has none: no provider works on for an
\* answer nobody takes (Query::request, end).
OneLiveRequest ==
  \A job \in Tickets :
    ~Superseded(job) =>
      /\ job.id \in DOMAIN entries
      /\ entries[job.id].inFlight = job.version
      /\ entries[job.id].state.version = job.version

\* A subscription never waits for nothing: while it is loading or refreshing,
\* its current request is still on its way.
WaitsAreAnswered ==
  \A id \in DOMAIN entries :
    entries[id].state.phase \in {"loading", "refreshing"} =>
      \E job \in Tickets : job.id = id /\ job.version = entries[id].state.version

Same(a, b) == a.id = b.id /\ a.version = b.version

\* No request reaches the engine twice or is answered twice: two of them that
\* are on their way, wherever they are, differ in subscription or version
\* (Query::request, refresh, send).
RequestsAreOnce ==
  /\ \A a \in Asked, b \in Told \cup ToSet(jobs) \cup Answering : ~Same(a, b)
  /\ \A a \in Told, b \in ToSet(jobs) \cup Answering : ~Same(a, b)
  /\ \A a \in ToSet(jobs), b \in Answering : ~Same(a, b)
  /\ \A s, t \in telling : Same(s.job, t.job) => s = t
  /\ \A r, q \in running : Same(r.job, q.job) => r = q
  /\ \A i, j \in DOMAIN jobs : Same(jobs[i], jobs[j]) => i = j

\* No ticket, cancelled or not, is of a subscription or a version to come.
TicketsArePast ==
  \A job \in Tickets \cup cancelled :
    /\ job.id <= next
    /\ job.id \in DOMAIN entries => job.version <= entries[job.id].state.version

\* The request in flight is of the current version, is not cancelled and is on
\* its way, and there is one exactly while the subscription waits.
InFlightIsComing ==
  \A id \in DOMAIN entries :
    /\ entries[id].inFlight # None <=> entries[id].state.phase \in {"loading", "refreshing"}
    /\ entries[id].inFlight # None =>
         /\ entries[id].inFlight = entries[id].state.version
         /\ InFlight(id) \cap cancelled = {}
         /\ \E job \in Tickets : job.id = id /\ job.version = entries[id].inFlight

\* The strengthening that is inductive: a refresh ends before the next is due,
\* and the subscriptions know of exactly the requests that are on their way.
SubsInv ==
  /\ due => telling = {}
  /\ RequestsAreOnce
  /\ TicketsArePast
  /\ OneLiveRequest
  /\ InFlightIsComing

=============================================================================
