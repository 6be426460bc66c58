# A verification of Bern's runtime

Bern compiles one declaration of an application into native programs for six
targets. What all of those programs share at run time is small and concurrent:
a command host that owns the engine, a UI session that owns windows and drafts,
query subscriptions between the two, a media hub, and the links that let a web
page, a command line or another process act on them. This directory models that
shared runtime in TLA+, checks it with TLC and proves parts of it with TLAPS.

Paths below are relative to `src/crates` unless they begin with `src/`.

## 1. The system

| Component | Where | State | Operations | Hard behaviour |
|---|---|---|---|---|
| Command host | `bern-command/src/lib.rs` | job channel, engine, published state and revision, listeners, poisoned flag | dispatch, blocking calls with and without a timeout, cancel, subscribe, snapshot, stop | callers on any thread, providers that answer later or never, panics half way, stop between jobs |
| Waker | `bern-command/src/wake.rs` | `pending` flag | wake, taken | results that arrive while the engine takes the last ones |
| Local jobs | `bern-command/src/lib.rs` | queue, draining flag | push, re-entered from its own jobs | re-entrance instead of threads |
| Composite engine | `bern-command/src/composite.rs`, `outbox.rs` | engines by module, pending sends | route, wake, query, switch on, switch off | dependencies between modules, sends to a module that was switched off |
| UI session | `bern-runtime/src/lib.rs` | per window kind: generation, open, drafts, revision, pending confirmation, facts | opened, closed, facts, set, request close, confirm close | callers that hold an old generation or an old confirmation |
| Windows | `bern-gtk/src/windows.rs`, `bern-backend-web/templates/bern.js` | window list, block, dialog, running saves | open, write, request, decide, save ends, close | what the toolkit believes against what the session knows |
| Query subscriptions | `bern-runtime/src/query.rs`, `bern-ffi/src/query.rs`, `bern-gtk/src/query.rs` | version, parameters, request in flight, shown state | open, request, refresh, answer, close | answers and notifications out of order |
| Session requests | `UiBridge` in `bern-ffi/src/lib.rs`, `WebSession` in `bern-transport-ws/src/channel.rs`, `Remote` | requests pending in the bridge, waiting in a host's session, performed by the frontend | run, complete, forward, answer, end | an answer racing its timeout, a window that is another by the time of the answer, a page that reconnects in between |
| Web link | `bern-ffi/src/remote.rs`, `bern-transport-ws/src/channel.rs`, `bern.js` | mirror of engine and media state, pending requests, session to resume; per connection the thread that serves it | hello, subscribe, dispatch, update, closed, resume | lost connections, a different engine after a reconnect, the late end of an old connection |
| Media hub | `bern-media/src/hub.rs`, the router in `bern-transport-ws/src/channel.rs` | players, source versions, pending requests, executor, views; executors of pages and what they claim | bind, dispatch, complete, observe, attach, release, claim | executors that come and go, late reports, two locks |
| IPC channel | `bern-transport-ipc/src/lib.rs` | socket, sessions by connection | discover, handshake, serve | sockets of crashed engines |
| Trace | `bern-command/src/trace` | rings of records, their registry, the session | record, drain, start, stop, report | one writer and one reader on a ring without a lock; threads and sessions that end meanwhile |
| Storage | `bern-command/src/storage.rs` | files | read, atomic write | a crash between write and rename |
| Compiler, backends, theme, images, CLI | the other crates | none at run time | functions of their input | none a state machine would show |

How they interact:

- Callers put jobs into the host's channel; the engine thread takes them one at
  a time. A command's effect is published, listeners are called, and only then
  does the reply run. A query hands a `QueryAnswer` to the engine, which may keep
  it and answer from any thread.
- One of the listeners is the frontend's (`start_app` in `bern-ffi`): it passes
  each update to the frontend and asks again for the queries that read what
  changed.
- The frontend's UI thread calls the session and the subscriptions under their
  mutexes. Callbacks into the frontend are posted to its event loop, after the
  lock was released.
- A page talks to its connection's thread by messages, both ways in order. That
  thread calls the session, the host and the hub under their locks; the engine
  thread sends the page's updates itself, as one of the listeners.
- The hub hands requests to one executor: the engine's own device, or the
  router, which passes each on to the page that holds the player.
- Any thread may record a trace; the `bern-trace` thread reads what they did.
- External entries (CLI, MCP, another page) reach the session either directly or
  through the frontend, and hold window ids and confirmation ids for as long as
  they like.

What makes each part correct:

- *Host*: a reply never overtakes the update it belongs to; a snapshot and the
  updates after it miss nothing; what a panicking job left behind never shows; a
  query sees exactly what was queued before it; the first stop loses nothing
  queued before it; a blocking caller returns.
- *Waker*: a delivered result is never left without a wake.
- *Session*: a decision reaches only the drafts it was asked about; one question
  per revision; presentations carry versions.
- *Windows*: what is blocked can be decided; a dialog answers what its window
  waits for; what is listed is what is open; edits made after a decision survive.
- *Subscriptions*: views end up with the current answer to the current
  parameters, seen against the current state; nobody works for an answer nobody
  takes; nobody waits for an answer nobody gives.
- *Session requests*: an entry is told what the frontend did, about the window it
  asked for; a call that was given up is forgotten where it was accepted.
- *Web link*: the page shows what the engine has; what it says of a request is
  true, and it says something; one connection serves a session; what was open
  carries over a reconnect and what was closed is released.
- *Media hub*: requests arrive in the order they were accepted; what is accepted
  is coming; late reports of an older source show nowhere; requests go to who
  holds the player, and when that page leaves others take over.
- *Composite*: what a running module depends on runs; what is published is the
  state of every part.
- *Trace*: no slot is written while it is read; no record of a running session is
  thrown away unread; what was dropped is counted once; no record waits for good.

`PROJECT.json` lists every component with its files and, under `hazards`, each
place where these can go wrong.

## 2. The modules

### EngineHost: the command host and its waker

Model of `Host`, `Worker`, `QueryAnswer`, `Subscription` and `Waker`.
The engine thread's position is `engine`. The steps of one job are actions of
their own because other threads see the states between them:

| In the code | In the model |
|---|---|
| `Host::send` | `Dispatch`, `Stop`, `WakeSend` append to `queue`; `CanSend` says whether the receiver is still there |
| `Worker::handle`, job by job | `TakeRequest`, `TakeWake`, `TakeStop`, then `RunCommand`, `PanicCommand`, `RefusePoisoned`, `RunQuery`, `RunWake` |
| `publish`, `tell` | `Publish` (revision and state, under the state lock), `CopyListeners` (under the listener lock), `TellOne` for each, `ToldAll`, then `Reply` |
| `QueryAnswer::send`, `finish`, `drop` | `Answer` settles the outcome, `ReplyQuery` runs the reply: the revision it carries is read between the two |
| `dispatch_blocking`, `query_blocking` | `Return`, `Timeout` |
| `Waker::wake` | `WakeSwap`, `WakeSend`, `WakeUndo`: the swap, the send and the undo when the channel is gone |
| `Waker::taken` | the first thing `TakeWake` does; the results are taken in later, by `RunWake` |
| last handle dropped, `Stop` taken | `Disconnect`, `DropReceiver`: queued jobs are lost with the channel |
| `Host::subscribe`, `snapshot`, `Subscription::drop` | `Subscribe`, `Snapshot`, `Unsubscribe` |

Engine state is abstracted to the set of commands and results whose effect it
has. History variables (`arrived`, `seen`, `broken`, `ahead`) only record what
the properties speak about. Tracing, validation messages and the text of errors
are left out; that a request can fail validation is one of the outcomes.

### UiSession, CloseConsent: one session and what it promises

`UiSession` models the `UiSession` struct of `bern-runtime/src/lib.rs`; every
operation is one critical section of the session's mutex and so one action. The
callers may present any generation and any confirmation id ever issued. Draft
fields are one value of a small set, so that a draft can be written back to what
it was. `issued` and `consent` are history: the questions asked, and what a
window was last allowed to close on, freely or by an answer.

`CloseConsent` is the abstract protocol, without ids, generations or staleness:
a window is open, edited, asked about some of its edits, and a consent is given
about those and no later ones. `UiSession` instantiates it with a refinement
mapping (`Consent`), and `ImplementsConsent` says every step of the session is
one of its steps.

### WindowClose: two toolkits on top of the session

Extends `UiSession` with what the GTK runtime (`frontend = "gtk"`) and the web
page (`frontend = "web"`) keep besides: the confirmation a window is blocked by,
the confirmation the dialog answers, the window list, the saves that run. A
handler that makes two calls into the runtime is two steps, the second through
`finishing`, and nothing runs between them: both toolkits have one UI thread.
`setting` is chosen at the start from `Settings` and never changes: the toolkit,
whether windows declare a save command (`Savable`), and whether drafts may change
while their controls are blocked (`Background`: a binding or a callback writes
them). One run and one proof so cover every kind of application.

The two toolkits differ in how they treat a refused decision, a dialog already
on screen and a save that ends late. The page draws its dialog from the
confirmation it waits for; GTK keeps a dialog with the same heading and replaces
one with another (`ShownDialogs`, which leaves open what the headings are). Where
one toolkit does not keep what a property says, there are two properties: the
statement (`BlocksCanBeDecided`, `DialogsAnswerBlocks`, `OpensAreMerged`), which a
configuration of section 3 breaks on that toolkit, and one that names what it is
kept by (`BlockedMeansPending`, `DialogIsForPending`, `ListedIsOpen`) and is proved.

### QuerySubs: subscriptions, answers and refreshes

Models `QuerySubscriptions` and `Query`, the C ABI around them and a native Query
view. Three kinds of actors: the UI thread (`Mount`, `Unmount`, `Request`,
`SendRequest`, `Receive`, `OpenWindow`, `CloseWindow`), the engine thread
(`Change`, `Refresh`, then `ShowRefresh` and `SendRefresh` for each subscription,
`RunQuery`) and the providers (`Answer` under the lock, `Call` after it).
`asking` and `telling` hold what was taken under the lock and not yet passed on:
that gap is what the properties are about. The engine is abstracted to a queue
of queries and one state field that counts its changes; an answer is the pair
of the parameters it was asked for and the value its provider saw.

The web page's Query view takes whatever arrives last and compares no versions
(`bern-backend-web/templates/bern.js:4226`), where the native views do. That
receive, put into the model of the native view, is the mutant `ShowLast`, and it
breaks `ViewsConverge`: with several threads the comparison is necessary. The
page has one thread and its callbacks arrive in the order of the answers, so it
converges; what it may do is show an answer to older parameters as ready while
the newer request is out.

### WebLink: a page, its connections and the engine host

The page (`Remote`, and `link` in `bern.js`), the connection threads
(`Connection` of `channel.rs`) and an engine host that publishes. The page's
event loop handles one message or one call at a time (`Take...`, `Dispatch`,
`OpenWindow`, `CloseWindow`, `Supersede`, `Dial`, `Closed`, `Reload`). A
connection's thread (`HostStep`) takes a message and makes the calls it needs one
by one, because the engine thread and other connections run between them:
`Register` after `OpenSession` has looked whether the session can be resumed,
`Snapshot` and `SendState` after `Subscribe`, and at its end `Unregister`, then
`ReleaseReported`. The engine thread publishes, copies the listeners and tells
them one at a time (`Engine`), as in `EngineHost`; here only as much of it is
kept as messages need. `Restart` is a crash of the host with all it had: its
sessions, players, jobs and connections. Messages of one connection arrive in
order or, once it is lost, not at all.

State is abstracted to a value per field, the engine and the revision that wrote
it, so that a value of another engine is told from a current one. A window
stands for one with a player of its own, whose owner is the session.
`overtaken` and `races` are history: they name the situations in which the
code does not keep what it says. The statements without them
(`MirrorResynchronizes`, `AllWindowsAreListed`, `AllPlayersCarryOver`,
`LinkSurvives`) are broken in section 3.

### MediaHub: players, executors and the router

`State` of the hub, under its lock, with the second lock (`send`) that orders
what is handed to executors: `Locks` and `Sends` take it with the requests that
one call makes, and `Execute` hands them over one at a time. `RouterState` is the
router between pages. A connection's thread does in several steps what `leave`
and `attach` do in several calls (`LeavePage`, `ReleaseWindow`, `Detach`,
`Forget`, `Compare`, `Drop`). An executor performs its inbox in order, answers at
once or later (`Perform`, `Settle`), and reports whenever it likes (`Report`);
what a page says is heard by its connection's thread (`Hear`). A page's element
that was released keeps its listeners and may still report what it had queued
(`HtmlPlayer.release` in `bern.js`).

The data of a player is its source, its version, and the request whose load the
last observation is about. What is played, and how far, is left out. `lost`,
`raced`, `moved` and `reborn` are history and name the situations in which the
code does not keep what it says; `AcceptedIsAnswered`, `PlayersHaveExecutor`,
`RequestsGoToHolders` and `InitiatorGetsLoad` say it without them.

### Composite: modules inside an engine

One thread, job by job: a command (`Invoke`) or background work (`Wake`) may
change parts and send calls, events and switches, which `Follow` and `FollowUp`
run in turn until none is left or `FollowUpLimit` is reached (`DropLoop`); then
the host publishes (`Publish`). Which modules depend on which, and which can be
switched off, are constants with the assumption the compiler enforces: what
always runs depends on nothing that can be switched off. `Needs` and `NeededBy`
are the closures the code walks through.

### TraceRings: threads that record and the one that reads

`record` is a step for each access to shared memory (`Record`, `ReadSession`,
`Register`, `LoadTail`, `Write`, `Publish`, `Drop`), and a thread may `End` with its
ring. So is `drain` (`CopyRings`, `LoadHead`, `StoreTail`, `Retire`), whether a
caller of `start`, `stop` and `report` (`Runs`) or the `bern-trace` thread
(`Collect`) runs it. A record is
the number it got in its ring; a slot holds the number of the record written
last. `collector` and `token` are the thread and the token of `unpark`.

### SessionRequests: commands of external entries

Extends `UiSession`. Three kinds of actors: the threads of the entries, one call
each (`CallerStep`); the frontend's thread, which is also the page's; the host's
end of the page's connections.

| In the code | In the model |
|---|---|
| `Sessions::handle` | `Call`: the session is found under the registry's lock, and used after it |
| `UiBridge::run`, `handle` | `Check` (the session's mutex), `Insert` (the map's), `Announce` (the callback), `Receive`, `TimeOut`, `Withdraw` |
| `WebSession::forward` | `Forward`, then the same three |
| the frontend's handler | `Begin` takes a request and finds its window or fails it, `Finish` answers through `bern_session_complete` whenever it is done |
| `UiBridge::complete` | `Complete`: out of the map, then the session's facts, then `Answer` |
| `Remote::session_request` | `PageRun`: the same `run`, with a reply that posts to the host |
| `WebSession::answer`, `end` | `SessionResult`, `Closed` |
| `bern_app_stop` | `Stop`: entries that found the session before go on |

A call has a channel of its own (`reply`), which is the one of its number; who
answers an earlier call is not heard (`Heard`). Three commands stand for the three
ways `run` has: answered at once, sent to the frontend without a window, sent
about a window. `performed` and `strayed` are history: the calls the frontend
acted on, and the connections an answer to an older one has reached.

### Proof and TLC modules

`EngineHostProofs`, `WindowProofs` (about `UiSession` and `WindowClose`),
`QuerySubsProofs`, `WebLinkProofs`, `MediaHubProofs`, `CompositeProofs`,
`TraceRingsProofs` and `SessionRequestsProofs` hold the theorems; `WebLinkInvariants`
and `MediaHubInvariants` hold the inductive invariants of `WebLink` and `MediaHub`,
apart from their proofs; an `MC` module for each of
`EngineHost`, `UiSession`, `WindowClose`, `QuerySubs`, `WebLink`, `MediaHub`,
`Composite`, `TraceRings` and `SessionRequests` holds the small sets the
configurations refer to.

A definition commented as a mutant is a faulty variant of the one after it. It
is used by no specification; it is there to show which property a plausible bug
of that kind would break.

## 3. What is checked

Passing runs. Deadlock is checked in `composite`; in the others it is off,
because callers are free to stop calling and the bounds end every behaviour.

| Run | Instance | Shows |
|---|---|---|
| `engine_host` | 1 worker with 2 commands and 1 listener, or with 1 command and 1 query; a blocking caller on a command and on the query | snapshots, updates and replies stay in order, a panic publishes nothing, what was queued before a query or a stop is run before it, no result is left without a wake, and every blocking caller returns |
| `session_protocol` | 2 kinds (symmetric), 2 drafts, 2 generations, 2 edits, 2 confirmations, 1 fact | no decision outlives what it was about; the abstract protocol is implemented |
| `window_close` | 1 kind, 2 drafts, 2 generations, 3 edits, 3 confirmations; both toolkits, with and without saves and drafts written in the background | a blocked window can be decided, its dialog is current, the list is right, refused decisions lose nothing |
| `query_subs` | 2 subscriptions, 2 queries of which one reads the field, 2 requests, 1 change, 2 instances of the window | views converge on the current answer; every wait has its one request on its way |
| `web_link` | 1 command, 1 query, 2 fields, 1 change in the background, 2 connections, 2 engines | the page shows what the engine has, hears true outcomes, and replies after updates |
| `web_sessions` | 1 command, 1 window with a player, 2 connections, 2 engines | one connection per session; windows are reported, players carry over and are released; every command ends |
| `media_hub` | 2 pages of which 1 has a video, 1 application player, 1 source, 3 requests, 3 versions, 1 report on its way | requests arrive in order, what is accepted is coming, late reports are dropped, requests go to the holder, others take over |
| `composite` | 3 modules in a chain, the first always on; 2 values, 2 follow-ups, 1 send | dependencies run; what is published is the state of every part |
| `trace_rings` | 2 threads that record 5 and 1 times a session, rings of 4, 1 caller, 2 sessions | slots are safe, nothing goes unread, drops are counted once, no record is slept through |
| `session_requests` | 2 entries of the control channel, 2 calls each, and 1 window kind opened twice; or 2 entries forwarded to a page, 1 call each, 2 connections, and 1 window; 1 presentation | an entry is told of its own call, what was done, to the window it asked for, unless an answer strayed; what timed out is forgotten where it was accepted |

Two runs hold two scenarios each, and a state constraint of the MC module
(`OneScenario`, `OneSort`) keeps a behaviour in one of them: it only keeps callers
from making their first call, a listener from subscribing, a page from connecting
or a window from opening, none of which is assumed to happen, so no fair behaviour
of a scenario is lost.

Why the bounds are enough. Two commands are what it takes for one to panic and a
later one to run; a command and a query come in either order, and a stop ahead
of, between or behind them. One worker is what it takes for a wake to merge with
the one the host starts with. One listener is
enough because listeners share no state. Two generations are what it takes for a
caller to hold an old one; three edits and three confirmations let a decision be
overtaken by an edit, by a newer question and by a reopening in one behaviour.
Two subscriptions make `refresh` a loop that can be interrupted between its
rounds; two requests and a change give one subscription three versions, two of
which can be superseded in either order. Two connections are an old one whose end
is noticed late and a new one; two engines are a restart; two fields are one that
an update changes and one it leaves alone. Two pages are one that holds a player
and one that takes it over; three requests are a load, a control and a load
again. A chain of three modules has one that is switched off because of what it
needs indirectly. Rings of four let a thread fill one (five records) without
every record waking the reader (which happens when half of a ring is used), and
two sessions are one that rings outlive
(two callers with three records each were tried as well, for the safety
properties: 11.8 million states, no error). Two entries with two calls each let an
answer to a call that timed out come while the entry waits for the next one and
another waits too; a kind opened twice is a window that is another by then; two
connections let a late answer of the first meet the second.

Runs that end in a counterexample, each about one statement in the repository:

| Run | Says | What happens |
|---|---|---|
| `close_save_loses_edits` | "an old confirmation cannot discard modifications made afterwards" (`src/Docs/Design.md:1959`) | the window can be edited while its save runs and closes when the save succeeds |
| `web_mirror_overtaken` | "resynchronizes from a full snapshot" after a reconnect (`bern-ffi/src/remote.rs:11`) | the host subscribes the page before it takes the snapshot, so an update may be sent before an older `State`, which then overwrites it |

`EditsSurviveRefusals` and `MirrorFollows` (which excepts `overtaken`) show that
nothing else breaks these two.

Configurations besides the runs. More statements of the repository do not hold of
the code. Each of them is a definition of its module without any exception, and
has a configuration with which TLC ends in the counterexample, on an instance no
larger than that of a run of its module (`tlc -config WindowCloseStale.cfg MCWindowClose.tla`). The
property in the last column is the one a passing run checks and a theorem proves:
it excepts the situation, by its form or by the history variable in brackets, and
shows that nothing else breaks the statement. It does not catch the situation
itself, and neither does any run of `PROJECT.json`.

| Configuration, statement | Says | What happens | Excepted by |
|---|---|---|---|
| `WindowCloseStale.cfg`, `BlocksCanBeDecided` | "The pending close confirmation of a window, which blocks its controls until it is decided." (`bern-runtime/src/lib.rs:436`) | on the page, a draft that a binding writes behind the dialog makes its confirmation stale; the decision is refused and the window stays blocked by it (`bern.js:5550`) | `BlockedMeansPending` |
| `WindowCloseDialog.cfg`, `DialogsAnswerBlocks` | "The same confirmation is already on screen." (`bern-gtk/src/windows.rs:1520`) | with GTK, another request after such a write gets a new confirmation with the same message; the dialog of the old one stays, and its buttons fail as stale | `DialogIsForPending` |
| `WindowCloseReopen.cfg`, `OpensAreMerged` | "merged according to the single-instance or key policy, without creating extra windows" (`src/Docs/Design.md:1953`) | on the page, a save that ends after its window was closed and reopened unlists the new window (`bern.js:5575`), and the next open makes a second one | `ListedIsOpen` |
| `WebLinkListed.cfg`, `AllWindowsAreListed` | "The page's open windows changed; external entries list them." (`remote.rs:561`) | what opens or closes between the session and the first `State` is not reported (line 563) | `WindowsAreListed` (`races`) |
| `WebLinkPlayers.cfg`, `AllPlayersCarryOver` | "after a reconnect its windows, players and views carry over" (`remote.rs:294`) | the end of the old connection, noticed late, releases players of the new one (`bern-transport-ws/src/channel.rs:841`) | `PlayersCarryOver` (`races`) |
| `WebLinkFailed.cfg`, `LinkSurvives` | of a lost connection: "the same session is restored [...] and the notice disappears" (`src/Docs/Implementation/Web.md:270`) | a player whose creation was posted while the page reconnects is created again after `SessionOpened` (`remote.rs:296`); the refusal answers no request and ends the link | `PlayersCarryOver` (`races`) |
| `MediaHubHolder.cfg`, `RequestsGoToHolders` | "commands are routed to the executor that actually holds that player" (`src/Docs/Design.md:2361`) | a page that shows a player claims it (`channel.rs:785`), and gets requests about what another page loaded | `RoutedToHolder` (`moved`) |
| `MediaHubOrphan.cfg`, `AcceptedIsAnswered` | "its windows' players are released, and if it ran players the others take over" (`channel.rs:821`) | what a page that left was to answer stays accepted while others remain (`bern-media/src/hub.rs:442`) | `AcceptedIsComing` (`lost`) |
| `MediaHubRaced.cfg`, `PlayersHaveExecutor` | "if it ran players the others take over" (`channel.rs:822`) | a page that attaches between the steps in which the last one leaves finds an executor that is given up next (`channel.rs:843`, `hub.rs:424`) | `OthersTakeOver` (`raced`) |
| `MediaHubStolen.cfg`, `InitiatorGetsLoad` | "A view mounted in another tab must not steal its load." (`channel.rs:513`) | the claim of the page that opens a source is looked up when the load is handed over; a page that shows the player in between gets it | `RoutedToHolder` (`moved`) |
| `TraceRingsForsaken.cfg`, `OnlyReadRingsGo` | "Threads that ended leave their ring to the registry and `rings` alone; once read it can go." (`bern-command/src/trace/ring.rs:200`) | a ring registered after the copy is given up while its thread lives and records (line 204), also against `src/Docs/Reference/Tracing.md:59` | `NothingIsLost`, `DropsAreReported` (`forsaken`) |
| `SessionRequestsStray.cfg`, `AnswersAreOwn` | "Run a session command on the page and wait for its answer." (`channel.rs:254`) | every connection numbers its requests from `s1`, and the page posts an answer on the connection it has by then (`remote.rs:526`): after a reconnect another entry takes it for its own | `AnswersAreOwnUnlessStrayed` (`strayed`) |

What else the code does not keep, met as counterexamples while the model was
written:

- *Waker*: `wake()` "Returns `false` once the engine has stopped"
  (`bern-command/src/wake.rs:35`); a wake queued behind a stop is dropped with the
  channel, `pending` stays set and later calls return true (line 42).
- *Media hub*: a player created again while an executor still has the released
  one's element, a request about it or a report of it, starts its versions over, so
  late reports pass for new ones [`ReportsAreCurrent` excepts it as `reborn`].
- *Trace*: in the situation of `TraceRingsForsaken.cfg`, `dropped - retired` (line
  213) may be negative. A stop between the release of the state lock and the store
  of `MASK` (`mod.rs:946`) leaves tracing on with no session. Two starts at once
  overwrite a `Collector` nobody finished.

Fairness. `EngineHost`: the engine thread, a thread inside `Waker::wake`, a
thread inside `QueryAnswer::finish`, the timer of `query_blocking` and the
receiver of a blocked caller are weakly fair: the scheduler runs a thread that
can run, and a `recv_timeout` returns. Nothing is assumed of a provider (it may
never answer), a worker (it may never deliver), a caller or whoever stops the
host; `BlockingReturns` therefore rests on the timeout, and blocking on a command
on the engine thread alone. `WebLink`: the page's event loop takes what has
arrived, a closed connection is noticed, connection threads and the engine thread
run; nothing is assumed of users, providers, the network, or whoever starts the
host again. `TraceRings`: a caller inside `start`, `stop` or `report`, the loop of
`drain` and the `bern-trace` thread run; nothing is assumed of the threads that
record, and the property is about what they have published. The other modules
check safety only: whether a user decides or an executor answers is not for the
code to guarantee.

## 4. What is proved

For every value of the constants, under the assumptions the modules name:
`HostAssumption` (requests, workers and the special jobs are different things),
`SessionAssumption` (initial drafts are drafts, unknown facts are not facts,
bounds are naturals), `CloseAssumption` (what a setting is), `QueryAssumption`
and `NoneAssumption` (`None` is neither parameters, a version nor something to
send), `LinkAssumption` (commands and queries are different
requests, and none is the page's own; a change is of some fields; an engine runs
first; bounds are naturals), `MediaAssumption` (the application's players are finitely
many and none is a page's; a window is a page's; `None`, the device and callers are
nothing else; bounds are naturals), `CompositeAssumption` (what always runs depends on
nothing that can be switched off), `RequestsAssumption` (an entry is of one sort, bounds are
naturals) and `TraceAssumption` (a ring holds two records or more, threads and callers are
finitely many). TLC evaluates each of them in a run.

| Theorem | Says |
|---|---|
| `EngineHostProofs!TypeCorrect` | `Spec => [](TypeOK /\ HandledOnce)` |
| `EngineHostProofs!PanicsAreHidden` | `Spec => []PanicsNeverShow` |
| `EngineHostProofs!WakesAreNotLost` | `Spec => []NoLostWake` |
| `EngineHostProofs!NoUpdateIsMissed` | `Spec => []SnapshotPlusUpdates` |
| `EngineHostProofs!RepliesComeLast` | `Spec => []RepliesFollowUpdates` |
| `EngineHostProofs!ArrivalOrder` | `Spec => []QueriesSeeEarlierCommands` |
| `EngineHostProofs!StopComesLast` | `Spec => []StopRunsWhatIsAhead` |
| `WindowProofs!TypeCorrect` | `SessionSpec => []TypeOK` |
| `WindowProofs!SessionInvariant` | `SessionSpec => [](Typed /\ SessionInv)` |
| `WindowProofs!QuestionsAreMerged` | `SessionSpec => []OneQuestionPerRevision` |
| `WindowProofs!DecisionsAreCovered` | `SessionSpec => DecisionsCoverDrafts` |
| `WindowProofs!FactsCarryVersions` | `SessionSpec => FactsAreVersioned` |
| `WindowProofs!SessionImplementsConsent` | `SessionSpec => ImplementsConsent` |
| `WindowProofs!ClosesTypeCorrect` | `Spec => []CloseTypeOK` |
| `WindowProofs!TargetKeepsSession` | `Spec => SessionSpec` |
| `WindowProofs!BlockedWindowsArePending` | `Spec => []BlockedMeansPending` |
| `WindowProofs!DialogsArePending` | `Spec => []DialogIsForPending` |
| `WindowProofs!OpenWindowsAreListed` | `Spec => []ListedIsOpen` |
| `WindowProofs!RefusalsLoseNothing` | `Spec => EditsSurviveRefusals` |
| `QuerySubsProofs!TypeCorrect` | `Spec => []TypeOK` |
| `QuerySubsProofs!SubsKnow` | `Spec => []SubsInv` |
| `QuerySubsProofs!OneRequest` | `Spec => []OneLiveRequest` |
| `QuerySubsProofs!NoRequestTwice` | `Spec => []RequestsAreOnce` |
| `QuerySubsProofs!WaitsEnd` | `Spec => []WaitsAreAnswered` |
| `QuerySubsProofs!ViewsEndUpRight` | `Spec => []ViewsConverge` |
| `QuerySubsProofs!NoChangeIsMissed` | `Spec => []AnswersAreCurrent` |
| `WebLinkProofs!LinkTypes` | `Spec => []LinkTypeOK` |
| `WebLinkProofs!OutcomesStayTrue` | `Spec => []OutcomesAreTrue` |
| `WebLinkProofs!SessionsStayOwn` | `Spec => []SessionsAreOwn` |
| `WebLinkProofs!WindowsStayListed` | `Spec => []WindowsAreListed` |
| `WebLinkProofs!MirrorKeepsUp` | `Spec => []MirrorFollows` |
| `WebLinkProofs!RepliesKeepOrder` | `Spec => RepliesFollowMirror` |
| `WebLinkProofs!PlayersStayPlaced` | `Spec => []PlayersCarryOver` |
| `MediaHubProofs!MediaTypesCorrect` | `Spec => []MediaTypeOK` |
| `MediaHubProofs!RequestsStayInOrder` | `Spec => []RequestsInOrder` |
| `MediaHubProofs!AcceptedStaysComing` | `Spec => []AcceptedIsComing` |
| `MediaHubProofs!ReportsStayCurrent` | `Spec => []ReportsAreCurrent` |
| `MediaHubProofs!RoutedStaysToHolder` | `Spec => []RoutedToHolder` |
| `MediaHubProofs!OthersAlwaysTakeOver` | `Spec => []OthersTakeOver` |
| `CompositeProofs!DependenciesAlwaysRun` | `Spec => []DependenciesRun` |
| `CompositeProofs!PublishedAlwaysCurrent` | `Spec => []PublishedIsCurrent` |
| `TraceRingsProofs!TracesTypeCorrect` | `Spec => []TypeOK` |
| `TraceRingsProofs!SlotsStaySafe` | `Spec => []SlotsAreSafe` |
| `TraceRingsProofs!NoRingIsLost` | `Spec => []NothingIsLost` |
| `TraceRingsProofs!DropsStayReported` | `Spec => DropsAreReported` |
| `SessionRequestsProofs!RequestsTypesCorrect` | `Spec => []RequestsTypeOK` |
| `SessionRequestsProofs!PendingStaysAwaited` | `Spec => []PendingIsAwaited` |
| `SessionRequestsProofs!OutcomesStayTrue` | `Spec => []OutcomesAreTrue` |
| `SessionRequestsProofs!AnswersStayOwn` | `Spec => []AnswersAreOwnUnlessStrayed` |
| `SessionRequestsProofs!PresentedStaysAsked` | `Spec => []PresentsTheAskedWindow` |

The type invariants of `EngineHost`, `UiSession`, `WindowClose`, `QuerySubs`,
`WebLink`, `TraceRings` and `SessionRequests` are proved and not checked by a run, as are
`FactsAreVersioned` and `OneLiveRequest`; that of `MediaHub` is also checked.

The arguments:

- *Types of the host.* `TypeOK` is not inductive alone: that a job taken from
  the queue is a queued request needs `HandledOnce` (a request is in the channel
  at most once, and only while it is queued; the job at hand is the running
  one). The two are proved together.
- *Panics.* `PanicInv` joins `EffectsAreNew` (what is still to come is nowhere
  in the engine, and what is published is the engine's), `PoisonStops` (an
  engine that broke is poisoned, and a poisoned engine is on no path that
  publishes) and `PanicsNeverShow`. The last needs both: a publication copies
  `own`, so nothing may be broken at that moment, and what breaks later must not
  have been published before.
- *Wakes.* `WakeInv` joins `NoLostWake` with `PendingIsInFlight`: while the
  engine takes wakes, a set `pending` stands for a wake that is queued or about
  to be. A worker that finds `pending` set may rely on that wake precisely
  because `taken` clears the flag before the results are taken in.
- *Updates.* `UpdatesInv` adds to the two properties that listeners are told
  only while the engine tells, that nobody has heard of a revision to come, and
  that between the run of a command and its reply its effect is published.
- *Arrival.* `OrderInv` follows a query from the channel to its answer:
  `Located` (what is queued is in the channel, once), `InOrder` (the channel keeps
  the order of arrival), `RunsInOrder` (so does the job at hand) and `SeenInOrder`
  (what the query was run on is what had arrived). `StopInv` says the channel
  holds one stop at most, and what was ahead of it is in front of it or run.
- *Decisions.* `SessionInv` ties what the session knows (`pending`) to what was
  asked (`issued`): a pending confirmation is a recorded, undecided question
  about the open instance (`PendingIsAsked`), no question is about drafts still
  to come, and the undecided one about today's drafts is the pending one
  (`QuestionsArePast`). An accepted decision is then about a question whose
  revision is today's, and so about today's drafts.
- *Refinement.* Under the same invariant, opening and closing, writing, asking
  and deciding map to the steps of `CloseConsent`; facts and refused calls
  stutter.
- *Windows.* `TargetKeepsSession` shows that every step of a toolkit is a step of
  `UiSession` or leaves the session alone, so the session's invariant holds under
  it. `WindowInv` adds `Held` (saves are of windows that were opened, and one
  handler finishes at a time), `Consented` (a save that may close a window runs on
  a consent), `Blocking` (what blocks a window, and what its dialog is about) and
  `Listing` (the list is of the open windows).
- *Subscriptions.* `SubsInv` says that what the subscriptions know and what is
  on its way are the same: `TicketsArePast` (no ticket is of a version to come,
  so the next version is new), `RequestsAreOnce` (so an answered request is
  nowhere else), `OneLiveRequest` (what is not cancelled is the request in
  flight) and `InFlightIsComing` (the request in flight is not cancelled and is
  between the lock and the engine, queued, or with its provider). A refresh may
  replace any number of requests at once and a request one, so both rest on one
  lemma about a set of subscriptions that ask anew (`Renewed`).
- *Views.* `ViewsInv` follows a request to the view: `TicketsFit` (a current
  request asks for the current parameters and is not cancelled), `StatesFit` (a
  state that is on its way is the session's if it has its version), `LastComes`
  (a view shows the session's state or that state is still to come, and what comes
  after it in the inbox does not undo it) and `AnswersFit` (an answer that is
  shown is to the last parameters, and saw the current state or is about to be
  asked again).
- *Link.* `LinkTypeOK` also says at which steps a connection's thread can be. On
  it rest five inductive invariants, each one about what two sides will agree on
  once what is on its way has arrived or was lost.
  - `Single` follows a command: it is in one message, in one place of the queue or
    has run once, and a result on its way is of a command that ran. Nothing that
    closes or crashes makes a second copy, so `OutcomesAreTrue`.
  - `Handshakes` is the protocol of a connection: its messages are on the way once
    and in their order (`Ordered`), no stage is under way before the one it needs
    (`Staged`), and the page knows the session its connection serves or is about to
    be told (`Known`). `Apart` adds that a session that is asked for is held by
    nobody, that two connections never resume the same one, and that a new session's
    name is new. `SessionsAreOwn` needs all of it: `Resumable` is checked a step
    before `Register`, and only `Apart` says nothing happens to that session between.
  - `Reported`: the last report on its way is of the windows that are open or, when
    none is on its way, the host lists them. It is kept by a page that has a session,
    so `Known` is needed to say when it has.
  - `Mirrors` says that what a value lacks is coming. For the mirror, for each
    `State` on its way and for the snapshot a thread holds (`Mirrored`, `Stated`,
    `Taken`), a field is what the engine has if its last change is not newer, and
    otherwise an update with that change is behind it in the channel or will be told
    to this listener after all that is on its way (`Coming`). `Queue` says that
    updates and answers come in the order of what they are about, `Listens` that who
    took or shows a snapshot is a listener and is connected to the engine that runs,
    `Overtaken` that what is excepted was told between a snapshot and its `State`
    and that no older handshake of the connection is under way, `Untouched` that a
    connection that did not say hello is owed nothing. An engine that restarts ends
    `Current`, and with it what these say of the old engine's messages. A connection
    whose queue is empty while the engine is idle has nothing coming, so
    `MirrorFollows`; a result at the head of the queue is not older than what
    the mirror has and nothing it lacks can be behind it, so `RepliesFollowMirror`.
  - `CarriesOver` is about the players of the page's windows, while nothing raced
    (`races = {}`). A connection that serves the page either was told nothing of
    windows and players yet and the hub has none (`Bare`), or is `Placed`: a window
    has one player, in the hub or asked for by one message on its way, and it is one
    the page has or one whose release is behind it in the same channel. `Bare` turns
    into `Placed` with `SessionOpened`, when the page tells all it shows again. A
    creation therefore never meets its own player, and the link never fails.
    `Covered` says that the windows were reported before their players were created,
    so the end of a connection releases every player; it needs the order of the two
    messages, and that only one connection lives. `Handshakes` says to which session
    the page speaks.
- *Players.* `Inductive` of `MediaHubInvariants` is kept as a whole, by one lemma for
  each of its parts.
  - Order comes from numbers: `Numbered` says that requests rise in what a thread
    hands over and in every inbox, and that what is still handed over is newer than
    all of them and than what is loaded. The send lock is what makes it inductive:
    a request gets its number under the lock and is handed over before it is let go,
    so that no two threads hand over at once. `RequestsInOrder` follows.
  - `Members`, `TakenOver`, `Unrun` and `Emptied` are about who runs players: the
    router knows the pages whose threads are between attaching and leaving; while it
    has pages it runs the players, or a thread is about to hand them to it; one
    thread at most gives it up, and it has no pages then; a page that left has
    nothing. `OthersTakeOver` follows, and what excepts it (`raced`) is a page or the
    device that attaches while a thread gives the router up or takes it.
  - `Addressed` and `Owned` are about where requests go: what is being handed over is
    for who runs the player now (again by the send lock, which `Attached` and
    `Release` take too), and a window's player is in its own page alone.
  - `Awaited` joins to an accepted request its entry in `pending` and a place: in the
    sending thread, in an inbox or performed later. An executor that goes takes the
    place away, so the router's leaving must answer, load again or be recorded in
    `lost`.
  - `Fresh` says that whatever an executor has, will load or has reported of a player
    is of an older version than the hub's, or of the same version and the same load.
    A report passes the comparison of versions only in the second case, so
    `ReportsAreCurrent`. `reborn` excepts a player whose versions start over.
  - `Loaded` adds that no request but `control` follows the load of the present source
    in any inbox, so what is loaded stays loaded, and that the holder has it, or will
    once it gets to it. `RoutedToHolder` is that, for who gets the next request.
- *Modules.* What runs is closed under dependencies and holds what always runs
  (`Sound`): `SwitchedOn` adds a closure, `SwitchedOff` takes away one of the
  reverse relation, and the assumption keeps it off what always runs. For
  `PublishedIsCurrent`, `Current` says at each point of a job which parts the
  published state may still lag behind: after a wake, none but the parts that say
  they changed, unless commands followed.
- *Rings.* `OwnSlots`: records less than a ring apart have slots of their own
  (the one piece of modular arithmetic). With it, `Filled` (what is between tail
  and head is in its slots, and fits), `Writing` (a thread that found room still
  has it, since only the reader moves tail, and forward), `Reading` (what is read
  is between them), `Owned` (who records has a ring), `Locked` (what is read is
  registered and read by who holds the lock) and `Unlost` (a ring that nobody has
  was read, or is of another session). `SlotsAreSafe` and `NothingIsLost` follow
  for any capacity, and any number of threads, callers and sessions.
- *Drops.* A sum over a set of rings is a fold in an order nobody knows. It is the
  size of a set with one element for each dropped record (`SumsCountUnits`): both
  satisfy the equation that defines the fold, and a smallest set that tells them
  apart would give a smaller one. Sums then add and grow as sizes do. `Counted` joins
  to `Inv`: `Retained` (`retired` is what the rings of the session dropped that are
  gone), `Summed` (`sum` is at most what the rings that were read dropped, and with
  them, those to be read and those gone the session dropped no less than when the
  copy was made), `Registered` and `Unused` (a thread gets a ring of a session once,
  and a new one), and `Overfull` (who dropped was full). The last is needed where a
  ring goes although its thread has it: it was registered after the copy, so nothing
  was read from it, and is empty, so it was never full and dropped nothing.
- *Requests of entries.* `Places` (where a thread or a connection can be),
  `Awaited` (`PendingIsAwaited`, with the channel empty as long as something is
  pending) and `Matching` (what the frontend took, performs and completes under an
  id is one request) are inductive with the types. The rest is about what is told:
  `OnTheWay` (what has left its thread for the page is in one place, and only moves
  forward), `Telling` (what is in a channel, in a result or on its way to the host
  is true, and shows the window that was asked for) and `Fitting` (a pending
  request carries the call its entry made). They hold of results in flight, stray
  ones included, because a result keeps the name of the call it answers. What a
  step does to all of them follows from one fact about it (`Flowing`): calls leave
  their threads once, and what was performed stays performed. That an answer is the
  caller's own (`AnswersAreOwnUnlessStrayed`) rests on `Owned`: a message's number
  names the call the connection gave that number to (`Named`), so what waits under
  it, what is on its way and what is told belong to the same call, unless the
  connection is in `strayed`.

Only model-checked: liveness under fairness (`BlockingReturns`, `RequestsEnd`,
`RecordsAreRead`), which is beyond the prover, as is `ENABLED`. The fold
behind `MapThenSumSet` is the one recursive definition a proof relies on, and no
module declares a recursive operator.

## 5. What is not modelled

- The jobs behind a stop are lost in the model as in the code; what a frontend
  does about an engine that is gone is not modelled. A second stop is not, either:
  `Host::stop` sends one however often it is called, the first drops what is
  behind it, and the frontend stops once (`bern_app_stop`).
- `WindowClose` follows one window of an instance. When the page makes a second
  one (`WindowCloseReopen.cfg`), it starts unblocked and without a dialog,
  and what the first still shows is not followed.
- A connection that is lost takes what is under way with it, in `WebLink` and
  `SessionRequests`. The code may still read messages that had arrived later than
  that. An answer among them goes to the session of its own connection, and so to
  its own caller.
- `QuerySubs` has no stopped or poisoned engine of its own: a refused query is an
  answer with an error there. The count of discarded answers is left out.
- The web page's Query view takes whatever arrives last and compares no versions
  (`bern-backend-web/templates/bern.js:4226`), where the native views do. That
  receive, put into the model of the native view, is the mutant `ShowLast`, and it
  breaks `ViewsConverge`: with several threads the comparison is necessary. The
  page has one thread and its callbacks arrive in the order of the answers, so it
  converges; what it may do is show an answer to older parameters as ready while
  the newer request is out.
- `WebLink` leaves out the refusals of the handshake, the media state sent along
  with the engine's, executors, session commands that are forwarded to a page
  (`SessionRequests` has them) and a socket that takes no more (writes
  have no timeout, `bern-transport-ws/src/lib.rs:376`). Its revisions and its
  `Engine` are a cut of `EngineHost`, not an instance of it.
- `MediaHub` leaves out views, replies to callers, volume and muting. A page
  claims players of the application and of its own window only; the code takes any
  id (`channel.rs:515`, 785), so a page could claim a player of another page's
  window; what happens then is not explored. The device stays once it is attached: `bern_media_executor_detached` runs when the
  application ends. `MediaReleaseWindow` is not modelled; the window of a page is
  released when the page leaves.
- `Composite` leaves out queries (what a query sends stays in the thread's outbox
  and is run as if the next command had sent it,
  `bern-command/src/outbox.rs:113`) and panics, which end the engine.
- `TraceRings` is sequentially consistent: loads see the last store. The code
  orders head and tail by release and acquire, and nothing weaker than that is
  looked at. What is made of the records is left out.
- `SessionRequests` leaves out the browser's own control entry
  (`bern-ffi/src/control.rs`), which calls `run` with a reply of its own and no
  timeout, session commands about traces and commands that cannot be parsed, which
  never reach the frontend, and what else a page's messages are about.
- `LocalJobs` (a loop re-entered from its own
  jobs; with threads a job queued as the loop ends would wait for the next one,
  `bern-command/src/lib.rs:280`), clocks, storage and the IPC channel are the
  parts of the run time that are left.
- Validation, encoding, fingerprints and formats of the protocol: each module
  uses values abstractly.
- Layout, widgets, motion, theming, code generation, image processing and the
  command line tool are sequential functions of their input, and most of the
  repository's lines: nothing in them waits, races or fails half way in a way
  that a state machine would show.

## 6. Plan

Done: `EngineHost`, `UiSession`, `CloseConsent`, `WindowClose`, `QuerySubs`,
`WebLink`, `MediaHub`, `Composite`, `TraceRings`, `SessionRequests`, with the
theorems above.

Next, in this order: `LocalJobs`; `write_atomic` against crashes; IPC discovery; the
GPUI toolkit in `WindowClose`; queries of a `Composite`.

Every invariant and every action property the runs check is a theorem; what is proved
next comes with the modules above.
