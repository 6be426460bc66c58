------------------------------ MODULE Composite ------------------------------
(***************************************************************************)
(* An application engine made of its shell and its modules (bern-command/  *)
(* src/composite.rs): which modules run, what the parts send each other    *)
(* while they handle a command or take in background work (outbox.rs),     *)
(* and what the host publishes afterwards (Worker in lib.rs).  One thread  *)
(* runs it, job by job; the steps of a job are the commands it sets off.   *)
(*                                                                         *)
(* What a part does is its own: a new value, and calls and events within   *)
(* what the build lets it reach (bern-compiler/src/config.rs and lib.rs).  *)
(* Queries change nothing and are left out, as are panics, which end it.   *)
(***************************************************************************)
EXTENDS Naturals, Sequences

CONSTANTS
    Shell,
    Modules,
    Order,           \* the modules, as the application lists them
    Depends,         \* per module: those it depends on
    Optional,        \* those that can be switched off
    Values,          \* states of a part
    Start,           \* the state of a new engine
    Idle,            \* the state shown of a module that is off
    FollowUpLimit,   \* commands one command may set off
    MaxSends         \* what a part sends at a time

Parts == {Shell} \cup Modules

\* check_module_order and the types of ModuleEngine.
ASSUME CompositeAssumption ==
    /\ Shell \notin Modules
    /\ Order \in Seq(Modules)
    /\ Depends \in [Modules -> SUBSET Modules]
    /\ Optional \subseteq Modules
    /\ \A m \in Modules \ Optional : Depends[m] \cap Optional = {}
    /\ Start \in Values
    /\ FollowUpLimit \in Nat /\ MaxSends \in Nat

VARIABLES
    on,         \* modules that have an engine
    value,      \* per part: its state
    woken,      \* history: parts whose engine was woken since it started
    quiet,      \* modules whose last wake left their state as it was
    followed,   \* the last wake ran commands
    job,        \* what the engine thread handles
    queue,      \* calls and events still to run
    batch,      \* commands the last of them still runs
    steps,      \* commands set off so far
    published   \* the host's state

vars == <<on, value, woken, quiet, followed, job, queue, batch, steps, published>>

-----------------------------------------------------------------------------
(* Switching modules.                                                      *)

\* The modules that m needs, itself among them: switch_on goes through them.
Needs(m) ==
    {x \in Modules : \A S \in SUBSET Modules :
        m \in S /\ (\A y \in S : Depends[y] \subseteq S) => x \in S}

\* The modules that need m: switch_off goes through them.
NeededBy(m) ==
    {x \in Modules : \A S \in SUBSET Modules :
        m \in S /\ (\A y \in Modules : Depends[y] \cap S # {} => y \in S) => x \in S}

SwitchedOn(running, m) == running \cup Needs(m)

\* Mutant: what depends on m keeps running.
SwitchedOffAlone(running, m) == running \ {m}

\* Only optional modules stop.
SwitchedOff(running, m) == running \ (NeededBy(m) \cap Optional)

Running(p) == p = Shell \/ p \in on

\* Composite::snapshot, the switches apart.
Shown(running, values) ==
    [p \in Parts |-> IF p = Shell \/ p \in running THEN values[p] ELSE Idle]

Snapshot(running, values) ==
    [parts |-> Shown(running, values), modules |-> running \cap Optional]

\* Composite::new: what always runs, what the user chose, and what these need.
Init ==
    /\ \E chosen \in SUBSET Optional :
          on = UNION {Needs(m) : m \in chosen \cup (Modules \ Optional)}
    /\ value = [p \in Parts |-> Start]
    /\ woken = {}
    /\ quiet = {}
    /\ followed = FALSE
    /\ job = "none"
    /\ queue = <<>>
    /\ batch = {}
    /\ steps = 0
    /\ published = Snapshot(on, value)

-----------------------------------------------------------------------------
(* What parts send.                                                        *)

UpTo(n, S) == UNION {[1 .. k -> S] : k \in 0 .. n}

\* Calls go to what a module depends on, and from the shell to any module and
\* to the switch; events come from modules.
Sendable(p) ==
    IF p = Shell
    THEN [type : {"call"}, to : Modules]
             \cup [type : {"switch"}, module : Modules, enabled : BOOLEAN]
    ELSE [type : {"call"}, to : Depends[p]] \cup [type : {"event"}, from : {p}]

Sent(parts) == UpTo(MaxSends, UNION {Sendable(p) : p \in parts})

\* An event reaches the shell and the running modules that depend on its module.
Answers(p, from) == p = Shell \/ (p \in on /\ from \in Depends[p])

\* resolve: the commands that a call or an event runs.
Resolved(s) ==
    IF s.type = "event"
    THEN {[type |-> "call", to |-> p] : p \in {q \in Parts : Answers(q, s.from)}}
    ELSE {s}

\* The commands of a batch run in catalog order, the shell's first.
First(c) ==
    \A d \in batch \ {c} :
        \/ c.to = Shell
        \/ \E i, j \in DOMAIN Order : Order[i] = c.to /\ Order[j] = d.to /\ i < j

-----------------------------------------------------------------------------
(* One command: of a part, or the switch.  `sends` is what is left in the  *)
(* outbox.                                                                 *)

\* run: a module that is off refuses, with nothing sent.
RunPart(p, sends) ==
    /\ IF Running(p)
       THEN /\ \E v \in Values : value' = [value EXCEPT ![p] = v]
            /\ sends \in Sent({p})
       ELSE sends = <<>> /\ UNCHANGED value
    /\ UNCHANGED <<on, woken, quiet>>

\* set_enabled: engines that start are woken once, and the shell is told.
SetEnabled(m, enabled, sends) ==
    LET after == IF m \notin Optional THEN on
                 ELSE IF enabled THEN SwitchedOn(on, m)
                 ELSE SwitchedOff(on, m)
        started == after \ on
        touched == IF after = on THEN {} ELSE started \cup {Shell}
    IN /\ on' = after
       /\ \E change \in [touched -> Values] :
             value' = [p \in Parts |-> IF p \in touched THEN change[p]
                                       ELSE IF p \in on \ after THEN Start ELSE value[p]]
       /\ woken' = (woken \cap (after \cup {Shell})) \cup started
       /\ quiet' = quiet \cap on \cap after
       /\ sends \in Sent(touched)

RunCommand(c, sends) ==
    IF c.type = "switch" THEN SetEnabled(c.module, c.enabled, sends)
    ELSE RunPart(c.to, sends)

Commands ==
    [type : {"call"}, to : Parts] \cup [type : {"switch"}, module : Modules, enabled : BOOLEAN]

-----------------------------------------------------------------------------
(* Jobs of the host.                                                       *)

\* invoke: what a failing command sent is dropped.  The host starts with a wake.
Invoke(c) ==
    /\ job = "none"
    /\ Shell \in woken
    /\ job' = "command"
    /\ \E sends \in Sent(Parts) :
          /\ RunCommand(c, sends)
          /\ queue' \in {sends, <<>>}
    /\ UNCHANGED <<followed, batch, steps, published>>

\* Mutant: only the shell's own sends count.
SentNothing(sends) == \A i \in DOMAIN sends : sends[i].type # "switch"

Nothing(sends) == sends = <<>>

\* wake: every part takes in what its background work left.
Wake ==
    /\ job = "none"
    /\ job' = "wake"
    /\ \E change \in [on \cup {Shell} -> Values] :
          /\ value' = [p \in Parts |-> IF Running(p) THEN change[p] ELSE value[p]]
          /\ quiet' \in SUBSET {m \in on : change[m] = value[m]}
    /\ woken' = on \cup {Shell}
    /\ \E sends \in Sent(on \cup {Shell}) :
          /\ queue' = sends
          /\ followed' = ~Nothing(sends)
    /\ UNCHANGED <<on, batch, steps, published>>

\* follow: the next call or event, when the last one's commands have run ...
Follow ==
    /\ batch = {}
    /\ queue # <<>>
    /\ batch' = Resolved(Head(queue))
    /\ queue' = Tail(queue)
    /\ UNCHANGED <<on, value, woken, quiet, followed, job, steps, published>>

\* ... the commands one by one; what they send, failing or not, runs after.
FollowUp ==
    /\ steps < FollowUpLimit
    /\ steps' = steps + 1
    /\ \E c \in batch, sends \in Sent(Parts) :
          /\ First(c)
          /\ RunCommand(c, sends)
          /\ batch' = batch \ {c}
          /\ queue' = queue \o sends
    /\ UNCHANGED <<followed, job, published>>

\* Beyond the limit the rest is dropped as a loop.
DropLoop ==
    /\ batch # {}
    /\ steps = FollowUpLimit
    /\ queue' = <<>>
    /\ batch' = {}
    /\ UNCHANGED <<on, value, woken, quiet, followed, job, steps, published>>

\* woken_fields: the shell, and the modules that took something in.
WokenFields == {Shell} \cup (on \ quiet)

\* After a job the host publishes the state, after a wake that set nothing off
\* the fields that may have changed (Worker::wake, publish).
Publish ==
    /\ job # "none"
    /\ queue = <<>> /\ batch = {}
    /\ LET now == Snapshot(on, value)
       IN published' = IF job = "wake" /\ ~followed
                       THEN [parts |-> [p \in Parts |-> IF p \in WokenFields
                                                          THEN now.parts[p]
                                                          ELSE published.parts[p]],
                             modules |-> published.modules]
                       ELSE now
    /\ job' = "none"
    /\ followed' = FALSE
    /\ steps' = 0
    /\ UNCHANGED <<on, value, woken, quiet, queue, batch>>

Next ==
    \/ \E c \in Commands : Invoke(c)
    \/ Wake
    \/ Follow
    \/ FollowUp
    \/ DropLoop
    \/ Publish

Spec == Init /\ [][Next]_vars

-----------------------------------------------------------------------------

\* Whatever was sent, switched and followed up: what a running module depends
\* on runs, what always runs runs, and every engine was woken after it started
\* ("switching one off switches off the modules depending on it",
\* bern-protocol/src/compose.rs:207).
DependenciesRun ==
    /\ \A m \in on : Depends[m] \subseteq on
    /\ Modules \ Optional \subseteq on
    /\ Shell \in woken => on \subseteq woken

\* Between jobs the host shows the state of every part and which modules run,
\* although a wake publishes only what its parts say they took in (wake,
\* woken_fields).
PublishedIsCurrent == job = "none" => published = Snapshot(on, value)

=============================================================================
