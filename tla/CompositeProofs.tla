--------------------------- MODULE CompositeProofs ---------------------------
(***************************************************************************)
(* Proofs about Composite, for any modules, dependencies, values and       *)
(* bounds: what runs is closed under dependencies, and what is published   *)
(* is the state of every part.                                             *)
(***************************************************************************)
EXTENDS Composite, SequenceTheorems, TLAPS

-----------------------------------------------------------------------------
(* Switching.                                                               *)

\* Every set of modules closed under dependencies.
Closed(S) == S \subseteq Modules /\ \A m \in S : Depends[m] \subseteq S

\* What always runs, with all it depends on: switching keeps both.
Sound(S) == Closed(S) /\ Modules \ Optional \subseteq S

\* What a module needs contains it and is closed.
LEMMA NeedsClosed ==
    ASSUME NEW m \in Modules
    PROVE  m \in Needs(m) /\ Closed(Needs(m))
<1>1. m \in Needs(m)
  BY DEF Needs
<1>2. ASSUME NEW x \in Needs(m), NEW y \in Depends[x] PROVE y \in Needs(m)
  <2>1. x \in Modules /\ y \in Modules
    BY <1>2, CompositeAssumption DEF Needs
  <2>2. ASSUME NEW S \in SUBSET Modules, m \in S, \A z \in S : Depends[z] \subseteq S
        PROVE  y \in S
    <3>1. x \in S
      BY <2>2 DEF Needs
    <3> QED
      BY <2>2, <3>1, <1>2
  <2> QED
    BY <2>1, <2>2 DEF Needs
<1> QED
  BY <1>1, <1>2 DEF Closed, Needs

\* What depends on something that needs m needs m.
LEMMA NeededByClosed ==
    ASSUME NEW m \in Modules, NEW x \in Modules, NEW y \in Depends[x], y \in NeededBy(m)
    PROVE  x \in NeededBy(m)
<1>1. ASSUME NEW S \in SUBSET Modules, m \in S,
             \A z \in Modules : Depends[z] \cap S # {} => z \in S
      PROVE  x \in S
  <2>1. y \in S
    BY <1>1 DEF NeededBy
  <2> QED
    BY <1>1, <2>1
<1> QED
  BY <1>1 DEF NeededBy

\* Starting a module and what it needs keeps the running modules sound.
LEMMA OnSound ==
    ASSUME NEW S, Sound(S), NEW m \in Modules
    PROVE  Sound(SwitchedOn(S, m))
BY NeedsClosed DEF Sound, Closed, SwitchedOn

\* Stopping a module with all that needs it keeps them sound: what always runs
\* depends on nothing that stops.
LEMMA OffSound ==
    ASSUME NEW S, Sound(S), NEW m \in Modules
    PROVE  Sound(SwitchedOff(S, m))
<1> DEFINE rest == SwitchedOff(S, m)
<1>1. ASSUME NEW x \in rest, NEW y \in Depends[x] PROVE y \in rest
  <2>1. x \in S /\ x \in Modules /\ y \in S
    BY <1>1 DEF Sound, Closed, SwitchedOff
  <2>2. SUFFICES ASSUME y \in NeededBy(m), y \in Optional PROVE FALSE
    BY <2>1 DEF SwitchedOff
  <2>3. x \in NeededBy(m)
    BY <2>1, <2>2, <1>1, NeededByClosed
  <2>4. x \notin Optional
    BY <1>1, <2>3 DEF SwitchedOff
  <2> QED
    BY <2>1, <2>2, <2>4, <1>1, CompositeAssumption
<1>2. rest \subseteq Modules /\ Modules \ Optional \subseteq rest
  BY DEF Sound, Closed, SwitchedOff
<1> QED
  BY <1>1, <1>2 DEF Sound, Closed

-----------------------------------------------------------------------------
(* What runs.                                                               *)

\* What runs is sound and, after the host's first wake, awake.
Runs == Sound(on) /\ (Shell \in woken => on \subseteq woken)

\* At first what always runs is on, with what it depends on.
LEMMA InitRuns == Init => Runs
<1> SUFFICES ASSUME Init PROVE Runs
  OBVIOUS
<1>1. PICK chosen \in SUBSET Optional :
         on = UNION {Needs(m) : m \in chosen \cup (Modules \ Optional)}
  BY DEF Init
<1>2. chosen \cup (Modules \ Optional) \subseteq Modules
  BY CompositeAssumption
<1>3. Sound(on)
  BY <1>1, <1>2, NeedsClosed DEF Sound, Closed
<1> QED
  BY <1>3 DEF Runs, Init

\* The switch keeps what runs sound, and wakes what it starts.
LEMMA SwitchRuns ==
    ASSUME Runs, NEW m \in Modules, NEW enabled \in BOOLEAN, NEW sends,
           SetEnabled(m, enabled, sends)
    PROVE  Runs'
<1> DEFINE after == IF m \notin Optional THEN on
                    ELSE IF enabled THEN SwitchedOn(on, m)
                    ELSE SwitchedOff(on, m)
<1>1. on' = after /\ woken' = (woken \cap (after \cup {Shell})) \cup (after \ on)
  BY DEF SetEnabled
<1>2. Sound(after)
  BY OnSound, OffSound DEF Runs
<1> HIDE DEF after
<1>3. Shell \notin after
  BY <1>2, CompositeAssumption DEF Sound, Closed
<1>4. Shell \in woken' => on' \subseteq woken'
  BY <1>1, <1>3 DEF Runs
<1> QED
  BY <1>1, <1>2, <1>4 DEF Runs

\* No command, a switch included, leaves a part on without its dependencies.
LEMMA CommandRuns ==
    ASSUME Runs, NEW c \in Commands, NEW sends, RunCommand(c, sends)
    PROVE  Runs'
<1>1. CASE c.type = "switch"
  <2>1. c.module \in Modules /\ c.enabled \in BOOLEAN
    BY <1>1 DEF Commands
  <2> QED
    BY <1>1, <2>1, SwitchRuns DEF RunCommand
<1>2. CASE c.type # "switch"
  BY <1>2 DEF RunCommand, RunPart, Runs, Sound, Closed
<1> QED
  BY <1>1, <1>2

-----------------------------------------------------------------------------
(* What is sent.                                                            *)

\* Calls, events and switches of any part.
Pending == UNION {Sendable(p) : p \in Parts}

\* What a part sends is a sequence of calls, events and switches.
LEMMA SentTyped ==
    ASSUME NEW parts \in SUBSET Parts, NEW sends \in Sent(parts)
    PROVE  sends \in Seq(Pending)
<1> DEFINE S == UNION {Sendable(p) : p \in parts}
<1>1. PICK k \in 0 .. MaxSends : sends \in [1 .. k -> S]
  BY DEF Sent, UpTo
<1>2. sends \in [1 .. k -> Pending]
  BY <1>1 DEF Pending
<1>3. k \in Nat
  BY CompositeAssumption
<1> QED
  BY <1>2, <1>3, SeqDef

\* What was sent becomes commands.
LEMMA ResolvedTyped ==
    ASSUME NEW s \in Pending
    PROVE  Resolved(s) \subseteq Commands
<1>1. CASE s.type = "event"
  BY <1>1 DEF Resolved, Commands
<1>2. CASE s.type # "event"
  <2>1. PICK p \in Parts : s \in Sendable(p)
    BY DEF Pending
  <2>2. CASE p = Shell
    BY <1>2, <2>1, <2>2 DEF Sendable, Commands, Resolved, Parts
  <2>3. CASE p # Shell
    <3>1. p \in Modules /\ Depends[p] \subseteq Parts
      BY <2>3, CompositeAssumption DEF Parts
    <3>2. s \in [type : {"call"}, to : Depends[p]]
      BY <1>2, <2>1, <2>3 DEF Sendable
    <3> QED
      BY <1>2, <3>1, <3>2 DEF Commands, Resolved
  <2> QED
    BY <2>2, <2>3
<1> QED
  BY <1>1, <1>2

\* Types of what a job still has to run.
Waiting == queue \in Seq(Pending) /\ batch \subseteq Commands

\* At first nothing waits.
LEMMA InitWaiting == Init => Waiting
BY EmptySeq DEF Init, Waiting

\* What waits stays of its type.
LEMMA NextWaiting == Runs /\ Waiting /\ [Next]_vars => Waiting'
<1> SUFFICES ASSUME Runs, Waiting, [Next]_vars PROVE Waiting'
  OBVIOUS
<1> USE DEF Waiting
<1>1. ASSUME NEW c \in Commands, Invoke(c) PROVE Waiting'
  <2>1. PICK sends \in Sent(Parts) : queue' \in {sends, <<>>}
    BY <1>1 DEF Invoke
  <2> QED
    BY <1>1, <2>1, SentTyped, EmptySeq DEF Invoke
<1>2. CASE Wake
  <2>1. on \cup {Shell} \subseteq Parts
    BY DEF Parts, Runs, Sound, Closed
  <2> QED
    BY <1>2, <2>1, SentTyped DEF Wake
<1>3. CASE Follow
  <2>1. Head(queue) \in Pending /\ Tail(queue) \in Seq(Pending)
    BY <1>3, HeadTailProperties DEF Follow
  <2> QED
    BY <1>3, <2>1, ResolvedTyped DEF Follow
<1>4. CASE FollowUp
  <2>1. PICK c \in batch, sends \in Sent(Parts) : batch' = batch \ {c} /\ queue' = queue \o sends
    BY <1>4 DEF FollowUp
  <2>2. sends \in Seq(Pending)
    BY SentTyped
  <2> QED
    BY <2>1, <2>2, ConcatProperties
<1>5. CASE DropLoop
  BY <1>5, EmptySeq DEF DropLoop
<1>6. CASE Publish
  BY <1>6 DEF Publish
<1>7. CASE UNCHANGED vars
  BY <1>7 DEF vars
<1> QED
  BY <1>1, <1>2, <1>3, <1>4, <1>5, <1>6, <1>7 DEF Next

\* Every step keeps the running parts closed under dependencies.
LEMMA NextRuns == Runs /\ Waiting /\ [Next]_vars => Runs'
<1> SUFFICES ASSUME Runs, Waiting, [Next]_vars PROVE Runs'
  OBVIOUS
<1>1. ASSUME NEW c \in Commands, Invoke(c) PROVE Runs'
  BY <1>1, CommandRuns DEF Invoke
<1>2. CASE Wake
  BY <1>2 DEF Wake, Runs, Sound, Closed
<1>3. CASE FollowUp
  <2>1. PICK c \in batch, sends \in Sent(Parts) : RunCommand(c, sends)
    BY <1>3 DEF FollowUp
  <2> QED
    BY <2>1, CommandRuns DEF Waiting
<1>4. ASSUME UNCHANGED <<on, woken>> PROVE Runs'
  BY <1>4 DEF Runs, Sound, Closed
<1>5. CASE Follow \/ DropLoop \/ Publish \/ UNCHANGED vars
  BY <1>4, <1>5 DEF Follow, DropLoop, Publish, vars
<1> QED
  BY <1>1, <1>2, <1>3, <1>5 DEF Next

\* What a running module depends on runs, whatever was sent, switched and
\* followed up (composite.rs:279-317).
THEOREM DependenciesAlwaysRun == Spec => []DependenciesRun
<1>1. Init => Runs /\ Waiting
  BY InitRuns, InitWaiting
<1>2. Runs /\ Waiting /\ [Next]_vars => (Runs /\ Waiting)'
  BY NextRuns, NextWaiting
<1>3. Runs => DependenciesRun
  BY DEF Runs, Sound, Closed, DependenciesRun
<1> QED
  BY <1>1, <1>2, <1>3, PTL DEF Spec

-----------------------------------------------------------------------------
(* What is published.                                                       *)

\* A wake that set nothing off left nothing to run, and what is published of
\* every part it does not publish again is what that part shows.
Held ==
    /\ queue = <<>> /\ batch = {}
    /\ published.modules = on \cap Optional
    /\ \A p \in Parts \ WokenFields : published.parts[p] = Shown(on, value)[p]

Current ==
    /\ job = "none" =>
          published = Snapshot(on, value) /\ queue = <<>> /\ batch = {} /\ followed = FALSE
    /\ job = "wake" /\ ~followed => Held

\* At first the host shows the state of every part.
LEMMA InitCurrent == Init => Current
BY DEF Init, Current

\* Every job ends with the state of every part published.
LEMMA NextCurrent == Runs /\ Waiting /\ Current /\ [Next]_vars => Current'
<1> SUFFICES ASSUME Runs, Waiting, Current, [Next]_vars PROVE Current'
  OBVIOUS
<1>1. ASSUME NEW c \in Commands, Invoke(c) PROVE Current'
  BY <1>1 DEF Invoke, Current
<1>2. CASE Wake
  <2>1. PICK change \in [on \cup {Shell} -> Values] :
           /\ value' = [p \in Parts |-> IF Running(p) THEN change[p] ELSE value[p]]
           /\ quiet' \in SUBSET {m \in on : change[m] = value[m]}
    BY <1>2 DEF Wake
  <2>2. SUFFICES ASSUME ~followed' PROVE Held'
    BY <1>2 DEF Wake, Current
  <2>3. queue' = <<>> /\ batch' = {}
    BY <1>2, <2>2 DEF Wake, Nothing, Current
  <2>4. published' = Snapshot(on, value) /\ on' = on
    BY <1>2 DEF Wake, Current
  <2>5. ASSUME NEW p \in Parts \ WokenFields' PROVE published'.parts[p] = Shown(on, value)'[p]
    <3>1. p # Shell /\ (p \in on => p \in quiet')
      BY <2>4, <2>5 DEF WokenFields
    <3>2. p \in on => value'[p] = value[p]
      BY <2>1, <2>5, <3>1 DEF Running
    <3> QED
      BY <2>4, <2>5, <3>1, <3>2 DEF Snapshot, Shown
  <2> QED
    BY <2>3, <2>4, <2>5 DEF Held, Snapshot
<1>3. CASE Follow
  BY <1>3 DEF Follow, Current, Held
<1>4. CASE FollowUp
  BY <1>4 DEF FollowUp, Current, Held
<1>5. CASE DropLoop
  BY <1>5 DEF DropLoop, Current, Held
<1>6. CASE Publish
  <2>1. CASE job = "wake" /\ ~followed
    <3>1. \A p \in Parts : (IF p \in WokenFields THEN Snapshot(on, value).parts[p]
                                                  ELSE published.parts[p])
                           = Shown(on, value)[p]
      BY <2>1 DEF Current, Held, Snapshot
    <3>2. published' = Snapshot(on, value)
      BY <1>6, <2>1, <3>1 DEF Publish, Current, Held, Snapshot, Shown
    <3> QED
      BY <1>6, <3>2 DEF Publish, Current, Snapshot, Shown
  <2>2. CASE ~(job = "wake" /\ ~followed)
    BY <1>6, <2>2 DEF Publish, Current, Snapshot, Shown
  <2> QED
    BY <2>1, <2>2
<1>7. CASE UNCHANGED vars
  BY <1>7 DEF vars, Current, Held, Snapshot, Shown, WokenFields
<1> QED
  BY <1>1, <1>2, <1>3, <1>4, <1>5, <1>6, <1>7 DEF Next

\* Between jobs the host shows the state of every part (composite.rs:425-463).
THEOREM PublishedAlwaysCurrent == Spec => []PublishedIsCurrent
<1>1. Init => Runs /\ Waiting /\ Current
  BY InitRuns, InitWaiting, InitCurrent
<1>2. Runs /\ Waiting /\ Current /\ [Next]_vars => (Runs /\ Waiting /\ Current)'
  BY NextRuns, NextWaiting, NextCurrent
<1>3. Current => PublishedIsCurrent
  BY DEF Current, PublishedIsCurrent
<1> QED
  BY <1>1, <1>2, <1>3, PTL DEF Spec

=============================================================================
