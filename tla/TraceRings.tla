----------------------------- MODULE TraceRings -----------------------------
(***************************************************************************)
(* Performance tracing (bern-command/src/trace): threads that record into  *)
(* rings of their own (ring.rs), callers that start, stop and report a     *)
(* session (mod.rs), and the bern-trace thread that reads the rings while  *)
(* one runs.  A ring has one writer and one reader and no lock; the        *)
(* registry of rings and the state of the session have one each.           *)
(*                                                                         *)
(* A record is known by the number it gets in its ring, from 1.  Loads see *)
(* the last store; rules, texts and what is made of the records are left   *)
(* out.                                                                    *)
(***************************************************************************)
EXTENDS Naturals, FiniteSets, FiniteSetsExt

CONSTANTS
    Threads,      \* threads that record
    Callers,      \* threads that start, stop and report
    Capacity,     \* records a ring holds
    MaxRecords,   \* bound: records each thread makes in a session
    MaxSessions   \* bound: sessions started

ASSUME TraceAssumption ==
    /\ Capacity \in Nat /\ Capacity >= 2
    /\ MaxRecords \in [Threads -> Nat] /\ MaxSessions \in Nat
    /\ IsFiniteSet(Threads) /\ IsFiniteSet(Callers)
    /\ "collector" \notin Callers /\ "none" \notin Callers

Sessions == 1 .. MaxSessions

\* A thread has one ring per session.
Rings == Threads \X Sessions

VARIABLES
    mask,       \* MASK is not 0
    session,    \* SESSION and the registry's
    rings,      \* the registry's rings
    retired,    \* its count of what rings dropped that are gone
    running,    \* the session State has a Collector for, or 0
    ring,       \* per ring: head, tail, dropped and slots
    local,      \* per thread: the session of its ring, or 0
    thread,     \* per thread: where it is in record()
    caller,     \* per caller: where it is in start(), stop() or report()
    collector,  \* where the bern-trace thread is
    token,      \* it was unparked
    reader,     \* who holds the lock of State, and where it is in drain()
    sum,        \* what drain has summed up
    before,     \* history: what had been dropped when drain began
    forsaken    \* history: rings the registry lost while their thread had them

ringVars == <<session, rings, retired, ring, local>>
sessionVars == <<mask, running>>
readerVars == <<reader, sum, before, forsaken>>
vars == <<ringVars, thread, sessionVars, caller, collector, token, readerVars>>

\* Slots that were never written hold 0.
NewRing == [head |-> 0, tail |-> 0, dropped |-> 0,
            slots |-> [i \in 0 .. Capacity - 1 |-> 0]]
NoRing == <<>>
Idle == [at |-> "idle", session |-> 0, half |-> FALSE]
Unlocked == [by |-> "none", held |-> {}, left |-> {}, ring |-> NoRing, to |-> 0]

Init ==
    /\ mask = FALSE
    /\ session = 0
    /\ rings = {}
    /\ retired = 0
    /\ running = 0
    /\ ring = [r \in Rings |-> NewRing]
    /\ local = [t \in Threads |-> 0]
    /\ thread = [t \in Threads |-> Idle]
    /\ caller = [c \in Callers |-> "idle"]
    /\ collector = "none"
    /\ token = FALSE
    /\ reader = Unlocked
    /\ sum = 0 /\ before = 0
    /\ forsaken = {}

-----------------------------------------------------------------------------
(* Threads that record.                                                    *)

\* unpark, of a thread that exists.
Unparks(when) == token' = (token \/ (when /\ collector # "none"))

Own(t) == <<t, local[t]>>

\* on(): the thread found tracing on.
Record(t) ==
    /\ thread[t] = Idle
    /\ mask
    /\ local[t] = session => ring[Own(t)].head + ring[Own(t)].dropped < MaxRecords[t]
    /\ thread' = [thread EXCEPT ![t].at = "session"]
    /\ UNCHANGED <<ringVars, sessionVars, caller, collector, token, readerVars>>

\* push: its ring is one of the current session, or is to be made.
ReadSession(t) ==
    /\ thread[t].at = "session"
    /\ thread' = [thread EXCEPT ![t].session = session,
                                ![t].at = IF local[t] = session THEN "push" ELSE "register"]
    /\ UNCHANGED <<ringVars, sessionVars, caller, collector, token, readerVars>>

\* The thread lets go of its ring, which is freed when the registry has it not.
LetGo(t) ==
    ring' = IF local[t] # 0 /\ Own(t) \notin rings
            THEN [ring EXCEPT ![Own(t)] = NewRing]
            ELSE ring

\* register, under the lock of the registry: a session that is over gets none.
Register(t) ==
    /\ thread[t].at = "register"
    /\ LetGo(t)
    /\ IF thread[t].session = session
       THEN /\ rings' = rings \cup {<<t, session>>}
            /\ local' = [local EXCEPT ![t] = session]
            /\ thread' = [thread EXCEPT ![t].at = "push"]
       ELSE /\ local' = [local EXCEPT ![t] = 0]
            /\ thread' = [thread EXCEPT ![t] = Idle]
            /\ UNCHANGED rings
    /\ UNCHANGED <<session, retired, sessionVars, caller, collector, token,
                   readerVars>>

\* Mutant: one record too many.
FullLate(used) == used > Capacity

Full(used) == used >= Capacity

\* Ring::push: head is its own, tail what the collector has read.
LoadTail(t) ==
    /\ thread[t].at = "push"
    /\ LET used == ring[Own(t)].head - ring[Own(t)].tail
       IN thread' = [thread EXCEPT ![t].at = IF Full(used) THEN "drop" ELSE "write",
                                   ![t].half = used + 1 >= Capacity \div 2]
    /\ UNCHANGED <<ringVars, sessionVars, caller, collector, token, readerVars>>

Drop(t) ==
    /\ thread[t].at = "drop"
    /\ ring' = [ring EXCEPT ![Own(t)].dropped = @ + 1]
    /\ thread' = [thread EXCEPT ![t] = Idle]
    /\ Unparks(TRUE)
    /\ UNCHANGED <<session, rings, retired, local, sessionVars, caller, collector,
                   readerVars>>

\* The slot is written ...
Write(t) ==
    /\ thread[t].at = "write"
    /\ LET head == ring[Own(t)].head
       IN ring' = [ring EXCEPT ![Own(t)].slots[head % Capacity] = head + 1]
    /\ thread' = [thread EXCEPT ![t].at = "publish"]
    /\ UNCHANGED <<session, rings, retired, local, sessionVars, caller, collector,
                   token, readerVars>>

\* ... before it is published.
Publish(t) ==
    /\ thread[t].at = "publish"
    /\ ring' = [ring EXCEPT ![Own(t)].head = @ + 1]
    /\ thread' = [thread EXCEPT ![t] = Idle]
    /\ Unparks(thread[t].half)
    /\ UNCHANGED <<session, rings, retired, local, sessionVars, caller, collector,
                   readerVars>>

\* The thread ends, and gives up its ring.
End(t) ==
    /\ thread[t] = Idle
    /\ thread' = [thread EXCEPT ![t].at = "over"]
    /\ LetGo(t)
    /\ local' = [local EXCEPT ![t] = 0]
    /\ UNCHANGED <<session, rings, retired, sessionVars, caller, collector,
                   token, readerVars>>

Push(t) ==
    ReadSession(t) \/ Register(t) \/ LoadTail(t) \/ Drop(t) \/ Write(t) \/ Publish(t)

-----------------------------------------------------------------------------
(* Reading the rings: pump_into and ring::drain, by the thread `by`, which *)
(* holds the lock of State.                                                *)

Free == reader.by = "none"

DroppedBy(S) == MapThenSumSet(LAMBDA r : ring[r].dropped, S)

\* All that the threads dropped in this session.
AllDropped == DroppedBy((Threads \X {session}) \ forsaken)

\* The rings of the registry are copied.
CopyRings(by) ==
    /\ Free
    /\ running # 0
    /\ reader' = [Unlocked EXCEPT !.by = by, !.held = rings, !.left = rings]
    /\ sum' = 0
    /\ before' = AllDropped

\* Ring::drain of the next one, as far as it was written.
LoadHead ==
    /\ reader.ring = NoRing
    /\ \E r \in reader.left :
          reader' = [reader EXCEPT !.ring = r, !.to = ring[r].head, !.left = @ \ {r}]
    /\ UNCHANGED <<ringVars, thread, sessionVars, caller, collector, token, sum, before,
                   forsaken>>

\* Its records are read; then their slots are free.
StoreTail ==
    /\ reader.ring # NoRing
    /\ ring' = [ring EXCEPT ![reader.ring].tail = reader.to]
    /\ reader' = [reader EXCEPT !.ring = NoRing, !.to = 0]
    /\ sum' = sum + ring[reader.ring].dropped
    /\ UNCHANGED <<session, rings, retired, local, thread, sessionVars, caller,
                   collector, token, before, forsaken>>

\* Who has a ring: the registry, the copy, and the thread it is of.
StrongCount(r) ==
    1 + (IF r \in reader.held THEN 1 ELSE 0) + (IF local[r[1]] = r[2] THEN 1 ELSE 0)

\* Mutant: a ring goes with its thread, read or not.
KeptWithThread(r) == StrongCount(r) > 2

\* A ring stays while its thread has it, or something in it is unread.
Kept(r) == StrongCount(r) > 2 \/ ring[r].head # ring[r].tail

\* Mutant: what rings dropped goes with them.
RetiredNothing(gone) == 0

RetiredBy(gone) == DroppedBy(gone)

\* What drain says was dropped: dropped - retired + registry.retired, which is
\* one of u64 and wraps where it would be below 0.
Reported == sum + retired

\* The rest of drain: rings of threads that ended go, and what they dropped is
\* kept.
Retire ==
    /\ ~Free
    /\ reader.ring = NoRing /\ reader.left = {}
    /\ LET gone == {r \in rings : ~Kept(r)}
       IN /\ rings' = rings \ gone
          /\ retired' = retired + RetiredBy(gone)
          /\ forsaken' = forsaken \cup {r \in gone : local[r[1]] = r[2]}
    /\ reader' = Unlocked
    /\ sum' = 0 /\ before' = 0
    /\ UNCHANGED <<session, ring, local, thread, mask, token>>

-----------------------------------------------------------------------------
(* Starting, stopping and reporting.                                       *)

Starting == {c \in Callers : caller[c] \in {"start", "begin"}}

\* start and stop: no more records ...
Call(c) ==
    /\ caller[c] = "idle"
    /\ \/ /\ session + Cardinality(Starting) < MaxSessions
          /\ caller' = [caller EXCEPT ![c] = "start"]
          /\ mask' = FALSE
       \/ caller' = [caller EXCEPT ![c] = "stop"] /\ mask' = FALSE
       \/ caller' = [caller EXCEPT ![c] = "report"] /\ UNCHANGED mask
    /\ UNCHANGED <<ringVars, thread, running, collector, token, readerVars>>

After(c) == IF caller[c] = "start" THEN "begin" ELSE "idle"

\* ... then the session there is, with what is left in its rings.  A report
\* reads them too.
Lock(c) ==
    /\ caller[c] \in {"start", "stop", "report"}
    /\ \/ /\ CopyRings(c)
          /\ UNCHANGED caller
       \/ /\ Free /\ running = 0
          /\ caller' = [caller EXCEPT ![c] = After(c)]
          /\ UNCHANGED <<reader, sum, before>>
    /\ UNCHANGED <<ringVars, thread, sessionVars, collector, token, forsaken>>

Finish(c) ==
    /\ reader.by = c
    /\ Retire
    /\ running' = IF caller[c] = "report" THEN running ELSE 0
    /\ caller' = [caller EXCEPT ![c] = After(c)]
    /\ UNCHANGED collector

\* Mutant: the thread that reads is woken before records are made.
ThenUnparking == [begin |-> "unpark", unpark |-> "mask", mask |-> "idle"]

\* What start does after the lock: records are then read.
Then == [begin |-> "mask", mask |-> "unpark", unpark |-> "idle"]

\* begin, and a Collector for the new session.  Rings no thread has are freed.
Begin(c) ==
    /\ caller[c] = "begin"
    /\ Free
    /\ session' = session + 1
    /\ rings' = {}
    /\ retired' = 0
    /\ ring' = [r \in Rings |-> IF local[r[1]] = r[2] THEN ring[r] ELSE NewRing]
    /\ forsaken' = {}
    /\ running' = session + 1
    /\ caller' = [caller EXCEPT ![c] = Then["begin"]]
    /\ UNCHANGED <<local, thread, mask, collector, token, reader, sum, before>>

SetMask(c) ==
    /\ caller[c] = "mask"
    /\ mask' = TRUE
    /\ caller' = [caller EXCEPT ![c] = Then["mask"]]
    /\ UNCHANGED <<ringVars, thread, running, collector, token, readerVars>>

StartCollector(c) ==
    /\ caller[c] = "unpark"
    /\ collector' = IF collector = "none" THEN "check" ELSE collector
    /\ token' = TRUE
    /\ caller' = [caller EXCEPT ![c] = Then["unpark"]]
    /\ UNCHANGED <<ringVars, thread, sessionVars, readerVars>>

Runs(c) == Lock(c) \/ Finish(c) \/ Begin(c) \/ SetMask(c) \/ StartCollector(c)

-----------------------------------------------------------------------------
(* The bern-trace thread.                                                  *)

\* While nothing is recorded it waits to be woken, else not for long.
Check ==
    /\ collector = "check"
    /\ collector' = IF mask THEN "timed" ELSE "park"
    /\ UNCHANGED <<ringVars, thread, sessionVars, caller, token, readerVars>>

Wake ==
    /\ collector = "timed" \/ (collector = "park" /\ token)
    /\ collector' = "pump"
    /\ token' = FALSE
    /\ UNCHANGED <<ringVars, thread, sessionVars, caller, readerVars>>

Pump ==
    /\ collector = "pump"
    /\ \/ /\ CopyRings("collector")
          /\ collector' = "drain"
       \/ /\ Free /\ running = 0
          /\ collector' = "check"
          /\ UNCHANGED <<reader, sum, before>>
    /\ UNCHANGED <<ringVars, thread, sessionVars, caller, token, forsaken>>

Pumped ==
    /\ reader.by = "collector"
    /\ Retire
    /\ collector' = "check"
    /\ UNCHANGED <<running, caller>>

Collect == Check \/ Wake \/ Pump \/ Pumped

-----------------------------------------------------------------------------

Next ==
    \/ \E t \in Threads : Record(t) \/ Push(t) \/ End(t)
    \/ \E c \in Callers : Call(c) \/ Runs(c)
    \/ LoadHead \/ StoreTail
    \/ Collect

Spec == Init /\ [][Next]_vars

\* Who reads runs on, and what start, stop and report began is finished.  Nobody
\* has to call them, and a thread may stop anywhere in record().
Fairness ==
    /\ \A c \in Callers : WF_vars(Runs(c))
    /\ WF_vars(LoadHead \/ StoreTail)
    /\ WF_vars(Collect)

FairSpec == Spec /\ Fairness

-----------------------------------------------------------------------------
(* Properties.                                                             *)

RingType == [head : Nat, tail : Nat, dropped : Nat,
             slots : [0 .. Capacity - 1 -> Nat]]
ThreadType ==
    [at : {"idle", "session", "register", "push", "drop", "write", "publish", "over"},
     session : 0 .. MaxSessions, half : BOOLEAN]
ReaderType ==
    [by : Callers \cup {"collector", "none"}, held : SUBSET Rings,
     left : SUBSET Rings, ring : Rings \cup {NoRing}, to : Nat]

\* Every value stays of its type (the statics of ring.rs and mod.rs); sums of
\* dropped records are left out.
TypeOK ==
    /\ mask \in BOOLEAN /\ token \in BOOLEAN
    /\ session \in 0 .. MaxSessions /\ running \in 0 .. MaxSessions
    /\ rings \subseteq Rings /\ forsaken \subseteq Rings
    /\ ring \in [Rings -> RingType]
    /\ local \in [Threads -> 0 .. MaxSessions]
    /\ thread \in [Threads -> ThreadType]
    /\ caller \in [Callers ->
          {"idle", "start", "stop", "report", "begin", "mask", "unpark"}]
    /\ collector \in {"none", "check", "park", "timed", "pump", "drain"}
    /\ reader \in ReaderType

\* What is read of a ring is what was written there: while the reader is at
\* the records from tail to the head it loaded, each slot holds its record, and
\* the thread of the ring, which goes on recording, writes none of them (the
\* SAFETY comments of push and drain).
SlotsAreSafe ==
    reader.ring # NoRing =>
        LET r == reader.ring
        IN \A i \in ring[r].tail .. reader.to - 1 :
              /\ ring[r].slots[i % Capacity] = i + 1
              /\ ~ /\ thread[r[1]].at = "write" /\ local[r[1]] = r[2]
                   /\ ring[r].head % Capacity = i % Capacity

\* A ring of the session that runs is given up only after everything in it was
\* read, whoever ends while drain runs (its retain).  Rings the registry loses
\* while their thread still fills them are excepted: the thread registered
\* between the copy and the retain, and is counted as if it had ended.
NothingIsLost ==
    running # 0 =>
        \A r \in (Threads \X {running}) \ (rings \cup forsaken) :
            ring[r].head = ring[r].tail

\* "Threads that ended leave their ring to the registry and `rings` alone; once
\* read it can go" (ring.rs:200): none of the session that runs is gone unread.
OnlyReadRingsGo ==
    running # 0 =>
        \A r \in (Threads \X {running}) \ rings : ring[r].head = ring[r].tail

\* Each time the rings are read, the session is said to have dropped no fewer
\* records than had been dropped when the reading began and no more than when
\* it ends, although threads drop more meanwhile, and rings go.
DropsAreReported ==
    [][(~Free /\ reader'.by = "none") =>
          /\ before <= Reported
          /\ Reported <= AllDropped]_vars

\* There are records of the session that runs to be read.
Unread ==
    /\ running # 0
    /\ \E r \in (Threads \X {running}) \ forsaken : ring[r].head # ring[r].tail

\* The records of the session that runs are read, unless it is over first: the
\* bern-trace thread does not sleep through them (start_collector and wake).
RecordsAreRead == Unread ~> ~Unread

=============================================================================
