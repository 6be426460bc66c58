-------------------------- MODULE TraceRingsProofs --------------------------
(***************************************************************************)
(* Proofs about TraceRings, for any threads, callers, capacity and bounds: *)
(* its types, that nobody writes what is being read, that no ring goes     *)
(* unread, and that what was dropped is counted once.                      *)
(***************************************************************************)
EXTENDS TraceRings, FiniteSetTheorems, WellFoundedInduction, TLAPS

-----------------------------------------------------------------------------
(* Rings.                                                                  *)

\* What was published and not read is in the slots, and fits them.
Safe(x) ==
    /\ x.tail <= x.head /\ x.head <= x.tail + Capacity
    /\ \A i \in x.tail .. x.head - 1 : x.slots[i % Capacity] = i + 1

\* There is a slot for one more.
Space(x) == x.head < x.tail + Capacity

\* Records that are less than a ring apart have slots of their own.
LEMMA OwnSlots ==
    ASSUME NEW i \in Nat, NEW j \in Nat, i < j, j < i + Capacity
    PROVE  i % Capacity # j % Capacity
<1>1. Capacity \in Nat /\ Capacity > 0
    BY TraceAssumption
<1>2. /\ i = Capacity * (i \div Capacity) + (i % Capacity)
      /\ i \div Capacity \in Int
    BY <1>1
<1>3. /\ j = Capacity * (j \div Capacity) + (j % Capacity)
      /\ j \div Capacity \in Int
    BY <1>1
<1>4. i % Capacity \in Int /\ j % Capacity \in Int
    BY <1>1
<1> DEFINE p == i \div Capacity
           q == j \div Capacity
           m == i % Capacity
<1>5. SUFFICES ASSUME j % Capacity = m PROVE FALSE
    OBVIOUS
<1>6. i = Capacity * p + m /\ j = Capacity * q + m /\ p \in Int /\ q \in Int /\ m \in Int
    BY <1>2, <1>3, <1>4, <1>5
<1> HIDE DEF p, q, m
<1>7. Capacity * (q - p) > 0 /\ Capacity * (q - p) < Capacity
    BY <1>1, <1>6
<1>8. CASE q - p >= 1
    BY <1>1, <1>6, <1>7, <1>8
<1>9. CASE q - p <= 0
    BY <1>1, <1>6, <1>7, <1>9
<1> QED
    BY <1>6, <1>8, <1>9

\* A new ring is empty.
LEMMA Empty == NewRing \in RingType /\ Safe(NewRing) /\ NewRing.head = NewRing.tail
BY TraceAssumption DEF NewRing, RingType, Safe

\* The slot of the next record is not one of those that are read.
LEMMA Written ==
    ASSUME NEW x \in RingType, Safe(x), Space(x)
    PROVE  LET y == [x EXCEPT !.slots[x.head % Capacity] = x.head + 1]
           IN  /\ y \in RingType /\ Safe(y) /\ Space(y)
               /\ y.head = x.head /\ y.tail = x.tail
               /\ y.slots[y.head % Capacity] = y.head + 1
<1> DEFINE slots == [x.slots EXCEPT ![x.head % Capacity] = x.head + 1]
           y == [x EXCEPT !.slots = slots]
<1>1. x.head % Capacity \in 0 .. Capacity - 1 /\ x.head \in Nat /\ x.tail \in Nat
    BY TraceAssumption DEF RingType
<1>2. /\ slots \in [0 .. Capacity - 1 -> Nat]
      /\ slots[x.head % Capacity] = x.head + 1
      /\ \A k \in 0 .. Capacity - 1 : k # x.head % Capacity => slots[k] = x.slots[k]
  <2>1. x.slots \in [0 .. Capacity - 1 -> Nat] /\ x.head + 1 \in Nat
      BY DEF RingType
  <2> DEFINE k == x.head % Capacity
             n == x.head + 1
  <2>2. k \in 0 .. Capacity - 1 /\ n \in Nat
      BY <1>1, <2>1
  <2> HIDE DEF k, n
  <2>3. /\ [x.slots EXCEPT ![k] = n] \in [0 .. Capacity - 1 -> Nat]
        /\ [x.slots EXCEPT ![k] = n][k] = n
        /\ \A l \in 0 .. Capacity - 1 : l # k => [x.slots EXCEPT ![k] = n][l] = x.slots[l]
      BY <2>1, <2>2
  <2> QED
      BY <2>3 DEF k, n
<1> HIDE DEF slots
<1>3. y \in RingType /\ y.head = x.head /\ y.tail = x.tail /\ y.slots = slots
    BY <1>2 DEF RingType
<1> HIDE DEF y
<1>4. ASSUME NEW i \in y.tail .. y.head - 1
      PROVE  y.slots[i % Capacity] = i + 1
  <2>1. i \in Nat /\ i < x.head /\ x.head < i + Capacity
      BY <1>1, <1>3, <1>4, TraceAssumption DEF Space
  <2>2. i % Capacity # x.head % Capacity /\ i % Capacity \in 0 .. Capacity - 1
      BY <1>1, <2>1, OwnSlots, TraceAssumption
  <2>3. x.slots[i % Capacity] = i + 1
      BY <1>3, <1>4 DEF Safe
  <2> QED
      BY <1>2, <1>3, <2>2, <2>3
<1>5. Safe(y) /\ Space(y) /\ y.slots[y.head % Capacity] = y.head + 1
    BY <1>2, <1>3, <1>4 DEF Safe, Space
<1> QED
    BY <1>3, <1>5 DEF y, slots

\* What was written may be published.
LEMMA Published ==
    ASSUME NEW x \in RingType, Safe(x), Space(x),
           x.slots[x.head % Capacity] = x.head + 1
    PROVE  LET y == [x EXCEPT !.head = @ + 1]
           IN  y \in RingType /\ Safe(y) /\ y.tail = x.tail /\ y.head = x.head + 1
<1> DEFINE y == [x EXCEPT !.head = @ + 1]
<1>1. /\ y \in RingType /\ y.head = x.head + 1 /\ y.tail = x.tail
      /\ y.slots = x.slots /\ x.head \in Nat /\ x.tail \in Nat
    BY DEF RingType
<1> HIDE DEF y
<1>2. ASSUME NEW i \in y.tail .. y.head - 1
      PROVE  y.slots[i % Capacity] = i + 1
  <2>1. CASE i = x.head
      BY <1>1, <2>1
  <2>2. CASE i # x.head
    <3>1. i \in x.tail .. x.head - 1
        BY <1>1, <1>2, <2>2
    <3> QED
        BY <1>1, <3>1 DEF Safe
  <2> QED
      BY <2>1, <2>2
<1>3. Safe(y)
    BY <1>1, <1>2, TraceAssumption DEF Safe, Space
<1> QED
    BY <1>1, <1>3 DEF y

\* What was read may be written over.
LEMMA Taken ==
    ASSUME NEW x \in RingType, Safe(x), NEW to \in Nat, x.tail <= to, to <= x.head
    PROVE  LET y == [x EXCEPT !.tail = to]
           IN  /\ y \in RingType /\ Safe(y) /\ y.head = x.head /\ y.slots = x.slots
               /\ Space(x) => Space(y)
<1> DEFINE y == [x EXCEPT !.tail = to]
<1>1. /\ y \in RingType /\ y.head = x.head /\ y.tail = to /\ y.slots = x.slots
      /\ x.head \in Nat /\ x.tail \in Nat
    BY DEF RingType
<1> HIDE DEF y
<1>2. ASSUME NEW i \in y.tail .. y.head - 1
      PROVE  y.slots[i % Capacity] = i + 1
    BY <1>1, <1>2 DEF Safe
<1>3. Safe(y) /\ (Space(x) => Space(y))
    BY <1>1, <1>2, TraceAssumption DEF Safe, Space
<1> QED
    BY <1>1, <1>3 DEF y

-----------------------------------------------------------------------------
(* The invariant.                                                          *)

\* Before the first session nobody records.
Started ==
    session = 0 =>
        /\ ~mask
        /\ \A t \in Threads : thread[t].at \in {"idle", "over"}
        /\ \A c \in Callers : caller[c] \notin {"mask", "unpark"}

\* Every start there is room for.
Bounded == session + Cardinality(Starting) <= MaxSessions

\* What is read is in the registry, by who holds the lock.
Locked ==
    /\ Free => reader = Unlocked
    /\ reader.held \subseteq rings
    /\ reader.left \subseteq reader.held
    /\ reader.ring \in reader.held \cup {NoRing}

\* Who records has a ring, and one of the current session is registered.
Owned ==
    \A t \in Threads :
        /\ local[t] <= session
        /\ thread[t].at \in {"push", "drop", "write", "publish"} => local[t] # 0
        /\ local[t] = session /\ local[t] # 0 => Own(t) \in rings \cup forsaken

Filled == \A r \in Rings : Safe(ring[r])

\* There was a slot when the thread looked, and still is.
Writing ==
    \A t \in Threads :
        thread[t].at \in {"write", "publish"} =>
            LET x == ring[Own(t)]
            IN  /\ Space(x)
                /\ thread[t].at = "publish" => x.slots[x.head % Capacity] = x.head + 1

Reading ==
    reader.ring # NoRing =>
        ring[reader.ring].tail <= reader.to /\ reader.to <= ring[reader.ring].head

\* Rings of the current session that nobody has were read.
Unlost ==
    \A r \in Rings : r[2] = session /\ r \notin rings \cup forsaken =>
        ring[r].head = ring[r].tail

Inv ==
    /\ TypeOK /\ Started /\ Bounded /\ running \in {0, session}
    /\ Locked /\ Owned
    /\ Filled /\ Writing /\ Reading /\ Unlost

\* The ring a thread has is its own, of the session it took it in.
LEMMA OwnRing ==
    ASSUME TypeOK, NEW t \in Threads, local[t] # 0
    PROVE  Own(t) \in Rings /\ Own(t)[1] = t /\ Own(t)[2] = local[t]
BY DEF TypeOK, Own, Rings, Sessions

\* The value that stands for no ring is not a ring.
LEMMA NoRingIsNone == NoRing \notin Rings
BY DEF NoRing, Rings, Sessions

\* A ring that a thread lets go of is one that nobody reads.
LEMMA LetsGo ==
    ASSUME Inv, NEW t \in Threads, LetGo(t)
    PROVE  /\ ring' \in [Rings -> RingType]
           /\ \A r \in Rings : ring'[r] \in {ring[r], NewRing}
           /\ \A r \in Rings : r # Own(t) => ring'[r] = ring[r]
           /\ \A r \in rings : ring'[r] = ring[r]
<1>1. CASE local[t] # 0 /\ Own(t) \notin rings
    BY <1>1, OwnRing, Empty DEF Inv, TypeOK, LetGo
<1>2. CASE ~(local[t] # 0 /\ Own(t) \notin rings)
    BY <1>2 DEF Inv, TypeOK, LetGo
<1> QED
    BY <1>1, <1>2

-----------------------------------------------------------------------------
(* Steps of the threads.                                                   *)

\* What a thread does to its own ring leaves the other rings alone.
LEMMA OwnStep ==
    ASSUME Inv, NEW t \in Threads, local[t] # 0, NEW y \in RingType,
           ring' = [ring EXCEPT ![Own(t)] = y]
    PROVE  /\ ring' \in [Rings -> RingType]
           /\ ring'[Own(t)] = y
           /\ \A r \in Rings : r # Own(t) => ring'[r] = ring[r]
<1>1. Own(t) \in Rings
    BY OwnRing DEF Inv
<1>2. ring \in [Rings -> RingType]
    BY DEF Inv, TypeOK
<1> QED
    BY <1>1, <1>2

\* A record that finds the ring full changes nothing that is read.
LEMMA DropStep ==
    ASSUME Inv, NEW t \in Threads, Drop(t)
    PROVE  LET x == ring[Own(t)]
               y == ring'[Own(t)]
           IN  /\ ring' \in [Rings -> RingType]
               /\ \A r \in Rings : r # Own(t) => ring'[r] = ring[r]
               /\ y.head = x.head /\ y.tail = x.tail /\ y.slots = x.slots
<1> DEFINE x == ring[Own(t)]
           y == [x EXCEPT !.dropped = @ + 1]
<1>1. local[t] # 0
    BY DEF Inv, Owned, Drop
<1>2. x \in RingType
    BY <1>1, OwnRing DEF Inv, TypeOK
<1>3. ring' = [ring EXCEPT ![Own(t)] = y]
    BY DEF Drop
<1>4. /\ y \in RingType
      /\ y.head = x.head /\ y.tail = x.tail /\ y.slots = x.slots
    BY <1>2 DEF RingType
<1> HIDE DEF y
<1> QED
    BY <1>1, <1>3, <1>4, OwnStep

\* A slot is written while nobody reads it, and only in the thread's ring.
LEMMA WriteStep ==
    ASSUME Inv, NEW t \in Threads, Write(t)
    PROVE  LET x == ring[Own(t)]
               y == ring'[Own(t)]
           IN  /\ ring' \in [Rings -> RingType]
               /\ \A r \in Rings : r # Own(t) => ring'[r] = ring[r]
               /\ y.head = x.head /\ y.tail = x.tail
               /\ Safe(y) /\ Space(y)
               /\ y.slots[y.head % Capacity] = y.head + 1
<1> DEFINE x == ring[Own(t)]
           y == [x EXCEPT !.slots[x.head % Capacity] = x.head + 1]
<1>1. local[t] # 0 /\ Space(x)
    BY DEF Inv, Owned, Writing, Write
<1>2. x \in RingType /\ Safe(x)
    BY <1>1, OwnRing DEF Inv, TypeOK, Filled
<1>3. ring' = [ring EXCEPT ![Own(t)] = y]
    BY DEF Write
<1>4. /\ y \in RingType /\ Safe(y) /\ Space(y)
      /\ y.head = x.head /\ y.tail = x.tail
      /\ y.slots[y.head % Capacity] = y.head + 1
    BY <1>1, <1>2, Written
<1> HIDE DEF y
<1> QED
    BY <1>1, <1>3, <1>4, OwnStep

\* A record is published once its slot is filled.
LEMMA PublishStep ==
    ASSUME Inv, NEW t \in Threads, Publish(t)
    PROVE  LET x == ring[Own(t)]
               y == ring'[Own(t)]
           IN  /\ ring' \in [Rings -> RingType]
               /\ \A r \in Rings : r # Own(t) => ring'[r] = ring[r]
               /\ y.head = x.head + 1 /\ y.tail = x.tail /\ Safe(y)
<1> DEFINE x == ring[Own(t)]
           y == [x EXCEPT !.head = @ + 1]
<1>1. local[t] # 0 /\ Space(x) /\ x.slots[x.head % Capacity] = x.head + 1
    BY DEF Inv, Owned, Writing, Publish
<1>2. x \in RingType /\ Safe(x)
    BY <1>1, OwnRing DEF Inv, TypeOK, Filled
<1>3. ring' = [ring EXCEPT ![Own(t)] = y]
    BY DEF Publish
<1>4. y \in RingType /\ Safe(y) /\ y.tail = x.tail /\ y.head = x.head + 1
    BY <1>1, <1>2, Published
<1> HIDE DEF y
<1> QED
    BY <1>1, <1>3, <1>4, OwnStep

\* What was read is freed, of a ring that is registered.
LEMMA TailStep ==
    ASSUME Inv, StoreTail
    PROVE  LET r == reader.ring
               x == ring[r]
               y == ring'[r]
           IN  /\ r \in rings
               /\ ring' \in [Rings -> RingType]
               /\ \A q \in Rings : q # r => ring'[q] = ring[q]
               /\ y.head = x.head /\ y.slots = x.slots /\ Safe(y)
               /\ Space(x) => Space(y)
<1> DEFINE r == reader.ring
           x == ring[r]
           y == [x EXCEPT !.tail = reader.to]
<1>1. r \in rings /\ r \in Rings /\ ring \in [Rings -> RingType]
    BY NoRingIsNone DEF Inv, TypeOK, Locked, StoreTail
<1>2. /\ x \in RingType /\ Safe(x) /\ reader.to \in Nat
      /\ x.tail <= reader.to /\ reader.to <= x.head
    BY <1>1 DEF Inv, TypeOK, ReaderType, Filled, Reading, StoreTail
<1>3. ring' = [ring EXCEPT ![r] = y]
    BY DEF StoreTail
<1>4. /\ y \in RingType /\ Safe(y) /\ y.head = x.head /\ y.slots = x.slots
      /\ Space(x) => Space(y)
    BY <1>2, Taken
<1> HIDE DEF y
<1>5. /\ ring' \in [Rings -> RingType] /\ ring'[r] = y
      /\ \A q \in Rings : q # r => ring'[q] = ring[q]
    BY <1>1, <1>3, <1>4
<1> QED
    BY <1>1, <1>4, <1>5

\* A session begins with empty rings of its own.
LEMMA BeginStep ==
    ASSUME Inv, NEW c \in Callers, Begin(c)
    PROVE  /\ ring' \in [Rings -> RingType]
           /\ \A r \in Rings : ring'[r] \in {ring[r], NewRing}
           /\ \A t \in Threads : local[t] # 0 => ring'[Own(t)] = ring[Own(t)]
           /\ \A r \in Rings : r[2] = session + 1 => ring'[r] = NewRing
<1>1. ring \in [Rings -> RingType]
    BY DEF Inv, TypeOK
<1>2. \A r \in Rings : ring'[r] = IF local[r[1]] = r[2] THEN ring[r] ELSE NewRing
    BY DEF Begin
<1>3. ring' \in [Rings -> RingType]
    BY <1>1, Empty DEF Begin
<1>4. \A t \in Threads : local[t] # 0 => ring'[Own(t)] = ring[Own(t)]
    BY <1>2, OwnRing DEF Inv
<1>5. ASSUME NEW r \in Rings, r[2] = session + 1 PROVE ring'[r] = NewRing
  <2>1. r[1] \in Threads /\ local[r[1]] <= session /\ session \in Nat
        /\ local[r[1]] \in Nat
      BY DEF Rings, Inv, Owned, TypeOK
  <2> QED
      BY <1>2, <1>5, <2>1
<1> QED
    BY <1>2, <1>3, <1>4, <1>5

-----------------------------------------------------------------------------
(* Every step preserves the invariant.                                     *)

\* A session that is about to begin was allowed for.
LEMMA Waiting ==
    ASSUME TypeOK, Bounded, NEW c \in Callers, caller[c] = "begin"
    PROVE  session + 1 \in 0 .. MaxSessions
<1>1. c \in Starting /\ IsFiniteSet(Starting)
    BY FS_Subset, TraceAssumption DEF Starting
<1>2. Cardinality(Starting) \in Nat /\ Cardinality(Starting) # 0
    BY <1>1, FS_CardinalityType, FS_EmptySet
<1> QED
    BY <1>2, TraceAssumption DEF TypeOK, Bounded

\* What the reader copies is of its type.
LEMMA Copies ==
    ASSUME TypeOK, NEW by \in Callers \cup {"collector"}, CopyRings(by)
    PROVE  reader' \in ReaderType
BY DEF TypeOK, ReaderType, CopyRings, Unlocked

\* The reader that has nothing locked is of its type.
LEMMA Unlocks == Unlocked \in ReaderType
BY DEF ReaderType, Unlocked


\* Types.
LEMMA TypeStep == Inv /\ [Next]_vars => TypeOK'
<1> SUFFICES ASSUME Inv, [Next]_vars PROVE TypeOK'
    OBVIOUS
<1>1. ASSUME NEW t \in Threads, Record(t) PROVE TypeOK'
  <2>1. [thread[t] EXCEPT !.at = "session"] \in ThreadType
      BY DEF Inv, TypeOK, ThreadType
  <2> QED
      BY <1>1, <2>1 DEF Inv, TypeOK, Record, ringVars, sessionVars, readerVars
<1>2. ASSUME NEW t \in Threads, ReadSession(t) PROVE TypeOK'
  <2>1. \A p \in {"push", "register"} :
           [thread[t] EXCEPT !.session = session, !.at = p] \in ThreadType
      BY DEF Inv, TypeOK, ThreadType
  <2> QED
      BY <1>2, <2>1 DEF Inv, TypeOK, ReadSession, ringVars, sessionVars, readerVars
<1>3. ASSUME NEW t \in Threads, Register(t) PROVE TypeOK'
  <2>1. ring' \in [Rings -> RingType]
      BY <1>3, LetsGo DEF Register
  <2>2. session \in Sessions
      BY <1>3 DEF Inv, TypeOK, Started, Sessions, Register
  <2>3. [thread[t] EXCEPT !.at = "push"] \in ThreadType /\ Idle \in ThreadType
      BY TraceAssumption DEF Inv, TypeOK, ThreadType, Idle
  <2>4. rings' \subseteq Rings /\ local' \in [Threads -> 0 .. MaxSessions]
    <3>1. <<t, session>> \in Rings /\ 0 \in 0 .. MaxSessions
        BY <2>2, TraceAssumption DEF Rings
    <3>2. rings' \subseteq Rings
        BY <1>3, <3>1 DEF Inv, TypeOK, Register
    <3>3. local' \in [Threads -> 0 .. MaxSessions]
        BY <1>3, <3>1 DEF Inv, TypeOK, Register
    <3> QED
        BY <3>2, <3>3
  <2>5. thread' \in [Threads -> ThreadType]
      BY <1>3, <2>3 DEF Inv, TypeOK, Register
  <2> QED
      BY <1>3, <2>1, <2>4, <2>5 DEF Inv, TypeOK, Register, sessionVars, readerVars
<1>4. ASSUME NEW t \in Threads, LoadTail(t) PROVE TypeOK'
  <2> DEFINE used == ring[Own(t)].head - ring[Own(t)].tail
             half == used + 1 >= Capacity \div 2
             p == IF Full(used) THEN "drop" ELSE "write"
  <2>1. half \in BOOLEAN /\ p \in {"drop", "write"}
      OBVIOUS
  <2>2. thread' = [thread EXCEPT ![t].at = p, ![t].half = half]
      BY <1>4 DEF LoadTail
  <2> HIDE DEF half, p
  <2>3. [thread[t] EXCEPT !.at = p, !.half = half] \in ThreadType
      BY <2>1 DEF Inv, TypeOK, ThreadType
  <2>4. thread' \in [Threads -> ThreadType]
      BY <2>2, <2>3 DEF Inv, TypeOK
  <2> QED
      BY <1>4, <2>4 DEF Inv, TypeOK, LoadTail, ringVars, sessionVars, readerVars
<1>5. ASSUME NEW t \in Threads, Drop(t) PROVE TypeOK'
  <2>1. Idle \in ThreadType /\ ring' \in [Rings -> RingType]
      BY <1>5, DropStep, TraceAssumption DEF ThreadType, Idle
  <2>2. token' \in BOOLEAN
      BY <1>5 DEF Inv, TypeOK, Drop, Unparks
  <2> QED
      BY <1>5, <2>1, <2>2 DEF Inv, TypeOK, Drop, sessionVars, readerVars
<1>6. ASSUME NEW t \in Threads, Write(t) PROVE TypeOK'
  <2>1. ring' \in [Rings -> RingType]
      BY <1>6, WriteStep
  <2>2. [thread[t] EXCEPT !.at = "publish"] \in ThreadType
      BY DEF Inv, TypeOK, ThreadType
  <2> QED
      BY <1>6, <2>1, <2>2 DEF Inv, TypeOK, Write, sessionVars, readerVars
<1>7. ASSUME NEW t \in Threads, Publish(t) PROVE TypeOK'
  <2>1. Idle \in ThreadType /\ ring' \in [Rings -> RingType]
      BY <1>7, PublishStep, TraceAssumption DEF ThreadType, Idle
  <2>2. token' \in BOOLEAN
      BY <1>7 DEF Inv, TypeOK, Publish, Unparks
  <2> QED
      BY <1>7, <2>1, <2>2 DEF Inv, TypeOK, Publish, sessionVars, readerVars
<1>8. ASSUME NEW t \in Threads, End(t) PROVE TypeOK'
  <2>1. ring' \in [Rings -> RingType]
      BY <1>8, LetsGo DEF End
  <2>2. [thread[t] EXCEPT !.at = "over"] \in ThreadType /\ 0 \in 0 .. MaxSessions
      BY TraceAssumption DEF Inv, TypeOK, ThreadType
  <2> QED
      BY <1>8, <2>1, <2>2 DEF Inv, TypeOK, End, sessionVars, readerVars
<1>9. ASSUME NEW c \in Callers, Call(c) PROVE TypeOK'
    BY <1>9 DEF Inv, TypeOK, Call, ringVars, sessionVars, readerVars, vars
<1>10. ASSUME NEW c \in Callers, Lock(c) PROVE TypeOK'
  <2>1. CASE CopyRings(c) /\ UNCHANGED caller
      BY <1>10, <2>1, Copies DEF Inv, TypeOK, Lock, ringVars, sessionVars
  <2>2. CASE Free /\ caller' = [caller EXCEPT ![c] = After(c)] /\ UNCHANGED <<reader, sum, before>>
      BY <1>10, <2>2 DEF Inv, TypeOK, Lock, After, ringVars, sessionVars
  <2> QED
      BY <1>10, <2>1, <2>2 DEF Lock
<1>11. ASSUME NEW c \in Callers, Finish(c) PROVE TypeOK'
    BY <1>11, Unlocks, TraceAssumption DEF Inv, TypeOK, Finish, Retire, After
<1>12. ASSUME NEW c \in Callers, Begin(c) PROVE TypeOK'
  <2>1. ring' \in [Rings -> RingType]
      BY <1>12, BeginStep
  <2>2. session + 1 \in 0 .. MaxSessions
      BY <1>12, Waiting DEF Inv, Begin
  <2> QED
      BY <1>12, <2>1, <2>2 DEF Inv, TypeOK, Begin, Then
<1>13. ASSUME NEW c \in Callers, SetMask(c) PROVE TypeOK'
    BY <1>13 DEF Inv, TypeOK, SetMask, Then, ringVars, readerVars
<1>14. ASSUME NEW c \in Callers, StartCollector(c) PROVE TypeOK'
    BY <1>14 DEF Inv, TypeOK, StartCollector, Then, ringVars, sessionVars, readerVars
<1>15. ASSUME LoadHead PROVE TypeOK'
  <2>1. PICK r \in reader.left :
           reader' = [reader EXCEPT !.ring = r, !.to = ring[r].head, !.left = @ \ {r}]
      BY <1>15 DEF LoadHead
  <2>2. r \in Rings /\ ring[r].head \in Nat
      BY DEF Inv, TypeOK, ReaderType, RingType
  <2>3. reader' \in ReaderType
      BY <2>1, <2>2 DEF Inv, TypeOK, ReaderType
  <2> QED
      BY <1>15, <2>3 DEF Inv, TypeOK, LoadHead, ringVars, sessionVars
<1>16. ASSUME StoreTail PROVE TypeOK'
  <2>1. ring' \in [Rings -> RingType]
      BY <1>16, TailStep
  <2>2. reader' \in ReaderType
      BY <1>16 DEF Inv, TypeOK, ReaderType, StoreTail
  <2> QED
      BY <1>16, <2>1, <2>2 DEF Inv, TypeOK, StoreTail, sessionVars
<1>17. ASSUME Check PROVE TypeOK'
    BY <1>17 DEF Inv, TypeOK, Check, ringVars, sessionVars, readerVars, vars
<1>18. ASSUME Wake PROVE TypeOK'
    BY <1>18 DEF Inv, TypeOK, Wake, ringVars, sessionVars, readerVars, vars
<1>19. ASSUME Pump PROVE TypeOK'
  <2>1. CASE CopyRings("collector") /\ collector' = "drain"
      BY <1>19, <2>1, Copies DEF Inv, TypeOK, Pump, ringVars, sessionVars
  <2>2. CASE Free /\ collector' = "check" /\ UNCHANGED <<reader, sum, before>>
      BY <1>19, <2>2 DEF Inv, TypeOK, Pump, ringVars, sessionVars
  <2> QED
      BY <1>19, <2>1, <2>2 DEF Pump
<1>20. ASSUME Pumped PROVE TypeOK'
    BY <1>20, Unlocks DEF Inv, TypeOK, Pumped, Retire
<1>21. ASSUME UNCHANGED vars PROVE TypeOK'
    BY <1>21 DEF Inv, TypeOK, ringVars, sessionVars, readerVars, vars
<1> QED
    BY <1>1, <1>2, <1>3, <1>4, <1>5, <1>6, <1>7, <1>8, <1>9, <1>10, <1>11,
       <1>12, <1>13, <1>14, <1>15, <1>16, <1>17, <1>18, <1>19, <1>20, <1>21
       DEF Next, Push, Runs, Collect

\* Nobody records before the first session.
LEMMA StartedStep == Inv /\ [Next]_vars => Started'
<1> SUFFICES ASSUME Inv, [Next]_vars PROVE Started'
    OBVIOUS
<1>1. ASSUME NEW t \in Threads, Record(t) PROVE Started'
    BY <1>1 DEF Inv, TypeOK, Started, Record, Idle, ringVars, sessionVars
<1>2. ASSUME NEW t \in Threads, ReadSession(t) PROVE Started'
    BY <1>2 DEF Inv, TypeOK, Started, ReadSession, Idle, ringVars, sessionVars
<1>3. ASSUME NEW t \in Threads, Register(t) PROVE Started'
    BY <1>3 DEF Inv, TypeOK, Started, Register, Idle, ringVars, sessionVars
<1>4. ASSUME NEW t \in Threads, LoadTail(t) PROVE Started'
    BY <1>4 DEF Inv, TypeOK, Started, LoadTail, ringVars, sessionVars
<1>5. ASSUME NEW t \in Threads, Drop(t) PROVE Started'
    BY <1>5 DEF Inv, TypeOK, Started, Drop, Idle, ringVars, sessionVars
<1>6. ASSUME NEW t \in Threads, Write(t) PROVE Started'
    BY <1>6 DEF Inv, TypeOK, Started, Write, Idle, ringVars, sessionVars
<1>7. ASSUME NEW t \in Threads, Publish(t) PROVE Started'
    BY <1>7 DEF Inv, TypeOK, Started, Publish, Idle, ringVars, sessionVars
<1>8. ASSUME NEW t \in Threads, End(t) PROVE Started'
    BY <1>8 DEF Inv, TypeOK, Started, End, Idle, ringVars, sessionVars
<1>9. ASSUME NEW c \in Callers, Call(c) PROVE Started'
    BY <1>9 DEF Inv, TypeOK, Started, Call, After, Then, ringVars, sessionVars
<1>10. ASSUME NEW c \in Callers, Lock(c) PROVE Started'
    BY <1>10 DEF Inv, TypeOK, Started, Lock, After, Then, ringVars, sessionVars
<1>11. ASSUME NEW c \in Callers, Finish(c) PROVE Started'
    BY <1>11 DEF Inv, TypeOK, Started, Finish, Retire, After
<1>12. ASSUME NEW c \in Callers, Begin(c) PROVE Started'
    BY <1>12 DEF Inv, TypeOK, Begin, Started
<1>13. ASSUME NEW c \in Callers, SetMask(c) PROVE Started'
    BY <1>13 DEF Inv, TypeOK, Started, SetMask, After, Then, ringVars, sessionVars
<1>14. ASSUME NEW c \in Callers, StartCollector(c) PROVE Started'
    BY <1>14 DEF Inv, TypeOK, Started, StartCollector, After, Then, ringVars, sessionVars
<1>15. ASSUME LoadHead PROVE Started'
    BY <1>15 DEF Inv, Started, LoadHead, ringVars, sessionVars
<1>16. ASSUME StoreTail PROVE Started'
    BY <1>16 DEF Inv, Started, StoreTail, ringVars, sessionVars
<1>17. ASSUME Check PROVE Started'
    BY <1>17 DEF Inv, Started, Check, ringVars, sessionVars
<1>18. ASSUME Wake PROVE Started'
    BY <1>18 DEF Inv, Started, Wake, ringVars, sessionVars
<1>19. ASSUME Pump PROVE Started'
    BY <1>19 DEF Inv, Started, Pump, ringVars, sessionVars
<1>20. ASSUME Pumped PROVE Started'
    BY <1>20 DEF Inv, Started, Pumped, Retire
<1>21. ASSUME UNCHANGED vars PROVE Started'
    BY <1>21 DEF Inv, Started, vars, ringVars, sessionVars
<1> QED
    BY <1>1, <1>2, <1>3, <1>4, <1>5, <1>6, <1>7, <1>8, <1>9, <1>10, <1>11,
       <1>12, <1>13, <1>14, <1>15, <1>16, <1>17, <1>18, <1>19, <1>20, <1>21
       DEF Next, Push, Runs, Collect

\* A step of no caller starts nothing.
LEMMA SameStarts ==
    ASSUME Inv, UNCHANGED <<session, caller>>
    PROVE  Bounded'
<1>1. Starting' = Starting
    BY DEF Starting
<1> QED
    BY <1>1 DEF Inv, Bounded

\* A caller that goes on, or does not start anything.
LEMMA OtherCalls ==
    ASSUME Inv, UNCHANGED session, NEW c \in Callers, NEW p,
           caller' = [caller EXCEPT ![c] = p],
           p \in {"start", "begin"} => caller[c] \in {"start", "begin"}
    PROVE  Bounded'
<1>1. caller \in [Callers ->
                  {"idle", "start", "stop", "report", "begin", "mask", "unpark"}]
    BY DEF Inv, TypeOK
<1>2. Starting' \subseteq Starting /\ IsFiniteSet(Starting)
    BY <1>1, FS_Subset, TraceAssumption DEF Starting
<1>3. /\ Cardinality(Starting') <= Cardinality(Starting)
      /\ Cardinality(Starting) \in Nat /\ Cardinality(Starting') \in Nat
    BY <1>2, FS_Subset, FS_CardinalityType
<1> QED
    BY <1>3, TraceAssumption DEF Inv, TypeOK, Bounded

\* No more sessions are started than there is room for.
LEMMA BoundedStep == Inv /\ [Next]_vars => Bounded'
<1> SUFFICES ASSUME Inv, [Next]_vars PROVE Bounded'
    OBVIOUS
<1>1. ASSUME NEW t \in Threads, Record(t) PROVE Bounded'
    BY <1>1, SameStarts DEF Record, ringVars
<1>2. ASSUME NEW t \in Threads, ReadSession(t) PROVE Bounded'
    BY <1>2, SameStarts DEF ReadSession, ringVars
<1>3. ASSUME NEW t \in Threads, Register(t) PROVE Bounded'
    BY <1>3, SameStarts DEF Register
<1>4. ASSUME NEW t \in Threads, LoadTail(t) PROVE Bounded'
    BY <1>4, SameStarts DEF LoadTail, ringVars
<1>5. ASSUME NEW t \in Threads, Drop(t) PROVE Bounded'
    BY <1>5, SameStarts DEF Drop, ringVars
<1>6. ASSUME NEW t \in Threads, Write(t) PROVE Bounded'
    BY <1>6, SameStarts DEF Write, ringVars
<1>7. ASSUME NEW t \in Threads, Publish(t) PROVE Bounded'
    BY <1>7, SameStarts DEF Publish, ringVars
<1>8. ASSUME NEW t \in Threads, End(t) PROVE Bounded'
    BY <1>8, SameStarts DEF End, ringVars
<1>9. ASSUME NEW c \in Callers, Call(c) PROVE Bounded'
  <2>1. CASE /\ session + Cardinality(Starting) < MaxSessions
             /\ caller' = [caller EXCEPT ![c] = "start"]
    <3>1. Starting' = Starting \cup {c} /\ c \notin Starting
        BY <1>9, <2>1 DEF Inv, TypeOK, Starting, Call
    <3>2. IsFiniteSet(Starting) /\ Cardinality(Starting) \in Nat
        BY FS_Subset, FS_CardinalityType, TraceAssumption DEF Starting
    <3>3. Cardinality(Starting') = Cardinality(Starting) + 1
        BY <3>1, <3>2, FS_AddElement
    <3> QED
        BY <1>9, <2>1, <3>2, <3>3, TraceAssumption DEF Inv, TypeOK, Bounded, Call, ringVars
  <2>2. CASE \E p \in {"stop", "report"} : caller' = [caller EXCEPT ![c] = p]
      BY <1>9, <2>2, OtherCalls DEF Inv, TypeOK, Call, ringVars
  <2> QED
      BY <1>9, <2>1, <2>2 DEF Call
<1>10. ASSUME NEW c \in Callers, Lock(c) PROVE Bounded'
  <2>1. CASE UNCHANGED caller
      BY <1>10, <2>1, SameStarts DEF Lock, ringVars
  <2>2. CASE caller' = [caller EXCEPT ![c] = After(c)]
      BY <1>10, <2>2, OtherCalls DEF Inv, TypeOK, Lock, After, ringVars
  <2> QED
      BY <1>10, <2>1, <2>2 DEF Lock
<1>11. ASSUME NEW c \in Callers, Finish(c) PROVE Bounded'
    BY <1>11, OtherCalls DEF Inv, TypeOK, Finish, Retire, After
<1>12. ASSUME NEW c \in Callers, Begin(c) PROVE Bounded'
  <2>1. Starting' = Starting \ {c} /\ c \in Starting
      BY <1>12 DEF Inv, TypeOK, Starting, Begin, Then
  <2>2. IsFiniteSet(Starting) /\ Cardinality(Starting) \in Nat
      BY FS_Subset, FS_CardinalityType, TraceAssumption DEF Starting
  <2>3. Cardinality(Starting') = Cardinality(Starting) - 1
      BY <2>1, <2>2, FS_RemoveElement
  <2> QED
      BY <1>12, <2>2, <2>3, TraceAssumption DEF Inv, TypeOK, Bounded, Begin
<1>13. ASSUME NEW c \in Callers, SetMask(c) PROVE Bounded'
    BY <1>13, OtherCalls DEF Inv, TypeOK, SetMask, Then, ringVars
<1>14. ASSUME NEW c \in Callers, StartCollector(c) PROVE Bounded'
    BY <1>14, OtherCalls DEF Inv, TypeOK, StartCollector, Then, ringVars
<1>15. ASSUME LoadHead PROVE Bounded'
    BY <1>15, SameStarts DEF LoadHead, ringVars
<1>16. ASSUME StoreTail PROVE Bounded'
    BY <1>16, SameStarts DEF StoreTail, ringVars
<1>17. ASSUME Check PROVE Bounded'
    BY <1>17, SameStarts DEF Check, ringVars
<1>18. ASSUME Wake PROVE Bounded'
    BY <1>18, SameStarts DEF Wake, ringVars
<1>19. ASSUME Pump PROVE Bounded'
    BY <1>19, SameStarts DEF Pump, ringVars
<1>20. ASSUME Pumped PROVE Bounded'
    BY <1>20, SameStarts DEF Pumped, Retire
<1>21. ASSUME UNCHANGED vars PROVE Bounded'
    BY <1>21, SameStarts DEF vars, ringVars
<1> QED
    BY <1>1, <1>2, <1>3, <1>4, <1>5, <1>6, <1>7, <1>8, <1>9, <1>10, <1>11,
       <1>12, <1>13, <1>14, <1>15, <1>16, <1>17, <1>18, <1>19, <1>20, <1>21
       DEF Next, Push, Runs, Collect

\* Only the current session runs.
LEMMA RunningStep == Inv /\ [Next]_vars => running' \in {0, session'}
<1> SUFFICES ASSUME Inv, [Next]_vars PROVE running' \in {0, session'}
    OBVIOUS
<1>1. ASSUME NEW t \in Threads, Record(t) PROVE running' \in {0, session'}
    BY <1>1 DEF Inv, Record, ringVars, sessionVars
<1>2. ASSUME NEW t \in Threads, ReadSession(t) PROVE running' \in {0, session'}
    BY <1>2 DEF Inv, ReadSession, ringVars, sessionVars
<1>3. ASSUME NEW t \in Threads, Register(t) PROVE running' \in {0, session'}
    BY <1>3 DEF Inv, Register, ringVars, sessionVars
<1>4. ASSUME NEW t \in Threads, LoadTail(t) PROVE running' \in {0, session'}
    BY <1>4 DEF Inv, LoadTail, ringVars, sessionVars
<1>5. ASSUME NEW t \in Threads, Drop(t) PROVE running' \in {0, session'}
    BY <1>5 DEF Inv, Drop, ringVars, sessionVars
<1>6. ASSUME NEW t \in Threads, Write(t) PROVE running' \in {0, session'}
    BY <1>6 DEF Inv, Write, ringVars, sessionVars
<1>7. ASSUME NEW t \in Threads, Publish(t) PROVE running' \in {0, session'}
    BY <1>7 DEF Inv, Publish, ringVars, sessionVars
<1>8. ASSUME NEW t \in Threads, End(t) PROVE running' \in {0, session'}
    BY <1>8 DEF Inv, End, ringVars, sessionVars
<1>9. ASSUME NEW c \in Callers, Call(c) PROVE running' \in {0, session'}
    BY <1>9 DEF Inv, Call, ringVars, sessionVars
<1>10. ASSUME NEW c \in Callers, Lock(c) PROVE running' \in {0, session'}
    BY <1>10 DEF Inv, Lock, ringVars, sessionVars
<1>11. ASSUME NEW c \in Callers, Finish(c) PROVE running' \in {0, session'}
    BY <1>11 DEF Inv, Finish, Retire
<1>12. ASSUME NEW c \in Callers, Begin(c) PROVE running' \in {0, session'}
    BY <1>12 DEF Begin
<1>13. ASSUME NEW c \in Callers, SetMask(c) PROVE running' \in {0, session'}
    BY <1>13 DEF Inv, SetMask, ringVars, sessionVars
<1>14. ASSUME NEW c \in Callers, StartCollector(c) PROVE running' \in {0, session'}
    BY <1>14 DEF Inv, StartCollector, ringVars, sessionVars
<1>15. ASSUME LoadHead PROVE running' \in {0, session'}
    BY <1>15 DEF Inv, LoadHead, ringVars, sessionVars
<1>16. ASSUME StoreTail PROVE running' \in {0, session'}
    BY <1>16 DEF Inv, StoreTail, ringVars, sessionVars
<1>17. ASSUME Check PROVE running' \in {0, session'}
    BY <1>17 DEF Inv, Check, ringVars, sessionVars
<1>18. ASSUME Wake PROVE running' \in {0, session'}
    BY <1>18 DEF Inv, Wake, ringVars, sessionVars
<1>19. ASSUME Pump PROVE running' \in {0, session'}
    BY <1>19 DEF Inv, Pump, ringVars, sessionVars
<1>20. ASSUME Pumped PROVE running' \in {0, session'}
    BY <1>20 DEF Inv, Pumped, Retire
<1>21. ASSUME UNCHANGED vars PROVE running' \in {0, session'}
    BY <1>21 DEF Inv, vars, ringVars, sessionVars
<1> QED
    BY <1>1, <1>2, <1>3, <1>4, <1>5, <1>6, <1>7, <1>8, <1>9, <1>10, <1>11,
       <1>12, <1>13, <1>14, <1>15, <1>16, <1>17, <1>18, <1>19, <1>20, <1>21
       DEF Next, Push, Runs, Collect

\* What is read stays registered while no ring is retired.
LEMMA SameLock ==
    ASSUME Inv, UNCHANGED reader, rings \subseteq rings'
    PROVE  Locked'
BY DEF Inv, Locked, Free

\* A copy of the registry holds registered rings.
LEMMA Copied ==
    ASSUME NEW by \in Callers \cup {"collector"}, CopyRings(by), UNCHANGED rings
    PROVE  Locked'
BY TraceAssumption DEF Locked, CopyRings, Free, Unlocked

\* What is read stays registered.
LEMMA LockedStep == Inv /\ [Next]_vars => Locked'
<1> SUFFICES ASSUME Inv, [Next]_vars PROVE Locked'
    OBVIOUS
<1>1. ASSUME NEW t \in Threads, Record(t) PROVE Locked'
    BY <1>1, SameLock DEF Record, ringVars, readerVars
<1>2. ASSUME NEW t \in Threads, ReadSession(t) PROVE Locked'
    BY <1>2, SameLock DEF ReadSession, ringVars, readerVars
<1>3. ASSUME NEW t \in Threads, Register(t) PROVE Locked'
    BY <1>3, SameLock DEF Register, readerVars
<1>4. ASSUME NEW t \in Threads, LoadTail(t) PROVE Locked'
    BY <1>4, SameLock DEF LoadTail, ringVars, readerVars
<1>5. ASSUME NEW t \in Threads, Drop(t) PROVE Locked'
    BY <1>5, SameLock DEF Drop, readerVars
<1>6. ASSUME NEW t \in Threads, Write(t) PROVE Locked'
    BY <1>6, SameLock DEF Write, readerVars
<1>7. ASSUME NEW t \in Threads, Publish(t) PROVE Locked'
    BY <1>7, SameLock DEF Publish, readerVars
<1>8. ASSUME NEW t \in Threads, End(t) PROVE Locked'
    BY <1>8, SameLock DEF End, readerVars
<1>9. ASSUME NEW c \in Callers, Call(c) PROVE Locked'
    BY <1>9, SameLock DEF Call, ringVars, readerVars
<1>10. ASSUME NEW c \in Callers, Lock(c) PROVE Locked'
  <2>1. CASE CopyRings(c)
      BY <1>10, <2>1, Copied DEF Lock, ringVars
  <2>2. CASE UNCHANGED <<reader, sum, before>>
      BY <1>10, <2>2, SameLock DEF Lock, ringVars
  <2> QED
      BY <1>10, <2>1, <2>2 DEF Lock
<1>11. ASSUME NEW c \in Callers, Finish(c) PROVE Locked'
    BY <1>11 DEF Finish, Retire, Locked, Unlocked
<1>12. ASSUME NEW c \in Callers, Begin(c) PROVE Locked'
    BY <1>12 DEF Inv, Locked, Begin, Free, Unlocked
<1>13. ASSUME NEW c \in Callers, SetMask(c) PROVE Locked'
    BY <1>13, SameLock DEF SetMask, ringVars, readerVars
<1>14. ASSUME NEW c \in Callers, StartCollector(c) PROVE Locked'
    BY <1>14, SameLock DEF StartCollector, ringVars, readerVars
<1>15. ASSUME LoadHead PROVE Locked'
    BY <1>15 DEF Inv, TypeOK, ReaderType, Locked, LoadHead, Free, Unlocked, ringVars
<1>16. ASSUME StoreTail PROVE Locked'
    BY <1>16 DEF Inv, TypeOK, ReaderType, Locked, StoreTail, Free, Unlocked
<1>17. ASSUME Check PROVE Locked'
    BY <1>17, SameLock DEF Check, ringVars, readerVars
<1>18. ASSUME Wake PROVE Locked'
    BY <1>18, SameLock DEF Wake, ringVars, readerVars
<1>19. ASSUME Pump PROVE Locked'
  <2>1. CASE CopyRings("collector")
      BY <1>19, <2>1, Copied DEF Pump, ringVars
  <2>2. CASE UNCHANGED <<reader, sum, before>>
      BY <1>19, <2>2, SameLock DEF Pump, ringVars
  <2> QED
      BY <1>19, <2>1, <2>2 DEF Pump
<1>20. ASSUME Pumped PROVE Locked'
    BY <1>20 DEF Pumped, Retire, Locked, Unlocked
<1>21. ASSUME UNCHANGED vars PROVE Locked'
    BY <1>21, SameLock DEF vars, ringVars, readerVars
<1> QED
    BY <1>1, <1>2, <1>3, <1>4, <1>5, <1>6, <1>7, <1>8, <1>9, <1>10, <1>11,
       <1>12, <1>13, <1>14, <1>15, <1>16, <1>17, <1>18, <1>19, <1>20, <1>21
       DEF Next, Push, Runs, Collect

\* What threads own does not change with the rings' contents.
LEMMA SameOwner ==
    ASSUME Inv, UNCHANGED <<local, thread, session, rings, forsaken>>
    PROVE  Owned'
BY DEF Inv, Owned, Own

\* A ring the registry loses while its thread has it is remembered.
LEMMA RetireOwned ==
    ASSUME Inv, Retire
    PROVE  Owned'
<1>1. \A r \in rings \cup forsaken :
          local[r[1]] = r[2] => r \in rings' \cup forsaken'
    BY DEF Retire
<1>2. UNCHANGED <<local, thread, session>>
    BY DEF Retire
<1> QED
    BY <1>1, <1>2 DEF Inv, Owned, Own

\* Who records has a ring.
LEMMA OwnedStep == Inv /\ [Next]_vars => Owned'
<1> SUFFICES ASSUME Inv, [Next]_vars PROVE Owned'
    OBVIOUS
<1>1. ASSUME NEW t \in Threads, Record(t) PROVE Owned'
    BY <1>1 DEF Inv, TypeOK, ThreadType, Owned, Own, Record, Idle, ringVars, readerVars
<1>2. ASSUME NEW t \in Threads, ReadSession(t) PROVE Owned'
  <2>1. session # 0
      BY <1>2 DEF Inv, Started, ReadSession
  <2> QED
      BY <1>2, <2>1 DEF Inv, TypeOK, ThreadType, Owned, Own, ReadSession, ringVars, readerVars
<1>3. ASSUME NEW t \in Threads, Register(t) PROVE Owned'
  <2>1. session # 0 /\ session \in Nat
      BY <1>3 DEF Inv, TypeOK, Started, Register
  <2>2. UNCHANGED <<session, forsaken>>
      BY <1>3 DEF Register, readerVars
  <2>3. CASE thread[t].session = session
      BY <1>3, <2>1, <2>2, <2>3 DEF Inv, TypeOK, ThreadType, Owned, Own, Register
  <2>4. CASE thread[t].session # session
      BY <1>3, <2>1, <2>2, <2>4 DEF Inv, TypeOK, Owned, Own, Register, Idle
  <2> QED
      BY <2>3, <2>4
<1>4. ASSUME NEW t \in Threads, LoadTail(t) PROVE Owned'
    BY <1>4 DEF Inv, TypeOK, ThreadType, Owned, Own, LoadTail, Idle, ringVars, readerVars
<1>5. ASSUME NEW t \in Threads, Drop(t) PROVE Owned'
    BY <1>5 DEF Inv, TypeOK, ThreadType, Owned, Own, Drop, Idle, ringVars, readerVars
<1>6. ASSUME NEW t \in Threads, Write(t) PROVE Owned'
    BY <1>6 DEF Inv, TypeOK, ThreadType, Owned, Own, Write, Idle, ringVars, readerVars
<1>7. ASSUME NEW t \in Threads, Publish(t) PROVE Owned'
    BY <1>7 DEF Inv, TypeOK, ThreadType, Owned, Own, Publish, Idle, ringVars, readerVars
<1>8. ASSUME NEW t \in Threads, End(t) PROVE Owned'
  <2>1. session \in Nat /\ UNCHANGED <<session, rings, forsaken>>
      BY <1>8 DEF Inv, TypeOK, End, readerVars
  <2> QED
      BY <1>8, <2>1 DEF Inv, TypeOK, ThreadType, Owned, Own, End, Idle
<1>9. ASSUME NEW c \in Callers, Call(c) PROVE Owned'
    BY <1>9, SameOwner DEF Call, ringVars, readerVars
<1>10. ASSUME NEW c \in Callers, Lock(c) PROVE Owned'
    BY <1>10, SameOwner DEF Lock, ringVars
<1>11. ASSUME NEW c \in Callers, Finish(c) PROVE Owned'
    BY <1>11, RetireOwned DEF Finish
<1>12. ASSUME NEW c \in Callers, Begin(c) PROVE Owned'
    BY <1>12 DEF Inv, TypeOK, Owned, Begin
<1>13. ASSUME NEW c \in Callers, SetMask(c) PROVE Owned'
    BY <1>13, SameOwner DEF SetMask, ringVars, readerVars
<1>14. ASSUME NEW c \in Callers, StartCollector(c) PROVE Owned'
    BY <1>14, SameOwner DEF StartCollector, ringVars, readerVars
<1>15. ASSUME LoadHead PROVE Owned'
    BY <1>15, SameOwner DEF LoadHead, ringVars
<1>16. ASSUME StoreTail PROVE Owned'
    BY <1>16, SameOwner DEF StoreTail
<1>17. ASSUME Check PROVE Owned'
    BY <1>17, SameOwner DEF Check, ringVars, readerVars
<1>18. ASSUME Wake PROVE Owned'
    BY <1>18, SameOwner DEF Wake, ringVars, readerVars
<1>19. ASSUME Pump PROVE Owned'
    BY <1>19, SameOwner DEF Pump, ringVars
<1>20. ASSUME Pumped PROVE Owned'
    BY <1>20, RetireOwned DEF Pumped
<1>21. ASSUME UNCHANGED vars PROVE Owned'
    BY <1>21, SameOwner DEF vars, ringVars, readerVars
<1> QED
    BY <1>1, <1>2, <1>3, <1>4, <1>5, <1>6, <1>7, <1>8, <1>9, <1>10, <1>11,
       <1>12, <1>13, <1>14, <1>15, <1>16, <1>17, <1>18, <1>19, <1>20, <1>21
       DEF Next, Push, Runs, Collect

\* What was published and not read stays.
LEMMA FilledStep == Inv /\ [Next]_vars => Filled'
<1> SUFFICES ASSUME Inv, [Next]_vars PROVE Filled'
    OBVIOUS
<1>1. ASSUME NEW t \in Threads, Record(t) PROVE Filled'
    BY <1>1 DEF Inv, Filled, Record, ringVars
<1>2. ASSUME NEW t \in Threads, ReadSession(t) PROVE Filled'
    BY <1>2 DEF Inv, Filled, ReadSession, ringVars
<1>3. ASSUME NEW t \in Threads, Register(t) PROVE Filled'
    BY <1>3, LetsGo, Empty DEF Inv, Filled, Register
<1>4. ASSUME NEW t \in Threads, LoadTail(t) PROVE Filled'
    BY <1>4 DEF Inv, Filled, LoadTail, ringVars
<1>5. ASSUME NEW t \in Threads, Drop(t) PROVE Filled'
  <2>1. local[t] # 0
      BY <1>5 DEF Inv, Owned, Drop
  <2>2. Safe(ring'[Own(t)])
      BY <1>5, <2>1, OwnRing, DropStep DEF Inv, Filled, Safe
  <2> QED
      BY <1>5, <2>2, DropStep DEF Inv, Filled
<1>6. ASSUME NEW t \in Threads, Write(t) PROVE Filled'
    BY <1>6, WriteStep DEF Inv, Filled
<1>7. ASSUME NEW t \in Threads, Publish(t) PROVE Filled'
    BY <1>7, PublishStep DEF Inv, Filled
<1>8. ASSUME NEW t \in Threads, End(t) PROVE Filled'
    BY <1>8, LetsGo, Empty DEF Inv, Filled, End
<1>9. ASSUME NEW c \in Callers, Call(c) PROVE Filled'
    BY <1>9 DEF Inv, Filled, Call, ringVars
<1>10. ASSUME NEW c \in Callers, Lock(c) PROVE Filled'
    BY <1>10 DEF Inv, Filled, Lock, ringVars
<1>11. ASSUME NEW c \in Callers, Finish(c) PROVE Filled'
    BY <1>11 DEF Inv, Filled, Finish, Retire
<1>12. ASSUME NEW c \in Callers, Begin(c) PROVE Filled'
    BY <1>12, BeginStep, Empty DEF Inv, Filled
<1>13. ASSUME NEW c \in Callers, SetMask(c) PROVE Filled'
    BY <1>13 DEF Inv, Filled, SetMask, ringVars
<1>14. ASSUME NEW c \in Callers, StartCollector(c) PROVE Filled'
    BY <1>14 DEF Inv, Filled, StartCollector, ringVars
<1>15. ASSUME LoadHead PROVE Filled'
    BY <1>15 DEF Inv, Filled, LoadHead, ringVars
<1>16. ASSUME StoreTail PROVE Filled'
    BY <1>16, TailStep DEF Inv, Filled
<1>17. ASSUME Check PROVE Filled'
    BY <1>17 DEF Inv, Filled, Check, ringVars
<1>18. ASSUME Wake PROVE Filled'
    BY <1>18 DEF Inv, Filled, Wake, ringVars
<1>19. ASSUME Pump PROVE Filled'
    BY <1>19 DEF Inv, Filled, Pump, ringVars
<1>20. ASSUME Pumped PROVE Filled'
    BY <1>20 DEF Inv, Filled, Pumped, Retire
<1>21. ASSUME UNCHANGED vars PROVE Filled'
    BY <1>21 DEF Inv, Filled, vars, ringVars
<1> QED
    BY <1>1, <1>2, <1>3, <1>4, <1>5, <1>6, <1>7, <1>8, <1>9, <1>10, <1>11,
       <1>12, <1>13, <1>14, <1>15, <1>16, <1>17, <1>18, <1>19, <1>20, <1>21
       DEF Next, Push, Runs, Collect

\* A thread keeps its slot while only other threads, and the reader, run.
LEMMA KeepsSlot ==
    ASSUME Inv, NEW t \in Threads,
           thread'[t] = thread[t], local'[t] = local[t],
           local[t] # 0 =>
               LET x == ring[Own(t)]
                   y == ring'[Own(t)]
               IN  y.head = x.head /\ y.slots = x.slots /\ (Space(x) => Space(y))
    PROVE  thread'[t].at \in {"write", "publish"} =>
               LET x == ring'[Own(t)']
               IN  /\ Space(x)
                   /\ thread'[t].at = "publish" => x.slots[x.head % Capacity] = x.head + 1
<1>1. SUFFICES ASSUME thread'[t].at \in {"write", "publish"}
      PROVE LET x == ring'[Own(t)']
            IN  /\ Space(x)
                /\ thread'[t].at = "publish" => x.slots[x.head % Capacity] = x.head + 1
    OBVIOUS
<1>2. local[t] # 0 /\ Own(t)' = Own(t)
    BY <1>1 DEF Inv, Owned, Own
<1> QED
    BY <1>1, <1>2 DEF Inv, Writing

\* Another thread's ring is another one.
LEMMA OtherRing ==
    ASSUME Inv, NEW t \in Threads, NEW u \in Threads, u # t, local[u] # 0
    PROVE  Own(u) \in Rings /\ Own(u) # Own(t)
BY OwnRing DEF Inv, Own

\* A thread keeps its slot while the rings stay as they are.
LEMMA SameRings ==
    ASSUME Inv, UNCHANGED <<ring, local>>,
           \A t \in Threads : \/ thread'[t] = thread[t]
                              \/ thread'[t].at \notin {"write", "publish"}
    PROVE  Writing'
<1>1. ASSUME NEW t \in Threads, thread'[t].at \in {"write", "publish"}
      PROVE  LET x == ring'[Own(t)']
             IN  /\ Space(x)
                 /\ thread'[t].at = "publish" => x.slots[x.head % Capacity] = x.head + 1
    BY <1>1, KeepsSlot
<1> QED
    BY <1>1 DEF Writing

\* There is a slot for who writes.
LEMMA WritingStep == Inv /\ [Next]_vars => Writing'
<1> SUFFICES ASSUME Inv, [Next]_vars PROVE Writing'
    OBVIOUS
<1>1. ASSUME NEW t \in Threads, Record(t) PROVE Writing'
    BY <1>1, SameRings DEF Inv, TypeOK, ThreadType, Record, Idle, ringVars
<1>2. ASSUME NEW t \in Threads, ReadSession(t) PROVE Writing'
    BY <1>2, SameRings DEF Inv, TypeOK, ThreadType, ReadSession, Idle, ringVars
<1>3. ASSUME NEW t \in Threads, Register(t) PROVE Writing'
  <2>1. ASSUME NEW u \in Threads, u # t
        PROVE  thread'[u] = thread[u] /\ local'[u] = local[u]
      BY <1>3, <2>1 DEF Inv, TypeOK, Register
  <2>2. ASSUME NEW u \in Threads, u # t, thread'[u].at \in {"write", "publish"}
        PROVE  LET x == ring'[Own(u)']
               IN  /\ Space(x)
                   /\ thread'[u].at = "publish" => x.slots[x.head % Capacity] = x.head + 1
      BY <1>3, <2>1, <2>2, OtherRing, KeepsSlot, LetsGo DEF Register
  <2>3. thread'[t].at \notin {"write", "publish"}
      BY <1>3 DEF Inv, TypeOK, ThreadType, Register, Idle
  <2> QED
      BY <2>2, <2>3 DEF Writing
<1>4. ASSUME NEW t \in Threads, LoadTail(t) PROVE Writing'
  <2>1. Space(ring[Own(t)]) \/ thread'[t].at = "drop"
      BY <1>4, OwnRing, TraceAssumption
         DEF Inv, TypeOK, ThreadType, RingType, Owned, LoadTail, Full, Space
  <2>2. ASSUME NEW u \in Threads, thread'[u].at \in {"write", "publish"}, u # t
        PROVE  thread'[u] = thread[u]
      BY <1>4, <2>2 DEF Inv, TypeOK, LoadTail
  <2>3. UNCHANGED <<ring, local>>
      BY <1>4 DEF LoadTail, ringVars
  <2>4. ASSUME NEW u \in Threads, thread'[u].at \in {"write", "publish"}
        PROVE  LET x == ring'[Own(u)']
               IN  /\ Space(x)
                   /\ thread'[u].at = "publish" => x.slots[x.head % Capacity] = x.head + 1
    <3>1. CASE u = t
      <4>1. thread'[t].at \in {"drop", "write"}
          BY <1>4 DEF Inv, TypeOK, ThreadType, LoadTail
      <4> QED
          BY <2>1, <2>3, <2>4, <3>1, <4>1 DEF Own
    <3>2. CASE u # t
        BY <2>2, <2>3, <2>4, <3>2, KeepsSlot
    <3> QED
        BY <3>1, <3>2
  <2> QED
      BY <2>4 DEF Writing
<1>5. ASSUME NEW t \in Threads, Drop(t) PROVE Writing'
  <2>1. ASSUME NEW u \in Threads, u # t
        PROVE  thread'[u] = thread[u] /\ local'[u] = local[u]
      BY <1>5, <2>1 DEF Inv, TypeOK, Drop
  <2>2. ASSUME NEW u \in Threads, u # t, thread'[u].at \in {"write", "publish"}
        PROVE  LET x == ring'[Own(u)']
               IN  /\ Space(x)
                   /\ thread'[u].at = "publish" => x.slots[x.head % Capacity] = x.head + 1
      BY <1>5, <2>1, <2>2, OtherRing, KeepsSlot, DropStep DEF Drop
  <2>3. thread'[t].at \notin {"write", "publish"}
      BY <1>5 DEF Inv, TypeOK, ThreadType, Drop, Idle
  <2> QED
      BY <2>2, <2>3 DEF Writing
<1>6. ASSUME NEW t \in Threads, Write(t) PROVE Writing'
  <2>1. ASSUME NEW u \in Threads, u # t
        PROVE  thread'[u] = thread[u] /\ local'[u] = local[u]
      BY <1>6, <2>1 DEF Inv, TypeOK, Write
  <2>2. ASSUME NEW u \in Threads, u # t, thread'[u].at \in {"write", "publish"}
        PROVE  LET x == ring'[Own(u)']
               IN  /\ Space(x)
                   /\ thread'[u].at = "publish" => x.slots[x.head % Capacity] = x.head + 1
      BY <1>6, <2>1, <2>2, OtherRing, KeepsSlot, WriteStep DEF Write
  <2>3. LET x == ring'[Own(t)']
        IN  /\ Space(x)
            /\ x.slots[x.head % Capacity] = x.head + 1
    <3>1. Own(t)' = Own(t)
        BY <1>6 DEF Write, Own
    <3> QED
        BY <1>6, <3>1, WriteStep
  <2> QED
      BY <2>2, <2>3 DEF Writing
<1>7. ASSUME NEW t \in Threads, Publish(t) PROVE Writing'
  <2>1. ASSUME NEW u \in Threads, u # t
        PROVE  thread'[u] = thread[u] /\ local'[u] = local[u]
      BY <1>7, <2>1 DEF Inv, TypeOK, Publish
  <2>2. ASSUME NEW u \in Threads, u # t, thread'[u].at \in {"write", "publish"}
        PROVE  LET x == ring'[Own(u)']
               IN  /\ Space(x)
                   /\ thread'[u].at = "publish" => x.slots[x.head % Capacity] = x.head + 1
      BY <1>7, <2>1, <2>2, OtherRing, KeepsSlot, PublishStep DEF Publish
  <2>3. thread'[t].at \notin {"write", "publish"}
      BY <1>7 DEF Inv, TypeOK, ThreadType, Publish, Idle
  <2> QED
      BY <2>2, <2>3 DEF Writing
<1>8. ASSUME NEW t \in Threads, End(t) PROVE Writing'
  <2>1. ASSUME NEW u \in Threads, u # t
        PROVE  thread'[u] = thread[u] /\ local'[u] = local[u]
      BY <1>8, <2>1 DEF Inv, TypeOK, End
  <2>2. ASSUME NEW u \in Threads, u # t, thread'[u].at \in {"write", "publish"}
        PROVE  LET x == ring'[Own(u)']
               IN  /\ Space(x)
                   /\ thread'[u].at = "publish" => x.slots[x.head % Capacity] = x.head + 1
      BY <1>8, <2>1, <2>2, OtherRing, KeepsSlot, LetsGo DEF End
  <2>3. thread'[t].at \notin {"write", "publish"}
      BY <1>8 DEF Inv, TypeOK, ThreadType, End, Idle
  <2> QED
      BY <2>2, <2>3 DEF Writing
<1>9. ASSUME NEW c \in Callers, Call(c) PROVE Writing'
    BY <1>9, SameRings DEF Call, ringVars
<1>10. ASSUME NEW c \in Callers, Lock(c) PROVE Writing'
    BY <1>10, SameRings DEF Lock, ringVars
<1>11. ASSUME NEW c \in Callers, Finish(c) PROVE Writing'
    BY <1>11, SameRings DEF Finish, Retire
<1>12. ASSUME NEW c \in Callers, Begin(c) PROVE Writing'
  <2>1. UNCHANGED <<thread, local>>
      BY <1>12 DEF Begin
  <2>2. ASSUME NEW t \in Threads, thread'[t].at \in {"write", "publish"}
        PROVE  LET x == ring'[Own(t)']
               IN  /\ Space(x)
                   /\ thread'[t].at = "publish" => x.slots[x.head % Capacity] = x.head + 1
      BY <1>12, <2>1, <2>2, BeginStep, KeepsSlot
  <2> QED
      BY <2>2 DEF Writing
<1>13. ASSUME NEW c \in Callers, SetMask(c) PROVE Writing'
    BY <1>13, SameRings DEF SetMask, ringVars
<1>14. ASSUME NEW c \in Callers, StartCollector(c) PROVE Writing'
    BY <1>14, SameRings DEF StartCollector, ringVars
<1>15. ASSUME LoadHead PROVE Writing'
    BY <1>15, SameRings DEF LoadHead, ringVars
<1>16. ASSUME StoreTail PROVE Writing'
  <2>1. UNCHANGED <<thread, local>>
      BY <1>16 DEF StoreTail
  <2>2. ASSUME NEW t \in Threads, thread'[t].at \in {"write", "publish"}
        PROVE  LET x == ring'[Own(t)']
               IN  /\ Space(x)
                   /\ thread'[t].at = "publish" => x.slots[x.head % Capacity] = x.head + 1
      BY <1>16, <2>1, <2>2, TailStep, OwnRing, KeepsSlot DEF Inv
  <2> QED
      BY <2>2 DEF Writing
<1>17. ASSUME Check PROVE Writing'
    BY <1>17, SameRings DEF Check, ringVars
<1>18. ASSUME Wake PROVE Writing'
    BY <1>18, SameRings DEF Wake, ringVars
<1>19. ASSUME Pump PROVE Writing'
    BY <1>19, SameRings DEF Pump, ringVars
<1>20. ASSUME Pumped PROVE Writing'
    BY <1>20, SameRings DEF Pumped, Retire
<1>21. ASSUME UNCHANGED vars PROVE Writing'
    BY <1>21, SameRings DEF vars, ringVars
<1> QED
    BY <1>1, <1>2, <1>3, <1>4, <1>5, <1>6, <1>7, <1>8, <1>9, <1>10, <1>11,
       <1>12, <1>13, <1>14, <1>15, <1>16, <1>17, <1>18, <1>19, <1>20, <1>21
       DEF Next, Push, Runs, Collect

\* The head of the ring that is read only grows, and its tail is the reader's.
LEMMA StillRead ==
    ASSUME Inv, UNCHANGED reader,
           reader.ring # NoRing =>
               /\ ring'[reader.ring].tail = ring[reader.ring].tail
               /\ ring[reader.ring].head <= ring'[reader.ring].head
               /\ ring'[reader.ring].head \in Nat
    PROVE  Reading'
<1>1. SUFFICES ASSUME reader.ring # NoRing
      PROVE  /\ ring'[reader.ring].tail <= reader.to
             /\ reader.to <= ring'[reader.ring].head
    BY DEF Reading
<1>2. /\ reader.ring \in Rings /\ reader.to \in Nat
      /\ ring[reader.ring].head \in Nat /\ ring[reader.ring].tail \in Nat
    BY <1>1 DEF Inv, TypeOK, ReaderType, RingType
<1> QED
    BY <1>1, <1>2 DEF Inv, Reading

\* The ring that is read is a registered ring.
LEMMA IsRead ==
    ASSUME Inv, reader.ring # NoRing
    PROVE  /\ reader.ring \in rings /\ reader.ring \in Rings
           /\ ring[reader.ring].head \in Nat /\ ring[reader.ring].tail \in Nat
BY NoRingIsNone DEF Inv, TypeOK, Locked, RingType

\* What is read stays so while ring and reader stay.
LEMMA SameRead ==
    ASSUME Inv, UNCHANGED <<reader, ring>>
    PROVE  Reading'
BY IsRead, StillRead

\* Nothing is read yet, or any more.
LEMMA NothingRead ==
    ASSUME reader'.ring = NoRing
    PROVE  Reading'
BY DEF Reading

\* The reader stays between tail and head.
LEMMA ReadingStep == Inv /\ [Next]_vars => Reading'
<1> SUFFICES ASSUME Inv, [Next]_vars PROVE Reading'
    OBVIOUS
<1>1. ASSUME NEW t \in Threads, Record(t) PROVE Reading'
    BY <1>1, SameRead DEF Record, ringVars, readerVars
<1>2. ASSUME NEW t \in Threads, ReadSession(t) PROVE Reading'
    BY <1>2, SameRead DEF ReadSession, ringVars, readerVars
<1>3. ASSUME NEW t \in Threads, Register(t) PROVE Reading'
  <2>1. UNCHANGED reader
      BY <1>3 DEF Register, readerVars
  <2> QED
      BY <1>3, <2>1, IsRead, StillRead, LetsGo DEF Register
<1>4. ASSUME NEW t \in Threads, LoadTail(t) PROVE Reading'
    BY <1>4, SameRead DEF LoadTail, ringVars, readerVars
<1>5. ASSUME NEW t \in Threads, Drop(t) PROVE Reading'
  <2>1. local[t] # 0 /\ UNCHANGED reader
      BY <1>5 DEF Inv, Owned, Drop, readerVars
  <2>2. ring[Own(t)].head \in Nat
      BY <2>1, OwnRing DEF Inv, TypeOK, RingType
  <2> QED
      BY <1>5, <2>1, <2>2, IsRead, StillRead, DropStep
<1>6. ASSUME NEW t \in Threads, Write(t) PROVE Reading'
  <2>1. local[t] # 0 /\ UNCHANGED reader
      BY <1>6 DEF Inv, Owned, Write, readerVars
  <2>2. ring[Own(t)].head \in Nat
      BY <2>1, OwnRing DEF Inv, TypeOK, RingType
  <2> QED
      BY <1>6, <2>1, <2>2, IsRead, StillRead, WriteStep
<1>7. ASSUME NEW t \in Threads, Publish(t) PROVE Reading'
  <2>1. local[t] # 0 /\ UNCHANGED reader
      BY <1>7 DEF Inv, Owned, Publish, readerVars
  <2>2. ring[Own(t)].head \in Nat
      BY <2>1, OwnRing DEF Inv, TypeOK, RingType
  <2> QED
      BY <1>7, <2>1, <2>2, IsRead, StillRead, PublishStep
<1>8. ASSUME NEW t \in Threads, End(t) PROVE Reading'
  <2>1. UNCHANGED reader
      BY <1>8 DEF End, readerVars
  <2> QED
      BY <1>8, <2>1, IsRead, StillRead, LetsGo DEF End
<1>9. ASSUME NEW c \in Callers, Call(c) PROVE Reading'
    BY <1>9, SameRead DEF Call, ringVars, readerVars
<1>10. ASSUME NEW c \in Callers, Lock(c) PROVE Reading'
  <2>1. CASE CopyRings(c)
      BY <1>10, <2>1, NothingRead DEF CopyRings, Unlocked
  <2>2. CASE UNCHANGED <<reader, sum, before>>
      BY <1>10, <2>2, SameRead DEF Lock, ringVars
  <2> QED
      BY <1>10, <2>1, <2>2 DEF Lock
<1>11. ASSUME NEW c \in Callers, Finish(c) PROVE Reading'
    BY <1>11, NothingRead DEF Finish, Retire, Unlocked
<1>12. ASSUME NEW c \in Callers, Begin(c) PROVE Reading'
  <2>1. reader'.ring = NoRing
      BY <1>12 DEF Inv, Locked, Begin, Unlocked
  <2> QED
      BY <2>1, NothingRead
<1>13. ASSUME NEW c \in Callers, SetMask(c) PROVE Reading'
    BY <1>13, SameRead DEF SetMask, ringVars, readerVars
<1>14. ASSUME NEW c \in Callers, StartCollector(c) PROVE Reading'
    BY <1>14, SameRead DEF StartCollector, ringVars, readerVars
<1>15. ASSUME LoadHead PROVE Reading'
  <2>1. PICK r \in reader.left :
           reader' = [reader EXCEPT !.ring = r, !.to = ring[r].head, !.left = @ \ {r}]
      BY <1>15 DEF LoadHead
  <2>2. r \in Rings /\ reader'.ring = r /\ reader'.to = ring[r].head
      BY <2>1 DEF Inv, TypeOK, ReaderType
  <2>3. /\ ring[r].tail <= ring[r].head /\ ring[r].head \in Nat
        /\ ring' = ring
      BY <1>15, <2>2 DEF Inv, TypeOK, RingType, Filled, Safe, LoadHead, ringVars
  <2> QED
      BY <2>2, <2>3 DEF Reading
<1>16. ASSUME StoreTail PROVE Reading'
  <2>1. reader'.ring = NoRing
      BY <1>16 DEF Inv, TypeOK, ReaderType, StoreTail
  <2> QED
      BY <2>1, NothingRead
<1>17. ASSUME Check PROVE Reading'
    BY <1>17, SameRead DEF Check, ringVars, readerVars
<1>18. ASSUME Wake PROVE Reading'
    BY <1>18, SameRead DEF Wake, ringVars, readerVars
<1>19. ASSUME Pump PROVE Reading'
  <2>1. CASE CopyRings("collector")
      BY <1>19, <2>1, NothingRead DEF CopyRings, Unlocked
  <2>2. CASE UNCHANGED <<reader, sum, before>>
      BY <1>19, <2>2, SameRead DEF Pump, ringVars
  <2> QED
      BY <1>19, <2>1, <2>2 DEF Pump
<1>20. ASSUME Pumped PROVE Reading'
    BY <1>20, NothingRead DEF Pumped, Retire, Unlocked
<1>21. ASSUME UNCHANGED vars PROVE Reading'
    BY <1>21, SameRead DEF vars, ringVars, readerVars
<1> QED
    BY <1>1, <1>2, <1>3, <1>4, <1>5, <1>6, <1>7, <1>8, <1>9, <1>10, <1>11,
       <1>12, <1>13, <1>14, <1>15, <1>16, <1>17, <1>18, <1>19, <1>20, <1>21
       DEF Next, Push, Runs, Collect

\* Nothing is lost while rings and registry stay.
LEMMA SameLost ==
    ASSUME Inv, UNCHANGED <<session, rings, forsaken, ring>>
    PROVE  Unlost'
BY DEF Inv, Unlost

\* Only rings that are registered, or forsaken, are written.
LEMMA OwnLost ==
    ASSUME Inv, NEW t \in Threads, local[t] # 0,
           UNCHANGED <<session, rings, forsaken>>,
           \A r \in Rings : r # Own(t) => ring'[r] = ring[r]
    PROVE  Unlost'
<1>1. Own(t)[2] = session => Own(t) \in rings \cup forsaken
    BY DEF Inv, Owned, Own
<1> QED
    BY <1>1 DEF Inv, Unlost

\* Only what was read goes.
LEMMA RetireLost ==
    ASSUME Inv, Retire
    PROVE  Unlost'
<1>1. ASSUME NEW r \in rings, r \notin rings' PROVE ring[r].head = ring[r].tail
    BY <1>1 DEF Retire, Kept
<1>2. forsaken \subseteq forsaken' /\ UNCHANGED <<session, ring>>
    BY DEF Retire
<1> QED
    BY <1>1, <1>2 DEF Inv, Unlost

\* What was not read is registered.
LEMMA UnlostStep == Inv /\ [Next]_vars => Unlost'
<1> SUFFICES ASSUME Inv, [Next]_vars PROVE Unlost'
    OBVIOUS
<1>1. ASSUME NEW t \in Threads, Record(t) PROVE Unlost'
    BY <1>1, SameLost DEF Record, ringVars, readerVars
<1>2. ASSUME NEW t \in Threads, ReadSession(t) PROVE Unlost'
    BY <1>2, SameLost DEF ReadSession, ringVars, readerVars
<1>3. ASSUME NEW t \in Threads, Register(t) PROVE Unlost'
  <2>1. rings \subseteq rings' /\ UNCHANGED <<session, forsaken>>
      BY <1>3 DEF Register, readerVars
  <2> QED
      BY <1>3, <2>1, LetsGo, Empty DEF Inv, Unlost, Register
<1>4. ASSUME NEW t \in Threads, LoadTail(t) PROVE Unlost'
    BY <1>4, SameLost DEF LoadTail, ringVars, readerVars
<1>5. ASSUME NEW t \in Threads, Drop(t) PROVE Unlost'
  <2>1. local[t] # 0 /\ UNCHANGED <<session, rings, forsaken>>
      BY <1>5 DEF Inv, Owned, Drop, readerVars
  <2> QED
      BY <1>5, <2>1, OwnLost, DropStep
<1>6. ASSUME NEW t \in Threads, Write(t) PROVE Unlost'
  <2>1. local[t] # 0 /\ UNCHANGED <<session, rings, forsaken>>
      BY <1>6 DEF Inv, Owned, Write, readerVars
  <2> QED
      BY <1>6, <2>1, OwnLost, WriteStep
<1>7. ASSUME NEW t \in Threads, Publish(t) PROVE Unlost'
  <2>1. local[t] # 0 /\ UNCHANGED <<session, rings, forsaken>>
      BY <1>7 DEF Inv, Owned, Publish, readerVars
  <2> QED
      BY <1>7, <2>1, OwnLost, PublishStep
<1>8. ASSUME NEW t \in Threads, End(t) PROVE Unlost'
  <2>1. UNCHANGED <<session, rings, forsaken>>
      BY <1>8 DEF End, readerVars
  <2> QED
      BY <1>8, <2>1, LetsGo, Empty DEF Inv, Unlost, End
<1>9. ASSUME NEW c \in Callers, Call(c) PROVE Unlost'
    BY <1>9, SameLost DEF Call, ringVars, readerVars
<1>10. ASSUME NEW c \in Callers, Lock(c) PROVE Unlost'
    BY <1>10, SameLost DEF Lock, ringVars
<1>11. ASSUME NEW c \in Callers, Finish(c) PROVE Unlost'
    BY <1>11, RetireLost DEF Finish
<1>12. ASSUME NEW c \in Callers, Begin(c) PROVE Unlost'
  <2>1. session' = session + 1
      BY <1>12 DEF Begin
  <2> QED
      BY <1>12, <2>1, BeginStep, Empty DEF Unlost
<1>13. ASSUME NEW c \in Callers, SetMask(c) PROVE Unlost'
    BY <1>13, SameLost DEF SetMask, ringVars, readerVars
<1>14. ASSUME NEW c \in Callers, StartCollector(c) PROVE Unlost'
    BY <1>14, SameLost DEF StartCollector, ringVars, readerVars
<1>15. ASSUME LoadHead PROVE Unlost'
    BY <1>15, SameLost DEF LoadHead, ringVars
<1>16. ASSUME StoreTail PROVE Unlost'
  <2>1. UNCHANGED <<session, rings, forsaken>>
      BY <1>16 DEF StoreTail
  <2> QED
      BY <1>16, <2>1, TailStep DEF Inv, Unlost
<1>17. ASSUME Check PROVE Unlost'
    BY <1>17, SameLost DEF Check, ringVars, readerVars
<1>18. ASSUME Wake PROVE Unlost'
    BY <1>18, SameLost DEF Wake, ringVars, readerVars
<1>19. ASSUME Pump PROVE Unlost'
    BY <1>19, SameLost DEF Pump, ringVars
<1>20. ASSUME Pumped PROVE Unlost'
    BY <1>20, RetireLost DEF Pumped
<1>21. ASSUME UNCHANGED vars PROVE Unlost'
    BY <1>21, SameLost DEF vars, ringVars, readerVars
<1> QED
    BY <1>1, <1>2, <1>3, <1>4, <1>5, <1>6, <1>7, <1>8, <1>9, <1>10, <1>11,
       <1>12, <1>13, <1>14, <1>15, <1>16, <1>17, <1>18, <1>19, <1>20, <1>21
       DEF Next, Push, Runs, Collect

-----------------------------------------------------------------------------
(* Theorems.                                                               *)

\* The invariant holds at first.
LEMMA InitInv == Init => Inv
<1> SUFFICES ASSUME Init PROVE Inv
    OBVIOUS
<1>1. TypeOK
  <2>1. NewRing \in RingType /\ Unlocked \in ReaderType /\ Idle \in ThreadType
      BY Empty, Unlocks, TraceAssumption DEF Idle, ThreadType
  <2>2. 0 \in 0 .. MaxSessions
      BY TraceAssumption
  <2> QED
      BY <2>1, <2>2 DEF Init, TypeOK
<1>2. Bounded
  <2>1. Starting = {}
      BY DEF Init, Starting
  <2> QED
      BY <2>1, FS_EmptySet, TraceAssumption DEF Bounded, Init
<1>3. Started /\ running \in {0, session} /\ Locked /\ Owned
    BY DEF Init, Started, Locked, Owned, Unlocked, Idle
<1>4. Filled /\ Writing /\ Reading /\ Unlost
    BY Empty DEF Init, Filled, Writing, Reading, Unlost, Unlocked, Idle
<1> QED
    BY <1>1, <1>2, <1>3, <1>4 DEF Inv

\* Every step preserves the invariant.
LEMMA StepInv == Inv /\ [Next]_vars => Inv'
BY TypeStep, StartedStep, BoundedStep, RunningStep, LockedStep, OwnedStep,
   FilledStep, WritingStep, ReadingStep, UnlostStep
   DEF Inv

\* The invariant holds of every run.
THEOREM TraceInv == Spec => []Inv
BY InitInv, StepInv, PTL DEF Spec

\* Every value stays of its type: the statics of ring.rs and mod.rs.
THEOREM TracesTypeCorrect == Spec => []TypeOK
<1>1. Inv => TypeOK
    BY DEF Inv
<1> QED
    BY <1>1, TraceInv, PTL

\* What the reader takes from a ring is what was written there, and nobody
\* writes it meanwhile: the SAFETY comments of Ring::push and Ring::drain.
THEOREM SlotsStaySafe == Spec => []SlotsAreSafe
<1>1. ASSUME Inv PROVE SlotsAreSafe
  <2> DEFINE r == reader.ring
             x == ring[r]
  <2>1. SUFFICES ASSUME reader.ring # NoRing, NEW i \in x.tail .. reader.to - 1
        PROVE  /\ x.slots[i % Capacity] = i + 1
               /\ ~ /\ thread[r[1]].at = "write" /\ local[r[1]] = r[2]
                    /\ x.head % Capacity = i % Capacity
      BY DEF SlotsAreSafe
  <2>2. /\ r \in Rings /\ reader.to \in Nat /\ x.head \in Nat /\ x.tail \in Nat
        /\ reader.to <= x.head
      BY <1>1, <2>1, IsRead DEF Inv, TypeOK, ReaderType, Reading
  <2>3. i \in x.tail .. x.head - 1 /\ i \in Nat
      BY <2>1, <2>2
  <2>4. x.slots[i % Capacity] = i + 1
      BY <1>1, <2>2, <2>3 DEF Inv, Filled, Safe
  <2>5. ASSUME thread[r[1]].at = "write", local[r[1]] = r[2]
        PROVE  x.head % Capacity # i % Capacity
    <3>1. r[1] \in Threads /\ Own(r[1]) = r
        BY <2>2, <2>5 DEF Rings, Own
    <3>2. Space(x)
        BY <1>1, <2>5, <3>1 DEF Inv, Writing
    <3>3. i < x.head /\ x.head < i + Capacity
        BY <2>2, <2>3, <3>2, TraceAssumption DEF Space
    <3> QED
        BY <2>2, <2>3, <3>3, OwnSlots
  <2> QED
      BY <2>4, <2>5
<1> QED
    BY <1>1, TraceInv, PTL

\* A ring of the running session that is given up was read to its end: the
\* retain of ring::drain.
THEOREM NoRingIsLost == Spec => []NothingIsLost
<1>1. ASSUME Inv PROVE NothingIsLost
  <2>1. SUFFICES ASSUME running # 0,
                        NEW r \in (Threads \X {running}) \ (rings \cup forsaken)
        PROVE  ring[r].head = ring[r].tail
      BY DEF NothingIsLost
  <2>2. r[2] = session /\ r \in Rings
      BY <1>1, <2>1 DEF Inv, TypeOK, Rings, Sessions
  <2> QED
      BY <1>1, <2>1, <2>2 DEF Inv, Unlost
<1> QED
    BY <1>1, TraceInv, PTL

-----------------------------------------------------------------------------
(* Sums over sets of rings.  MapThenSumSet adds in an order that nobody    *)
(* knows; its sums are the sizes of sets in which each member stands for   *)
(* as many elements as it adds.                                            *)

\* Numbers below w[r], for each r of S.
Units(w, S) == {u \in S \X Nat : u[2] < w[u[1]]}

\* Among sets of parts of a finite set one is smallest.
LEMMA Smallest ==
    ASSUME NEW S, IsFiniteSet(S), NEW B, B \subseteq SUBSET S, B # {}
    PROVE  \E s \in B : \A t \in B : t \subseteq s => t = s
<1>1. B \subseteq FiniteSubsetsOf(S)
    BY FS_Subset DEF FiniteSubsetsOf
<1>2. \E s \in B : \A t \in B : <<t, s>> \notin StrictSubsetOrdering(S)
    BY <1>1, FS_StrictSubsetOrderingWellFounded, WFMin
<1> QED
    BY <1>2 DEF StrictSubsetOrdering

\* One more member adds its number of units.
LEMMA UnitsOfOneMore ==
    ASSUME NEW D, NEW w \in [D -> Nat], NEW S \in SUBSET D, NEW x \in S,
           IsFiniteSet(Units(w, S \ {x}))
    PROVE  /\ IsFiniteSet(Units(w, S))
           /\ Cardinality(Units(w, S)) = w[x] + Cardinality(Units(w, S \ {x}))
<1> DEFINE n == w[x]
           k == 0 .. n - 1
           a == {x} \X k
           b == Units(w, S \ {x})
<1>1. n \in Nat
    OBVIOUS
<1>2. IsFiniteSet(a) /\ Cardinality(a) = n
  <2>1. IsFiniteSet(k) /\ Cardinality(k) = n
      BY <1>1, FS_Interval
  <2>2. IsFiniteSet({x}) /\ Cardinality({x}) = 1
      BY FS_Singleton
  <2> HIDE DEF n, k
  <2>3. IsFiniteSet({x} \X k) /\ Cardinality({x} \X k) = 1 * n
      BY <2>1, <2>2, FS_Product
  <2> QED
      BY <1>1, <2>3
<1>3. Units(w, S) = a \cup b
  <2>1. ASSUME NEW u PROVE u \in Units(w, S) <=> u \in a \/ u \in b
    <3>1. u \in Units(w, S) <=> \E r \in S, i \in Nat : u = <<r, i>> /\ i < w[r]
        BY DEF Units
    <3>2. u \in b <=> \E r \in S \ {x}, i \in Nat : u = <<r, i>> /\ i < w[r]
        BY DEF Units
    <3>3. u \in a <=> \E i \in Nat : u = <<x, i>> /\ i < n
        BY <1>1
    <3> QED
        BY <3>1, <3>2, <3>3
  <2> HIDE DEF a, b
  <2> QED
      BY <2>1
<1>4. a \cap b = {}
    BY DEF Units
<1> HIDE DEF a
<1>5. Cardinality(a \cap b) = 0
    BY <1>4, FS_EmptySet
<1>6. Cardinality(b) \in Nat
    BY FS_CardinalityType
<1> HIDE DEF b, n
<1>7. /\ IsFiniteSet(a \cup b)
      /\ Cardinality(a \cup b) = Cardinality(a) + Cardinality(b) - Cardinality(a \cap b)
    BY <1>2, FS_Union DEF b
<1> QED
    BY <1>1, <1>2, <1>3, <1>5, <1>6, <1>7 DEF b, n

\* There are finitely many.
LEMMA UnitsAreFinite ==
    ASSUME NEW D, NEW w \in [D -> Nat], NEW S \in SUBSET D, IsFiniteSet(S)
    PROVE  IsFiniteSet(Units(w, S))
<1> DEFINE B == {t \in SUBSET S : ~IsFiniteSet(Units(w, t))}
<1>1. SUFFICES ASSUME B # {} PROVE FALSE
    OBVIOUS
<1>2. PICK t \in B : \A u \in B : u \subseteq t => u = t
  <2>1. B \subseteq SUBSET S
      OBVIOUS
  <2> HIDE DEF B
  <2> QED
      BY <1>1, <2>1, Smallest
<1>3. t # {}
  <2>1. Units(w, {}) = {}
      BY DEF Units
  <2> QED
      BY <2>1, FS_EmptySet
<1>4. PICK x \in t : TRUE
    BY <1>3
<1>5. IsFiniteSet(Units(w, t \ {x}))
    BY <1>2, <1>4
<1>6. IsFiniteSet(Units(w, t))
    BY <1>2, <1>4, <1>5, UnitsOfOneMore
<1> QED
    BY <1>2, <1>6

\* A sum is a number of units: both satisfy the equation that defines the sum,
\* and no smallest set tells them apart.
LEMMA SumsCountUnits ==
    ASSUME NEW D, NEW w \in [D -> Nat], NEW S \in SUBSET D, IsFiniteSet(S)
    PROVE  MapThenSumSet(LAMBDA r : w[r], S) = Cardinality(Units(w, S))
<1> DEFINE step(g, s) == IF s = {} THEN 0
                         ELSE w[CHOOSE x \in s : TRUE] + g[s \ {CHOOSE x \in s : TRUE}]
           counts == [s \in SUBSET S |-> Cardinality(Units(w, s))]
           iter == CHOOSE g : g = [s \in SUBSET S |-> step(g, s)]
<1>1. counts = [s \in SUBSET S |-> step(counts, s)]
  <2>1. ASSUME NEW s \in SUBSET S PROVE Cardinality(Units(w, s)) = step(counts, s)
    <3>1. CASE s = {}
      <4>1. Units(w, {}) = {}
          BY DEF Units
      <4> QED
          BY <3>1, <4>1, FS_EmptySet
    <3>2. CASE s # {}
      <4> DEFINE x == CHOOSE x \in s : TRUE
      <4>1. x \in s
          BY <3>2
      <4> HIDE DEF x
      <4>2. s \ {x} \in SUBSET S /\ IsFiniteSet(s \ {x}) /\ s \in SUBSET D
          BY FS_Subset
      <4>3. Cardinality(Units(w, s)) = w[x] + Cardinality(Units(w, s \ {x}))
          BY <4>1, <4>2, UnitsAreFinite, UnitsOfOneMore
      <4>4. counts[s \ {x}] = Cardinality(Units(w, s \ {x}))
          BY <4>2
      <4>5. step(counts, s) = w[x] + counts[s \ {x}]
          BY <3>2 DEF x
      <4> QED
          BY <4>3, <4>4, <4>5
    <3> QED
        BY <3>1, <3>2
  <2> HIDE DEF step
  <2> QED
      BY <2>1
<1>2. iter = [s \in SUBSET S |-> step(iter, s)]
  <2> HIDE DEF counts
  <2> QED
      BY <1>1
<1> HIDE DEF iter
<1>3. \A s \in SUBSET S : iter[s] = counts[s]
  <2> DEFINE B == {s \in SUBSET S : iter[s] # counts[s]}
  <2>1. SUFFICES ASSUME B # {} PROVE FALSE
      OBVIOUS
  <2>2. PICK s \in B : \A u \in B : u \subseteq s => u = s
    <3>1. B \subseteq SUBSET S
        OBVIOUS
    <3> HIDE DEF B
    <3> QED
        BY <2>1, <3>1, Smallest
  <2>3. iter[s] = step(iter, s) /\ counts[s] = step(counts, s)
    <3> HIDE DEF step, counts
    <3> QED
        BY <1>1, <1>2, <2>2
  <2>4. s # {}
      BY <2>2, <2>3
  <2> DEFINE x == CHOOSE x \in s : TRUE
  <2>5. x \in s
      BY <2>4
  <2>6. /\ step(iter, s) = w[x] + iter[s \ {x}]
        /\ step(counts, s) = w[x] + counts[s \ {x}]
      BY <2>4
  <2> HIDE DEF x, step, counts
  <2>7. s \ {x} \notin B /\ s \ {x} \in SUBSET S
      BY <2>2, <2>5
  <2> QED
      BY <2>2, <2>3, <2>6, <2>7
<1>4. MapThenSumSet(LAMBDA r : w[r], S) = iter[S]
    BY DEF MapThenSumSet, MapThenFoldSet, iter, step
<1> QED
    BY <1>3, <1>4

\* What the rings S of q dropped.
DropsOf(q, S) == MapThenSumSet(LAMBDA r : q[r].dropped, S)

\* Each dropped record is a unit.
Dropped(q) == [r \in Rings |-> q[r].dropped]

LEMMA RingsAreFinite == IsFiniteSet(Rings) /\ \A S \in SUBSET Rings : IsFiniteSet(S)
<1>1. IsFiniteSet(Sessions)
    BY FS_Interval, TraceAssumption DEF Sessions
<1>2. IsFiniteSet(Rings)
    BY <1>1, FS_Product, TraceAssumption DEF Rings
<1> QED
    BY <1>2, FS_Subset

LEMMA DropsAreUnits ==
    ASSUME NEW q \in [Rings -> RingType], NEW S \in SUBSET Rings
    PROVE  /\ IsFiniteSet(Units(Dropped(q), S))
           /\ Cardinality(Units(Dropped(q), S)) \in Nat
           /\ DropsOf(q, S) = Cardinality(Units(Dropped(q), S))
<1>1. IsFiniteSet(S)
    BY RingsAreFinite
<1>2. Dropped(q) \in [Rings -> Nat]
    BY DEF Dropped, RingType
<1>3. /\ IsFiniteSet(Units(Dropped(q), S))
      /\ MapThenSumSet(LAMBDA r : Dropped(q)[r], S) = Cardinality(Units(Dropped(q), S))
    BY <1>1, <1>2, UnitsAreFinite, SumsCountUnits
<1>4. DropsOf(q, S) = MapThenSumSet(LAMBDA r : Dropped(q)[r], S)
    BY DEF DropsOf, Dropped, MapThenSumSet, MapThenFoldSet
<1> QED
    BY <1>3, <1>4, FS_CardinalityType

\* A ring adds what it dropped.
LEMMA DropsOfOne ==
    ASSUME NEW q \in [Rings -> RingType], NEW r \in Rings
    PROVE  DropsOf(q, {r}) = q[r].dropped
<1> DEFINE w == Dropped(q)
<1>1. w \in [Rings -> Nat] /\ w[r] = q[r].dropped
    BY DEF Dropped, RingType
<1> HIDE DEF w
<1>2. Units(w, {}) = {} /\ {r} \ {r} = {}
    BY DEF Units
<1>3. IsFiniteSet(Units(w, {r} \ {r})) /\ Cardinality(Units(w, {r} \ {r})) = 0
    BY <1>2, FS_EmptySet
<1>4. Cardinality(Units(w, {r})) = w[r] + 0
    BY <1>1, <1>3, UnitsOfOneMore
<1>5. w[r] \in Nat
    BY <1>1
<1> QED
    BY <1>1, <1>4, <1>5, DropsAreUnits DEF w

\* Rings apart add up.
LEMMA DropsOfBoth ==
    ASSUME NEW q \in [Rings -> RingType], NEW S \in SUBSET Rings, NEW T \in SUBSET Rings,
           S \cap T = {}
    PROVE  /\ DropsOf(q, S) \in Nat /\ DropsOf(q, T) \in Nat
           /\ DropsOf(q, S \cup T) = DropsOf(q, S) + DropsOf(q, T)
<1> DEFINE a == Units(Dropped(q), S)
           b == Units(Dropped(q), T)
<1>1. /\ IsFiniteSet(a) /\ Cardinality(a) \in Nat /\ DropsOf(q, S) = Cardinality(a)
      /\ IsFiniteSet(b) /\ Cardinality(b) \in Nat /\ DropsOf(q, T) = Cardinality(b)
    BY DropsAreUnits
<1>2. Units(Dropped(q), S \cup T) = a \cup b /\ a \cap b = {}
    BY DEF Units
<1>3. DropsOf(q, S \cup T) = Cardinality(Units(Dropped(q), S \cup T))
    BY DropsAreUnits
<1> HIDE DEF a, b
<1>4. Cardinality(a \cup b) = Cardinality(a) + Cardinality(b) - Cardinality(a \cap b)
    BY <1>1, FS_Union
<1>5. Cardinality(a \cap b) = 0
    BY <1>2, FS_EmptySet
<1>6. DropsOf(q, S \cup T) = Cardinality(a \cup b)
    BY <1>2, <1>3
<1> QED
    BY <1>1, <1>4, <1>5, <1>6

\* More rings that dropped more dropped more.
LEMMA DropsGrow ==
    ASSUME NEW q \in [Rings -> RingType], NEW p \in [Rings -> RingType],
           NEW T \in SUBSET Rings, NEW S \in SUBSET T,
           \A r \in S : q[r].dropped <= p[r].dropped
    PROVE  /\ DropsOf(q, S) \in Nat /\ DropsOf(p, T) \in Nat
           /\ DropsOf(q, S) <= DropsOf(p, T)
<1> DEFINE a == Units(Dropped(q), S)
           b == Units(Dropped(p), T)
<1>1. /\ IsFiniteSet(a) /\ Cardinality(a) \in Nat /\ DropsOf(q, S) = Cardinality(a)
      /\ IsFiniteSet(b) /\ Cardinality(b) \in Nat /\ DropsOf(p, T) = Cardinality(b)
    BY DropsAreUnits
<1>2. ASSUME NEW u \in a PROVE u \in b
  <2>1. PICK r \in S, i \in Nat : u = <<r, i>> /\ i < Dropped(q)[r]
      BY <1>2 DEF Units
  <2>2. r \in Rings /\ q[r].dropped \in Nat /\ p[r].dropped \in Nat
      BY DEF RingType
  <2>3. i < Dropped(p)[r]
      BY <2>1, <2>2 DEF Dropped
  <2> QED
      BY <2>1, <2>3 DEF Units
<1> HIDE DEF a, b
<1>3. Cardinality(a) <= Cardinality(b)
    BY <1>1, <1>2, FS_Subset
<1> QED
    BY <1>1, <1>3

\* Rings that dropped as much dropped as much.
LEMMA DropsStay ==
    ASSUME NEW q \in [Rings -> RingType], NEW p \in [Rings -> RingType],
           NEW S \in SUBSET Rings, \A r \in S : q[r].dropped = p[r].dropped
    PROVE  DropsOf(q, S) = DropsOf(p, S)
<1>1. \A r \in S : q[r].dropped <= p[r].dropped /\ p[r].dropped <= q[r].dropped
    BY DEF RingType
<1>2. S \in SUBSET S
    OBVIOUS
<1>3. DropsOf(q, S) \in Nat /\ DropsOf(p, S) \in Nat /\ DropsOf(q, S) <= DropsOf(p, S)
    BY <1>1, <1>2, DropsGrow
<1>4. DropsOf(p, S) <= DropsOf(q, S)
    BY <1>1, <1>2, DropsGrow
<1> QED
    BY <1>3, <1>4

\* Rings that dropped nothing add nothing.
LEMMA DropsOfNone ==
    ASSUME NEW q \in [Rings -> RingType], NEW S \in SUBSET Rings,
           \A r \in S : q[r].dropped = 0
    PROVE  DropsOf(q, S) = 0
<1>1. Units(Dropped(q), S) = {}
    BY DEF Units, Dropped
<1> QED
    BY <1>1, DropsAreUnits, FS_EmptySet

-----------------------------------------------------------------------------
(* What the rings dropped.                                                 *)

\* The rings of the session.
SessionRings == Threads \X {session}

\* A ring that dropped something was full.
Overfull ==
    /\ \A r \in Rings : ring[r].dropped > 0 => ring[r].head > 0
    /\ \A t \in Threads : thread[t].at = "drop" => ring[Own(t)].head > 0

\* The registry has rings of the session; it lost a ring or has it.
Registered == rings \cup forsaken \subseteq SessionRings /\ rings \cap forsaken = {}

\* A thread that has no ring of the session and may get one gets a new one.
Unused ==
    \A t \in Threads :
        /\ thread[t].at = "register" =>
              local[t] < thread[t].session /\ thread[t].session <= session
        /\ session # 0 /\ local[t] # session /\ thread[t].at # "over" =>
              ring[<<t, session>>] = NewRing /\ <<t, session>> \notin rings \cup forsaken

\* Rings that are gone have been counted.
Retained ==
    /\ retired \in Nat
    /\ session # 0 => retired = DropsOf(ring, SessionRings \ (rings \cup forsaken))

\* The rings of the copy that are still to be read.
Remaining == reader.left \cup ({reader.ring} \ {NoRing})

\* The rings of the copy that were read are counted with no more than they
\* dropped; with them and what is still to be read, the session dropped no less
\* than when the copy was made.
Summed ==
    /\ sum \in Nat /\ before \in Nat
    /\ ~Free =>
          /\ session # 0
          /\ reader.ring \notin reader.left
          /\ \A r \in rings \ reader.held : ring[r].tail = 0
          /\ sum <= DropsOf(ring, reader.held \ Remaining)
          /\ before <= retired + sum + DropsOf(ring, Remaining)

Counted == Overfull /\ Registered /\ Unused /\ Retained /\ Summed

\* Rings that hold as many records, or new ones, were as full.
LEMMA SameFull ==
    ASSUME Inv, Counted, UNCHANGED local, ring' \in [Rings -> RingType],
           \A r \in Rings : /\ ring'[r].head >= ring[r].head
                            /\ ring'[r].dropped = ring[r].dropped,
           \A t \in Threads : thread'[t].at = "drop" => thread[t].at = "drop"
    PROVE  Overfull'
<1>1. ASSUME NEW r \in Rings, ring'[r].dropped > 0 PROVE ring'[r].head > 0
    BY <1>1 DEF Inv, TypeOK, RingType, Counted, Overfull
<1>2. ASSUME NEW t \in Threads, thread'[t].at = "drop" PROVE ring'[Own(t)'].head > 0
  <2>1. thread[t].at = "drop" /\ ring[Own(t)].head > 0
      BY <1>2 DEF Counted, Overfull
  <2>2. local[t] # 0 /\ Own(t)' = Own(t)
      BY <2>1 DEF Inv, Owned, Own
  <2>3. Own(t) \in Rings
      BY <2>2, OwnRing DEF Inv
  <2> QED
      BY <2>1, <2>2, <2>3 DEF Inv, TypeOK, RingType
<1> QED
    BY <1>1, <1>2 DEF Overfull

\* A thread that lets go of its ring drops nothing.
LEMMA LetsGoFull ==
    ASSUME Inv, Counted, NEW t \in Threads, LetGo(t), thread[t].at # "drop",
           thread'[t].at # "drop",
           \A u \in Threads \ {t} : local'[u] = local[u] /\ thread'[u] = thread[u]
    PROVE  Overfull'
<1>1. ASSUME NEW r \in Rings, ring'[r].dropped > 0 PROVE ring'[r].head > 0
  <2>1. ring'[r] \in {ring[r], NewRing}
      BY LetsGo
  <2>2. NewRing.dropped = 0
      BY DEF NewRing
  <2> QED
      BY <1>1, <2>1, <2>2 DEF Counted, Overfull
<1>2. ASSUME NEW u \in Threads, thread'[u].at = "drop" PROVE ring'[Own(u)'].head > 0
  <2>1. u # t /\ thread[u].at = "drop" /\ Own(u)' = Own(u) /\ ring[Own(u)].head > 0
      BY <1>2 DEF Own, Counted, Overfull
  <2>2. local[u] # 0
      BY <2>1 DEF Inv, Owned
  <2>3. Own(u) \in Rings /\ Own(u) # Own(t)
      BY <2>1, <2>2, OtherRing
  <2>4. ring'[Own(u)] = ring[Own(u)]
      BY <2>3, LetsGo
  <2> QED
      BY <2>1, <2>4
<1> QED
    BY <1>1, <1>2 DEF Overfull

\* Writing and publishing drop nothing.
LEMMA KeepsDropped ==
    ASSUME Inv, NEW t \in Threads, Write(t) \/ Publish(t)
    PROVE  ring'[Own(t)].dropped = ring[Own(t)].dropped
<1>1. Own(t) \in Rings
    BY OwnRing DEF Inv, Owned, Write, Publish
<1> DEFINE o == Own(t)
           x == ring[o]
<1>2. x \in RingType /\ ring \in [Rings -> RingType]
    BY <1>1 DEF Inv, TypeOK
<1>3. CASE Write(t)
  <2> DEFINE slots == [x.slots EXCEPT ![x.head % Capacity] = x.head + 1]
             y == [x EXCEPT !.slots = slots]
  <2>1. ring' = [ring EXCEPT ![o] = y]
      BY <1>3 DEF Write
  <2> HIDE DEF slots
  <2>2. y.dropped = x.dropped
      BY <1>2 DEF RingType
  <2> HIDE DEF y
  <2> QED
      BY <1>1, <1>2, <2>1, <2>2
<1>4. CASE Publish(t)
  <2> DEFINE y == [x EXCEPT !.head = @ + 1]
  <2>1. ring' = [ring EXCEPT ![o] = y]
      BY <1>4 DEF Publish
  <2>2. y.dropped = x.dropped
      BY <1>2 DEF RingType
  <2> HIDE DEF y
  <2> QED
      BY <1>1, <1>2, <2>1, <2>2
<1> QED
    BY <1>3, <1>4

\* Neither does the reader.
LEMMA TailDropped ==
    ASSUME Inv, StoreTail
    PROVE  ring'[reader.ring].dropped = ring[reader.ring].dropped
<1> DEFINE r == reader.ring
           x == ring[r]
           y == [x EXCEPT !.tail = reader.to]
<1>1. r \in Rings /\ ring \in [Rings -> RingType] /\ x \in RingType
    BY TailStep DEF Inv, TypeOK
<1>2. ring' = [ring EXCEPT ![r] = y] /\ y.dropped = x.dropped
    BY <1>1 DEF StoreTail, RingType
<1> HIDE DEF y
<1> QED
    BY <1>1, <1>2

\* Who drops found a full ring.
LEMMA OverfullStep == Inv /\ Counted /\ [Next]_vars => Overfull'
<1> SUFFICES ASSUME Inv, Counted, [Next]_vars PROVE Overfull'
    OBVIOUS
<1>1. ASSUME NEW t \in Threads, Record(t) PROVE Overfull'
    BY <1>1, SameFull DEF Inv, TypeOK, ThreadType, RingType, Record, Idle, ringVars
<1>2. ASSUME NEW t \in Threads, ReadSession(t) PROVE Overfull'
    BY <1>2, SameFull DEF Inv, TypeOK, ThreadType, RingType, ReadSession, Idle, ringVars
<1>3. ASSUME NEW t \in Threads, Register(t) PROVE Overfull'
    BY <1>3, LetsGoFull DEF Inv, TypeOK, ThreadType, Register, Idle
<1>4. ASSUME NEW t \in Threads, LoadTail(t) PROVE Overfull'
  <2>1. ASSUME NEW u \in Threads, thread'[u].at = "drop" PROVE ring'[Own(u)'].head > 0
    <3>1. Own(u)' = Own(u) /\ ring' = ring
        BY <1>4 DEF LoadTail, ringVars, Own
    <3>2. CASE u = t
      <4>1. local[t] # 0 /\ Own(t) \in Rings
          BY <1>4, OwnRing DEF Inv, Owned, LoadTail
      <4> DEFINE x == ring[Own(t)]
      <4>2. x.head \in Nat /\ x.tail \in Nat /\ x.tail <= x.head
          BY <4>1 DEF Inv, TypeOK, RingType, Filled, Safe
      <4>3. Full(x.head - x.tail)
          BY <1>4, <2>1, <3>2 DEF Inv, TypeOK, ThreadType, LoadTail
      <4> QED
          BY <3>1, <3>2, <4>2, <4>3, TraceAssumption DEF Full
    <3>3. CASE u # t
        BY <1>4, <2>1, <3>1, <3>3 DEF Inv, TypeOK, LoadTail, Counted, Overfull
    <3> QED
        BY <3>2, <3>3
  <2> QED
      BY <1>4, <2>1 DEF Counted, Overfull, LoadTail, ringVars
<1>5. ASSUME NEW t \in Threads, Drop(t) PROVE Overfull'
  <2> DEFINE x == ring[Own(t)]
             y == ring'[Own(t)]
  <2>1. local[t] # 0 /\ Own(t) \in Rings /\ x.head > 0
      BY <1>5, OwnRing DEF Inv, Owned, Counted, Overfull, Drop
  <2>2. /\ ring' \in [Rings -> RingType] /\ y.head = x.head
        /\ \A r \in Rings : r # Own(t) => ring'[r] = ring[r]
      BY <1>5, DropStep
  <2>3. ASSUME NEW r \in Rings, ring'[r].dropped > 0 PROVE ring'[r].head > 0
      BY <2>1, <2>2, <2>3 DEF Counted, Overfull
  <2>4. ASSUME NEW u \in Threads, thread'[u].at = "drop" PROVE ring'[Own(u)'].head > 0
    <3>1. u # t /\ thread[u].at = "drop" /\ Own(u)' = Own(u) /\ ring[Own(u)].head > 0
        BY <1>5, <2>4 DEF Inv, TypeOK, Drop, Idle, Own, Counted, Overfull
    <3>2. local[u] # 0
        BY <3>1 DEF Inv, Owned
    <3>3. Own(u) \in Rings /\ Own(u) # Own(t)
        BY <3>1, <3>2, OtherRing
    <3> QED
        BY <2>2, <3>1, <3>3
  <2> QED
      BY <2>3, <2>4 DEF Overfull
<1>6. ASSUME NEW t \in Threads, Write(t) PROVE Overfull'
  <2>1. ASSUME NEW r \in Rings
        PROVE  ring'[r].head >= ring[r].head /\ ring'[r].dropped = ring[r].dropped
    <3>1. ring[r].head \in Nat
        BY DEF Inv, TypeOK, RingType
    <3>2. CASE r = Own(t)
        BY <1>6, <3>1, <3>2, WriteStep, KeepsDropped
    <3>3. CASE r # Own(t)
        BY <1>6, <3>1, <3>3, WriteStep
    <3> QED
        BY <3>2, <3>3
  <2> QED
      BY <1>6, <2>1, SameFull, WriteStep DEF Inv, TypeOK, ThreadType, Write, Idle
<1>7. ASSUME NEW t \in Threads, Publish(t) PROVE Overfull'
  <2>1. ASSUME NEW r \in Rings
        PROVE  ring'[r].head >= ring[r].head /\ ring'[r].dropped = ring[r].dropped
    <3>1. ring[r].head \in Nat
        BY DEF Inv, TypeOK, RingType
    <3>2. CASE r = Own(t)
        BY <1>7, <3>1, <3>2, PublishStep, KeepsDropped
    <3>3. CASE r # Own(t)
        BY <1>7, <3>1, <3>3, PublishStep
    <3> QED
        BY <3>2, <3>3
  <2> QED
      BY <1>7, <2>1, SameFull, PublishStep DEF Inv, TypeOK, ThreadType, Publish, Idle
<1>8. ASSUME NEW t \in Threads, End(t) PROVE Overfull'
    BY <1>8, LetsGoFull DEF Inv, TypeOK, ThreadType, End, Idle
<1>9. ASSUME NEW c \in Callers, Call(c) PROVE Overfull'
    BY <1>9, SameFull DEF Inv, TypeOK, RingType, Call, ringVars
<1>10. ASSUME NEW c \in Callers, Lock(c) PROVE Overfull'
    BY <1>10, SameFull DEF Inv, TypeOK, RingType, Lock, ringVars
<1>11. ASSUME NEW c \in Callers, Finish(c) PROVE Overfull'
    BY <1>11, SameFull DEF Inv, TypeOK, RingType, Finish, Retire
<1>12. ASSUME NEW c \in Callers, Begin(c) PROVE Overfull'
  <2>1. ASSUME NEW r \in Rings, ring'[r].dropped > 0 PROVE ring'[r].head > 0
    <3>1. ring'[r] \in {ring[r], NewRing}
        BY <1>12, BeginStep
    <3>2. NewRing.dropped = 0
        BY DEF NewRing
    <3> QED
        BY <2>1, <3>1, <3>2 DEF Counted, Overfull
  <2>2. ASSUME NEW t \in Threads, thread'[t].at = "drop" PROVE ring'[Own(t)'].head > 0
    <3>1. thread[t].at = "drop" /\ Own(t)' = Own(t) /\ ring[Own(t)].head > 0
        BY <1>12, <2>2 DEF Begin, Own, Counted, Overfull
    <3> QED
        BY <1>12, <3>1, BeginStep DEF Inv, Owned
  <2> QED
      BY <2>1, <2>2 DEF Overfull
<1>13. ASSUME NEW c \in Callers, SetMask(c) PROVE Overfull'
    BY <1>13, SameFull DEF Inv, TypeOK, RingType, SetMask, ringVars
<1>14. ASSUME NEW c \in Callers, StartCollector(c) PROVE Overfull'
    BY <1>14, SameFull DEF Inv, TypeOK, RingType, StartCollector, ringVars
<1>15. ASSUME LoadHead PROVE Overfull'
    BY <1>15, SameFull DEF Inv, TypeOK, RingType, LoadHead, ringVars
<1>16. ASSUME StoreTail PROVE Overfull'
  <2>1. ASSUME NEW r \in Rings
        PROVE  ring'[r].head >= ring[r].head /\ ring'[r].dropped = ring[r].dropped
    <3>1. ring[r].head \in Nat
        BY DEF Inv, TypeOK, RingType
    <3>2. CASE r = reader.ring
        BY <1>16, <3>1, <3>2, TailStep, TailDropped
    <3>3. CASE r # reader.ring
        BY <1>16, <3>1, <3>3, TailStep
    <3> QED
        BY <3>2, <3>3
  <2> QED
      BY <1>16, <2>1, SameFull, TailStep DEF StoreTail
<1>17. ASSUME Check PROVE Overfull'
    BY <1>17, SameFull DEF Inv, TypeOK, RingType, Check, ringVars
<1>18. ASSUME Wake PROVE Overfull'
    BY <1>18, SameFull DEF Inv, TypeOK, RingType, Wake, ringVars
<1>19. ASSUME Pump PROVE Overfull'
    BY <1>19, SameFull DEF Inv, TypeOK, RingType, Pump, ringVars
<1>20. ASSUME Pumped PROVE Overfull'
    BY <1>20, SameFull DEF Inv, TypeOK, RingType, Pumped, Retire
<1>21. ASSUME UNCHANGED vars PROVE Overfull'
    BY <1>21, SameFull DEF Inv, TypeOK, RingType, vars, ringVars
<1> QED
    BY <1>1, <1>2, <1>3, <1>4, <1>5, <1>6, <1>7, <1>8, <1>9, <1>10, <1>11,
       <1>12, <1>13, <1>14, <1>15, <1>16, <1>17, <1>18, <1>19, <1>20, <1>21
       DEF Next, Push, Runs, Collect

\* Who has no ring of the session still has none.
LEMMA StaysUnused ==
    ASSUME Inv, Counted, UNCHANGED session, rings' \cup forsaken' \subseteq rings \cup forsaken,
           \A t \in Threads :
              /\ thread'[t].at = "register" =>
                    \/ thread'[t] = thread[t] /\ local'[t] = local[t]
                    \/ local'[t] < thread'[t].session /\ thread'[t].session <= session
              /\ thread'[t].at # "over" /\ local'[t] # session =>
                    thread[t].at # "over" /\ local[t] # session,
           \A r \in Rings : r \notin rings \cup forsaken /\ local[r[1]] # r[2] =>
              ring'[r] \in {ring[r], NewRing}
    PROVE  Unused'
<1>1. ASSUME NEW t \in Threads, thread'[t].at = "register"
      PROVE  local'[t] < thread'[t].session /\ thread'[t].session <= session'
    BY <1>1 DEF Counted, Unused
<1>2. ASSUME NEW t \in Threads, session # 0, local'[t] # session, thread'[t].at # "over"
      PROVE  ring'[<<t, session>>] = NewRing /\ <<t, session>> \notin rings' \cup forsaken'
  <2> DEFINE r == <<t, session>>
  <2>1. ring[r] = NewRing /\ r \notin rings \cup forsaken /\ local[t] # session
      BY <1>2 DEF Counted, Unused
  <2>2. r \in Rings /\ r[1] = t /\ r[2] = session
      BY <1>2 DEF Inv, TypeOK, Rings, Sessions
  <2> HIDE DEF r
  <2>3. ring'[r] \in {ring[r], NewRing}
      BY <2>1, <2>2
  <2> QED
      BY <2>1, <2>3 DEF r
<1> QED
    BY <1>1, <1>2 DEF Unused

\* A thread that is about to register has no ring of that session.
LEMMA RegistersLater ==
    ASSUME Counted, NEW t \in Threads, thread[t].at = "register"
    PROVE  local[t] < thread[t].session /\ thread[t].session <= session
<1>1. Unused
    BY DEF Counted
<1> QED
    BY <1>1 DEF Unused

\* The ring a thread writes to is one it has.
LEMMA OthersUnused ==
    ASSUME Inv, NEW t \in Threads, local[t] # 0,
           \A r \in Rings : r # Own(t) => ring'[r] = ring[r]
    PROVE  \A r \in Rings : local[r[1]] # r[2] => ring'[r] = ring[r]
<1>1. Own(t)[1] = t /\ Own(t)[2] = local[t]
    BY OwnRing DEF Inv
<1> QED
    BY <1>1

\* A thread gets a new ring.
LEMMA UnusedStep == Inv /\ Counted /\ [Next]_vars => Unused'
<1> SUFFICES ASSUME Inv, Counted, [Next]_vars PROVE Unused'
    OBVIOUS
<1>1. ASSUME NEW t \in Threads, Record(t) PROVE Unused'
    BY <1>1, StaysUnused DEF Inv, TypeOK, ThreadType, Record, Idle, ringVars, readerVars
<1>2. ASSUME NEW t \in Threads, ReadSession(t) PROVE Unused'
  <2>1. local[t] <= session /\ local[t] \in Nat /\ session \in Nat
      BY DEF Inv, TypeOK, Owned
  <2>2. \A u \in Threads \ {t} : thread'[u] = thread[u]
      BY <1>2 DEF Inv, TypeOK, ReadSession
  <2>3. /\ thread'[t].at # "over" /\ thread[t].at # "over" /\ thread'[t].session = session
        /\ thread'[t].at = "register" => local[t] # session
      BY <1>2 DEF Inv, TypeOK, ThreadType, ReadSession
  <2>4. thread'[t].at = "register" => local[t] < thread'[t].session /\ thread'[t].session <= session
      BY <2>1, <2>3
  <2>5. UNCHANGED <<session, local, rings, forsaken, ring>>
      BY <1>2 DEF ReadSession, ringVars, readerVars
  <2> QED
      BY <2>2, <2>3, <2>4, <2>5, StaysUnused
<1>3. ASSUME NEW t \in Threads, Register(t) PROVE Unused'
  <2>1. /\ UNCHANGED <<session, forsaken>>
        /\ local[t] < thread[t].session /\ thread[t].session <= session
        /\ local[t] \in Nat /\ session \in Nat /\ thread[t].session \in Nat
      BY <1>3, RegistersLater DEF Register, readerVars, Inv, TypeOK, ThreadType
  <2>2. \A r \in Rings : ring'[r] \in {ring[r], NewRing}
      BY <1>3, LetsGo DEF Register
  <2>3. \A u \in Threads \ {t} : thread'[u] = thread[u] /\ local'[u] = local[u]
      BY <1>3 DEF Inv, TypeOK, Register
  <2>4. CASE thread[t].session # session
    <3>1. thread'[t].at = "idle" /\ local[t] # session /\ thread[t].at # "over" /\ rings' = rings
        BY <1>3, <2>1, <2>4 DEF Inv, TypeOK, Register, Idle
    <3> QED
        BY <2>1, <2>2, <2>3, <3>1, StaysUnused
  <2>5. CASE thread[t].session = session
    <3>1. /\ thread'[t].at = "push" /\ local'[t] = session
          /\ rings' = rings \cup {<<t, session>>}
        BY <1>3, <2>5 DEF Inv, TypeOK, ThreadType, Register
    <3>2. ASSUME NEW u \in Threads, thread'[u].at = "register"
          PROVE  local'[u] < thread'[u].session /\ thread'[u].session <= session'
        BY <2>1, <2>3, <3>1, <3>2 DEF Counted, Unused
    <3>3. ASSUME NEW u \in Threads, session # 0, local'[u] # session, thread'[u].at # "over"
          PROVE  ring'[<<u, session>>] = NewRing /\ <<u, session>> \notin rings' \cup forsaken'
      <4> DEFINE r == <<u, session>>
      <4>1. u # t /\ ring[r] = NewRing /\ r \notin rings \cup forsaken
          BY <2>1, <2>3, <3>1, <3>3 DEF Counted, Unused
      <4>2. r \in Rings
          BY <3>3 DEF Inv, TypeOK, Rings, Sessions
      <4> QED
          BY <2>1, <2>2, <3>1, <4>1, <4>2
    <3> QED
        BY <2>1, <3>2, <3>3 DEF Unused
  <2> QED
      BY <2>4, <2>5
<1>4. ASSUME NEW t \in Threads, LoadTail(t) PROVE Unused'
  <2>1. \A u \in Threads \ {t} : thread'[u] = thread[u]
      BY <1>4 DEF Inv, TypeOK, LoadTail
  <2>2. thread'[t].at \in {"drop", "write"} /\ thread[t].at # "over"
      BY <1>4 DEF Inv, TypeOK, ThreadType, LoadTail
  <2> QED
      BY <1>4, <2>1, <2>2, StaysUnused DEF LoadTail, ringVars, readerVars
<1>5. ASSUME NEW t \in Threads, Drop(t) PROVE Unused'
  <2>1. local[t] # 0 /\ UNCHANGED <<session, rings, forsaken, local>>
      BY <1>5 DEF Inv, Owned, Drop, readerVars
  <2>2. \A r \in Rings : local[r[1]] # r[2] => ring'[r] = ring[r]
      BY <1>5, <2>1, DropStep, OthersUnused
  <2>3. \A u \in Threads \ {t} : thread'[u] = thread[u]
      BY <1>5 DEF Inv, TypeOK, Drop
  <2>4. thread'[t].at \in {"idle", "publish"} /\ thread[t].at # "over"
      BY <1>5 DEF Inv, TypeOK, ThreadType, Drop, Idle
  <2> QED
      BY <2>1, <2>2, <2>3, <2>4, StaysUnused
<1>6. ASSUME NEW t \in Threads, Write(t) PROVE Unused'
  <2>1. local[t] # 0 /\ UNCHANGED <<session, rings, forsaken, local>>
      BY <1>6 DEF Inv, Owned, Write, readerVars
  <2>2. \A r \in Rings : local[r[1]] # r[2] => ring'[r] = ring[r]
      BY <1>6, <2>1, WriteStep, OthersUnused
  <2>3. \A u \in Threads \ {t} : thread'[u] = thread[u]
      BY <1>6 DEF Inv, TypeOK, Write
  <2>4. thread'[t].at \in {"idle", "publish"} /\ thread[t].at # "over"
      BY <1>6 DEF Inv, TypeOK, ThreadType, Write, Idle
  <2> QED
      BY <2>1, <2>2, <2>3, <2>4, StaysUnused
<1>7. ASSUME NEW t \in Threads, Publish(t) PROVE Unused'
  <2>1. local[t] # 0 /\ UNCHANGED <<session, rings, forsaken, local>>
      BY <1>7 DEF Inv, Owned, Publish, readerVars
  <2>2. \A r \in Rings : local[r[1]] # r[2] => ring'[r] = ring[r]
      BY <1>7, <2>1, PublishStep, OthersUnused
  <2>3. \A u \in Threads \ {t} : thread'[u] = thread[u]
      BY <1>7 DEF Inv, TypeOK, Publish
  <2>4. thread'[t].at \in {"idle", "publish"} /\ thread[t].at # "over"
      BY <1>7 DEF Inv, TypeOK, ThreadType, Publish, Idle
  <2> QED
      BY <2>1, <2>2, <2>3, <2>4, StaysUnused
<1>8. ASSUME NEW t \in Threads, End(t) PROVE Unused'
  <2>1. UNCHANGED <<session, rings, forsaken>> /\ \A r \in Rings : ring'[r] \in {ring[r], NewRing}
      BY <1>8, LetsGo DEF End, readerVars
  <2>2. \A u \in Threads \ {t} : thread'[u] = thread[u] /\ local'[u] = local[u]
      BY <1>8 DEF Inv, TypeOK, End
  <2>3. thread'[t].at = "over"
      BY <1>8 DEF Inv, TypeOK, ThreadType, End
  <2> QED
      BY <2>1, <2>2, <2>3, StaysUnused
<1>9. ASSUME NEW c \in Callers, Call(c) PROVE Unused'
    BY <1>9, StaysUnused DEF Call, ringVars, readerVars
<1>10. ASSUME NEW c \in Callers, Lock(c) PROVE Unused'
    BY <1>10, StaysUnused DEF Lock, ringVars
<1>11. ASSUME NEW c \in Callers, Finish(c) PROVE Unused'
    BY <1>11, StaysUnused DEF Finish, Retire
<1>12. ASSUME NEW c \in Callers, Begin(c) PROVE Unused'
  <2>1. session + 1 \in 0 .. MaxSessions /\ session' = session + 1 /\ session \in Nat
      BY <1>12, Waiting DEF Inv, TypeOK, Begin
  <2>2. ASSUME NEW t \in Threads, thread'[t].at = "register"
        PROVE  local'[t] < thread'[t].session /\ thread'[t].session <= session'
    <3>1. thread'[t] = thread[t] /\ local'[t] = local[t] /\ thread[t].session \in Nat
        BY <1>12 DEF Inv, TypeOK, ThreadType, Begin
    <3>2. local[t] < thread[t].session /\ thread[t].session <= session
        BY <2>2, <3>1, RegistersLater
    <3> QED
        BY <2>1, <3>1, <3>2
  <2>3. ASSUME NEW t \in Threads
        PROVE  ring'[<<t, session'>>] = NewRing /\ <<t, session'>> \notin rings' \cup forsaken'
    <3>1. <<t, session + 1>> \in Rings
        BY <2>1 DEF Rings, Sessions
    <3> QED
        BY <1>12, <2>1, <3>1, BeginStep DEF Begin
  <2> QED
      BY <2>2, <2>3 DEF Unused
<1>13. ASSUME NEW c \in Callers, SetMask(c) PROVE Unused'
    BY <1>13, StaysUnused DEF SetMask, ringVars, readerVars
<1>14. ASSUME NEW c \in Callers, StartCollector(c) PROVE Unused'
    BY <1>14, StaysUnused DEF StartCollector, ringVars, readerVars
<1>15. ASSUME LoadHead PROVE Unused'
    BY <1>15, StaysUnused DEF LoadHead, ringVars
<1>16. ASSUME StoreTail PROVE Unused'
  <2>1. \A r \in Rings : r \notin rings => ring'[r] = ring[r]
      BY <1>16, TailStep
  <2> QED
      BY <1>16, <2>1, StaysUnused DEF StoreTail
<1>17. ASSUME Check PROVE Unused'
    BY <1>17, StaysUnused DEF Check, ringVars, readerVars
<1>18. ASSUME Wake PROVE Unused'
    BY <1>18, StaysUnused DEF Wake, ringVars, readerVars
<1>19. ASSUME Pump PROVE Unused'
    BY <1>19, StaysUnused DEF Pump, ringVars
<1>20. ASSUME Pumped PROVE Unused'
    BY <1>20, StaysUnused DEF Pumped, Retire
<1>21. ASSUME UNCHANGED vars PROVE Unused'
    BY <1>21, StaysUnused DEF vars, ringVars, readerVars
<1> QED
    BY <1>1, <1>2, <1>3, <1>4, <1>5, <1>6, <1>7, <1>8, <1>9, <1>10, <1>11,
       <1>12, <1>13, <1>14, <1>15, <1>16, <1>17, <1>18, <1>19, <1>20, <1>21
       DEF Next, Push, Runs, Collect

\* The registry has rings of the session.
LEMMA RegisteredStep == Inv /\ Counted /\ [Next]_vars => Registered'
<1> SUFFICES ASSUME Inv, Counted, [Next]_vars PROVE Registered'
    OBVIOUS
<1>1. ASSUME NEW t \in Threads, Record(t) PROVE Registered'
    BY <1>1 DEF Record, ringVars, readerVars, Counted, Registered, SessionRings
<1>2. ASSUME NEW t \in Threads, ReadSession(t) PROVE Registered'
    BY <1>2 DEF ReadSession, ringVars, readerVars, Counted, Registered, SessionRings
<1>3. ASSUME NEW t \in Threads, Register(t) PROVE Registered'
  <2>1. CASE rings' = rings
      BY <1>3, <2>1 DEF Register, readerVars, Counted, Registered, SessionRings
  <2>2. CASE thread[t].session = session
    <3>1. /\ local[t] < session /\ session # 0 /\ thread[t].at # "over"
        BY <1>3, <2>2 DEF Counted, Unused, Register, Inv, TypeOK, Started
    <3>2. local[t] # session
        BY <3>1 DEF Inv, TypeOK
    <3>3. <<t, session>> \notin forsaken
        BY <3>1, <3>2 DEF Counted, Unused
    <3>4. rings' = rings \cup {<<t, session>>} /\ UNCHANGED <<session, forsaken>>
        BY <1>3, <2>2 DEF Register, readerVars
    <3> QED
        BY <3>3, <3>4 DEF Counted, Registered, SessionRings
  <2> QED
      BY <1>3, <2>1, <2>2 DEF Register
<1>4. ASSUME NEW t \in Threads, LoadTail(t) PROVE Registered'
    BY <1>4 DEF LoadTail, ringVars, readerVars, Counted, Registered, SessionRings
<1>5. ASSUME NEW t \in Threads, Drop(t) PROVE Registered'
    BY <1>5 DEF Drop, readerVars, Counted, Registered, SessionRings
<1>6. ASSUME NEW t \in Threads, Write(t) PROVE Registered'
    BY <1>6 DEF Write, readerVars, Counted, Registered, SessionRings
<1>7. ASSUME NEW t \in Threads, Publish(t) PROVE Registered'
    BY <1>7 DEF Publish, readerVars, Counted, Registered, SessionRings
<1>8. ASSUME NEW t \in Threads, End(t) PROVE Registered'
    BY <1>8 DEF End, readerVars, Counted, Registered, SessionRings
<1>9. ASSUME NEW c \in Callers, Call(c) PROVE Registered'
    BY <1>9 DEF Call, ringVars, readerVars, Counted, Registered, SessionRings
<1>10. ASSUME NEW c \in Callers, Lock(c) PROVE Registered'
    BY <1>10 DEF Lock, ringVars, Counted, Registered, SessionRings
<1>11. ASSUME NEW c \in Callers, Finish(c) PROVE Registered'
    BY <1>11 DEF Finish, Retire, Counted, Registered, SessionRings
<1>12. ASSUME NEW c \in Callers, Begin(c) PROVE Registered'
    BY <1>12 DEF Begin, Registered
<1>13. ASSUME NEW c \in Callers, SetMask(c) PROVE Registered'
    BY <1>13 DEF SetMask, ringVars, readerVars, Counted, Registered, SessionRings
<1>14. ASSUME NEW c \in Callers, StartCollector(c) PROVE Registered'
    BY <1>14 DEF StartCollector, ringVars, readerVars, Counted, Registered, SessionRings
<1>15. ASSUME LoadHead PROVE Registered'
    BY <1>15 DEF LoadHead, ringVars, Counted, Registered, SessionRings
<1>16. ASSUME StoreTail PROVE Registered'
    BY <1>16 DEF StoreTail, Counted, Registered, SessionRings
<1>17. ASSUME Check PROVE Registered'
    BY <1>17 DEF Check, ringVars, readerVars, Counted, Registered, SessionRings
<1>18. ASSUME Wake PROVE Registered'
    BY <1>18 DEF Wake, ringVars, readerVars, Counted, Registered, SessionRings
<1>19. ASSUME Pump PROVE Registered'
    BY <1>19 DEF Pump, ringVars, Counted, Registered, SessionRings
<1>20. ASSUME Pumped PROVE Registered'
    BY <1>20 DEF Pumped, Retire, Counted, Registered, SessionRings
<1>21. ASSUME UNCHANGED vars PROVE Registered'
    BY <1>21 DEF vars, ringVars, readerVars, Counted, Registered, SessionRings
<1> QED
    BY <1>1, <1>2, <1>3, <1>4, <1>5, <1>6, <1>7, <1>8, <1>9, <1>10, <1>11,
       <1>12, <1>13, <1>14, <1>15, <1>16, <1>17, <1>18, <1>19, <1>20, <1>21
       DEF Next, Push, Runs, Collect

\* What is read, and what the registry has, are rings of the session.
LEMMA CopyOfRings ==
    ASSUME Inv, Counted
    PROVE  /\ ring \in [Rings -> RingType]
           /\ Remaining \subseteq reader.held /\ reader.held \subseteq rings
           /\ rings \subseteq SessionRings /\ rings \subseteq Rings
           /\ session # 0 => SessionRings \subseteq Rings
<1>1. Remaining \subseteq reader.held /\ reader.held \subseteq rings
    BY DEF Inv, Locked, Remaining
<1>2. session # 0 => SessionRings \subseteq Rings
    BY DEF SessionRings, Rings, Sessions, Inv, TypeOK
<1> QED
    BY <1>1, <1>2 DEF Inv, TypeOK, Counted, Registered

\* A step in which threads only drop more, and no ring goes or is read, keeps the
\* sums right.
LEMMA SumsStay ==
    ASSUME Inv, Counted, ring' \in [Rings -> RingType],
           UNCHANGED <<session, rings, forsaken, retired, reader, sum, before>>,
           \A r \in SessionRings \ (rings \cup forsaken) : ring'[r].dropped = ring[r].dropped,
           \A r \in rings : ring[r].dropped <= ring'[r].dropped /\ ring'[r].tail = ring[r].tail
    PROVE  Retained' /\ Summed'
<1>1. /\ SessionRings' = SessionRings /\ Remaining' = Remaining
      /\ (reader'.by = "none") = Free
    BY DEF SessionRings, Remaining, Free
<1>2. Retained'
  <2>1. CASE session = 0
      BY <2>1 DEF Counted, Retained
  <2>2. CASE session # 0
    <3>1. SessionRings \ (rings \cup forsaken) \in SUBSET Rings
        BY <2>2, CopyOfRings
    <3>2. DropsOf(ring, SessionRings \ (rings \cup forsaken))
              = DropsOf(ring', SessionRings \ (rings \cup forsaken))
        BY <3>1, CopyOfRings, DropsStay
    <3> QED
        BY <1>1, <2>2, <3>2 DEF Counted, Retained
  <2> QED
      BY <2>1, <2>2
<1>3. Summed'
  <2>1. CASE Free
      BY <1>1, <2>1 DEF Counted, Summed, Free
  <2>2. CASE ~Free
    <3> DEFINE done == reader.held \ Remaining
               left == Remaining
    <3>1. /\ done \in SUBSET Rings /\ left \in SUBSET Rings
          /\ done \in SUBSET rings /\ left \in SUBSET rings
        BY CopyOfRings
    <3>2. /\ DropsOf(ring, done) \in Nat /\ DropsOf(ring', done) \in Nat
          /\ DropsOf(ring, done) <= DropsOf(ring', done)
      <4>1. done \in SUBSET done /\ \A r \in done : ring[r].dropped <= ring'[r].dropped
          BY <3>1
      <4> HIDE DEF done
      <4> QED
          BY <3>1, <4>1, CopyOfRings, DropsGrow
    <3>3. /\ DropsOf(ring, left) \in Nat /\ DropsOf(ring', left) \in Nat
          /\ DropsOf(ring, left) <= DropsOf(ring', left)
      <4>1. left \in SUBSET left /\ \A r \in left : ring[r].dropped <= ring'[r].dropped
          BY <3>1
      <4> HIDE DEF left
      <4> QED
          BY <3>1, <4>1, CopyOfRings, DropsGrow
    <3>4. /\ sum \in Nat /\ before \in Nat /\ retired \in Nat
          /\ session # 0 /\ reader.ring \notin reader.left
          /\ \A r \in rings \ reader.held : ring[r].tail = 0
          /\ sum <= DropsOf(ring, done) /\ before <= retired + sum + DropsOf(ring, left)
        BY <2>2 DEF Counted, Retained, Summed
    <3>5. sum <= DropsOf(ring', done) /\ before <= retired + sum + DropsOf(ring', left)
      <4> HIDE DEF done, left
      <4> QED
          BY <3>2, <3>3, <3>4
    <3> QED
        BY <1>1, <3>4, <3>5 DEF Summed
  <2> QED
      BY <2>1, <2>2
<1> QED
    BY <1>2, <1>3

\* A step that leaves rings and reader alone leaves the sums.
LEMMA SumsSame ==
    ASSUME Inv, Counted,
           UNCHANGED <<ring, session, rings, forsaken, retired, reader, sum, before>>
    PROVE  Retained' /\ Summed'
<1>1. \A r \in rings : ring[r].dropped <= ring'[r].dropped
    BY CopyOfRings DEF RingType
<1> QED
    BY <1>1, CopyOfRings, SumsStay

\* A thread that lets go of its ring changes no sum, since nobody counts it.
LEMMA SumsOfLetGo ==
    ASSUME Inv, Counted, NEW t \in Threads, LetGo(t),
           UNCHANGED <<session, rings, forsaken, retired, reader, sum, before>>
    PROVE  Retained' /\ Summed'
<1>1. ring' \in [Rings -> RingType] /\ \A r \in rings : ring'[r] = ring[r]
    BY LetsGo
<1>2. ASSUME NEW r \in SessionRings \ (rings \cup forsaken)
      PROVE  ring'[r].dropped = ring[r].dropped
  <2>1. CASE local[t] = 0
      BY <2>1 DEF LetGo
  <2>2. CASE local[t] # 0
    <3>1. local[t] = session => Own(t) \in rings \cup forsaken
        BY <2>2 DEF Inv, Owned
    <3>2. r # Own(t)
        BY <3>1, <1>2 DEF Own, SessionRings
    <3>3. CASE session = 0
        BY <2>2, <3>3 DEF Inv, Owned, TypeOK
    <3>4. CASE session # 0
        BY <3>2, <3>4, CopyOfRings, LetsGo
    <3> QED
        BY <3>3, <3>4
  <2> QED
      BY <2>1, <2>2
<1>3. \A r \in rings : ring[r].dropped <= ring'[r].dropped
    BY <1>1, CopyOfRings DEF RingType
<1> QED
    BY <1>1, <1>2, <1>3, SumsStay

\* What a thread does to its own ring changes no sum but what it drops.
LEMMA SumsOfOwn ==
    ASSUME Inv, Counted, NEW t \in Threads, local[t] # 0, ring' \in [Rings -> RingType],
           UNCHANGED <<session, rings, forsaken, retired, reader, sum, before>>,
           \A r \in Rings : r # Own(t) => ring'[r] = ring[r],
           ring'[Own(t)].tail = ring[Own(t)].tail,
           ring[Own(t)].dropped <= ring'[Own(t)].dropped
    PROVE  Retained' /\ Summed'
<1>1. local[t] = session => Own(t) \in rings \cup forsaken
    BY DEF Inv, Owned
<1>2. session # 0
    BY DEF Inv, Owned, TypeOK
<1>3. ASSUME NEW r \in SessionRings \ (rings \cup forsaken)
      PROVE  ring'[r].dropped = ring[r].dropped
  <2>1. r # Own(t)
      BY <1>1 DEF Own, SessionRings
  <2> QED
      BY <1>2, <2>1, CopyOfRings
<1>4. ASSUME NEW r \in rings
      PROVE  ring[r].dropped <= ring'[r].dropped /\ ring'[r].tail = ring[r].tail
  <2>1. r \in Rings /\ ring[r].dropped \in Nat
      BY CopyOfRings DEF RingType
  <2>2. CASE r = Own(t)
      BY <2>2
  <2>3. CASE r # Own(t)
      BY <2>1, <2>3
  <2> QED
      BY <2>2, <2>3
<1> QED
    BY <1>3, <1>4, SumsStay

\* A ring that is registered is new: it dropped nothing yet.
LEMMA SumsOfRegister ==
    ASSUME Inv, Counted, NEW t \in Threads, Register(t), thread[t].session = session
    PROVE  Retained' /\ Summed'
<1> DEFINE r == <<t, session>>
           gone == SessionRings \ (rings \cup forsaken)
           kept == SessionRings \ (rings' \cup forsaken)
<1>1. /\ rings' = rings \cup {r} /\ LetGo(t)
      /\ UNCHANGED <<session, forsaken, retired, reader, sum, before>>
    BY DEF Register, readerVars
<1>2. /\ SessionRings' = SessionRings /\ Remaining' = Remaining
      /\ (reader'.by = "none") = Free
    BY <1>1 DEF SessionRings, Remaining, Free
<1>3. session # 0 /\ local[t] < session /\ local[t] \in Nat /\ session \in Nat
    BY RegistersLater DEF Inv, TypeOK, Started, Register
<1>4. ring[r] = NewRing /\ r \notin rings \cup forsaken
  <2>1. thread[t].at # "over" /\ local[t] # session
      BY <1>3 DEF Register
  <2> QED
      BY <1>3, <2>1 DEF Counted, Unused
<1>5. ring' \in [Rings -> RingType] /\ \A q \in SessionRings : ring'[q] = ring[q]
  <2>1. ASSUME NEW q \in SessionRings PROVE q \in Rings /\ q # Own(t)
      BY <1>3, CopyOfRings DEF SessionRings, Own
  <2> QED
      BY <1>1, <2>1, LetsGo
<1>6. r \in SessionRings /\ r \in Rings
    BY <1>3, CopyOfRings DEF SessionRings
<1>7. Retained'
  <2>1. /\ kept \in SUBSET Rings /\ kept \in SUBSET SessionRings /\ {r} \in SUBSET Rings
        /\ gone = kept \cup {r} /\ kept \cap {r} = {}
      BY <1>1, <1>3, <1>4, <1>6, CopyOfRings
  <2>2. retired \in Nat /\ retired = DropsOf(ring, gone)
      BY <1>3 DEF Counted, Retained
  <2> HIDE DEF gone, kept
  <2>3. DropsOf(ring, gone) = DropsOf(ring, kept) + DropsOf(ring, {r}) /\ DropsOf(ring, kept) \in Nat
      BY <2>1, CopyOfRings, DropsOfBoth
  <2>4. DropsOf(ring, {r}) = 0
      BY <1>4, <1>6, CopyOfRings, DropsOfOne DEF NewRing
  <2>5. DropsOf(ring, kept) = DropsOf(ring', kept)
      BY <1>5, <2>1, CopyOfRings, DropsStay
  <2>6. retired' = DropsOf(ring', kept) /\ retired' \in Nat
      BY <1>1, <2>2, <2>3, <2>4, <2>5
  <2> QED
      BY <1>1, <1>2, <2>6 DEF Retained, kept
<1>8. Summed'
  <2>1. CASE Free
      BY <1>1, <1>2, <2>1 DEF Counted, Summed, Free
  <2>2. CASE ~Free
    <3> DEFINE done == reader.held \ Remaining
               left == Remaining
    <3>1. /\ done \in SUBSET Rings /\ left \in SUBSET Rings
          /\ \A q \in done \cup left : ring[q].dropped = ring'[q].dropped
        BY <1>5, CopyOfRings
    <3>2. DropsOf(ring, done) = DropsOf(ring', done) /\ DropsOf(ring, left) = DropsOf(ring', left)
      <4> HIDE DEF done, left
      <4> QED
          BY <1>5, <3>1, CopyOfRings, DropsStay
    <3>3. \A q \in rings' \ reader.held : ring'[q].tail = 0
      <4>1. ring'[r].tail = 0
          BY <1>4, <1>5, <1>6 DEF NewRing
      <4>2. \A q \in rings \ reader.held : ring[q].tail = 0
          BY <2>2 DEF Counted, Summed
      <4> QED
          BY <1>1, <1>5, <4>1, <4>2, CopyOfRings
    <3>4. /\ sum \in Nat /\ before \in Nat
          /\ reader.ring \notin reader.left
          /\ sum <= DropsOf(ring, done) /\ before <= retired + sum + DropsOf(ring, left)
        BY <2>2 DEF Counted, Summed
    <3> QED
        BY <1>1, <1>2, <1>3, <3>2, <3>3, <3>4 DEF Summed
  <2> QED
      BY <2>1, <2>2
<1> QED
    BY <1>7, <1>8

\* The copy is of all that the registry has, and nothing of it was read.
LEMMA SumsOfCopy ==
    ASSUME Inv, Counted, NEW by \in Callers \cup {"collector"}, CopyRings(by),
           UNCHANGED <<ringVars, forsaken>>
    PROVE  Retained' /\ Summed'
<1>1. UNCHANGED <<session, rings, forsaken, retired, ring>>
    BY DEF ringVars
<1>2. SessionRings' = SessionRings /\ session # 0
    BY <1>1 DEF SessionRings, CopyRings, Inv
<1>3. Retained'
    BY <1>1, <1>2 DEF Counted, Retained
<1>4. /\ reader'.held = rings /\ reader'.left = rings /\ reader'.ring = NoRing
      /\ sum' = 0 /\ before' = AllDropped
    BY DEF CopyRings, Unlocked
<1>5. NoRing \notin rings
    BY NoRingIsNone, CopyOfRings
<1>6. Remaining' = rings
    BY <1>4 DEF Remaining
<1> DEFINE gone == SessionRings \ (rings \cup forsaken)
<1>7. /\ gone \in SUBSET Rings /\ rings \in SUBSET Rings /\ gone \cap rings = {}
      /\ SessionRings \ forsaken = gone \cup rings
    BY <1>2, CopyOfRings DEF Counted, Registered
<1>8. AllDropped = DropsOf(ring, SessionRings \ forsaken)
    BY DEF AllDropped, DroppedBy, DropsOf, SessionRings
<1>9. retired = DropsOf(ring, gone) /\ retired \in Nat
    BY <1>2 DEF Counted, Retained
<1> HIDE DEF gone
<1>10. /\ DropsOf(ring, rings) \in Nat
       /\ AllDropped = retired + DropsOf(ring, rings)
    BY <1>7, <1>8, <1>9, CopyOfRings, DropsOfBoth
<1>11. DropsOf(ring, {}) = 0
    BY CopyOfRings, DropsOfNone
<1>12. before' \in Nat /\ before' <= retired' + sum' + DropsOf(ring', Remaining')
    BY <1>1, <1>4, <1>6, <1>9, <1>10
<1>13. sum' <= DropsOf(ring', reader'.held \ Remaining')
  <2>1. reader'.held \ Remaining' = {}
      BY <1>4, <1>6
  <2> QED
      BY <1>1, <1>4, <1>11, <2>1
<1> QED
    BY <1>1, <1>2, <1>3, <1>4, <1>5, <1>12, <1>13 DEF Summed

\* The ring whose head is loaded is still to be read.
LEMMA SumsOfHead ==
    ASSUME Inv, Counted, LoadHead
    PROVE  Retained' /\ Summed'
<1>1. UNCHANGED <<session, rings, forsaken, retired, ring, sum, before>>
    BY DEF LoadHead, ringVars
<1>2. PICK r \in reader.left :
          reader' = [reader EXCEPT !.ring = r, !.to = ring[r].head, !.left = @ \ {r}]
    BY DEF LoadHead
<1>3. /\ reader'.by = reader.by /\ reader'.held = reader.held /\ reader'.ring = r
      /\ reader'.left = reader.left \ {r}
    BY <1>2 DEF Inv, TypeOK, ReaderType
<1>4. r # NoRing /\ reader.ring = NoRing
    BY NoRingIsNone DEF Inv, TypeOK, ReaderType, LoadHead
<1>5. SessionRings' = SessionRings /\ Remaining' = Remaining /\ Free' = Free
    BY <1>1, <1>3, <1>4 DEF SessionRings, Remaining, Free
<1>6. Retained'
    BY <1>1, <1>5 DEF Counted, Retained
<1>7. Summed'
    BY <1>1, <1>3, <1>5 DEF Counted, Summed
<1> QED
    BY <1>6, <1>7

\* What a ring that was read dropped is summed up.
LEMMA SumsOfTail ==
    ASSUME Inv, Counted, StoreTail
    PROVE  Retained' /\ Summed'
<1> DEFINE r == reader.ring
           done == reader.held \ Remaining
           left == Remaining \ {r}
<1>1. /\ UNCHANGED <<session, rings, forsaken, retired, before>>
      /\ sum' = sum + ring[r].dropped
    BY DEF StoreTail
<1>2. /\ reader'.by = reader.by /\ reader'.held = reader.held /\ reader'.ring = NoRing
      /\ reader'.left = reader.left
    BY DEF StoreTail, Inv, TypeOK, ReaderType
<1>3. /\ ~Free /\ r # NoRing /\ r \in reader.held /\ r \in Rings /\ r \in Remaining
    BY CopyOfRings DEF StoreTail, Inv, Locked, Unlocked, Remaining
<1>4. /\ session # 0 /\ r \notin reader.left
      /\ \A q \in rings \ reader.held : ring[q].tail = 0
      /\ sum \in Nat /\ before \in Nat /\ retired \in Nat
      /\ sum <= DropsOf(ring, done) /\ before <= retired + sum + DropsOf(ring, Remaining)
    BY <1>3 DEF Counted, Retained, Summed
<1>5. /\ SessionRings' = SessionRings /\ Remaining' = left /\ ~Free'
      /\ reader'.held \ Remaining' = done \cup {r}
    BY <1>1, <1>2, <1>3, <1>4 DEF SessionRings, Remaining, Free
<1>6. /\ ring' \in [Rings -> RingType]
      /\ \A q \in Rings : ring'[q].dropped = ring[q].dropped
      /\ \A q \in Rings : q # r => ring'[q] = ring[q]
    BY TailStep, TailDropped
<1>7. \A S \in SUBSET Rings : DropsOf(ring', S) = DropsOf(ring, S)
    BY <1>6, CopyOfRings, DropsStay
<1>8. Retained'
  <2>1. SessionRings \ (rings \cup forsaken) \in SUBSET Rings
      BY <1>4, CopyOfRings
  <2> QED
      BY <1>1, <1>4, <1>5, <1>7, <2>1 DEF Counted, Retained
<1>9. /\ done \in SUBSET Rings /\ left \in SUBSET Rings /\ {r} \in SUBSET Rings
      /\ done \cap {r} = {} /\ left \cap {r} = {} /\ Remaining = left \cup {r}
      /\ done \cup {r} \in SUBSET Rings
    BY <1>3, CopyOfRings
<1>10. \A q \in rings' \ reader'.held : ring'[q].tail = 0
    BY <1>1, <1>2, <1>3, <1>4, <1>6, CopyOfRings
<1> HIDE DEF done, left
<1>11. DropsOf(ring, {r}) = ring[r].dropped
    BY <1>3, CopyOfRings, DropsOfOne
<1>12. /\ DropsOf(ring, done) \in Nat /\ DropsOf(ring, {r}) \in Nat
       /\ DropsOf(ring, done \cup {r}) = DropsOf(ring, done) + DropsOf(ring, {r})
    BY <1>9, CopyOfRings, DropsOfBoth
<1>13. /\ DropsOf(ring, left) \in Nat
       /\ DropsOf(ring, Remaining) = DropsOf(ring, left) + DropsOf(ring, {r})
    BY <1>9, CopyOfRings, DropsOfBoth
<1>14. /\ sum' \in Nat /\ sum' <= DropsOf(ring', done \cup {r})
       /\ before' <= retired' + sum' + DropsOf(ring', left)
    BY <1>1, <1>4, <1>7, <1>9, <1>11, <1>12, <1>13
<1>15. reader'.ring \notin reader'.left
    BY <1>2, NoRingIsNone DEF Inv, TypeOK, ReaderType
<1>16. Summed'
    BY <1>1, <1>4, <1>5, <1>10, <1>14, <1>15 DEF Summed
<1> QED
    BY <1>8, <1>16

\* What goes is counted.  A ring that goes although its thread has it was
\* registered after the copy: nothing was read from it, and it is empty, so it
\* was never full.
LEMMA SumsOfRetire ==
    ASSUME Inv, Counted, Retire
    PROVE  Retained' /\ Summed'
<1> DEFINE gone == {r \in rings : ~Kept(r)}
           lost == {r \in gone : local[r[1]] = r[2]}
           earlier == SessionRings \ (rings \cup forsaken)
           later == SessionRings \ ((rings \ gone) \cup (forsaken \cup lost))
<1>1. /\ rings' = rings \ gone /\ retired' = retired + DropsOf(ring, gone)
      /\ forsaken' = forsaken \cup lost
      /\ reader' = Unlocked /\ sum' = 0 /\ before' = 0 /\ UNCHANGED <<session, ring>>
    BY DEF Retire, RetiredBy, DroppedBy, DropsOf
<1>2. SessionRings' = SessionRings /\ ~Free
    BY <1>1 DEF SessionRings, Retire
<1>3. Summed'
    BY <1>1 DEF Summed, Free, Unlocked
<1>4. /\ session # 0 /\ retired \in Nat /\ retired = DropsOf(ring, earlier)
      /\ \A r \in rings \ reader.held : ring[r].tail = 0
    BY <1>2 DEF Counted, Retained, Summed
<1>5. ASSUME NEW r \in lost PROVE ring[r].dropped = 0
  <2>1. r \in rings /\ r \in Rings /\ r[1] \in Threads /\ local[r[1]] = r[2] /\ ~Kept(r)
      BY CopyOfRings DEF Rings
  <2>2. r \notin reader.held /\ ring[r].head = ring[r].tail
      BY <2>1 DEF Kept, StrongCount
  <2>3. ring[r].head = 0
      BY <1>4, <2>1, <2>2
  <2>4. ring[r].dropped \in Nat
      BY <2>1 DEF Inv, TypeOK, RingType
  <2> QED
      BY <2>1, <2>3, <2>4 DEF Counted, Overfull
<1>6. /\ gone \in SUBSET Rings /\ lost \in SUBSET gone /\ earlier \in SUBSET Rings
      /\ later = earlier \cup (gone \ lost) /\ earlier \cap (gone \ lost) = {}
      /\ gone = (gone \ lost) \cup lost
    BY <1>4, CopyOfRings DEF Counted, Registered
<1> HIDE DEF gone, lost, earlier, later
<1>7. /\ DropsOf(ring, gone \ lost) \in Nat
      /\ DropsOf(ring, gone) = DropsOf(ring, gone \ lost) + DropsOf(ring, lost)
  <2>1. gone \ lost \in SUBSET Rings /\ lost \in SUBSET Rings /\ (gone \ lost) \cap lost = {}
      BY <1>6
  <2>2. /\ DropsOf(ring, gone \ lost) \in Nat
        /\ DropsOf(ring, (gone \ lost) \cup lost)
               = DropsOf(ring, gone \ lost) + DropsOf(ring, lost)
      BY <2>1, CopyOfRings, DropsOfBoth
  <2> QED
      BY <1>6, <2>2
<1>8. DropsOf(ring, lost) = 0
  <2>1. lost \in SUBSET Rings
      BY <1>6
  <2> QED
      BY <1>5, <2>1, CopyOfRings, DropsOfNone
<1>9. DropsOf(ring, later) = DropsOf(ring, earlier) + DropsOf(ring, gone \ lost)
  <2>1. gone \ lost \in SUBSET Rings
      BY <1>6
  <2> QED
      BY <1>6, <2>1, CopyOfRings, DropsOfBoth
<1>10. retired' \in Nat /\ retired' = DropsOf(ring, later)
    BY <1>1, <1>4, <1>7, <1>8, <1>9
<1>11. later = (SessionRings \ (rings \cup forsaken))'
    BY <1>1, <1>2 DEF later
<1> QED
    BY <1>1, <1>3, <1>10, <1>11 DEF Retained

\* A session begins with nothing dropped.
LEMMA SumsOfBegin ==
    ASSUME Inv, Counted, NEW c \in Callers, Begin(c)
    PROVE  Retained' /\ Summed'
<1>1. /\ session' = session + 1 /\ retired' = 0 /\ Free /\ rings' = {} /\ forsaken' = {}
      /\ UNCHANGED <<reader, sum, before>>
    BY DEF Begin
<1>2. Summed'
    BY <1>1 DEF Counted, Summed, Free
<1>3. session + 1 \in 0 .. MaxSessions /\ session \in Nat
    BY Waiting DEF Inv, TypeOK, Begin
<1>4. SessionRings' \in SUBSET Rings /\ \A r \in SessionRings' : r[2] = session + 1
    BY <1>1, <1>3 DEF SessionRings, Rings, Sessions
<1>5. ring' \in [Rings -> RingType] /\ \A r \in SessionRings' : ring'[r].dropped = 0
    BY <1>4, BeginStep DEF NewRing
<1>6. DropsOf(ring', SessionRings') = 0
    BY <1>4, <1>5, DropsOfNone
<1>7. (SessionRings \ (rings \cup forsaken))' = SessionRings'
    BY <1>1
<1>8. Retained'
    BY <1>1, <1>6, <1>7 DEF Retained
<1> QED
    BY <1>2, <1>8

\* What was dropped is counted once.
LEMMA SumsStep == Inv /\ Counted /\ [Next]_vars => Retained' /\ Summed'
<1> SUFFICES ASSUME Inv, Counted, [Next]_vars PROVE Retained' /\ Summed'
    OBVIOUS
<1>1. ASSUME NEW t \in Threads, Record(t) PROVE Retained' /\ Summed'
    BY <1>1, SumsSame DEF Record, ringVars, readerVars
<1>2. ASSUME NEW t \in Threads, ReadSession(t) PROVE Retained' /\ Summed'
    BY <1>2, SumsSame DEF ReadSession, ringVars, readerVars
<1>3. ASSUME NEW t \in Threads, Register(t) PROVE Retained' /\ Summed'
  <2>1. CASE thread[t].session = session
      BY <1>3, <2>1, SumsOfRegister
  <2>2. CASE thread[t].session # session
      BY <1>3, <2>2, SumsOfLetGo DEF Register, readerVars
  <2> QED
      BY <2>1, <2>2
<1>4. ASSUME NEW t \in Threads, LoadTail(t) PROVE Retained' /\ Summed'
    BY <1>4, SumsSame DEF LoadTail, ringVars, readerVars
<1>5. ASSUME NEW t \in Threads, Drop(t) PROVE Retained' /\ Summed'
  <2> DEFINE x == ring[Own(t)]
             y == [x EXCEPT !.dropped = @ + 1]
  <2>1. local[t] # 0 /\ Own(t) \in Rings /\ ring \in [Rings -> RingType]
      BY <1>5, OwnRing DEF Inv, TypeOK, Owned, Drop
  <2>2. x.dropped <= y.dropped /\ ring' = [ring EXCEPT ![Own(t)] = y]
      BY <1>5, <2>1 DEF Drop, RingType
  <2>3. ring'[Own(t)] = y
      BY <2>1, <2>2
  <2> QED
      BY <1>5, <2>1, <2>2, <2>3, SumsOfOwn, DropStep DEF Drop, readerVars
<1>6. ASSUME NEW t \in Threads, Write(t) PROVE Retained' /\ Summed'
  <2>1. local[t] # 0 /\ Own(t) \in Rings
      BY <1>6, OwnRing DEF Inv, Owned, Write
  <2>2. ring[Own(t)].dropped <= ring'[Own(t)].dropped
      BY <1>6, <2>1, KeepsDropped DEF Inv, TypeOK, RingType
  <2> QED
      BY <1>6, <2>1, <2>2, SumsOfOwn, WriteStep DEF Write, readerVars
<1>7. ASSUME NEW t \in Threads, Publish(t) PROVE Retained' /\ Summed'
  <2>1. local[t] # 0 /\ Own(t) \in Rings
      BY <1>7, OwnRing DEF Inv, Owned, Publish
  <2>2. ring[Own(t)].dropped <= ring'[Own(t)].dropped
      BY <1>7, <2>1, KeepsDropped DEF Inv, TypeOK, RingType
  <2> QED
      BY <1>7, <2>1, <2>2, SumsOfOwn, PublishStep DEF Publish, readerVars
<1>8. ASSUME NEW t \in Threads, End(t) PROVE Retained' /\ Summed'
    BY <1>8, SumsOfLetGo DEF End, readerVars
<1>9. ASSUME NEW c \in Callers, Call(c) PROVE Retained' /\ Summed'
    BY <1>9, SumsSame DEF Call, ringVars, readerVars
<1>10. ASSUME NEW c \in Callers, Lock(c) PROVE Retained' /\ Summed'
  <2>1. CASE CopyRings(c)
      BY <1>10, <2>1, SumsOfCopy DEF Lock
  <2>2. CASE UNCHANGED <<reader, sum, before>>
      BY <1>10, <2>2, SumsSame DEF Lock, ringVars
  <2> QED
      BY <1>10, <2>1, <2>2 DEF Lock
<1>11. ASSUME NEW c \in Callers, Finish(c) PROVE Retained' /\ Summed'
    BY <1>11, SumsOfRetire DEF Finish
<1>12. ASSUME NEW c \in Callers, Begin(c) PROVE Retained' /\ Summed'
    BY <1>12, SumsOfBegin
<1>13. ASSUME NEW c \in Callers, SetMask(c) PROVE Retained' /\ Summed'
    BY <1>13, SumsSame DEF SetMask, ringVars, readerVars
<1>14. ASSUME NEW c \in Callers, StartCollector(c) PROVE Retained' /\ Summed'
    BY <1>14, SumsSame DEF StartCollector, ringVars, readerVars
<1>15. ASSUME LoadHead PROVE Retained' /\ Summed'
    BY <1>15, SumsOfHead
<1>16. ASSUME StoreTail PROVE Retained' /\ Summed'
    BY <1>16, SumsOfTail
<1>17. ASSUME Check PROVE Retained' /\ Summed'
    BY <1>17, SumsSame DEF Check, ringVars, readerVars
<1>18. ASSUME Wake PROVE Retained' /\ Summed'
    BY <1>18, SumsSame DEF Wake, ringVars, readerVars
<1>19. ASSUME Pump PROVE Retained' /\ Summed'
  <2>1. CASE CopyRings("collector")
      BY <1>19, <2>1, SumsOfCopy DEF Pump
  <2>2. CASE UNCHANGED <<reader, sum, before>>
      BY <1>19, <2>2, SumsSame DEF Pump, ringVars
  <2> QED
      BY <1>19, <2>1, <2>2 DEF Pump
<1>20. ASSUME Pumped PROVE Retained' /\ Summed'
    BY <1>20, SumsOfRetire DEF Pumped
<1>21. ASSUME UNCHANGED vars PROVE Retained' /\ Summed'
    BY <1>21, SumsSame DEF vars, ringVars, readerVars
<1> QED
    BY <1>1, <1>2, <1>3, <1>4, <1>5, <1>6, <1>7, <1>8, <1>9, <1>10, <1>11,
       <1>12, <1>13, <1>14, <1>15, <1>16, <1>17, <1>18, <1>19, <1>20, <1>21
       DEF Next, Push, Runs, Collect

\* Nothing is dropped at first.
LEMMA InitCounted == Init => Counted
<1> SUFFICES ASSUME Init PROVE Counted
    OBVIOUS
<1>1. Overfull
    BY DEF Init, Overfull, NewRing, Idle
<1>2. Registered /\ Unused
    BY DEF Init, Registered, Unused, Idle
<1>3. Retained /\ Summed
    BY DEF Init, Retained, Summed, Free, Unlocked
<1> QED
    BY <1>1, <1>2, <1>3 DEF Counted

\* What is counted stays so.
LEMMA StepCounted == Inv /\ Counted /\ [Next]_vars => Counted'
BY OverfullStep, RegisteredStep, UnusedStep, SumsStep DEF Counted

\* Each time the rings were read, the session is said to have dropped what its
\* threads dropped, up to what they do meanwhile: the count of ring::drain, of
\* rings that were read and of those that are gone.
THEOREM DropsStayReported == Spec => DropsAreReported
<1>1. ASSUME Inv, Counted, Retire
      PROVE  before <= Reported /\ Reported <= AllDropped
  <2> DEFINE gone == SessionRings \ (rings \cup forsaken)
             held == reader.held
  <2>1. ~Free /\ Remaining = {}
      BY <1>1 DEF Retire, Remaining
  <2>2. /\ session # 0 /\ sum \in Nat /\ before \in Nat /\ retired \in Nat
        /\ retired = DropsOf(ring, gone)
        /\ sum <= DropsOf(ring, held) /\ before <= retired + sum + DropsOf(ring, {})
      BY <1>1, <2>1 DEF Counted, Retained, Summed
  <2>3. DropsOf(ring, {}) = 0
      BY <1>1, CopyOfRings, DropsOfNone
  <2>4. /\ gone \in SUBSET Rings /\ held \in SUBSET Rings /\ gone \cap held = {}
        /\ SessionRings \ forsaken \in SUBSET Rings
        /\ gone \cup held \in SUBSET (SessionRings \ forsaken)
      BY <1>1, <2>2, CopyOfRings DEF Counted, Registered
  <2>5. AllDropped = DropsOf(ring, SessionRings \ forsaken)
      BY DEF AllDropped, DroppedBy, DropsOf, SessionRings
  <2> HIDE DEF gone, held
  <2>6. /\ DropsOf(ring, held) \in Nat
        /\ DropsOf(ring, gone \cup held) = DropsOf(ring, gone) + DropsOf(ring, held)
      BY <1>1, <2>4, CopyOfRings, DropsOfBoth
  <2>7. DropsOf(ring, gone \cup held) <= AllDropped /\ AllDropped \in Nat
    <3>1. \A r \in gone \cup held : ring[r].dropped <= ring[r].dropped
        BY <1>1, <2>4, CopyOfRings DEF RingType
    <3> QED
        BY <1>1, <2>4, <2>5, <3>1, CopyOfRings, DropsGrow
  <2> QED
      BY <2>2, <2>3, <2>6, <2>7 DEF Reported
<1>2. ASSUME Inv, Counted, Next, ~Free, reader'.by = "none"
      PROVE  before <= Reported /\ Reported <= AllDropped
  <2>1. reader'.by # reader.by
      BY <1>2 DEF Free
  <2>2. CASE Retire
      BY <1>1, <1>2, <2>2
  <2>3. CASE ~Retire
    <3>1. reader'.by = reader.by
        BY <1>2, <2>3 DEF Next, Push, Runs, Collect, Record, ReadSession, Register, LoadTail, Drop,
           Write, Publish, End, Call, Lock, CopyRings, Finish, Begin, SetMask, StartCollector,
           LoadHead, StoreTail, Check, Wake, Pump, Pumped, readerVars, Inv, TypeOK, ReaderType
    <3> QED
        BY <2>1, <3>1
  <2> QED
      BY <2>2, <2>3
<1>3. Inv /\ Counted /\ [Next]_vars
          => [(~Free /\ reader'.by = "none") =>
                 before <= Reported /\ Reported <= AllDropped]_vars
    BY <1>2
<1>4. Spec => [](Inv /\ Counted)
    BY InitInv, StepInv, InitCounted, StepCounted, PTL DEF Spec
<1> QED
    BY <1>3, <1>4, PTL DEF Spec, DropsAreReported

=============================================================================
