---------------------------- MODULE WebLinkProofs ----------------------------
(***************************************************************************)
(* Proofs about WebLink, for any commands, queries, fields, windows and    *)
(* bounds: what page and host agree on whatever was lost between them, and *)
(* whose players the host has.                                             *)
(***************************************************************************)
EXTENDS WebLinkInvariants, SequenceTheorems, FiniteSetTheorems, TLAPS

-----------------------------------------------------------------------------
(* Sequences of messages.                                                   *)

\* A sequence and its first element.
LEMMA TakenFirst ==
    ASSUME NEW S, NEW s \in Seq(S), s # <<>>
    PROVE  /\ Head(s) \in S /\ Tail(s) \in Seq(S)
           /\ 1 \in DOMAIN s /\ Head(s) = s[1]
           /\ \A i \in DOMAIN Tail(s) : i + 1 \in DOMAIN s /\ Tail(s)[i] = s[i + 1]
           /\ DOMAIN s \subseteq Nat \ {0} /\ DOMAIN Tail(s) \subseteq Nat \ {0}
           /\ \A i \in DOMAIN s : i # 1 => i - 1 \in DOMAIN Tail(s) /\ Tail(s)[i - 1] = s[i]
<1>1. /\ Len(s) \in Nat \ {0} /\ Head(s) \in S /\ Tail(s) \in Seq(S)
      /\ Len(Tail(s)) = Len(s) - 1
      /\ \A i \in 1 .. Len(Tail(s)) : Tail(s)[i] = s[i + 1]
  BY EmptySeq, HeadTailProperties, LenProperties
<1>2. Head(s) = s[1]
  BY <1>1, EmptySeq, HeadTailProperties
<1> QED
  BY <1>1, <1>2, LenProperties

\* Two sequences, one after the other.
LEMMA Joined ==
    ASSUME NEW S, NEW s \in Seq(S), NEW t \in Seq(S)
    PROVE  /\ s \o t \in Seq(S)
           /\ \A i \in DOMAIN s : i \in DOMAIN (s \o t) /\ (s \o t)[i] = s[i] /\ i \in Nat \ {0}
           /\ \A i \in DOMAIN t : i + Len(s) \in DOMAIN (s \o t) /\ (s \o t)[i + Len(s)] = t[i]
                                   /\ i \in Nat \ {0}
           /\ \A i \in DOMAIN (s \o t) : i \in Nat /\ (i \in DOMAIN s \/ i - Len(s) \in DOMAIN t)
           /\ Len(s) \in Nat /\ \A i \in DOMAIN s : i <= Len(s)
<1>1. /\ s \o t \in Seq(S) /\ Len(s \o t) = Len(s) + Len(t)
      /\ Len(s) \in Nat /\ Len(t) \in Nat
      /\ \A i \in 1 .. Len(s) + Len(t) : (s \o t)[i] = IF i <= Len(s) THEN s[i] ELSE t[i - Len(s)]
  BY ConcatProperties, LenProperties
<1> QED
  BY <1>1, LenProperties

\* One message more.
LEMMA Added ==
    ASSUME NEW S, NEW s \in Seq(S), NEW m \in S
    PROVE  /\ Append(s, m) \in Seq(S)
           /\ DOMAIN Append(s, m) = DOMAIN s \cup {Len(s) + 1}
           /\ Append(s, m)[Len(s) + 1] = m
           /\ \A i \in DOMAIN s : Append(s, m)[i] = s[i] /\ i \in Nat \ {0} /\ i < Len(s) + 1
           /\ Len(s) \in Nat
<1>1. /\ Len(s) \in Nat /\ DOMAIN s = 1 .. Len(s)
      /\ Append(s, m) \in Seq(S) /\ Len(Append(s, m)) = Len(s) + 1
      /\ Append(s, m)[Len(s) + 1] = m
      /\ \A i \in 1 .. Len(s) : Append(s, m)[i] = s[i]
  BY AppendProperties, LenProperties
<1> QED
  BY <1>1, LenProperties

\* A set made into a sequence.
LEMMA Listed ==
    ASSUME NEW S, IsFiniteSet(S)
    PROVE  /\ SetToSeq(S) \in Seq(S)
           /\ \A x \in S : \E i \in DOMAIN SetToSeq(S) : SetToSeq(S)[i] = x
           /\ IsInjective(SetToSeq(S))
<1> DEFINE n == Cardinality(S)
<1>1. n \in Nat /\ ExistsBijection(1 .. n, S)
  BY FS_CardinalityType
<1>2. PICK f \in [1 .. n -> S] : IsInjective(f)
  BY <1>1 DEF ExistsBijection, Bijection, Injection
<1>3. SetToSeq(S) \in [1 .. n -> S] /\ IsInjective(SetToSeq(S))
  BY <1>2 DEF SetToSeq
<1>4. IsFiniteSet(1 .. n) /\ Cardinality(1 .. n) = n
  BY <1>1, FS_Interval
<1>5. SetToSeq(S) \in Surjection(1 .. n, S)
  BY <1>3, <1>4, FS_Injection DEF Injection
<1> QED
  BY <1>1, <1>3, <1>5 DEF Surjection

\* A sequence of some messages is one of all.
LEMMA SomeMessages ==
    ASSUME NEW S, NEW T, S \subseteq T, NEW s \in Seq(S)
    PROVE  s \in Seq(T) /\ \A i \in DOMAIN s : s[i] \in S
BY SeqMonotonic, ElementOfSeq, LenProperties

\* What moving keeps.
LEMMA MovedTags ==
    ASSUME NEW S, NEW s \in Seq(S), NEW t \in Seq(S), NEW T, Moved(s, t, T),
           NEW x \in T, NEW y \in T
    PROVE  /\ Tagged(t, x) => Tagged(s, x)
           /\ Once(s, x) => Once(t, x)
           /\ Before(s, x, y) => Before(t, x, y)
<1>1. PICK k \in Nat : \A i \in DOMAIN t :
        t[i].type \in T => i + k \in DOMAIN s /\ t[i] = s[i + k]
  BY DEF Moved
<1>2. DOMAIN t \subseteq Nat
  BY LenProperties
<1> QED
  BY <1>1, <1>2 DEF Tagged, Once, Before

\* The ways to move.
LEMMA Moves ==
    ASSUME NEW S, NEW s \in Seq(S), NEW T
    PROVE  /\ Kept(s, s, T) /\ Moved(s, <<>>, T)
           /\ s # <<>> => /\ Moved(s, Tail(s), T)
                          /\ Head(s).type \notin T => Kept(s, Tail(s), T)
           /\ \A m \in S : m.type \notin T => Kept(s, Append(s, m), T)
           /\ \A t \in Seq(S) : (\A i \in DOMAIN t : t[i].type \notin T) => Kept(s, s \o t, T)
<1>1. DOMAIN s \subseteq Nat
  BY LenProperties
<1>2. Kept(s, s, T) /\ Moved(s, <<>>, T)
  <2>1. \A i \in DOMAIN s : s[i].type \in T => i + 0 \in DOMAIN s /\ s[i] = s[i + 0]
    <3> SUFFICES ASSUME NEW i \in DOMAIN s PROVE i + 0 = i
      OBVIOUS
    <3> QED
      BY <1>1, SMT
  <2>2. Moved(s, s, T)
    BY <2>1, 0 \in Nat, Zenon DEF Moved
  <2>3. Kept(s, s, T)
    BY <2>2, Zenon DEF Kept
  <2>4. DOMAIN <<>> = {}
    OBVIOUS
  <2>5. Moved(s, <<>>, T)
    BY <2>4, 0 \in Nat, Zenon DEF Moved
  <2> QED
    BY <2>3, <2>5
<1>3. ASSUME s # <<>>
      PROVE  /\ Moved(s, Tail(s), T)
             /\ Head(s).type \notin T => Kept(s, Tail(s), T)
  <2>1. ASSUME Head(s).type \notin T, NEW j \in DOMAIN s, s[j].type \in T
        PROVE  \E i \in DOMAIN Tail(s) : Tail(s)[i] = s[j]
    <3>1. j # 1
      BY <1>3, <2>1, TakenFirst
    <3>2. j - 1 \in DOMAIN Tail(s) /\ Tail(s)[j - 1] = s[j]
      BY <1>3, <3>1, TakenFirst
    <3> QED
      BY <3>2
  <2> QED
    BY <2>1, <1>3, TakenFirst DEF Kept, Moved
<1>4. ASSUME NEW m \in S, m.type \notin T
      PROVE  Kept(s, Append(s, m), T)
  <2>1. \A i \in DOMAIN Append(s, m) : Append(s, m)[i].type \in T =>
          i + 0 \in DOMAIN s /\ Append(s, m)[i] = s[i + 0]
    BY <1>4, Added
  <2>2. Moved(s, Append(s, m), T)
    BY <2>1, 0 \in Nat, Zenon DEF Moved
  <2> QED
    BY <2>2, Added DEF Kept
<1>5. ASSUME NEW t \in Seq(S), \A i \in DOMAIN t : t[i].type \notin T
      PROVE  Kept(s, s \o t, T)
  <2>1. ASSUME NEW i \in DOMAIN (s \o t), (s \o t)[i].type \in T
        PROVE  i + 0 \in DOMAIN s /\ (s \o t)[i] = s[i + 0]
    BY Joined, <1>5, <2>1
  <2>2. Moved(s, s \o t, T)
    BY <2>1, 0 \in Nat, Zenon DEF Moved
  <2> QED
    BY <2>2, Joined DEF Kept
<1> QED
  BY <1>2, <1>3, <1>4, <1>5

\* The first message.
LEMMA FirstTag ==
    ASSUME NEW S, NEW s \in Seq(S), s # <<>>, NEW x, NEW y
    PROVE  /\ Head(s).type = x => Tagged(s, x)
           /\ Head(s).type = x /\ Once(s, x) => ~Tagged(Tail(s), x)
           /\ Head(s).type = y /\ x # y /\ Before(s, x, y) => ~Tagged(s, x)
           /\ Tagged(s, x) => Head(s).type = x \/ Tagged(Tail(s), x)
<1>1. /\ 1 \in DOMAIN s /\ Head(s) = s[1] /\ DOMAIN s \subseteq Nat \ {0}
      /\ \A i \in DOMAIN Tail(s) : i + 1 \in DOMAIN s /\ Tail(s)[i] = s[i + 1] /\ i \in Nat \ {0}
      /\ \A i \in DOMAIN s : i # 1 => i - 1 \in DOMAIN Tail(s) /\ Tail(s)[i - 1] = s[i]
  BY TakenFirst
<1>2. ASSUME Head(s).type = x, Once(s, x), NEW i \in DOMAIN Tail(s), Tail(s)[i].type = x
      PROVE  FALSE
  BY <1>1, <1>2 DEF Once
<1>3. ASSUME Head(s).type = y, x # y, Before(s, x, y), NEW i \in DOMAIN s, s[i].type = x
      PROVE  FALSE
  BY <1>1, <1>3 DEF Before
<1>4. ASSUME NEW i \in DOMAIN s, s[i].type = x
      PROVE  Head(s).type = x \/ Tagged(Tail(s), x)
  BY <1>1, <1>4 DEF Tagged
<1> QED
  BY <1>2, <1>3, <1>4, <1>1 DEF Tagged

\* One message more.
LEMMA LastTag ==
    ASSUME NEW S, NEW s \in Seq(S), NEW m \in S, NEW x, NEW y
    PROVE  /\ Tagged(Append(s, m), x) <=> Tagged(s, x) \/ m.type = x
           /\ Once(s, x) /\ (m.type = x => ~Tagged(s, x)) => Once(Append(s, m), x)
           /\ Before(s, x, y) /\ (m.type = x => ~Tagged(s, y)) /\ x # y
                => Before(Append(s, m), x, y)
BY Added DEF Tagged, Once, Before

-----------------------------------------------------------------------------
(* What the messages carry.                                                 *)

LEMMA PageMessages ==
    ASSUME NEW m \in FromPage
    PROVE  /\ m.type \in {"hello", "subscribe", "open_session", "session_windows", "media_create",
                          "media_release", "media_release_window", "cancel", "command"}
           /\ m.type = "open_session" => m.resume \in SessionIds \cup {NoSession}
           /\ m.type = "session_windows" => m.windows \in SUBSET Windows
           /\ m.type = "media_create" => m.player \in Players /\ m.owner \in Owners
           /\ m.type = "cancel" => m.request \in Queries
           /\ m.type = "command" => m.request \in Requests /\ m.engine \in 0 .. MaxEngines
BY DEF FromPage

LEMMA HostMessages ==
    ASSUME NEW m \in FromHost
    PROVE  /\ m.type \in {"welcome", "session_opened", "state", "update", "result", "error"}
           /\ m.type = "welcome" => m.engine \in 1 .. MaxEngines
           /\ m.type = "session_opened" => m.session \in SessionIds
           /\ m.type = "state" => m.revision \in 0 .. MaxChanges /\ m.values \in [Fields -> Values]
           /\ m.type = "update" => /\ m.revision \in 0 .. MaxChanges /\ m.fields \in SUBSET Fields
                                   /\ m.values \in [m.fields -> Values]
           /\ m.type = "result" => m.request \in Requests /\ m.revision \in 0 .. MaxChanges
BY DEF FromHost, Updates

\* The session ids are not "none".
LEMMA Sessions ==
    /\ NoSession \notin SessionIds
    /\ \A e \in 1 .. MaxEngines, c \in Connections :
         [engine |-> e, connection |-> c] \in SessionIds
    /\ \A id \in SessionIds : id.engine \in 1 .. MaxEngines /\ id.connection \in Connections
    /\ NoSession.engine = 0 /\ NoSession.connection = 0
BY LinkAssumption DEF SessionIds, NoSession, Connections

\* What a finite set maps to is finite.
LEMMA Mapped ==
    ASSUME NEW S, IsFiniteSet(S), NEW T, NEW f \in [S -> T]
    PROVE  IsFiniteSet({f[x] : x \in S})
<1> QED
  BY FS_Surjection DEF Surjection

-----------------------------------------------------------------------------
(* What the steps do to the channels.                                       *)

\* What the page posts.
LEMMA Posting ==
    ASSUME LinkTypeOK, NEW messages \in Seq(FromPage), toHost' = Posted(messages)
    PROVE  /\ toHost' \in [Connections -> Seq(FromPage)]
           /\ \A c \in Connections :
                toHost'[c] = IF c = link.socket /\ link'.ready /\ Alive(c)
                             THEN toHost[c] \o messages ELSE toHost[c]
BY Joined DEF LinkTypeOK, ChannelsTyped, Posted

\* What the host sends.
LEMMA Sending ==
    ASSUME LinkTypeOK, NEW c \in Connections, NEW m \in FromHost
    PROVE  /\ Sent(c, m) \in [Connections -> Seq(FromHost)]
           /\ \A d \in Connections :
                Sent(c, m)[d] = IF d = c /\ Alive(c) /\ link.socket = c /\ link.ready
                                THEN Append(toPage[d], m) ELSE toPage[d]
BY Added DEF LinkTypeOK, ChannelsTyped, Sent

\* What a connection takes.
LEMMA Taking ==
    ASSUME LinkTypeOK, NEW c \in Connections, NEW t, HostTakes(c, t)
    PROVE  /\ toHost' \in [Connections -> Seq(FromPage)]
           /\ \A d \in Connections : toHost'[d] = IF d = c THEN Tail(toHost[d]) ELSE toHost[d]
           /\ toHost[c] \in Seq(FromPage) /\ toHost[c] # <<>>
           /\ Asked(c) \in FromPage /\ Asked(c).type = t /\ 1 \in DOMAIN toHost[c]
           /\ Asked(c) = toHost[c][1]
           /\ step[c] = Listening
           /\ conn[c].status = IF t = "hello" THEN "new" ELSE "open"
<1>1. toHost[c] \in Seq(FromPage) /\ toHost[c] # <<>> /\ toHost' = [toHost EXCEPT ![c] = Tail(@)]
      /\ toHost \in [Connections -> Seq(FromPage)]
  BY DEF HostTakes, LinkTypeOK, ChannelsTyped
<1> QED
  BY <1>1, TakenFirst DEF HostTakes, Asked

\* The cancellations of a sweep.
LEMMA Cancelling ==
    ASSUME LinkTypeOK, NEW waiting
    PROVE  /\ Cancels(waiting) \in Seq(FromPage)
           /\ \A i \in DOMAIN Cancels(waiting) : Cancels(waiting)[i].type = "cancel"
<1> DEFINE f == [q \in Swept(waiting) |-> [type |-> "cancel", request |-> q]]
           M == {[type |-> "cancel", request |-> q] : q \in Swept(waiting)}
<1>1. Swept(waiting) \subseteq Queries /\ Swept(waiting) \subseteq cancelled
      /\ IsFiniteSet(cancelled)
  BY DEF Swept, LinkTypeOK, PageTyped
<1>2. IsFiniteSet(Swept(waiting))
  BY <1>1, FS_Subset
<1>3. IsFiniteSet({f[q] : q \in Swept(waiting)})
  <2>1. f \in [Swept(waiting) -> M]
    OBVIOUS
  <2> HIDE DEF f, M
  <2> QED
    BY <1>2, <2>1, Mapped
<1>4. M \subseteq FromPage /\ \A m \in M : m.type = "cancel"
  BY <1>1 DEF FromPage
<1>5. Cancels(waiting) = SetToSeq(M)
  BY DEF Cancels
<1>6. Cancels(waiting) \in Seq(M)
  BY <1>3, <1>5, Listed
<1> HIDE DEF M
<1> QED
  BY <1>4, <1>6, SomeMessages

\* A message of the host for the page.
LEMMA Arriving ==
    ASSUME LinkTypeOK, NEW t, Incoming(t)
    PROVE  /\ link.ready /\ link.socket \in Connections
           /\ toPage[link.socket] \in Seq(FromHost) /\ toPage[link.socket] # <<>>
           /\ Message \in FromHost /\ Message.type = t
           /\ 1 \in DOMAIN toPage[link.socket] /\ Message = toPage[link.socket][1]
<1>1. link.ready /\ link.socket \in Connections
  BY LinkAssumption DEF Incoming, LinkTypeOK, PageTyped, LinkRecords, Connections
<1> QED
  BY <1>1, TakenFirst DEF Incoming, Message, LinkTypeOK, ChannelsTyped

\* What the page makes of it.
LEMMA Consuming ==
    ASSUME LinkTypeOK, NEW t, Incoming(t), NEW r \in PageRecords, NEW posts \in Seq(FromPage),
           NEW answered, NEW answer, Took(r, posts, answered, answer)
    PROVE  /\ remote' = [r EXCEPT !.pending = r.pending \ cancelled]
           /\ remote' \in PageRecords
           /\ DOMAIN outcome' = Requests
           /\ toPage' \in [Connections -> Seq(FromHost)]
           /\ \A c \in Connections :
                toPage'[c] = IF c = link.socket THEN Tail(toPage[c]) ELSE toPage[c]
           /\ posts \o Cancels(r.pending) \in Seq(FromPage)
           /\ toHost' = Posted(posts \o Cancels(r.pending))
           /\ UNCHANGED <<cancelled, hostVars, histories>>
<1>1. /\ link.socket \in Connections /\ toPage[link.socket] \in Seq(FromHost)
      /\ toPage[link.socket] # <<>> /\ toPage \in [Connections -> Seq(FromHost)]
  BY Arriving DEF LinkTypeOK, ChannelsTyped
<1>2. Tail(toPage[link.socket]) \in Seq(FromHost)
  BY <1>1, TakenFirst
<1>3. toPage' = [toPage EXCEPT ![link.socket] = Tail(@)]
  BY DEF Took
<1>4. remote' = [r EXCEPT !.pending = r.pending \ cancelled]
  BY DEF Took
<1>5. remote' \in PageRecords
  BY <1>4 DEF PageRecords
<1>6. posts \o Cancels(r.pending) \in Seq(FromPage)
  BY Cancelling, Joined
<1>7. toHost' = Posted(posts \o Cancels(r.pending)) /\ DOMAIN outcome' = Requests
      /\ UNCHANGED <<cancelled, hostVars, histories>>
  BY DEF Took
<1> QED
  BY <1>4, <1>5, <1>6, <1>7, <1>1, <1>2, <1>3

-----------------------------------------------------------------------------
(* Type correctness.                                                        *)

\* What the page does leaves the host alone.
LEMMA HostTyped ==
    ASSUME LinkTypeOK, UNCHANGED <<hostVars, overtaken>>
    PROVE  ConnectionsTyped' /\ EngineTyped'
<1>1. ConnectionsTyped'
  BY DEF LinkTypeOK, ConnectionsTyped, StepTyped, hostVars, connVars
<1>2. UNCHANGED engineVars
  BY DEF hostVars
<1>3. EngineTyped'
  BY <1>2 DEF LinkTypeOK, EngineTyped, engineVars
<1> QED
  BY <1>1, <1>3

\* A message is taken.
LEMMA ConsumingTyped ==
    ASSUME LinkTypeOK, NEW t, Incoming(t), NEW r \in PageRecords, NEW posts \in Seq(FromPage),
           NEW answered, NEW answer, Took(r, posts, answered, answer),
           r.created = remote.created, link' \in LinkRecords, link'.ready => link'.socket # 0
    PROVE  LinkTypeOK'
<1>1. remote' \in PageRecords /\ remote'.created = remote.created
  BY Consuming DEF PageRecords
<1>2. PageTyped'
  BY <1>1, Consuming DEF LinkTypeOK, PageTyped
<1>3. ChannelsTyped'
  BY Consuming, Posting DEF ChannelsTyped
<1> QED
  BY <1>2, <1>3, Consuming, HostTyped DEF LinkTypeOK, histories

LEMMA ConsumedThen ==
    ASSUME LinkTypeOK, NEW t, Incoming(t), NEW r \in PageRecords, NEW posts \in Seq(FromPage),
           NEW answered, NEW answer, Took(r, posts, answered, answer)
    PROVE  Consumed(t, posts \o Cancels(r.pending))
<1>1. /\ posts \o Cancels(r.pending) \in Seq(FromPage)
      /\ toHost' = Posted(posts \o Cancels(r.pending))
      /\ \A c \in Connections :
           toPage'[c] = IF c = link.socket THEN Tail(toPage[c]) ELSE toPage[c]
      /\ UNCHANGED <<cancelled, hostVars, histories>>
  BY Consuming
<1> QED
  BY <1>1, Arriving, Posting DEF Consumed

LEMMA WelcomeTaken ==
    ASSUME LinkTypeOK, TakeWelcome
    PROVE  /\ LinkTypeOK' /\ UNCHANGED link
           /\ Opens(Resumes(Message.engine)) \in Seq(FromPage)
           /\ Consumed("welcome", Opens(Resumes(Message.engine))
                                    \o Cancels(remote.pending \cup {"open", "subscribe"}))
           /\ remote' = [remote EXCEPT !.engine_id = Message.engine, !.previous = NoSession,
                            !.pending = (remote.pending \cup {"open", "subscribe"}) \ cancelled]
           /\ Resumes(Message.engine) \in SessionIds \cup {NoSession}
           /\ \A q \in Requests : q \notin cancelled => outcome'[q] = outcome[q]
<1> DEFINE r == [remote EXCEPT !.engine_id = Message.engine, !.previous = NoSession,
                               !.pending = @ \cup {"open", "subscribe"}]
<1>1. Incoming("welcome") /\ UNCHANGED link
      /\ Took(r, Opens(Resumes(Message.engine)), {}, "")
  BY DEF TakeWelcome, Opens
<1>2. remote \in PageRecords /\ link \in LinkRecords /\ (link.ready => link.socket # 0)
  BY DEF LinkTypeOK, PageTyped
<1>3. Message.engine \in 1 .. MaxEngines
  BY <1>1, Arriving, HostMessages
<1>4. r \in PageRecords /\ r.pending = remote.pending \cup {"open", "subscribe"}
      /\ r.created = remote.created
  <2>1. Message.engine \in 0 .. MaxEngines
    BY <1>3, LinkAssumption
  <2> QED
    BY <1>2, <2>1 DEF PageRecords
<1>5. Resumes(Message.engine) \in SessionIds \cup {NoSession}
  BY <1>2 DEF Resumes, PageRecords
<1>6. Opens(Resumes(Message.engine)) \in Seq(FromPage)
  BY <1>5 DEF Opens, FromPage
<1>7. remote' = [r EXCEPT !.pending = r.pending \ cancelled]
  BY <1>1, <1>4, <1>6, Consuming
<1>8. \A q \in Requests : q \notin cancelled => outcome'[q] = outcome[q]
  BY <1>1 DEF Took, Swept
<1>9. Consumed("welcome", Opens(Resumes(Message.engine)) \o Cancels(r.pending))
  BY <1>1, <1>4, <1>6, ConsumedThen
<1>10. LinkTypeOK'
  <2> HIDE DEF r
  <2> QED
    BY <1>1, <1>2, <1>4, <1>6, ConsumingTyped
<1> QED
  BY <1>1, <1>4, <1>5, <1>6, <1>8, <1>9, <1>10, <1>2, <1>7 DEF PageRecords

LEMMA ShownAgain ==
    ASSUME LinkTypeOK, NEW id \in SessionIds
    PROVE  /\ Again(id) \in Seq(FromPage)
           /\ \A i \in DOMAIN Again(id) : Again(id)[i].type = "media_create"
           /\ \A i \in DOMAIN Again(id) : \E p \in remote.created : Again(id)[i] =
                CreateMessage(p.player, [session |-> id, window |-> p.owner])
           /\ \A p \in remote.created : \E i \in DOMAIN Again(id) : Again(id)[i] =
                CreateMessage(p.player, [session |-> id, window |-> p.owner])
           /\ IsInjective(Again(id))
<1> DEFINE f == [p \in remote.created |->
                    CreateMessage(p.player, [session |-> id, window |-> p.owner])]
           M == {CreateMessage(p.player, [session |-> id, window |-> p.owner]) :
                    p \in remote.created}
<1>1. /\ IsFiniteSet(remote.created)
      /\ remote.created \subseteq [player : Players, owner : Windows]
  BY DEF LinkTypeOK, PageTyped, PageRecords
<1>2. M \subseteq FromPage /\ \A m \in M : m.type = "media_create"
  BY <1>1 DEF CreateMessage, FromPage, Owners, Players
<1>3. f \in [remote.created -> M] /\ M = {f[p] : p \in remote.created}
  OBVIOUS
<1> HIDE DEF f
<1>4. IsFiniteSet({f[p] : p \in remote.created})
  <2> DEFINE S == remote.created
  <2>1. IsFiniteSet(S) /\ f \in [S -> M]
    BY <1>1, <1>3
  <2>2. IsFiniteSet({f[p] : p \in S})
    <3> HIDE DEF M, S
    <3> QED
      BY <2>1, Mapped
  <2> QED
    BY <2>2
<1>5. /\ Again(id) \in Seq(M) /\ IsInjective(Again(id))
      /\ \A m \in M : \E i \in DOMAIN Again(id) : Again(id)[i] = m
  <2>1. Again(id) = SetToSeq(M)
    BY DEF Again
  <2>2. IsFiniteSet(M)
    BY <1>3, <1>4
  <2> HIDE DEF M
  <2> QED
    BY <2>1, <2>2, Listed
<1>6. \A p \in remote.created : CreateMessage(p.player, [session |-> id, window |-> p.owner]) \in M
  OBVIOUS
<1>7. \A m \in M : \E p \in remote.created :
        m = CreateMessage(p.player, [session |-> id, window |-> p.owner])
  OBVIOUS
<1> HIDE DEF M
<1> QED
  BY <1>2, <1>5, <1>6, <1>7, SomeMessages

LEMMA SessionTaken ==
    ASSUME LinkTypeOK, TakeSessionOpened
    PROVE  /\ LinkTypeOK' /\ UNCHANGED link
           /\ WindowsMessage \in FromPage
           /\ <<WindowsMessage>> \o Again(Message.session) \in Seq(FromPage)
           /\ Message.session \in SessionIds
           /\ Consumed("session_opened", (<<WindowsMessage>> \o Again(Message.session))
                                            \o Cancels(remote.pending \ {"open"}))
           /\ remote' = [remote EXCEPT !.session_id = Message.session,
                            !.pending = (remote.pending \ {"open"}) \ cancelled]
           /\ \A q \in Requests : q \notin cancelled => outcome'[q] = outcome[q]
<1> DEFINE r == [remote EXCEPT !.session_id = Message.session, !.pending = @ \ {"open"}]
           posts == <<WindowsMessage>> \o Again(Message.session)
<1>1. Incoming("session_opened") /\ UNCHANGED link /\ Took(r, posts, {}, "")
  BY DEF TakeSessionOpened, Again
<1>2. remote \in PageRecords /\ link \in LinkRecords /\ (link.ready => link.socket # 0)
  BY DEF LinkTypeOK, PageTyped
<1>3. Message.session \in SessionIds
  BY <1>1, Arriving, HostMessages
<1>4. r \in PageRecords /\ r.pending = remote.pending \ {"open"} /\ r.created = remote.created
  BY <1>2, <1>3 DEF PageRecords
<1>5. WindowsMessage \in FromPage
  BY DEF WindowsMessage, OpenWindows, FromPage
<1>6. posts \in Seq(FromPage)
  BY <1>3, <1>5, ShownAgain, Joined
<1>7. remote' = [r EXCEPT !.pending = r.pending \ cancelled]
  BY <1>1, <1>4, <1>6, Consuming
<1>8. \A q \in Requests : q \notin cancelled => outcome'[q] = outcome[q]
  BY <1>1 DEF Took, Swept
<1>9. Consumed("session_opened", posts \o Cancels(r.pending))
  BY <1>1, <1>4, <1>6, ConsumedThen
<1>10. LinkTypeOK'
  <2> HIDE DEF r, posts
  <2> QED
    BY <1>1, <1>2, <1>4, <1>6, ConsumingTyped
<1> QED
  BY <1>1, <1>3, <1>4, <1>5, <1>6, <1>8, <1>9, <1>10, <1>2, <1>7 DEF PageRecords

LEMMA StateTaken ==
    ASSUME LinkTypeOK, TakeState
    PROVE  /\ LinkTypeOK' /\ link'.socket = link.socket /\ link'.ready = link.ready
           /\ Consumed("state", Cancels(remote.pending \ {"subscribe"}))
           /\ Message.revision \in 0 .. MaxChanges /\ Message.values \in [Fields -> Values]
           /\ remote' = [remote EXCEPT !.values = Message.values,
                            !.revision = Message.revision, !.connected = TRUE,
                            !.pending = (remote.pending \ {"subscribe"}) \ cancelled]
           /\ \A q \in Requests : q \notin cancelled => outcome'[q] = outcome[q]
<1> DEFINE r == [remote EXCEPT !.values = Message.values, !.revision = Message.revision,
                               !.connected = TRUE, !.pending = @ \ {"subscribe"}]
<1>1. Incoming("state") /\ link' = Connects(remote.engine_id, remote.session_id)
      /\ Took(r, <<>>, {}, "")
  BY DEF TakeState
<1>2. remote \in PageRecords /\ link \in LinkRecords /\ (link.ready => link.socket # 0)
  BY DEF LinkTypeOK, PageTyped
<1>3. Message.revision \in 0 .. MaxChanges /\ Message.values \in [Fields -> Values]
  BY <1>1, Arriving, HostMessages
<1>4. r \in PageRecords /\ r.pending = remote.pending \ {"subscribe"}
      /\ r.created = remote.created
  BY <1>2, <1>3 DEF PageRecords
<1>5. /\ link' \in LinkRecords /\ link'.socket = link.socket /\ link'.ready = link.ready
  BY <1>1, <1>2 DEF Connects, LinkRecords, PageRecords
<1>6. <<>> \in Seq(FromPage) /\ Cancels(r.pending) \in Seq(FromPage)
  BY Cancelling
<1>7. remote' = [r EXCEPT !.pending = r.pending \ cancelled]
  BY <1>1, <1>4, <1>6, Consuming
<1>8. \A q \in Requests : q \notin cancelled => outcome'[q] = outcome[q]
  BY <1>1 DEF Took, Swept
<1>9. Consumed("state", <<>> \o Cancels(r.pending))
  BY <1>1, <1>4, <1>6, ConsumedThen
<1>10. <<>> \o Cancels(r.pending) = Cancels(r.pending)
  BY <1>6, ConcatEmptySeq
<1>11. LinkTypeOK'
  <2> HIDE DEF r
  <2> QED
    BY <1>1, <1>2, <1>4, <1>5, <1>6, ConsumingTyped
<1> QED
  BY <1>1, <1>3, <1>4, <1>5, <1>8, <1>9, <1>10, <1>11, <1>2, <1>7 DEF PageRecords

LEMMA UpdateTaken ==
    ASSUME LinkTypeOK, TakeUpdate
    PROVE  /\ LinkTypeOK' /\ UNCHANGED link
           /\ \E posts : /\ \A i \in DOMAIN posts : posts[i].type = "cancel"
                         /\ Consumed("update", posts)
           /\ Message.revision \in 0 .. MaxChanges /\ Message.fields \subseteq Fields
           /\ \/ /\ Message.revision > remote.revision
                 /\ remote' = [remote EXCEPT
                       !.values = [f \in Fields |-> IF f \in Message.fields
                                                    THEN Message.values[f] ELSE remote.values[f]],
                       !.revision = Message.revision,
                       !.pending = remote.pending \ cancelled]
              \/ /\ ~(Message.revision > remote.revision)
                 /\ remote' = remote
           /\ \A q \in Requests : q \notin cancelled => outcome'[q] = outcome[q]
<1>1. Incoming("update") /\ UNCHANGED link
  BY DEF TakeUpdate
<1>2. remote \in PageRecords /\ link \in LinkRecords /\ (link.ready => link.socket # 0)
      /\ Fields \in SUBSET Fields
  BY DEF LinkTypeOK, PageTyped
<1>3. /\ Message.revision \in 0 .. MaxChanges /\ Message.fields \subseteq Fields
      /\ Message.values \in [Message.fields -> Values]
  BY <1>1, Arriving, HostMessages
<1> DEFINE v == [f \in Fields |-> IF f \in Message.fields
                                  THEN Message.values[f] ELSE remote.values[f]]
           r == [remote EXCEPT !.values = v, !.revision = Message.revision]
<1>4. <<>> \in Seq(FromPage) /\ Cancels(remote.pending) \in Seq(FromPage)
      /\ \A i \in DOMAIN Cancels(remote.pending) : Cancels(remote.pending)[i].type = "cancel"
  BY Cancelling
<1>5. CASE Applies(Message) /\ Took(r, <<>>, {}, "")
  <2>1. v \in [Fields -> Values]
    BY <1>2, <1>3 DEF PageRecords
  <2>2. r \in PageRecords /\ r.pending = remote.pending /\ r.created = remote.created
    <3> HIDE DEF v
    <3> QED
      BY <1>2, <1>3, <2>1 DEF PageRecords
  <2>3. remote' = [remote EXCEPT !.values = v, !.revision = Message.revision,
                                 !.pending = remote.pending \ cancelled]
    <3> HIDE DEF v
    <3> QED
      BY <1>2, <2>2, <1>1, <1>4, <1>5, Consuming DEF PageRecords
  <2>4. Consumed("update", Cancels(remote.pending))
    BY <1>4, <2>2, ConcatEmptySeq, <1>1, <1>5, ConsumedThen
  <2>5. LinkTypeOK'
    <3> HIDE DEF r
    <3> QED
      BY <1>1, <1>2, <1>4, <1>5, <2>2, ConsumingTyped
  <2> QED
    BY <1>1, <1>3, <1>4, <1>5, <2>3, <2>4, <2>5 DEF Applies, Took, Swept
<1>6. CASE /\ ~Applies(Message)
           /\ toPage' = [toPage EXCEPT ![link.socket] = Tail(@)]
           /\ UNCHANGED <<remote, cancelled, outcome, toHost, hostVars, histories>>
  <2>1. /\ link.socket \in Connections /\ toPage \in [Connections -> Seq(FromHost)]
        /\ toHost \in [Connections -> Seq(FromPage)]
        /\ Tail(toPage[link.socket]) \in Seq(FromHost)
    BY <1>1, Arriving, TakenFirst DEF LinkTypeOK, ChannelsTyped
  <2>2. toPage' \in [Connections -> Seq(FromHost)]
        /\ \A c \in Connections :
             toPage'[c] = IF c = link.socket THEN Tail(toPage[c]) ELSE toPage[c]
    BY <1>6, <2>1
  <2>3. ConnectionsTyped' /\ EngineTyped'
    BY <1>6, HostTyped DEF histories
  <2>4. PageTyped' /\ ChannelsTyped'
    BY <1>1, <1>6, <2>1, <2>2 DEF LinkTypeOK, PageTyped, ChannelsTyped
  <2>5. Consumed("update", <<>>)
    BY <1>1, <1>4, <1>6, <2>2, Arriving, <2>1, ConcatEmptySeq DEF Consumed
  <2>6. \A i \in DOMAIN <<>> : <<>>[i].type = "cancel"
    OBVIOUS
  <2> QED
    BY <1>1, <1>3, <1>6, <2>3, <2>4, <2>5, <2>6 DEF LinkTypeOK, Applies
<1> QED
  BY <1>5, <1>6 DEF TakeUpdate

LEMMA ResultTaken ==
    ASSUME LinkTypeOK, TakeResult
    PROVE  /\ LinkTypeOK' /\ UNCHANGED link
           /\ Consumed("result", Cancels(remote.pending \ {Message.request}))
           /\ Message.request \in Requests
           /\ remote' = [remote EXCEPT
                            !.pending = (remote.pending \ {Message.request}) \ cancelled]
           /\ \A q \in Requests : q \notin cancelled =>
                outcome'[q] = IF q = Message.request /\ q \in remote.pending THEN "done"
                              ELSE outcome[q]
<1> DEFINE r == [remote EXCEPT !.pending = @ \ {Message.request}]
<1>1. Incoming("result") /\ UNCHANGED link
      /\ Took(r, <<>>, remote.pending \cap {Message.request}, "done")
  BY DEF TakeResult
<1>2. remote \in PageRecords /\ link \in LinkRecords /\ (link.ready => link.socket # 0)
  BY DEF LinkTypeOK, PageTyped
<1>3. Message.request \in Requests
  BY <1>1, Arriving, HostMessages
<1>4. r \in PageRecords /\ r.pending = remote.pending \ {Message.request}
      /\ r.created = remote.created
  BY <1>2, <1>3 DEF PageRecords
<1>5. <<>> \in Seq(FromPage) /\ Cancels(r.pending) \in Seq(FromPage)
  BY Cancelling
<1>6. remote' = [r EXCEPT !.pending = r.pending \ cancelled]
  BY <1>1, <1>4, <1>5, Consuming
<1>7. remote' = [remote EXCEPT !.pending = (remote.pending \ {Message.request}) \ cancelled]
  BY <1>2, <1>4, <1>6 DEF PageRecords
<1>8. Consumed("result", <<>> \o Cancels(r.pending))
  BY <1>1, <1>4, <1>5, ConsumedThen
<1>9. <<>> \o Cancels(r.pending) = Cancels(r.pending)
  BY <1>5, ConcatEmptySeq
<1>10. LinkTypeOK'
  <2> HIDE DEF r
  <2> QED
    BY <1>1, <1>2, <1>4, <1>5, ConsumingTyped
<1> QED
  BY <1>1, <1>3, <1>4, <1>7, <1>8, <1>9, <1>10 DEF Took, Swept

LEMMA ErrorTaken ==
    ASSUME LinkTypeOK, TakeError
    PROVE  /\ LinkTypeOK' /\ link' = [link EXCEPT !.ready = FALSE, !.problem = "failed"]
           /\ \E posts : Consumed("error", posts)
           /\ remote' = [remote EXCEPT !.pending = remote.pending \ cancelled]
           /\ \A q \in Requests : q \notin cancelled => outcome'[q] = outcome[q]
<1>1. Incoming("error") /\ link' = [link EXCEPT !.ready = FALSE, !.problem = "failed"]
      /\ Took(remote, <<>>, {}, "")
  BY DEF TakeError
<1>2. remote \in PageRecords /\ link \in LinkRecords
  BY DEF LinkTypeOK, PageTyped
<1>3. <<>> \in Seq(FromPage)
  BY Cancelling
<1>4. remote' = [remote EXCEPT !.pending = remote.pending \ cancelled]
  BY <1>1, <1>2, <1>3, Consuming
<1>5. Consumed("error", <<>> \o Cancels(remote.pending))
  BY <1>1, <1>2, <1>3, ConsumedThen
<1>6. LinkTypeOK'
  BY <1>1, <1>2, <1>3, ConsumingTyped DEF LinkRecords
<1> QED
  BY <1>1, <1>4, <1>5, <1>6 DEF Took, Swept

LEMMA PostsThen ==
    ASSUME LinkTypeOK, NEW posts \in Seq(FromPage), toHost' = Posted(posts),
           UNCHANGED <<link, toPage, hostVars, overtaken>>
    PROVE  Posts(posts) /\ ChannelsTyped' /\ ConnectionsTyped' /\ EngineTyped'
<1> QED
  BY Posting, HostTyped DEF Posts, ChannelsTyped, LinkTypeOK

LEMMA Dispatched ==
    ASSUME LinkTypeOK, NEW r \in Requests, Dispatch(r)
    PROVE  /\ LinkTypeOK' /\ outcome[r] = "new" /\ UNCHANGED <<cancelled, histories>>
           /\ \E posts, cancels :
                /\ cancels \in Seq(FromPage)
                /\ \A i \in DOMAIN cancels : cancels[i].type = "cancel"
                /\ posts = IF remote.connected
                           THEN <<[type |-> "command", request |-> r, engine |-> remote.engine_id]>>
                           ELSE <<>>
                /\ posts \in Seq(FromPage)
                /\ Posts(cancels \o posts)
           /\ remote' = [remote EXCEPT !.pending =
                            (remote.pending \ cancelled)
                              \cup (IF remote.connected THEN {r} ELSE {})]
           /\ \A q \in Requests : q \notin cancelled =>
                outcome'[q] = IF q = r THEN IF remote.connected THEN "waiting" ELSE "unavailable"
                              ELSE outcome[q]
<1> DEFINE pending == (remote.pending \ cancelled) \cup (IF remote.connected THEN {r} ELSE {})
           posts == IF remote.connected
                    THEN <<[type |-> "command", request |-> r, engine |-> remote.engine_id]>>
                    ELSE <<>>
           cancels == Cancels(remote.pending)
<1>1. remote \in PageRecords /\ IsFiniteSet(remote.created) /\ cancelled \subseteq Queries
      /\ IsFiniteSet(cancelled)
  BY DEF LinkTypeOK, PageTyped
<1>2. pending \in SUBSET (Requests \cup {"open", "subscribe"})
  BY <1>1 DEF PageRecords
<1>3. remote' = [remote EXCEPT !.pending = pending]
  BY <1>1 DEF Dispatch, PageRecords
<1>4. remote' \in PageRecords /\ remote'.created = remote.created
  <2> HIDE DEF pending
  <2> QED
    BY <1>1, <1>2, <1>3 DEF PageRecords
<1>5. cancels \in Seq(FromPage) /\ \A i \in DOMAIN cancels : cancels[i].type = "cancel"
  BY Cancelling
<1>6. posts \in Seq(FromPage)
  <2>1. [type |-> "command", request |-> r, engine |-> remote.engine_id] \in FromPage
    BY <1>1 DEF FromPage, PageRecords
  <2> QED
    BY <2>1
<1>7. toHost' = Posted(cancels \o posts) /\ UNCHANGED <<link, cancelled, toPage, hostVars, histories>>
  BY DEF Dispatch
<1>8. Posts(cancels \o posts) /\ ChannelsTyped' /\ ConnectionsTyped' /\ EngineTyped'
  BY <1>7, PostsThen, <1>5, <1>6, Joined DEF histories
<1>9. PageTyped'
  BY <1>1, <1>4, <1>7 DEF LinkTypeOK, PageTyped, Dispatch
<1>10. \A q \in Requests : q \notin cancelled =>
          outcome'[q] = IF q = r THEN IF remote.connected THEN "waiting" ELSE "unavailable"
                        ELSE outcome[q]
  BY DEF Dispatch, Swept
<1> HIDE DEF pending, posts, cancels
<1>11. outcome[r] = "new"
  BY DEF Dispatch
<1> QED
  BY <1>3, <1>7, <1>8, <1>9, <1>10, <1>11, <1>5, <1>6 DEF LinkTypeOK, pending, posts

LEMMA Superseded ==
    ASSUME LinkTypeOK, NEW q \in Queries, Supersede(q)
    PROVE  LinkTypeOK' /\ cancelled' = cancelled \cup {q}
           /\ UNCHANGED <<link, remote, outcome, channelVars, hostVars, histories>>
<1>1. cancelled' = cancelled \cup {q}
      /\ UNCHANGED <<link, remote, outcome, channelVars, hostVars, histories>>
  BY DEF Supersede
<1>2. PageTyped' /\ ChannelsTyped'
  BY <1>1, FS_AddElement DEF LinkTypeOK, PageTyped, ChannelsTyped, channelVars
<1> QED
  BY <1>1, <1>2, HostTyped DEF LinkTypeOK, histories

\* A report is a message of the page.
LEMMA ReportTyped ==
    ASSUME NEW now \in SUBSET Windows
    PROVE  Reports(now) \in Seq(FromPage)
<1> QED
  BY DEF Reports, FromPage

LEMMA WindowOpened ==
    ASSUME LinkTypeOK, NEW w \in Windows, OpenWindow(w)
    PROVE  /\ LinkTypeOK' /\ UNCHANGED <<cancelled, outcome>>
           /\ link.engineID # 0 /\ remote.windows[w] = "new"
           /\ races' = Between
           /\ \E m : m \in FromPage /\ m.type = "media_create"
                     /\ m.player = [session |-> link.sessionID, window |-> w]
                     /\ m.owner = Qualified(w)
                     /\ Reports(OpenWindows \cup {w}) \in Seq(FromPage)
                     /\ Posts(Reports(OpenWindows \cup {w}) \o <<m>>)
           /\ OpenWindows' = OpenWindows \cup {w}
           /\ remote' = Arranged(w, "open", WithPlayer(w))
<1> DEFINE player == [session |-> link.sessionID, window |-> w]
           made == remote.created \cup {[player |-> player, owner |-> w]}
           m == CreateMessage(player, Qualified(w))
<1>1. remote \in PageRecords /\ link \in LinkRecords /\ IsFiniteSet(remote.created)
      /\ remote.windows \in [Windows -> {"new", "open", "closed"}]
      /\ remote.created \in SUBSET [player : Players, owner : Windows]
  BY DEF LinkTypeOK, PageTyped, PageRecords
<1>2. player \in Players /\ Qualified(w) \in Owners
  BY <1>1 DEF Players, Owners, Qualified, PageRecords, LinkRecords
<1>3. made \in SUBSET [player : Players, owner : Windows] /\ IsFiniteSet(made)
  <2> DEFINE S == remote.created
             x == [player |-> player, owner |-> w]
  <2>1. IsFiniteSet(S) /\ S \subseteq [player : Players, owner : Windows]
    BY <1>1
  <2>2. x \in [player : Players, owner : Windows]
    BY <1>2
  <2>3. S \cup {x} \in SUBSET [player : Players, owner : Windows] /\ IsFiniteSet(S \cup {x})
    <3> HIDE DEF S, x
    <3> QED
      BY <2>1, <2>2, FS_AddElement
  <2> QED
    BY <2>3
<1>4. remote' = [remote EXCEPT !.windows[w] = "open", !.created = made]
  BY DEF OpenWindow
<1>5. remote' = [remote EXCEPT !.windows = [remote.windows EXCEPT ![w] = "open"],
                               !.created = made]
  <2> HIDE DEF made
  <2> QED
    BY <1>1, <1>4 DEF PageRecords
<1>6. remote' \in PageRecords /\ remote'.created = made
      /\ remote'.windows = [remote.windows EXCEPT ![w] = "open"]
  <2> HIDE DEF made
  <2> QED
    BY <1>1, <1>3, <1>5 DEF PageRecords
<1>7. OpenWindows' = OpenWindows \cup {w}
  BY <1>1, <1>6 DEF OpenWindows
<1>8. m \in FromPage /\ m.type = "media_create" /\ m.player = player /\ m.owner = Qualified(w)
  BY <1>2 DEF CreateMessage, FromPage
<1>9. Reports(OpenWindows \cup {w}) \in Seq(FromPage)
  BY ReportTyped DEF OpenWindows
<1>10. toHost' = Posted(Reports(OpenWindows \cup {w}) \o <<m>>)
       /\ UNCHANGED <<link, cancelled, outcome, toPage, hostVars, overtaken>>
       /\ races' = Between /\ link.engineID # 0 /\ remote.windows[w] = "new"
  BY DEF OpenWindow
<1> HIDE DEF m
<1>11. Reports(OpenWindows \cup {w}) \o <<m>> \in Seq(FromPage)
  BY <1>8, <1>9, Joined
<1>12. /\ Posts(Reports(OpenWindows \cup {w}) \o <<m>>)
       /\ ChannelsTyped' /\ ConnectionsTyped' /\ EngineTyped'
  BY <1>10, <1>11, PostsThen
<1>13. PageTyped'
  BY <1>3, <1>6, <1>10 DEF LinkTypeOK, PageTyped
<1>14. made = WithPlayer(w)
  BY DEF WithPlayer
<1> HIDE DEF made
<1> QED
  BY <1>5, <1>7, <1>8, <1>9, <1>10, <1>12, <1>13, <1>14 DEF LinkTypeOK, Arranged

LEMMA WindowClosed ==
    ASSUME LinkTypeOK, NEW w \in Windows, CloseWindow(w)
    PROVE  /\ LinkTypeOK' /\ UNCHANGED <<cancelled, outcome>>
           /\ races' = Between
           /\ \E posts :
                /\ posts \in Seq(FromPage)
                /\ \A i \in DOMAIN posts :
                     \/ posts[i].type = "media_release" /\ \E p \in remote.created :
                          p.owner = w /\ posts[i].player = p.player
                     \/ posts[i].type = "media_release_window" /\ posts[i].owner = Qualified(w)
                /\ \A p \in remote.created : p.owner = w =>
                     \E i \in DOMAIN posts : Releases(posts[i], p.player)
                /\ Reports(OpenWindows \ {w}) \in Seq(FromPage)
                /\ Posts(posts \o Reports(OpenWindows \ {w}))
           /\ OpenWindows' = OpenWindows \ {w}
           /\ \E made : /\ made = remote.created \ {p \in remote.created : p.owner = w}
                        /\ remote' = Arranged(w, "closed", made)
<1> DEFINE own == {p \in remote.created : p.owner = w}
           made == remote.created \ own
           f == [p \in own |-> [type |-> "media_release", player |-> p.player]]
           R == {[type |-> "media_release", player |-> p.player] : p \in own}
           m == [type |-> "media_release_window", owner |-> Qualified(w)]
           posts == SetToSeq(R) \o <<m>>
<1>1. remote \in PageRecords /\ link \in LinkRecords /\ IsFiniteSet(remote.created)
      /\ remote.windows \in [Windows -> {"new", "open", "closed"}]
      /\ remote.created \in SUBSET [player : Players, owner : Windows]
  BY DEF LinkTypeOK, PageTyped, PageRecords
<1>2. made \in SUBSET [player : Players, owner : Windows]
      /\ IsFiniteSet(made) /\ IsFiniteSet(own)
  <2> DEFINE S == remote.created
  <2>1. IsFiniteSet(S) /\ own \subseteq S /\ S \ own \subseteq S
    BY <1>1
  <2>2. IsFiniteSet(S \ own) /\ IsFiniteSet(own)
    <3> HIDE DEF S, own
    <3> QED
      BY <2>1, FS_Subset
  <2> QED
    BY <1>1, <2>2
<1>3. remote' = [remote EXCEPT !.windows[w] = "closed", !.created = made]
  BY <1>1 DEF CloseWindow, PageRecords
<1>4. remote' = [remote EXCEPT !.windows = [remote.windows EXCEPT ![w] = "closed"],
                               !.created = made]
  <2> HIDE DEF made
  <2> QED
    BY <1>1, <1>3 DEF PageRecords
<1>5. remote' \in PageRecords /\ remote'.created = made
      /\ remote'.windows = [remote.windows EXCEPT ![w] = "closed"]
  <2> HIDE DEF made
  <2> QED
    BY <1>1, <1>2, <1>4 DEF PageRecords
<1>6. OpenWindows' = OpenWindows \ {w}
  BY <1>1, <1>5 DEF OpenWindows
<1>7. /\ R \subseteq FromPage /\ m \in FromPage
      /\ \A x \in R : x.type = "media_release" /\ \E p \in own : x.player = p.player
      /\ \A p \in own : \E x \in R : Releases(x, p.player)
      /\ m.type = "media_release_window" /\ m.owner = Qualified(w)
  <2>1. /\ m \in FromPage /\ m.type = "media_release_window" /\ m.owner = Qualified(w)
    BY <1>1 DEF FromPage, Players, Owners, Qualified, PageRecords
  <2>2. ASSUME NEW p \in own
        PROVE  /\ [type |-> "media_release", player |-> p.player] \in FromPage \cap R
               /\ Releases([type |-> "media_release", player |-> p.player], p.player)
    BY <1>1 DEF FromPage, Releases
  <2>3. \A x \in R : x \in FromPage /\ x.type = "media_release" /\ \E p \in own : x.player = p.player
    BY <2>2
  <2> HIDE DEF R, m
  <2> QED
    BY <2>1, <2>2, <2>3
<1>8. f \in [own -> R] /\ R = {f[p] : p \in own}
  OBVIOUS
<1>9. SetToSeq(R) \in Seq(R) /\ \A x \in R : \E i \in DOMAIN SetToSeq(R) : SetToSeq(R)[i] = x
  <2>1. IsFiniteSet({f[p] : p \in own})
    <3>1. IsFiniteSet(own) /\ f \in [own -> R]
      BY <1>2, <1>8
    <3> HIDE DEF f, R, own
    <3> QED
      BY <3>1, Mapped
  <2> HIDE DEF f, R, own
  <2> QED
    BY <1>8, <2>1, Listed
<1>10. /\ SetToSeq(R) \in Seq(FromPage)
       /\ \A i \in DOMAIN SetToSeq(R) : /\ SetToSeq(R)[i].type = "media_release"
                                         /\ \E p \in own : SetToSeq(R)[i].player = p.player
  <2> HIDE DEF R
  <2> QED
    BY <1>7, <1>9, SomeMessages
<1>11. toHost' = Posted(posts \o Reports(OpenWindows \ {w}))
       /\ UNCHANGED <<link, cancelled, outcome, toPage, hostVars, overtaken>>
       /\ races' = Between
  BY DEF CloseWindow
<1> HIDE DEF R, m
<1>12. /\ posts \in Seq(FromPage)
       /\ \A i \in DOMAIN posts :
            \/ posts[i].type = "media_release" /\ \E p \in own : posts[i].player = p.player
            \/ posts[i].type = "media_release_window" /\ posts[i].owner = Qualified(w)
       /\ \A p \in own : \E i \in DOMAIN posts : Releases(posts[i], p.player)
  <2>1. <<m>> \in Seq(FromPage)
    BY <1>7
  <2>2. posts \in Seq(FromPage)
    BY <1>10, <2>1, Joined
  <2>3. ASSUME NEW i \in DOMAIN posts
        PROVE  \/ posts[i].type = "media_release" /\ \E p \in own : posts[i].player = p.player
               \/ posts[i].type = "media_release_window" /\ posts[i].owner = Qualified(w)
    <3>1. CASE i \in DOMAIN SetToSeq(R)
      BY <1>10, <2>1, <3>1, Joined
    <3>2. CASE i \notin DOMAIN SetToSeq(R)
      BY <1>10, <2>1, <3>2, Joined, <1>7
    <3> QED
      BY <3>1, <3>2
  <2>4. \A i \in DOMAIN SetToSeq(R) : i \in DOMAIN posts /\ posts[i] = SetToSeq(R)[i]
    BY <1>10, <2>1, Joined
  <2> QED
    BY <1>7, <1>9, <2>2, <2>3, <2>4
<1> HIDE DEF posts
<1>13. Reports(OpenWindows \ {w}) \in Seq(FromPage)
  BY ReportTyped DEF OpenWindows
<1>14. /\ Posts(posts \o Reports(OpenWindows \ {w}))
       /\ ChannelsTyped' /\ ConnectionsTyped' /\ EngineTyped'
  BY <1>11, <1>12, <1>13, Joined, PostsThen
<1>15. PageTyped'
  BY <1>2, <1>5, <1>11 DEF LinkTypeOK, PageTyped
<1>16. made = remote.created \ {p \in remote.created : p.owner = w}
  OBVIOUS
<1>17. \A p \in remote.created : p \in own <=> p.owner = w
  OBVIOUS
<1>18. own \subseteq remote.created
  OBVIOUS
<1> HIDE DEF made, own
<1> QED
  BY <1>4, <1>6, <1>11, <1>12, <1>13, <1>14, <1>15, <1>16, <1>17, <1>18 DEF LinkTypeOK,
     Arranged

LEMMA WindowChanged ==
    ASSUME LinkTypeOK, NEW w \in Windows, OpenWindow(w) \/ CloseWindow(w)
    PROVE  /\ LinkTypeOK' /\ UNCHANGED outcome
           /\ remote'.session_id = remote.session_id /\ remote'.previous = remote.previous
           /\ remote'.connected = remote.connected /\ remote'.engine_id = remote.engine_id
           /\ remote'.revision = remote.revision /\ remote'.values = remote.values
           /\ remote'.pending = remote.pending
<1>1. \E s, made : remote' = Arranged(w, s, made)
  <2>1. ASSUME OpenWindow(w)
        PROVE  remote' = Arranged(w, "open", WithPlayer(w))
    BY <2>1, WindowOpened
  <2>2. ASSUME CloseWindow(w)
        PROVE  \E made : remote' = Arranged(w, "closed", made)
    BY <2>2, WindowClosed
  <2> QED
    BY <2>1, <2>2
<1> QED
  BY <1>1, WindowOpened, WindowClosed DEF PageRecords, Arranged, LinkTypeOK, PageTyped

LEMMA Dialled ==
    ASSUME LinkTypeOK, Dial
    PROVE  LinkTypeOK' /\ \E c \in Connections : Dials(c)
<1>1. PICK c \in Connections : Dials(c)
  BY DEF Dial, Dials, Lives
<1>2. conn \in [Connections -> ConnectionRecords] /\ step = [d \in Connections |-> step[d]]
      /\ toHost \in [Connections -> Seq(FromPage)] /\ link \in LinkRecords
      /\ sessions \subseteq [id : SessionIds, connection : Connections]
      /\ players \subseteq [player : Players, owner : Owners]
      /\ overtaken \in [Connections -> SUBSET Fields]
  BY DEF LinkTypeOK, ConnectionsTyped, ChannelsTyped, PageTyped
<1>3. conn' \in [Connections -> ConnectionRecords]
  BY <1>1, <1>2 DEF Dials, ConnectionRecords
<1>4. [type |-> "hello"] \in FromPage
  BY DEF FromPage
<1>5. link' \in LinkRecords /\ link'.socket # 0
  <2>1. c \in 0 .. MaxConnections /\ c # 0
    BY LinkAssumption DEF Connections
  <2> QED
    BY <1>1, <1>2, <2>1 DEF Dials, LinkRecords
<1>6. PageTyped' /\ ChannelsTyped'
  BY <1>1, <1>5, <1>2, <1>4 DEF LinkTypeOK, PageTyped, ChannelsTyped, Dials
<1>7. \A d \in Connections : StepTyped(d)'
  BY <1>1, <1>2 DEF LinkTypeOK, ConnectionsTyped, Dials, StepTyped, ConnectionRecords
<1>8. ConnectionsTyped'
  BY <1>1, <1>2, <1>3, <1>7 DEF ConnectionsTyped, Dials
<1> QED
  BY <1>1, <1>6, <1>8 DEF LinkTypeOK, EngineTyped, Dials, engineVars

LEMMA ClosedThen ==
    ASSUME LinkTypeOK, Closed
    PROVE  /\ LinkTypeOK' /\ Drops /\ UNCHANGED cancelled /\ link.socket \in Connections
           /\ remote' = [remote EXCEPT
                 !.connected = FALSE, !.pending = {}, !.session_id = NoSession,
                 !.previous = IF remote.session_id = NoSession THEN remote.previous
                              ELSE remote.session_id]
           /\ \A r \in Requests : outcome'[r] = IF r \in remote.pending THEN "lost" ELSE outcome[r]
<1>1. link.socket # 0 /\ link \in LinkRecords /\ remote \in PageRecords
      /\ toPage \in [Connections -> Seq(FromHost)] /\ toHost \in [Connections -> Seq(FromPage)]
  BY DEF Closed, LinkTypeOK, PageTyped, ChannelsTyped
<1>2. link.socket \in Connections
  BY <1>1, LinkAssumption DEF LinkRecords, Connections
<1>3. link' \in LinkRecords /\ link'.socket = 0 /\ ~link'.ready
  <2>1. 0 \in 0 .. MaxConnections
    BY LinkAssumption
  <2> QED
    BY <1>1, <2>1 DEF LinkRecords, Closed
<1>4. remote' = [remote EXCEPT
                 !.connected = FALSE, !.pending = {}, !.session_id = NoSession,
                 !.previous = IF remote.session_id = NoSession THEN remote.previous
                              ELSE remote.session_id]
  BY <1>1 DEF Closed, PageRecords
<1>5. Drops
  BY <1>1, <1>2, <1>3 DEF Closed, Drops
<1>6. PageTyped' /\ ChannelsTyped'
  BY <1>1, <1>3, <1>5, <1>4 DEF LinkTypeOK, PageTyped, ChannelsTyped, Closed, Drops,
     PageRecords
<1> QED
  BY <1>2, <1>4, <1>5, <1>6, HostTyped DEF LinkTypeOK, Closed, Drops, histories

LEMMA Reloaded ==
    ASSUME LinkTypeOK, Reload
    PROVE  /\ LinkTypeOK' /\ Drops /\ remote' = NewRemote /\ link' = NewLink /\ cancelled' = {}
           /\ \A r \in Requests :
                outcome'[r] = IF outcome[r] = "waiting" THEN "reloaded" ELSE outcome[r]
<1>1. /\ toPage \in [Connections -> Seq(FromHost)] /\ toHost \in [Connections -> Seq(FromPage)]
      /\ link' = NewLink /\ remote' = NewRemote /\ cancelled' = {}
      /\ toPage' = [c \in Connections |-> IF c = link.socket THEN <<>> ELSE toPage[c]]
      /\ UNCHANGED <<toHost, hostVars, histories>>
  BY DEF Reload, LinkTypeOK, ChannelsTyped
<1>2. Drops
  BY <1>1 DEF Drops, NewLink
<1>3. NewLink \in LinkRecords /\ ~NewLink.ready
  BY LinkAssumption DEF NewLink, LinkRecords
<1>4. PageTyped' /\ ChannelsTyped'
  BY <1>1, <1>2, <1>3, FS_EmptySet, LinkAssumption DEF PageTyped, ChannelsTyped, Reload, Drops,
     Values, NewRemote, PageRecords
<1> QED
  BY <1>1, <1>2, <1>4, HostTyped DEF LinkTypeOK, Reload, Drops, histories

\* What the host does leaves the page alone.
LEMMA PageKept ==
    ASSUME LinkTypeOK, UNCHANGED pageVars
    PROVE  PageTyped' /\ UNCHANGED <<link, remote, cancelled, outcome>>
BY DEF LinkTypeOK, PageTyped, pageVars

\* A step of connection c.
LEMMA StepsTyped ==
    ASSUME LinkTypeOK, NEW c \in Connections,
           conn' \in [Connections -> ConnectionRecords],
           \A d \in Connections : d # c => conn'[d] = conn[d],
           NEW s, step' = [step EXCEPT ![c] = s], StepTyped(c)',
           sessions' \subseteq [id : SessionIds, connection : Connections],
           players' \subseteq [player : Players, owner : Owners],
           UNCHANGED overtaken
    PROVE  ConnectionsTyped'
<1>1. ASSUME NEW d \in Connections, d # c
      PROVE  StepTyped(d)'
  BY <1>1 DEF LinkTypeOK, ConnectionsTyped, StepTyped
<1> QED
  BY <1>1 DEF ConnectionsTyped, LinkTypeOK

\* What a thread does leaves the engine alone, except its queue.
LEMMA EngineKept ==
    ASSUME LinkTypeOK, UNCHANGED engineVars
    PROVE  EngineTyped'
BY DEF LinkTypeOK, EngineTyped, engineVars

LEMMA Welcomed ==
    ASSUME LinkTypeOK, NEW c \in Connections, Welcome(c)
    PROVE  /\ LinkTypeOK' /\ OneConnection(c)
           /\ conn'[c] = [conn[c] EXCEPT !.status = "open"]
           /\ [type |-> "welcome", engine |-> engine] \in FromHost
           /\ UNCHANGED <<step, engineVars, sessions, players>>
<1>1. HostTakes(c, "hello") /\ conn' = [conn EXCEPT ![c].status = "open"]
      /\ toPage' = Sent(c, [type |-> "welcome", engine |-> engine])
      /\ UNCHANGED <<pageVars, step, engineVars, sessions, players, histories>>
  BY DEF Welcome
<1>2. /\ conn \in [Connections -> ConnectionRecords] /\ step = [d \in Connections |-> step[d]]
      /\ sessions \subseteq [id : SessionIds, connection : Connections]
      /\ players \subseteq [player : Players, owner : Owners]
      /\ engine \in 1 .. MaxEngines
  BY DEF LinkTypeOK, ConnectionsTyped, EngineTyped
<1>3. conn' \in [Connections -> ConnectionRecords] /\ conn'[c] = [conn[c] EXCEPT !.status = "open"]
      /\ \A d \in Connections : d # c => conn'[d] = conn[d]
  BY <1>1, <1>2 DEF ConnectionRecords
<1>4. [type |-> "welcome", engine |-> engine] \in FromHost
  BY <1>2 DEF FromHost
<1>5. step' = [step EXCEPT ![c] = Listening] /\ StepTyped(c)'
  BY <1>1, <1>2, <1>3, Taking DEF ConnectionRecords, StepTyped
<1>6. ConnectionsTyped'
  BY <1>1, <1>2, <1>3, <1>5, StepsTyped DEF histories
<1> QED
  BY <1>1, <1>3, <1>4, <1>6, PageKept, EngineKept, Taking, Sending DEF LinkTypeOK,
     OneConnection, histories, ChannelsTyped

\* What a thread may do.
LEMMA ThreadTyped ==
    ASSUME LinkTypeOK, NEW c \in Connections,
           NEW k \in ConnectionRecords, conn' = [conn EXCEPT ![c] = k],
           NEW s, step' = [step EXCEPT ![c] = s],
           \/ s = Listening /\ k.status # "closing"
           \/ /\ k.status = "open"
              /\ \/ \E id \in SessionIds : s = <<"register", id>>
                 \/ s = <<"snapshot">>
                 \/ \E n \in 0 .. MaxChanges, v \in [Fields -> Values] : s = <<"state", n, v>>
           \/ s \in {<<"unregister">>, <<"release">>} /\ k.status = "closing",
           ChannelsTyped', EngineTyped',
           sessions' \subseteq [id : SessionIds, connection : Connections],
           players' \subseteq [player : Players, owner : Owners],
           UNCHANGED <<pageVars, histories>>
    PROVE  LinkTypeOK' /\ OneConnection(c) /\ conn'[c] = k /\ step'[c] = s
<1>1. conn' \in [Connections -> ConnectionRecords] /\ conn'[c] = k /\ step'[c] = s
      /\ \A d \in Connections : d # c => conn'[d] = conn[d] /\ step'[d] = step[d]
  BY DEF LinkTypeOK, ConnectionsTyped
<1>2. StepTyped(c)'
  BY <1>1 DEF StepTyped
<1> QED
  BY <1>1, <1>2, StepsTyped, PageKept DEF LinkTypeOK, OneConnection, histories

\* Where a thread is.
LEMMA ThreadAt ==
    ASSUME LinkTypeOK, NEW c \in Connections
    PROVE  /\ conn[c] \in ConnectionRecords /\ StepTyped(c)
           /\ conn \in [Connections -> ConnectionRecords]
           /\ step = [d \in Connections |-> step[d]]
           /\ sessions \subseteq [id : SessionIds, connection : Connections]
           /\ players \subseteq [player : Players, owner : Owners]
           /\ engine \in 1 .. MaxEngines /\ revision \in 0 .. MaxChanges
           /\ state \in [Fields -> Values]
           /\ [conn EXCEPT ![c] = conn[c]] = conn /\ [step EXCEPT ![c] = step[c]] = step
BY DEF LinkTypeOK, ConnectionsTyped, EngineTyped

LEMMA SessionsOpened ==
    ASSUME LinkTypeOK, NEW c \in Connections, OpenSession(c)
    PROVE  /\ LinkTypeOK' /\ OneConnection(c) /\ HostTakes(c, "open_session")
           /\ \E id \in SessionIds :
                /\ step'[c] = <<"register", id>>
                /\ \/ id = Asked(c).resume /\ id.engine = engine /\ ~Registered(id)
                   \/ id = [engine |-> engine, connection |-> c]
           /\ UNCHANGED <<toPage, conn, engineVars, sessions, players>>
<1> DEFINE id == IF Resumable(Asked(c).resume) THEN Asked(c).resume
                 ELSE [engine |-> engine, connection |-> c]
<1>1. HostTakes(c, "open_session") /\ step' = [step EXCEPT ![c] = <<"register", id>>]
      /\ UNCHANGED <<pageVars, toPage, conn, engineVars, sessions, players, histories>>
  BY DEF OpenSession, Goes
<1>2. Asked(c).resume \in SessionIds \cup {NoSession} /\ conn[c].status = "open"
  BY <1>1, Taking, PageMessages
<1>3. id \in SessionIds
  BY <1>2, Sessions, ThreadAt DEF Resumable
<1>4. ChannelsTyped' /\ EngineTyped'
  BY <1>1, Taking, EngineKept DEF ChannelsTyped, LinkTypeOK
<1>5. conn' = [conn EXCEPT ![c] = conn[c]]
  BY <1>1, ThreadAt
<1>6. \/ id = Asked(c).resume /\ id.engine = engine /\ ~Registered(id)
      \/ id = [engine |-> engine, connection |-> c]
  BY DEF Resumable
<1> HIDE DEF id
<1> QED
  BY <1>1, <1>3, <1>6, <1>2, <1>4, <1>5, ThreadAt, ThreadTyped

LEMMA SessionRegistered ==
    ASSUME LinkTypeOK, NEW c \in Connections, Register(c)
    PROVE  /\ LinkTypeOK' /\ OneConnection(c) /\ step'[c] = Listening
           /\ conn[c].status = "open"
           /\ \E id \in SessionIds :
                /\ step[c] = <<"register", id>>
                /\ sessions' = {s \in sessions : s.id # id} \cup {[id |-> id, connection |-> c]}
                /\ conn'[c] = [conn[c] EXCEPT !.session = id]
                /\ [type |-> "session_opened", session |-> id] \in FromHost
                /\ toPage' = Sent(c, [type |-> "session_opened", session |-> id])
           /\ UNCHANGED <<toHost, engineVars, players>>
<1>1. PICK id \in SessionIds : step[c] = <<"register", id>> /\ conn[c].status = "open"
  BY ThreadAt DEF Register, StepTyped, Listening
<1>2. /\ sessions' = {s \in sessions : s.id # id} \cup {[id |-> id, connection |-> c]}
      /\ conn' = [conn EXCEPT ![c].session = id]
      /\ toPage' = Sent(c, [type |-> "session_opened", session |-> id])
      /\ step' = [step EXCEPT ![c] = Listening]
      /\ UNCHANGED <<pageVars, toHost, engineVars, players, histories>>
  BY <1>1 DEF Register, Goes
<1>3. [conn[c] EXCEPT !.session = id] \in ConnectionRecords
      /\ [conn[c] EXCEPT !.session = id].status = "open"
      /\ conn' = [conn EXCEPT ![c] = [conn[c] EXCEPT !.session = id]]
  BY <1>1, <1>2, ThreadAt DEF ConnectionRecords
<1>4. [type |-> "session_opened", session |-> id] \in FromHost
  BY DEF FromHost
<1>5. ChannelsTyped' /\ EngineTyped'
  BY <1>2, <1>4, Sending, EngineKept DEF ChannelsTyped, LinkTypeOK
<1>6. sessions' \subseteq [id : SessionIds, connection : Connections]
  BY <1>2, ThreadAt
<1> DEFINE k == [conn[c] EXCEPT !.session = id]
<1>7. LinkTypeOK' /\ OneConnection(c) /\ step'[c] = Listening /\ conn'[c] = k
  <2>1. k \in ConnectionRecords /\ k.status # "closing" /\ conn' = [conn EXCEPT ![c] = k]
    BY <1>3
  <2>2. step' = [step EXCEPT ![c] = Listening] /\ UNCHANGED <<pageVars, histories>>
        /\ players' \subseteq [player : Players, owner : Owners]
    BY <1>2, ThreadAt
  <2> HIDE DEF k
  <2> QED
    BY <1>5, <1>6, <2>1, <2>2, ThreadTyped
<1> QED
  BY <1>1, <1>2, <1>4, <1>7

LEMMA Subscribed ==
    ASSUME LinkTypeOK, NEW c \in Connections, Subscribe(c)
    PROVE  /\ LinkTypeOK' /\ OneConnection(c) /\ HostTakes(c, "subscribe")
           /\ conn'[c] = [conn[c] EXCEPT !.subscribed = TRUE]
           /\ step'[c] = <<"snapshot">>
           /\ UNCHANGED <<toPage, engineVars, sessions, players>>
<1> DEFINE k == [conn[c] EXCEPT !.subscribed = TRUE]
<1>1. HostTakes(c, "subscribe") /\ conn' = [conn EXCEPT ![c].subscribed = TRUE]
      /\ step' = [step EXCEPT ![c] = <<"snapshot">>]
      /\ UNCHANGED <<pageVars, toPage, engineVars, sessions, players, histories>>
  BY DEF Subscribe, Goes
<1>2. k \in ConnectionRecords /\ k.status = "open" /\ conn' = [conn EXCEPT ![c] = k]
  <2>1. conn[c].status = "open"
    BY <1>1, Taking
  <2>2. conn' = [conn EXCEPT ![c] = k]
    BY <1>1, ThreadAt DEF ConnectionRecords
  <2> QED
    BY <2>2, <2>1, ThreadAt DEF ConnectionRecords
<1>3. ChannelsTyped' /\ EngineTyped'
  BY <1>1, Taking, EngineKept DEF ChannelsTyped, LinkTypeOK
<1>4. LinkTypeOK' /\ OneConnection(c) /\ conn'[c] = k /\ step'[c] = <<"snapshot">>
  <2> HIDE DEF k
  <2> QED
    BY <1>1, <1>2, <1>3, ThreadTyped, ThreadAt
<1> QED
  BY <1>1, <1>4

LEMMA Snapshotted ==
    ASSUME LinkTypeOK, NEW c \in Connections, Snapshot(c)
    PROVE  /\ LinkTypeOK' /\ OneConnection(c)
           /\ step[c] = <<"snapshot">> /\ conn[c].status = "open"
           /\ step'[c] = <<"state", revision, state>>
           /\ UNCHANGED <<channelVars, conn, engineVars, sessions, players>>
<1>1. step[c][1] = "snapshot" /\ step' = [step EXCEPT ![c] = <<"state", revision, state>>]
      /\ UNCHANGED <<pageVars, channelVars, conn, engineVars, sessions, players, histories>>
  BY DEF Snapshot, Goes
<1>2. step[c] = <<"snapshot">> /\ conn[c].status = "open"
  BY <1>1, ThreadAt DEF StepTyped, Listening
<1>3. ChannelsTyped' /\ EngineTyped'
  BY <1>1, EngineKept DEF ChannelsTyped, LinkTypeOK, channelVars
<1>4. LinkTypeOK' /\ OneConnection(c) /\ step'[c] = <<"state", revision, state>>
  BY <1>1, <1>2, <1>3, ThreadAt, ThreadTyped
<1> QED
  BY <1>1, <1>2, <1>4

LEMMA StateSent ==
    ASSUME LinkTypeOK, NEW c \in Connections, SendState(c)
    PROVE  /\ LinkTypeOK' /\ OneConnection(c) /\ conn[c].status = "open"
           /\ \E n \in 0 .. MaxChanges, v \in [Fields -> Values] :
                /\ step[c] = <<"state", n, v>>
                /\ [type |-> "state", revision |-> n, values |-> v] \in FromHost
                /\ toPage' = Sent(c, [type |-> "state", revision |-> n, values |-> v])
           /\ step'[c] = Listening
           /\ UNCHANGED <<toHost, conn, engineVars, sessions, players>>
<1>1. PICK n \in 0 .. MaxChanges, v \in [Fields -> Values] :
         step[c] = <<"state", n, v>> /\ conn[c].status = "open"
  BY ThreadAt DEF SendState, StepTyped, Listening
<1>2. /\ toPage' = Sent(c, [type |-> "state", revision |-> n, values |-> v])
      /\ step' = [step EXCEPT ![c] = Listening]
      /\ UNCHANGED <<pageVars, toHost, conn, engineVars, sessions, players, histories>>
  BY <1>1 DEF SendState, Goes
<1>3. [type |-> "state", revision |-> n, values |-> v] \in FromHost
  BY DEF FromHost
<1>4. ChannelsTyped' /\ EngineTyped'
  BY <1>2, <1>3, Sending, EngineKept DEF ChannelsTyped, LinkTypeOK
<1>5. LinkTypeOK' /\ OneConnection(c) /\ step'[c] = Listening
  BY <1>2, <1>4, ThreadAt, ThreadTyped, <1>1
<1> QED
  BY <1>1, <1>2, <1>3, <1>5

\* A request that is none of the handshake.
LEMMA RequestTyped ==
    ASSUME LinkTypeOK, NEW c \in Connections, NEW t, t # "hello", HostTakes(c, t),
           NEW k \in ConnectionRecords, k.status = conn[c].status, conn' = [conn EXCEPT ![c] = k],
           toPage' \in [Connections -> Seq(FromHost)], EngineTyped',
           players' \subseteq [player : Players, owner : Owners],
           UNCHANGED <<pageVars, step, sessions, histories>>
    PROVE  LinkTypeOK' /\ OneConnection(c) /\ conn'[c] = k
<1>1. ChannelsTyped' /\ step[c] = Listening /\ conn[c].status = "open"
  BY Taking DEF ChannelsTyped
<1> QED
  BY <1>1, ThreadTyped, ThreadAt

LEMMA Commanded ==
    ASSUME LinkTypeOK, NEW c \in Connections, Command(c)
    PROVE  /\ LinkTypeOK' /\ OneConnection(c) /\ HostTakes(c, "command")
           /\ Asked(c).request \in Requests /\ Asked(c).engine = engine
           /\ [request |-> Asked(c).request, connection |-> c] \in Jobs
           /\ jobs' = Append(jobs, [request |-> Asked(c).request, connection |-> c])
           /\ \E q \in SUBSET Queries : conn'[c] = [conn[c] EXCEPT !.queries = q]
           /\ UNCHANGED <<toPage, step, engine, revision, state, at, job, told, telling,
                          asked, ran, sessions, players>>
<1> DEFINE q == conn[c].queries \cup ({Asked(c).request} \cap Queries)
           k == [conn[c] EXCEPT !.queries = q]
<1>1. /\ HostTakes(c, "command") /\ Asked(c).engine = engine
      /\ jobs' = Append(jobs, [request |-> Asked(c).request, connection |-> c])
      /\ conn' = [conn EXCEPT ![c].queries = @ \cup ({Asked(c).request} \cap Queries)]
      /\ UNCHANGED <<pageVars, toPage, step, engine, revision, state, at, job, told,
                     telling, asked, ran, sessions, players, histories>>
  BY DEF Command
<1>2. Asked(c).request \in Requests
  BY <1>1, Taking, PageMessages
<1>3. q \in SUBSET Queries /\ conn' = [conn EXCEPT ![c] = k]
  BY <1>1, ThreadAt DEF ConnectionRecords
<1>4. k \in ConnectionRecords /\ k.status = conn[c].status
  BY <1>3, ThreadAt DEF ConnectionRecords
<1>5. [request |-> Asked(c).request, connection |-> c] \in Jobs
  BY <1>2 DEF Jobs
<1>6. EngineTyped'
  BY <1>1, <1>5 DEF LinkTypeOK, EngineTyped
<1>7. LinkTypeOK' /\ OneConnection(c) /\ conn'[c] = k
  <2> HIDE DEF k
  <2> QED
    BY <1>1, <1>3, <1>4, <1>6, RequestTyped, ThreadAt DEF LinkTypeOK, ChannelsTyped
<1> QED
  BY <1>1, <1>2, <1>3, <1>5, <1>7

LEMMA QueryCancelled ==
    ASSUME LinkTypeOK, NEW c \in Connections, Cancel(c)
    PROVE  /\ LinkTypeOK' /\ OneConnection(c) /\ HostTakes(c, "cancel")
           /\ \E q \in SUBSET Queries : conn'[c] = [conn[c] EXCEPT !.queries = q]
           /\ UNCHANGED <<toPage, step, engineVars, sessions, players>>
<1> DEFINE q == conn[c].queries \ {Asked(c).request}
           k == [conn[c] EXCEPT !.queries = q]
<1>1. /\ HostTakes(c, "cancel")
      /\ conn' = [conn EXCEPT ![c].queries = @ \ {Asked(c).request}]
      /\ UNCHANGED <<pageVars, toPage, step, engineVars, sessions, players, histories>>
  BY DEF Cancel
<1>2. q \in SUBSET Queries /\ conn' = [conn EXCEPT ![c] = k]
  BY <1>1, ThreadAt DEF ConnectionRecords
<1>3. k \in ConnectionRecords /\ k.status = conn[c].status
  BY <1>2, ThreadAt DEF ConnectionRecords
<1>4. LinkTypeOK' /\ OneConnection(c) /\ conn'[c] = k
  <2> HIDE DEF k
  <2> QED
    BY <1>1, <1>2, <1>3, RequestTyped, ThreadAt, EngineKept DEF LinkTypeOK, ChannelsTyped
<1> QED
  BY <1>1, <1>2, <1>4

LEMMA ReportTaken ==
    ASSUME LinkTypeOK, NEW c \in Connections, ReportWindows(c)
    PROVE  /\ LinkTypeOK' /\ OneConnection(c) /\ HostTakes(c, "session_windows")
           /\ Asked(c).windows \in SUBSET Windows
           /\ \E ws \in SUBSET Owners :
                conn'[c] = [conn[c] EXCEPT !.listed = Asked(c).windows, !.windows = ws]
           /\ UNCHANGED <<toPage, step, engineVars, sessions, players>>
<1> DEFINE now == Asked(c).windows
           ws == conn[c].windows \cup {[session |-> conn[c].session, window |-> w] : w \in now}
           k == [conn[c] EXCEPT !.listed = now, !.windows = ws]
<1>1. /\ HostTakes(c, "session_windows")
      /\ conn' = [conn EXCEPT ![c] = k]
      /\ UNCHANGED <<pageVars, toPage, step, engineVars, sessions, players, histories>>
  BY DEF ReportWindows
<1>2. now \in SUBSET Windows
  BY <1>1, Taking, PageMessages
<1>3. ws \in SUBSET Owners
  BY ThreadAt, <1>2 DEF ConnectionRecords, Owners, Players
<1>4. k \in ConnectionRecords /\ k.status = conn[c].status
  <2> HIDE DEF ws, now
  <2> QED
    BY <1>2, <1>3, ThreadAt DEF ConnectionRecords
<1>5. LinkTypeOK' /\ OneConnection(c) /\ conn'[c] = k
  <2> HIDE DEF k
  <2> QED
    BY <1>1, <1>4, RequestTyped, ThreadAt, EngineKept DEF LinkTypeOK, ChannelsTyped
<1> HIDE DEF ws
<1> QED
  BY <1>1, <1>2, <1>3, <1>5

\* What the connections ask of the hub.
LEMMA PlayerAsked ==
    ASSUME LinkTypeOK, NEW c \in Connections,
           CreatePlayer(c) \/ ReleasePlayer(c) \/ ReleaseWindow(c)
    PROVE  /\ LinkTypeOK' /\ OneConnection(c)
           /\ \E t \in {"media_create", "media_release", "media_release_window"} : HostTakes(c, t)
           /\ [type |-> "error"] \in FromHost
           /\ toPage' = toPage \/ toPage' = Sent(c, [type |-> "error"])
           /\ UNCHANGED <<conn, step, engineVars, sessions>>
<1>1. UNCHANGED <<pageVars, conn, step, engineVars, sessions, histories>>
  BY DEF CreatePlayer, ReleasePlayer, ReleaseWindow, connVars
<1>2. PICK t \in {"media_create", "media_release", "media_release_window"} : HostTakes(c, t)
  BY DEF CreatePlayer, ReleasePlayer, ReleaseWindow
<1>3. [type |-> "error"] \in FromHost
  BY DEF FromHost
<1>4. toPage' = toPage \/ toPage' = Sent(c, [type |-> "error"])
  BY DEF CreatePlayer, ReleasePlayer, ReleaseWindow
<1>5. toPage' \in [Connections -> Seq(FromHost)]
  BY <1>3, <1>4, Sending DEF LinkTypeOK, ChannelsTyped
<1>6. players' \subseteq [player : Players, owner : Owners]
  BY Taking, PageMessages, ThreadAt DEF CreatePlayer, ReleasePlayer, ReleaseWindow
<1>7. LinkTypeOK' /\ OneConnection(c)
  BY <1>1, <1>2, <1>5, <1>6, ThreadAt, RequestTyped, EngineKept
<1> QED
  BY <1>1, <1>2, <1>3, <1>4, <1>7

LEMMA HostLeft ==
    ASSUME LinkTypeOK, NEW c \in Connections, Leave(c)
    PROVE  /\ LinkTypeOK' /\ OneConnection(c)
           /\ conn[c].status \in {"new", "open"} /\ step[c] = Listening
           /\ conn'[c] = [conn[c] EXCEPT !.status = "closing", !.subscribed = FALSE,
                                         !.queries = {}]
           /\ step'[c] = <<"unregister">>
           /\ \A d \in Connections : toHost'[d] = IF d = c THEN <<>> ELSE toHost[d]
           /\ UNCHANGED <<toPage, engineVars, sessions, players>>
<1> DEFINE k == [conn[c] EXCEPT !.status = "closing", !.subscribed = FALSE, !.queries = {}]
<1>1. /\ conn[c].status \in {"new", "open"} /\ step[c] = Listening
      /\ conn' = [conn EXCEPT ![c] = k] /\ step' = [step EXCEPT ![c] = <<"unregister">>]
      /\ toHost' = [toHost EXCEPT ![c] = <<>>]
      /\ UNCHANGED <<pageVars, toPage, engineVars, sessions, players, histories>>
  BY DEF Leave, Goes
<1>2. k \in ConnectionRecords /\ k.status = "closing"
  BY ThreadAt DEF ConnectionRecords
<1>3. ChannelsTyped' /\ EngineTyped'
      /\ \A d \in Connections : toHost'[d] = IF d = c THEN <<>> ELSE toHost[d]
  BY <1>1, EngineKept DEF ChannelsTyped, LinkTypeOK
<1>4. LinkTypeOK' /\ OneConnection(c) /\ conn'[c] = k /\ step'[c] = <<"unregister">>
  <2> HIDE DEF k
  <2> QED
    BY <1>1, <1>2, <1>3, ThreadTyped, ThreadAt
<1> QED
  BY <1>1, <1>3, <1>4

LEMMA Unregistered ==
    ASSUME LinkTypeOK, NEW c \in Connections, Unregister(c)
    PROVE  /\ LinkTypeOK' /\ OneConnection(c)
           /\ step[c] = <<"unregister">> /\ conn[c].status = "closing"
           /\ step'[c] = <<"release">>
           /\ sessions' = {s \in sessions : s.id # conn[c].session}
           /\ UNCHANGED <<channelVars, conn, engineVars, players>>
<1>1. /\ step[c][1] = "unregister" /\ step' = [step EXCEPT ![c] = <<"release">>]
      /\ sessions' = {s \in sessions : s.id # conn[c].session}
      /\ UNCHANGED <<pageVars, channelVars, conn, engineVars, players, histories>>
  BY DEF Unregister, Goes
<1>2. step[c] = <<"unregister">> /\ conn[c].status = "closing"
  BY <1>1, ThreadAt DEF StepTyped, Listening
<1>3. ChannelsTyped' /\ EngineTyped'
  BY <1>1, EngineKept DEF ChannelsTyped, LinkTypeOK, channelVars
<1>4. LinkTypeOK' /\ OneConnection(c) /\ step'[c] = <<"release">>
  BY <1>1, <1>2, <1>3, ThreadAt, ThreadTyped
<1> QED
  BY <1>1, <1>2, <1>4

LEMMA ReportedReleased ==
    ASSUME LinkTypeOK, NEW c \in Connections, ReleaseReported(c)
    PROVE  /\ LinkTypeOK' /\ OneConnection(c)
           /\ step[c] = <<"release">> /\ conn[c].status = "closing"
           /\ \E ws : conn'[c] = [conn[c] EXCEPT !.windows = ws]
           /\ UNCHANGED <<channelVars, step, engineVars, sessions>>
<1>1. PICK w \in conn[c].windows :
         /\ players' = {p \in players : p.owner # w}
         /\ conn' = [conn EXCEPT ![c].windows = @ \ {w}]
  BY DEF ReleaseReported
<1>2. step[c][1] = "release"
      /\ UNCHANGED <<pageVars, channelVars, step, engineVars, sessions, histories>>
  BY DEF ReleaseReported
<1> DEFINE ws == conn[c].windows \ {w}
           k == [conn[c] EXCEPT !.windows = ws]
<1>3. step[c] = <<"release">> /\ conn[c].status = "closing"
  BY <1>2, ThreadAt DEF StepTyped, Listening
<1>4. ws \in SUBSET Owners /\ conn' = [conn EXCEPT ![c] = k]
  BY <1>1, ThreadAt DEF ConnectionRecords
<1>5. k \in ConnectionRecords /\ k.status = "closing"
  <2> HIDE DEF ws
  <2> QED
    BY <1>3, <1>4, ThreadAt DEF ConnectionRecords
<1>6. ChannelsTyped' /\ EngineTyped'
  BY <1>2, EngineKept DEF ChannelsTyped, LinkTypeOK, channelVars
<1>7. LinkTypeOK' /\ OneConnection(c) /\ conn'[c] = k
  <2> HIDE DEF k
  <2> QED
    BY <1>2, <1>4, <1>5, <1>6, ThreadTyped, <1>1, <1>3, ThreadAt
<1> QED
  BY <1>2, <1>3, <1>7

LEMMA ConnectionGone ==
    ASSUME LinkTypeOK, NEW c \in Connections, Gone(c)
    PROVE  /\ LinkTypeOK' /\ OneConnection(c)
           /\ step[c] = <<"release">> /\ conn[c].status = "closing"
           /\ conn'[c] = [conn[c] EXCEPT !.status = "gone"] /\ step'[c] = Listening
           /\ UNCHANGED <<channelVars, engineVars, sessions, players>>
<1> DEFINE k == [conn[c] EXCEPT !.status = "gone"]
<1>1. /\ step[c][1] = "release" /\ step' = [step EXCEPT ![c] = Listening]
      /\ conn' = [conn EXCEPT ![c].status = "gone"]
      /\ UNCHANGED <<pageVars, channelVars, engineVars, sessions, players, histories>>
  BY DEF Gone, Goes
<1>2. k \in ConnectionRecords /\ k.status # "closing"
  BY ThreadAt DEF ConnectionRecords
<1>3. conn' = [conn EXCEPT ![c] = k]
  BY <1>1, ThreadAt
<1>4. ChannelsTyped' /\ EngineTyped'
  BY <1>1, EngineKept DEF ChannelsTyped, LinkTypeOK, channelVars
<1>5. LinkTypeOK' /\ OneConnection(c) /\ conn'[c] = k /\ step'[c] = Listening
  <2> HIDE DEF k
  <2> QED
    BY <1>1, <1>2, <1>3, <1>4, ThreadTyped, ThreadAt
<1> QED
  BY <1>1, <1>5, ThreadAt DEF StepTyped, Listening

\* The engine thread.
LEMMA EngineStepTyped ==
    ASSUME LinkTypeOK, UNCHANGED <<pageVars, toHost, step, sessions, players>>,
           conn' \in [Connections -> ConnectionRecords],
           \A c \in Connections : conn'[c].status = conn[c].status,
           toPage' \in [Connections -> Seq(FromHost)],
           overtaken' \in [Connections -> SUBSET Fields], EngineTyped'
    PROVE  LinkTypeOK'
<1>1. ASSUME NEW c \in Connections
      PROVE  StepTyped(c)'
  BY DEF LinkTypeOK, ConnectionsTyped, StepTyped
<1>2. ChannelsTyped'
  BY DEF LinkTypeOK, ChannelsTyped
<1> QED
  BY <1>2, PageKept, <1>1 DEF LinkTypeOK, ConnectionsTyped

LEMMA EngineAloneTyped ==
    ASSUME LinkTypeOK, EngineAlone, UNCHANGED <<toPage, conn, overtaken>>, EngineTyped'
    PROVE  LinkTypeOK'
BY EngineStepTyped DEF LinkTypeOK, EngineAlone, ConnectionsTyped, ChannelsTyped

LEMMA PublicationTyped ==
    ASSUME LinkTypeOK, NEW changed \in Changes, at = "idle", Publish(changed)
    PROVE  /\ Publishes(changed) /\ changed \subseteq Fields
           /\ revision' \in 0 .. MaxChanges /\ state' \in [Fields -> Values]
           /\ at' = "copy" /\ told' \subseteq Fields
<1>1. revision \in 0 .. MaxChanges /\ state \in [Fields -> Values] /\ engine \in 1 .. MaxEngines
  BY DEF LinkTypeOK, EngineTyped
<1>2. Publishes(changed) /\ revision < MaxChanges /\ changed \subseteq Fields
  BY LinkAssumption DEF Publish, Publishes
<1>3. state' \in [Fields -> Values]
  BY <1>1, <1>2, LinkAssumption DEF Publishes, Values
<1> QED
  BY <1>2, <1>3, <1>1, LinkAssumption DEF Publishes

LEMMA Woken ==
    ASSUME LinkTypeOK, NEW changed \in Changes, Wake(changed)
    PROVE  /\ LinkTypeOK' /\ EngineAlone /\ Publishes(changed)
           /\ changed \subseteq Fields /\ job' = Background
           /\ UNCHANGED <<toPage, conn, overtaken, jobs, telling, asked, ran>>
<1>1. /\ at = "idle" /\ Publish(changed) /\ job' = Background
      /\ UNCHANGED <<pageVars, channelVars, connVars, engine, jobs, telling, asked, ran,
                     sessions, players, histories>>
  BY DEF Wake
<1> QED
  BY <1>1, EngineAloneTyped, PublicationTyped DEF EngineAlone, channelVars, connVars,
     histories, LinkTypeOK, EngineTyped

\* What the engine takes from its queue.
LEMMA JobTaken ==
    ASSUME LinkTypeOK, jobs # <<>>
    PROVE  /\ Head(jobs) \in Jobs /\ Tail(jobs) \in Seq(Jobs) /\ jobs \in Seq(Jobs)
           /\ Head(jobs).request \in Requests /\ Head(jobs).connection \in Connections
           /\ Head(jobs) # Background
<1>1. Head(jobs) \in Jobs /\ Tail(jobs) \in Seq(Jobs) /\ jobs \in Seq(Jobs)
  BY TakenFirst DEF LinkTypeOK, EngineTyped
<1> QED
  BY <1>1 DEF Jobs, Background, Connections

LEMMA CommandRun ==
    ASSUME LinkTypeOK, RunCommand
    PROVE  /\ LinkTypeOK' /\ EngineAlone /\ jobs # <<>> /\ at = "idle"
           /\ Head(jobs).request \in Commands /\ job' = Head(jobs) /\ jobs' = Tail(jobs)
           /\ ran' = [ran EXCEPT ![Head(jobs).request] = @ + 1]
           /\ \/ \E changed \in Changes : Publishes(changed) /\ changed \subseteq Fields
              \/ at' = "reply" /\ UNCHANGED <<revision, state, told>>
           /\ UNCHANGED <<toPage, conn, overtaken, telling, asked>>
<1>1. /\ at = "idle" /\ jobs # <<>> /\ Head(jobs).request \in Commands
      /\ job' = Head(jobs) /\ jobs' = Tail(jobs)
      /\ ran' = [ran EXCEPT ![Head(jobs).request] = @ + 1]
      /\ UNCHANGED <<pageVars, channelVars, connVars, engine, telling, asked,
                     sessions, players, histories>>
      /\ \/ \E changed \in Changes : Publish(changed)
         \/ at' = "reply" /\ UNCHANGED <<revision, state, told>>
  BY DEF RunCommand
<1>2. /\ revision' \in 0 .. MaxChanges /\ state' \in [Fields -> Values]
      /\ at' \in {"copy", "reply"} /\ told' \subseteq Fields
      /\ \/ \E changed \in Changes : Publishes(changed) /\ changed \subseteq Fields
         \/ at' = "reply" /\ UNCHANGED <<revision, state, told>>
  BY <1>1, PublicationTyped DEF LinkTypeOK, EngineTyped
<1>3. ran' \in [Commands -> Nat]
  BY <1>1 DEF LinkTypeOK, EngineTyped
<1>4. EngineTyped'
  BY <1>1, <1>2, <1>3, JobTaken DEF LinkTypeOK, EngineTyped, Jobs
<1> QED
  BY <1>1, <1>2, <1>4, EngineAloneTyped DEF EngineAlone, channelVars, connVars, histories

LEMMA QueryRun ==
    ASSUME LinkTypeOK, RunQuery
    PROVE  /\ LinkTypeOK' /\ EngineAlone /\ jobs # <<>>
           /\ Head(jobs).request \in Queries /\ jobs' = Tail(jobs)
           /\ UNCHANGED <<toPage, conn, overtaken, revision, state, at, job, told, telling, ran>>
<1>1. /\ jobs # <<>> /\ Head(jobs).request \in Queries
      /\ asked' = asked \cup {Head(jobs)} /\ jobs' = Tail(jobs)
      /\ UNCHANGED <<pageVars, channelVars, connVars, engine, revision, state, at, job,
                     told, telling, ran, sessions, players, histories>>
  BY DEF RunQuery
<1>2. EngineTyped'
  BY <1>1, JobTaken DEF LinkTypeOK, EngineTyped, Jobs
<1> QED
  BY <1>1, <1>2, EngineAloneTyped DEF EngineAlone, channelVars, connVars, histories

\* What the engine says of job j.
LEMMA Answering ==
    ASSUME LinkTypeOK, NEW j, j.request \in Requests
    PROVE  Result(j) \in FromHost /\ Result(j).type = "result"
           /\ Result(j).request = j.request /\ Result(j).revision = revision
BY DEF Result, FromHost, LinkTypeOK, EngineTyped

LEMMA QueryAnswered ==
    ASSUME LinkTypeOK, NEW j \in asked, AnswerQuery(j)
    PROVE  /\ LinkTypeOK' /\ EngineAlone
           /\ j.connection \in Connections /\ j.request \in Queries
           /\ Result(j) \in FromHost /\ toPage' = Sent(j.connection, Result(j))
           /\ \E q \in SUBSET Queries : conn' = [conn EXCEPT ![j.connection] =
                                                  [conn[j.connection] EXCEPT !.queries = q]]
           /\ \A c \in Connections : \E q \in SUBSET Queries :
                conn'[c] = [conn[c] EXCEPT !.queries = q]
           /\ UNCHANGED <<overtaken, revision, state, jobs, at, job, told, telling, ran>>
<1> DEFINE d == j.connection
           q == conn[d].queries \ {j.request}
<1>1. d \in Connections /\ j.request \in Queries /\ j.request \in Requests
  BY DEF LinkTypeOK, EngineTyped, Requests
<1>2. /\ asked' = asked \ {j}
      /\ conn' = [conn EXCEPT ![d].queries = @ \ {j.request}]
      /\ toPage' = Sent(d, Result(j))
      /\ UNCHANGED <<pageVars, toHost, step, engine, revision, state, jobs, at, job, told,
                     telling, ran, sessions, players, histories>>
  BY DEF AnswerQuery
<1>3. conn \in [Connections -> ConnectionRecords]
  BY DEF LinkTypeOK, ConnectionsTyped
<1>4. q \in SUBSET Queries /\ conn' = [conn EXCEPT ![d] = [conn[d] EXCEPT !.queries = q]]
  BY <1>1, <1>2, <1>3 DEF ConnectionRecords
<1>5. conn' \in [Connections -> ConnectionRecords]
      /\ \A c \in Connections : conn'[c].status = conn[c].status
  <2> HIDE DEF q, d
  <2> QED
    BY <1>1, <1>3, <1>4 DEF ConnectionRecords
<1>6. \A c \in Connections : \E p \in SUBSET Queries : conn'[c] = [conn[c] EXCEPT !.queries = p]
  <2>1. ASSUME NEW c \in Connections
        PROVE  \E p \in SUBSET Queries : conn'[c] = [conn[c] EXCEPT !.queries = p]
    <3>1. CASE c = d
      <4> HIDE DEF q, d
      <4> QED
        BY <1>3, <1>4, <3>1
    <3>2. CASE c # d
      <4>1. conn'[c] = conn[c]
        <5> HIDE DEF q, d
        <5> QED
          BY <1>3, <1>4, <3>2
      <4> QED
        BY <4>1, <1>3 DEF ConnectionRecords
    <3> QED
      BY <3>1, <3>2
  <2> QED
    BY <2>1
<1>7. Result(j) \in FromHost /\ toPage' \in [Connections -> Seq(FromHost)]
  BY <1>1, <1>2, Answering, Sending
<1>8. LinkTypeOK'
  BY <1>2, <1>5, <1>7, EngineStepTyped DEF LinkTypeOK, EngineTyped, ConnectionsTyped, histories
<1> QED
  BY <1>1, <1>2, <1>4, <1>6, <1>7, <1>8 DEF EngineAlone, histories

LEMMA ListenersCopied ==
    ASSUME LinkTypeOK, CopyListeners
    PROVE  /\ LinkTypeOK' /\ EngineAlone /\ at = "copy" /\ at' = "tell"
           /\ telling' = {c \in Connections : conn[c].subscribed}
           /\ UNCHANGED <<toPage, conn, overtaken, revision, state, jobs, job, told, asked, ran>>
<1>1. /\ at = "copy" /\ telling' = {c \in Connections : conn[c].subscribed} /\ at' = "tell"
      /\ UNCHANGED <<pageVars, channelVars, connVars, engine, revision, state, jobs, job,
                     told, asked, ran, sessions, players, histories>>
  BY DEF CopyListeners
<1>2. EngineTyped'
  BY <1>1 DEF LinkTypeOK, EngineTyped
<1> QED
  BY <1>1, <1>2, EngineAloneTyped DEF EngineAlone, channelVars, connVars, histories

LEMMA ListenerTold ==
    ASSUME LinkTypeOK, NEW c \in Connections, Tell(c)
    PROVE  /\ LinkTypeOK' /\ EngineAlone /\ at = "tell" /\ c \in telling
           /\ telling' = telling \ {c}
           /\ Tidings \in FromHost /\ toPage' = Sent(c, Tidings)
           /\ \A d \in Connections :
                overtaken'[d] = IF d # c THEN overtaken[d]
                                ELSE IF step[c][1] = "state" THEN overtaken[c] \cup told
                                ELSE overtaken[c] \ told
           /\ UNCHANGED <<conn, revision, state, jobs, at, job, told, asked, ran>>
<1>1. /\ at = "tell" /\ c \in telling /\ telling' = telling \ {c}
      /\ toPage' = Sent(c, Tidings)
      /\ overtaken' = [overtaken EXCEPT
                        ![c] = IF step[c][1] = "state" THEN @ \cup told ELSE @ \ told]
      /\ UNCHANGED <<pageVars, toHost, connVars, engine, revision, state, jobs, at, job,
                     told, asked, ran, sessions, players, races>>
  BY DEF Tell, Tidings
<1>2. /\ told \subseteq Fields /\ revision \in 0 .. MaxChanges /\ state \in [Fields -> Values]
      /\ overtaken \in [Connections -> SUBSET Fields]
      /\ conn \in [Connections -> ConnectionRecords]
  BY DEF LinkTypeOK, EngineTyped, ConnectionsTyped
<1>3. Tidings \in FromHost
  <2> DEFINE U(F) == [type : {"update"}, revision : 0 .. MaxChanges, fields : {F},
                      values : [F -> Values]]
  <2>1. Tidings \in U(told)
    BY <1>2 DEF Tidings
  <2>2. Tidings \in UNION {U(F) : F \in SUBSET Fields}
    <3> HIDE DEF U
    <3> QED
      BY <2>1, <1>2
  <2> QED
    BY <2>2 DEF FromHost, Updates
<1>4. overtaken' \in [Connections -> SUBSET Fields]
      /\ \A d \in Connections :
                overtaken'[d] = IF d # c THEN overtaken[d]
                                ELSE IF step[c][1] = "state" THEN overtaken[c] \cup told
                                ELSE overtaken[c] \ told
  BY <1>1, <1>2
<1>5. EngineTyped' /\ conn' = conn
  BY <1>1 DEF LinkTypeOK, EngineTyped, connVars
<1>6. LinkTypeOK'
  BY <1>1, <1>2, <1>4, <1>5, EngineStepTyped, <1>3, Sending DEF connVars
<1> QED
  BY <1>1, <1>3, <1>4, <1>6 DEF EngineAlone, connVars

LEMMA AllTold ==
    ASSUME LinkTypeOK, Told
    PROVE  /\ LinkTypeOK' /\ EngineAlone /\ at = "tell" /\ telling = {}
           /\ at' = IF job = Background THEN "idle" ELSE "reply"
           /\ told' = {}
           /\ UNCHANGED <<toPage, conn, overtaken, revision, state, jobs, job, telling,
                          asked, ran>>
<1>1. /\ at = "tell" /\ telling = {}
      /\ at' = IF job = Background THEN "idle" ELSE "reply"
      /\ told' = {}
      /\ UNCHANGED <<pageVars, channelVars, connVars, engine, revision, state, jobs, job,
                     telling, asked, ran, sessions, players, histories>>
  BY DEF Told
<1>2. EngineTyped'
  BY <1>1 DEF LinkTypeOK, EngineTyped
<1> QED
  BY <1>1, <1>2, EngineAloneTyped DEF EngineAlone, channelVars, connVars, histories

LEMMA Replied ==
    ASSUME LinkTypeOK, Reply
    PROVE  /\ LinkTypeOK' /\ EngineAlone /\ at = "reply" /\ at' = "idle" /\ job' = Background
           /\ job # Background /\ job.connection \in Connections /\ job.request \in Commands
           /\ Result(job) \in FromHost /\ toPage' = Sent(job.connection, Result(job))
           /\ UNCHANGED <<conn, overtaken, revision, state, jobs, told, telling, asked, ran>>
<1>1. /\ at = "reply" /\ at' = "idle" /\ job' = Background
      /\ toPage' = Sent(job.connection, Result(job))
      /\ UNCHANGED <<pageVars, toHost, connVars, engine, revision, state, jobs, told,
                     telling, asked, ran, sessions, players, histories>>
  BY DEF Reply
<1>2. job # Background /\ job \in [request : Commands, connection : Connections]
  BY <1>1 DEF LinkTypeOK, EngineTyped
<1>3. Result(job) \in FromHost /\ toPage' \in [Connections -> Seq(FromHost)]
  BY <1>1, <1>2, Answering, Sending DEF Requests
<1>4. EngineTyped'
  BY <1>1 DEF LinkTypeOK, EngineTyped
<1>5. LinkTypeOK'
  BY <1>1, <1>3, <1>4, EngineStepTyped DEF connVars, histories, LinkTypeOK, ConnectionsTyped
<1> QED
  BY <1>1, <1>2, <1>3, <1>5 DEF EngineAlone, connVars, histories

LEMMA Restarted ==
    ASSUME LinkTypeOK, Restart
    PROVE  /\ LinkTypeOK' /\ UNCHANGED <<pageVars, toPage, ran, histories>>
           /\ engine' = engine + 1 /\ revision' = 0
           /\ state' = [f \in Fields |-> [engine |-> engine + 1, revision |-> 0]]
           /\ jobs' = <<>> /\ at' = "idle" /\ job' = Background
           /\ told' = {} /\ telling' = {} /\ asked' = {} /\ sessions' = {} /\ players' = {}
           /\ \A c \in Connections :
                /\ conn'[c] = IF conn[c].status = "none" THEN conn[c]
                              ELSE [NewConnection EXCEPT !.status = "gone"]
                /\ step'[c] = Listening
                /\ toHost'[c] = <<>>
<1>1. /\ engine < MaxEngines /\ engine' = engine + 1 /\ revision' = 0
      /\ state' = [f \in Fields |-> [engine |-> engine + 1, revision |-> 0]]
      /\ jobs' = <<>> /\ at' = "idle" /\ job' = Background
      /\ told' = {} /\ telling' = {} /\ asked' = {} /\ sessions' = {} /\ players' = {}
      /\ conn' = [c \in Connections |-> IF conn[c].status = "none" THEN conn[c]
                                        ELSE [NewConnection EXCEPT !.status = "gone"]]
      /\ step' = [c \in Connections |-> Listening]
      /\ toHost' = [c \in Connections |-> <<>>]
      /\ UNCHANGED <<pageVars, toPage, ran, histories>>
  BY DEF Restart
<1>2. conn \in [Connections -> ConnectionRecords] /\ engine \in 1 .. MaxEngines
      /\ toPage \in [Connections -> Seq(FromHost)]
      /\ overtaken \in [Connections -> SUBSET Fields] /\ ran \in [Commands -> Nat]
  BY DEF LinkTypeOK, ConnectionsTyped, EngineTyped, ChannelsTyped
<1>3. [NewConnection EXCEPT !.status = "gone"] \in ConnectionRecords
  BY DEF NewConnection, ConnectionRecords
<1>4. ConnectionsTyped'
  BY <1>1, <1>2, <1>3 DEF ConnectionsTyped, StepTyped, histories, NewConnection,
     ConnectionRecords, LinkTypeOK
<1>5. engine' \in 1 .. MaxEngines /\ revision' \in 0 .. MaxChanges
  BY <1>1, <1>2, LinkAssumption
<1>6. EngineTyped'
  BY <1>1, <1>2, <1>5, LinkAssumption DEF EngineTyped, Values
<1>7. ChannelsTyped'
  BY <1>1, <1>2 DEF ChannelsTyped
<1> QED
  BY <1>1, <1>4, <1>6, <1>7, PageKept DEF LinkTypeOK

\* Every action keeps the types.
LEMMA LinkTyped ==
    ASSUME LinkTypeOK, [Next]_vars
    PROVE  LinkTypeOK'
<1>1. CASE Dial \/ Closed \/ PageTakes \/ Reload
  BY <1>1, Dialled, ClosedThen, Reloaded, WelcomeTaken, SessionTaken, StateTaken, UpdateTaken,
     ResultTaken, ErrorTaken DEF PageTakes
<1>2. CASE \/ \E r \in Requests : Dispatch(r)
           \/ \E q \in Queries : Supersede(q)
           \/ \E w \in Windows : OpenWindow(w) \/ CloseWindow(w)
  BY <1>2, Dispatched, Superseded, WindowOpened, WindowClosed
<1>3. ASSUME NEW c \in Connections, HostStep(c) \/ Leave(c)
      PROVE  LinkTypeOK'
  BY <1>3, Welcomed, SessionsOpened, SessionRegistered, Subscribed, Snapshotted, StateSent,
     Commanded, QueryCancelled, ReportTaken, PlayerAsked, HostLeft, Unregistered,
     ReportedReleased, ConnectionGone DEF HostStep
<1>4. CASE \/ \E changed \in Changes : Wake(changed)
           \/ \E j \in asked : AnswerQuery(j)
  BY <1>4, Woken, QueryAnswered
<1>5. CASE Engine
  BY <1>5, CommandRun, QueryRun, ListenersCopied, ListenerTold, AllTold, Replied DEF Engine
<1>6. CASE Restart
  BY <1>6, Restarted
<1>7. CASE UNCHANGED vars
  BY <1>7, PageKept, HostTyped DEF vars, histories, LinkTypeOK, ChannelsTyped, channelVars
<1> QED
  BY <1>1, <1>2, <1>3, <1>4, <1>5, <1>6, <1>7 DEF Next, Page, Host

LEMMA LinkTypedFirst == Init => LinkTypeOK
<1> SUFFICES ASSUME Init PROVE LinkTypeOK
  OBVIOUS
<1>1. NewLink \in LinkRecords /\ ~NewLink.ready
  BY LinkAssumption DEF NewLink, LinkRecords
<1>2. PageTyped
  BY <1>1, FS_EmptySet, LinkAssumption DEF Init, PageTyped, Values, NewRemote, PageRecords
<1>3. ChannelsTyped
  BY DEF Init, ChannelsTyped
<1>4. ConnectionsTyped
  BY DEF Init, ConnectionsTyped, StepTyped, NewConnection, ConnectionRecords
<1>5. EngineTyped
  BY LinkAssumption DEF Init, EngineTyped, Values
<1> QED
  BY <1>2, <1>3, <1>4, <1>5 DEF LinkTypeOK

\* Page, channels, connections and engine hold what they may hold (the types
\* of bern-ffi/src/remote.rs and bern-transport-ws/src/channel.rs).
THEOREM LinkTypes == Spec => []LinkTypeOK
BY LinkTypedFirst, LinkTyped, PTL DEF Spec

-----------------------------------------------------------------------------
(* What the steps leave of the channels.                                    *)

LEMMA SameMoves ==
    ASSUME LinkTypeOK, NEW T
    PROVE  /\ \A c \in Connections : Kept(toHost[c], toHost[c], T) /\ Kept(toPage[c], toPage[c], T)
           /\ \A c \in Connections : toHost[c] \in Seq(FromPage) /\ toPage[c] \in Seq(FromHost)
BY Moves DEF LinkTypeOK, ChannelsTyped

\* The page posts messages of other types.
LEMMA PostedMoves ==
    ASSUME LinkTypeOK, NEW T, NEW posts \in Seq(FromPage),
           \A i \in DOMAIN posts : posts[i].type \notin T,
           \A c \in Connections : toHost'[c] = toHost[c] \/ toHost'[c] = toHost[c] \o posts
    PROVE  \A c \in Connections : Kept(toHost[c], toHost'[c], T)
<1> SUFFICES ASSUME NEW c \in Connections
             PROVE  Kept(toHost[c], toHost'[c], T)
  OBVIOUS
<1>1. toHost[c] \in Seq(FromPage) /\ Kept(toHost[c], toHost[c], T)
  BY SameMoves
<1> QED
  BY <1>1, Moves

\* The page takes a message.
LEMMA ConsumedMoves ==
    ASSUME LinkTypeOK, NEW T, NEW t, NEW posts, Consumed(t, posts)
    PROVE  \A c \in Connections : /\ Moved(toPage[c], toPage'[c], T)
                                  /\ t \notin T => Kept(toPage[c], toPage'[c], T)
<1> SUFFICES ASSUME NEW c \in Connections
             PROVE  /\ Moved(toPage[c], toPage'[c], T)
                    /\ t \notin T => Kept(toPage[c], toPage'[c], T)
  OBVIOUS
<1>1. toPage[c] \in Seq(FromHost) /\ Kept(toPage[c], toPage[c], T)
  BY SameMoves
<1>2. CASE c # link.socket
  BY <1>1, <1>2 DEF Consumed, Kept
<1>3. CASE c = link.socket
  BY <1>3, <1>1, Moves DEF Consumed, Message
<1> QED
  BY <1>2, <1>3

\* A connection takes a message.
LEMMA TakenMoves ==
    ASSUME LinkTypeOK, NEW T, NEW c \in Connections, NEW t, HostTakes(c, t)
    PROVE  \A d \in Connections : /\ Moved(toHost[d], toHost'[d], T)
                                  /\ t \notin T => Kept(toHost[d], toHost'[d], T)
<1> SUFFICES ASSUME NEW d \in Connections
             PROVE  /\ Moved(toHost[d], toHost'[d], T)
                    /\ t \notin T => Kept(toHost[d], toHost'[d], T)
  OBVIOUS
<1>1. toHost[d] \in Seq(FromPage) /\ Kept(toHost[d], toHost[d], T)
  BY SameMoves
<1>2. CASE d # c
  BY <1>1, <1>2, Taking DEF Kept
<1>3. CASE d = c
  BY <1>3, Taking, <1>1, Moves DEF Asked
<1> QED
  BY <1>2, <1>3

\* The host sends a message.
LEMMA SentMoves ==
    ASSUME LinkTypeOK, NEW T, NEW c \in Connections, NEW m \in FromHost, toPage' = Sent(c, m)
    PROVE  \A d \in Connections :
               m.type \notin T \/ d # c => Kept(toPage[d], toPage'[d], T)
<1> SUFFICES ASSUME NEW d \in Connections, m.type \notin T \/ d # c
             PROVE  Kept(toPage[d], toPage'[d], T)
  OBVIOUS
<1>1. toPage[d] \in Seq(FromHost) /\ Kept(toPage[d], toPage[d], T)
  BY SameMoves
<1>2. m.type \notin T => Kept(toPage[d], Append(toPage[d], m), T)
  BY <1>1, Moves
<1> QED
  BY <1>1, <1>2, Sending

\* What was on its way is lost.
LEMMA DroppedMoves ==
    ASSUME LinkTypeOK, NEW T, Drops
    PROVE  \A c \in Connections : /\ Moved(toPage[c], toPage'[c], T)
                                  /\ c # link.socket => Kept(toPage[c], toPage'[c], T)
<1> SUFFICES ASSUME NEW c \in Connections
             PROVE  /\ Moved(toPage[c], toPage'[c], T)
                    /\ c # link.socket => Kept(toPage[c], toPage'[c], T)
  OBVIOUS
<1>1. toPage[c] \in Seq(FromHost) /\ Kept(toPage[c], toPage[c], T)
  BY SameMoves
<1> QED
  BY <1>1, Moves DEF Drops, Kept

\* The types of messages, one after the other.
LEMMA JoinedTypes ==
    ASSUME NEW S, NEW s \in Seq(S), NEW t \in Seq(S), NEW T,
           \A i \in DOMAIN s : s[i].type \in T, \A i \in DOMAIN t : t[i].type \in T
    PROVE  \A i \in DOMAIN (s \o t) : (s \o t)[i].type \in T
<1> SUFFICES ASSUME NEW i \in DOMAIN (s \o t)
             PROVE  (s \o t)[i].type \in T
  OBVIOUS
<1>1. CASE i \in DOMAIN s
  BY <1>1, Joined
<1>2. CASE i \notin DOMAIN s
  BY <1>2, Joined
<1> QED
  BY <1>1, <1>2

\* What the page answers a welcome with, and a session.
LEMMA WelcomePosts ==
    ASSUME LinkTypeOK, NEW id, Opens(id) \in Seq(FromPage), NEW waiting
    PROVE  /\ Opens(id) \o Cancels(waiting) \in Seq(FromPage)
           /\ \A i \in DOMAIN (Opens(id) \o Cancels(waiting)) :
                (Opens(id) \o Cancels(waiting))[i].type
                  \in {"open_session", "subscribe", "cancel"}
<1>1. \A i \in DOMAIN Opens(id) : Opens(id)[i].type \in {"open_session", "subscribe", "cancel"}
  BY DEF Opens
<1> QED
  BY <1>1, Joined, JoinedTypes, Cancelling

LEMMA SessionPosts ==
    ASSUME LinkTypeOK, NEW id \in SessionIds, WindowsMessage \in FromPage, NEW waiting
    PROVE  LET posts == (<<WindowsMessage>> \o Again(id)) \o Cancels(waiting)
           IN /\ posts \in Seq(FromPage)
              /\ \A i \in DOMAIN posts :
                   posts[i].type \in {"session_windows", "media_create", "cancel"}
<1> DEFINE T == {"session_windows", "media_create", "cancel"}
           s == <<WindowsMessage>>
           t == Again(id)
           u == Cancels(waiting)
<1>1. s \in Seq(FromPage) /\ \A i \in DOMAIN s : s[i].type \in T
  BY DEF WindowsMessage
<1>2. t \in Seq(FromPage) /\ \A i \in DOMAIN t : t[i].type \in T
  BY ShownAgain
<1>3. u \in Seq(FromPage) /\ \A i \in DOMAIN u : u[i].type \in T
  BY Cancelling
<1>4. s \o t \in Seq(FromPage) /\ \A i \in DOMAIN (s \o t) : (s \o t)[i].type \in T
  <2> HIDE DEF s, t, T
  <2> QED
    BY <1>1, <1>2, Joined, JoinedTypes
<1>5. (s \o t) \o u \in Seq(FromPage)
      /\ \A i \in DOMAIN ((s \o t) \o u) : ((s \o t) \o u)[i].type \in T
  <2> DEFINE v == s \o t
  <2>1. v \in Seq(FromPage) /\ \A i \in DOMAIN v : v[i].type \in T
    BY <1>4
  <2>2. v \o u \in Seq(FromPage) /\ \A i \in DOMAIN (v \o u) : (v \o u)[i].type \in T
    <3> HIDE DEF v, u, T
    <3> QED
      BY <1>3, <2>1, Joined, JoinedTypes
  <2> QED
    BY <2>2
<1> QED
  BY <1>5

\* What the page posts with its windows, and with a request.
LEMMA WindowPosts ==
    ASSUME LinkTypeOK, NEW w \in Windows, OpenWindow(w) \/ CloseWindow(w)
    PROVE  \E posts : /\ Posts(posts)
                     /\ \A i \in DOMAIN posts :
                          posts[i].type \in {"session_windows", "media_create",
                                            "media_release", "media_release_window"}
<1> DEFINE T == {"session_windows", "media_create", "media_release", "media_release_window"}
<1>1. \A now : \A i \in DOMAIN Reports(now) : Reports(now)[i].type \in T
  BY DEF Reports
<1>2. CASE OpenWindow(w)
  <2> DEFINE s == Reports(OpenWindows \cup {w})
  <2>1. PICK m : m \in FromPage /\ m.type = "media_create" /\ s \in Seq(FromPage)
                 /\ Posts(s \o <<m>>)
    BY <1>2, WindowOpened
  <2> DEFINE t == <<m>>
  <2>2. t \in Seq(FromPage) /\ \A i \in DOMAIN t : t[i].type \in T
    BY <2>1
  <2>3. \A i \in DOMAIN s : s[i].type \in T
    BY <1>1
  <2>4. \A i \in DOMAIN (s \o t) : (s \o t)[i].type \in T
    <3> HIDE DEF s, t, T
    <3> QED
      BY <2>1, <2>2, <2>3, JoinedTypes
  <2> HIDE DEF s
  <2> QED
    BY <2>1, <2>4
<1>3. CASE CloseWindow(w)
  <2> DEFINE t == Reports(OpenWindows \ {w})
  <2>1. PICK s : /\ s \in Seq(FromPage)
                 /\ \A i \in DOMAIN s : s[i].type \in {"media_release", "media_release_window"}
                 /\ t \in Seq(FromPage)
                 /\ Posts(s \o t)
    BY <1>3, WindowClosed
  <2>2. (\A i \in DOMAIN s : s[i].type \in T) /\ \A i \in DOMAIN t : t[i].type \in T
    BY <1>1, <2>1
  <2>3. \A i \in DOMAIN (s \o t) : (s \o t)[i].type \in T
    <3> HIDE DEF t, T
    <3> QED
      BY <2>1, <2>2, JoinedTypes
  <2> HIDE DEF t
  <2> QED
    BY <2>1, <2>3
<1> QED
  BY <1>2, <1>3

LEMMA DispatchPosts ==
    ASSUME LinkTypeOK, NEW r \in Requests, Dispatch(r)
    PROVE  \E posts : /\ Posts(posts)
                     /\ \A i \in DOMAIN posts : posts[i].type \in {"cancel", "command"}
<1>1. PICK t, s :
        /\ s \in Seq(FromPage) /\ t \in Seq(FromPage)
        /\ \A i \in DOMAIN s : s[i].type = "cancel"
        /\ t = IF remote.connected
               THEN <<[type |-> "command", request |-> r, engine |-> remote.engine_id]>>
               ELSE <<>>
        /\ Posts(s \o t)
  BY Dispatched
<1> DEFINE T == {"cancel", "command"}
<1>2. (\A i \in DOMAIN s : s[i].type \in T) /\ \A i \in DOMAIN t : t[i].type \in T
  BY <1>1
<1>3. \A i \in DOMAIN (s \o t) : (s \o t)[i].type \in T
  <2> HIDE DEF T
  <2> QED
    BY <1>1, <1>2, JoinedTypes
<1> QED
  BY <1>1, <1>3

-----------------------------------------------------------------------------
(* Commands run once.                                                       *)

\* A message after others.
LEMMA LastJoined ==
    ASSUME NEW S, NEW s \in Seq(S), NEW t \in Seq(S), NEW m \in S,
           NEW i \in DOMAIN (s \o (t \o <<m>>))
    PROVE  \/ i \in DOMAIN s /\ (s \o (t \o <<m>>))[i] = s[i]
           \/ i - Len(s) \in DOMAIN t /\ (s \o (t \o <<m>>))[i] = t[i - Len(s)]
           \/ i = Len(s) + Len(t) + 1 /\ (s \o (t \o <<m>>))[i] = m
<1>1. <<m>> \in Seq(S) /\ t \o <<m>> \in Seq(S) /\ i \in Nat
      /\ Len(s) \in Nat /\ Len(t) \in Nat
  BY Joined
<1>2. CASE i \in DOMAIN s
  BY <1>1, <1>2, Joined
<1>3. CASE i \notin DOMAIN s
  <2>1. i - Len(s) \in DOMAIN (t \o <<m>>)
        /\ (s \o (t \o <<m>>))[(i - Len(s)) + Len(s)] = (t \o <<m>>)[i - Len(s)]
    BY <1>1, <1>3, Joined
  <2>2. (i - Len(s)) + Len(s) = i
    BY <1>1
  <2> DEFINE j == i - Len(s)
  <2>3. CASE j \in DOMAIN t
    BY <1>1, <2>1, <2>2, <2>3, Joined
  <2>4. CASE j \notin DOMAIN t
    BY <1>1, <2>1, <2>4, Joined, <2>2
  <2> QED
    BY <2>3, <2>4
<1> QED
  BY <1>2, <1>3

\* A command that moves is still one.
LEMMA OnceMoved ==
    ASSUME LinkTypeOK, LinkTypeOK', NEW r, OnTheWay(r),
           \A c \in Connections : Moved(toHost[c], toHost'[c], {"command"})
    PROVE  \A c, d \in Connections : \A i \in DOMAIN toHost'[c], j \in DOMAIN toHost'[d] :
             Asks(toHost'[c][i], r) /\ Asks(toHost'[d][j], r) => c = d /\ i = j
<1> SUFFICES ASSUME NEW c \in Connections, NEW i \in DOMAIN toHost'[c], Asks(toHost'[c][i], r),
                    NEW d \in Connections, NEW j \in DOMAIN toHost'[d], Asks(toHost'[d][j], r)
             PROVE  c = d /\ i = j
  OBVIOUS
<1>1. PICK k \in Nat : \A n \in DOMAIN toHost'[c] :
        toHost'[c][n].type \in {"command"} =>
          n + k \in DOMAIN toHost[c] /\ toHost'[c][n] = toHost[c][n + k]
  BY DEF Moved
<1>2. PICK l \in Nat : \A n \in DOMAIN toHost'[d] :
        toHost'[d][n].type \in {"command"} =>
          n + l \in DOMAIN toHost[d] /\ toHost'[d][n] = toHost[d][n + l]
  BY DEF Moved
<1>3. c = d
  BY <1>1, <1>2 DEF OnTheWay, Asks
<1>4. i + k = j + k
  BY <1>1, <1>3 DEF OnTheWay, Asks
<1> QED
  BY <1>3, <1>4, LenProperties DEF LinkTypeOK, ChannelsTyped

\* Nothing new is sent, taken or run.
LEMMA SingleStays ==
    ASSUME LinkTypeOK, LinkTypeOK', Single, ResultsTrue,
           \A c \in Connections : Moved(toHost[c], toHost'[c], {"command"}),
           jobs' = jobs \/ jobs' = <<>>, job' = job \/ job' = Background, UNCHANGED ran,
           \A r \in Commands : /\ Unsent(r)' => Unsent(r)
                               /\ outcome'[r] = "done" => outcome[r] = "done" \/ ran[r] = 1
    PROVE  Single'
<1> SUFFICES ASSUME NEW r \in Commands
             PROVE  (OnTheWay(r) /\ InQueue(r) /\ Ran(r))'
  BY DEF Single
<1>1. OnTheWay(r) /\ InQueue(r) /\ Ran(r)
  BY DEF Single
<1>2. Queued(r)' => Queued(r)
  BY DEF Queued
<1>3. ASSUME NEW c \in Connections, NEW i \in DOMAIN toHost'[c], Asks(toHost'[c][i], r)
      PROVE  \E j \in DOMAIN toHost[c] : toHost'[c][i] = toHost[c][j]
  BY <1>3 DEF Moved, Asks
<1>4. OnTheWay(r)'
  BY <1>1, <1>2, <1>3, OnceMoved DEF OnTheWay, Asks
<1>5. InQueue(r)'
  BY <1>1, <1>2 DEF InQueue
<1>6. Ran(r)'
  BY <1>1 DEF ResultsTrue, Ran
<1> QED
  BY <1>4, <1>5, <1>6

\* Results that moved.
LEMMA ResultsMoved ==
    ASSUME \A c \in Connections : Moved(toPage[c], toPage'[c], {"result"})
    PROVE  ResultsTrue
BY DEF ResultsTrue, Moved

\* A result that was sent.
LEMMA ResultSent ==
    ASSUME LinkTypeOK, NEW c \in Connections, NEW m \in FromHost, toPage' = Sent(c, m),
           m.type = "result" => m.request \notin Commands \/ ran[m.request] = 1
    PROVE  ResultsTrue
<1>1. ASSUME NEW d \in Connections, NEW i \in DOMAIN toPage'[d]
      PROVE  (\E j \in DOMAIN toPage[d] : toPage[d][j] = toPage'[d][i]) \/ toPage'[d][i] = m
  <2>1. toPage[d] \in Seq(FromHost)
    BY SameMoves
  <2>2. toPage'[d] = toPage[d] \/ toPage'[d] = Append(toPage[d], m)
    BY Sending
  <2> QED
    BY <1>1, <2>1, <2>2, Added
<1> QED
  BY <1>1 DEF ResultsTrue

\* Commands are not cancelled.
LEMMA Uncancelled ==
    ASSUME LinkTypeOK, NEW r \in Commands
    PROVE  r \notin cancelled /\ r \in Requests /\ r \notin Queries
BY LinkAssumption DEF LinkTypeOK, PageTyped, Requests

\* The page takes a message, and posts no command.
LEMMA SingleConsumed ==
    ASSUME LinkTypeOK, LinkTypeOK', Single, NEW t, NEW posts, Consumed(t, posts),
           \A i \in DOMAIN posts : posts[i].type # "command",
           \A r \in Commands : outcome'[r] = outcome[r] \/ (outcome'[r] = "done" /\ ran[r] = 1)
    PROVE  Single'
<1>1. ResultsTrue
  BY ConsumedMoves, ResultsMoved
<1>2. UNCHANGED <<jobs, job, ran>>
  BY DEF Consumed, hostVars, engineVars
<1> QED
  BY <1>1, <1>2, SingleStays, PostedMoves DEF Unsent, Consumed, Kept

LEMMA SingleTakes ==
    ASSUME LinkTypeOK, Single, PageTakes
    PROVE  Single'
<1>1. ASSUME TakeWelcome PROVE Single'
  <2> DEFINE posts == Opens(Resumes(Message.engine))
                        \o Cancels(remote.pending \cup {"open", "subscribe"})
  <2>1. LinkTypeOK' /\ Consumed("welcome", posts)
        /\ \A q \in Requests : q \notin cancelled => outcome'[q] = outcome[q]
    BY <1>1, WelcomeTaken
  <2>2. \A i \in DOMAIN posts : posts[i].type # "command"
    BY <1>1, WelcomeTaken, WelcomePosts
  <2> HIDE DEF posts
  <2> QED
    BY <2>1, <2>2, SingleConsumed, Uncancelled
<1>2. ASSUME TakeSessionOpened PROVE Single'
  <2> DEFINE posts == (<<WindowsMessage>> \o Again(Message.session))
                        \o Cancels(remote.pending \ {"open"})
  <2>1. LinkTypeOK' /\ Consumed("session_opened", posts)
        /\ \A q \in Requests : q \notin cancelled => outcome'[q] = outcome[q]
    BY <1>2, SessionTaken
  <2>2. \A i \in DOMAIN posts : posts[i].type # "command"
    BY <1>2, SessionTaken, SessionPosts
  <2> HIDE DEF posts
  <2> QED
    BY <2>1, <2>2, SingleConsumed, Uncancelled
<1>3. ASSUME TakeState PROVE Single'
  <2> DEFINE posts == Cancels(remote.pending \ {"subscribe"})
  <2>1. LinkTypeOK' /\ Consumed("state", posts)
        /\ \A q \in Requests : q \notin cancelled => outcome'[q] = outcome[q]
    BY <1>3, StateTaken
  <2>2. \A i \in DOMAIN posts : posts[i].type # "command"
    BY Cancelling
  <2> HIDE DEF posts
  <2> QED
    BY <2>1, <2>2, SingleConsumed, Uncancelled
<1>4. ASSUME TakeUpdate PROVE Single'
  <2>1. PICK posts : Consumed("update", posts) /\ \A i \in DOMAIN posts : posts[i].type = "cancel"
    BY <1>4, UpdateTaken
  <2> QED
    BY <2>1, SingleConsumed, Uncancelled, <1>4, UpdateTaken
<1>5. ASSUME TakeResult PROVE Single'
  <2> DEFINE posts == Cancels(remote.pending \ {Message.request})
  <2>1. LinkTypeOK' /\ Consumed("result", posts)
        /\ \A q \in Requests : q \notin cancelled =>
             outcome'[q] = IF q = Message.request /\ q \in remote.pending THEN "done" ELSE outcome[q]
    BY <1>5, ResultTaken
  <2>2. \A i \in DOMAIN posts : posts[i].type # "command"
    BY Cancelling
  <2>3. \A r \in Commands : r = Message.request => ran[r] = 1
    BY <2>1 DEF Consumed, Single, Ran
  <2> HIDE DEF posts
  <2> QED
    BY <2>1, <2>2, <2>3, SingleConsumed, Uncancelled
<1>6. ASSUME TakeError PROVE Single'
  <2>1. PICK posts : Consumed("error", posts)
    BY <1>6, ErrorTaken
  <2>2. LinkTypeOK' /\ (\A q \in Requests : q \notin cancelled => outcome'[q] = outcome[q])
        /\ ~link'.ready
    BY <1>6, ErrorTaken DEF LinkTypeOK, PageTyped, LinkRecords
  <2>3. ResultsTrue
    BY <2>1, ConsumedMoves, ResultsMoved
  <2>4. UNCHANGED <<jobs, job, ran>>
    BY <2>1 DEF Consumed, hostVars, engineVars
  <2> QED
    BY <2>2, <2>3, <2>4, Uncancelled, SingleStays, <2>1, SameMoves DEF Unsent, Consumed, Kept
<1> QED
  BY <1>1, <1>2, <1>3, <1>4, <1>5, <1>6 DEF PageTakes

LEMMA SingleDispatched ==
    ASSUME LinkTypeOK, Single, NEW r \in Requests, Dispatch(r)
    PROVE  Single'
<1>1. /\ LinkTypeOK' /\ outcome[r] = "new"
      /\ \A q \in Requests : q \notin cancelled =>
           outcome'[q] = IF q = r THEN IF remote.connected THEN "waiting" ELSE "unavailable"
                         ELSE outcome[q]
  BY Dispatched
<1>2. PICK posts, cancels :
        /\ cancels \in Seq(FromPage)
        /\ \A i \in DOMAIN cancels : cancels[i].type = "cancel"
        /\ posts = IF remote.connected
                   THEN <<[type |-> "command", request |-> r, engine |-> remote.engine_id]>>
                   ELSE <<>>
        /\ posts \in Seq(FromPage)
        /\ Posts(cancels \o posts)
  BY Dispatched
<1>3. UNCHANGED <<jobs, job, ran, toPage>>
  BY <1>2 DEF Posts, hostVars, engineVars
<1>4. ResultsTrue
  BY <1>3 DEF ResultsTrue
<1>5. \A x \in Commands : /\ Unsent(x)' => Unsent(x)
                          /\ outcome'[x] = "done" => outcome[x] = "done"
  BY <1>1, Uncancelled DEF Unsent
<1>6. CASE ~remote.connected
  BY <1>2, <1>6, ConcatEmptySeq, PostedMoves, <1>1, <1>3, <1>4, <1>5, SingleStays DEF Posts,
     Kept
<1>7. CASE remote.connected
  <2> DEFINE m == [type |-> "command", request |-> r, engine |-> remote.engine_id]
  <2>1. m \in FromPage
    BY <1>2, <1>7
  <2> SUFFICES ASSUME NEW x \in Commands
               PROVE  (OnTheWay(x) /\ InQueue(x) /\ Ran(x))'
    BY DEF Single
  <2>2. OnTheWay(x) /\ InQueue(x) /\ Ran(x)
    BY DEF Single
  <2>3. ASSUME NEW c \in Connections, NEW i \in DOMAIN toHost'[c], Asks(toHost'[c][i], x)
        PROVE  \/ i \in DOMAIN toHost[c] /\ toHost'[c][i] = toHost[c][i]
               \/ x = r /\ c = link.socket /\ i = Len(toHost[c]) + Len(cancels) + 1
    <3>1. CASE toHost'[c] = toHost[c]
      BY <2>3, <3>1
    <3>2. CASE c = link.socket /\ toHost'[c] = toHost[c] \o (cancels \o <<m>>)
      <4>1. toHost[c] \in Seq(FromPage)
        BY SameMoves
      <4>2. \/ i \in DOMAIN toHost[c] /\ toHost'[c][i] = toHost[c][i]
            \/ i - Len(toHost[c]) \in DOMAIN cancels
               /\ toHost'[c][i] = cancels[i - Len(toHost[c])]
            \/ i = Len(toHost[c]) + Len(cancels) + 1 /\ toHost'[c][i] = m
        <5> DEFINE s == toHost[c]
                   all == s \o (cancels \o <<m>>)
        <5>1. i \in DOMAIN all /\ s \in Seq(FromPage) /\ cancels \in Seq(FromPage)
          BY <1>2, <2>3, <3>2, <4>1
        <5>2. \/ i \in DOMAIN s /\ all[i] = s[i]
              \/ i - Len(s) \in DOMAIN cancels /\ all[i] = cancels[i - Len(s)]
              \/ i = Len(s) + Len(cancels) + 1 /\ all[i] = m
          <6> HIDE DEF m, s
          <6> QED
            BY <2>1, <5>1, LastJoined
        <5> QED
          BY <3>2, <5>2
      <4> QED
        BY <1>2, <2>3, <3>2, <4>2 DEF Asks
    <3> QED
      BY <3>1, <3>2, <1>2, <1>7 DEF Posts
  <2>4. x = r => ~Unsent(x)'
    BY <1>1, <1>7, Uncancelled DEF Unsent
  <2>5. OnTheWay(x)'
    BY <2>2, <2>3, <1>3, <1>5, <2>4, <1>1 DEF OnTheWay, Queued, Unsent, LinkTypeOK,
       EngineTyped, InQueue, Ran
  <2>6. InQueue(x)'
    BY <1>3, <1>5, <2>2 DEF InQueue, Queued
  <2>7. Ran(x)'
    BY <1>3, <1>5, <2>2 DEF Ran
  <2> QED
    BY <2>5, <2>6, <2>7
<1> QED
  BY <1>6, <1>7

LEMMA SinglePage ==
    ASSUME LinkTypeOK, Single, Page
    PROVE  Single'
<1>1. ASSUME Dial PROVE Single'
  <2>1. PICK c \in Connections : LinkTypeOK' /\ Dials(c)
    BY <1>1, Dialled
  <2>2. toHost \in [Connections -> Seq(FromPage)]
    BY DEF LinkTypeOK, ChannelsTyped
  <2>3. ASSUME NEW d \in Connections
        PROVE  Moved(toHost[d], toHost'[d], {"command"})
    <3>1. CASE d # c
      BY <2>1, <2>2, <3>1, SameMoves DEF Dials, Kept
    <3>2. CASE d = c
      <4>1. \A i \in DOMAIN toHost'[d] : toHost'[d][i].type \notin {"command"}
        BY <2>1, <2>2, <3>2 DEF Dials
      <4> QED
        BY <4>1, 0 \in Nat, Zenon DEF Moved
    <3> QED
      BY <3>1, <3>2
  <2> QED
    BY <2>1, <2>3, SingleStays DEF Unsent, Dials, engineVars, ResultsTrue
<1>2. ASSUME Closed \/ Reload PROVE Single'
  BY <1>2, ClosedThen, Reloaded, DroppedMoves, ResultsMoved, SameMoves, SingleStays,
     Uncancelled DEF Drops, Kept, hostVars, engineVars, Unsent
<1>3. ASSUME NEW q \in Queries, Supersede(q) PROVE Single'
  BY <1>3, Superseded, SameMoves, SingleStays DEF channelVars, hostVars, engineVars, Kept,
     Unsent, ResultsTrue
<1>4. ASSUME NEW posts, Posts(posts), LinkTypeOK', UNCHANGED outcome,
             \A i \in DOMAIN posts : posts[i].type # "command"
      PROVE  Single'
  BY <1>4, PostedMoves, SingleStays DEF Posts, hostVars, engineVars, Kept, Unsent, ResultsTrue
<1>5. ASSUME NEW w \in Windows, OpenWindow(w) \/ CloseWindow(w) PROVE Single'
  <2>1. PICK posts : Posts(posts) /\ \A i \in DOMAIN posts : posts[i].type # "command"
    BY <1>5, WindowPosts
  <2> QED
    BY <1>4, <1>5, <2>1, WindowOpened, WindowClosed
<1> QED
  BY <1>1, <1>2, <1>3, <1>5, SingleTakes, SingleDispatched DEF Page

\* A connection puts a command into the queue.
LEMMA SingleCommanded ==
    ASSUME LinkTypeOK, Single, NEW c \in Connections, Command(c)
    PROVE  Single'
<1>1. /\ LinkTypeOK' /\ OneConnection(c) /\ HostTakes(c, "command")
      /\ [request |-> Asked(c).request, connection |-> c] \in Jobs
      /\ jobs' = Append(jobs, [request |-> Asked(c).request, connection |-> c])
      /\ UNCHANGED <<outcome, toPage, job, ran>>
  BY Commanded DEF OneConnection, pageVars
<1>2. \A d \in Connections : Moved(toHost[d], toHost'[d], {"command"})
  BY <1>1, TakenMoves
<1> SUFFICES ASSUME NEW x \in Commands
             PROVE  (OnTheWay(x) /\ InQueue(x) /\ Ran(x))'
  BY DEF Single
<1>3. OnTheWay(x) /\ InQueue(x) /\ Ran(x)
  BY DEF Single
<1>4. jobs \in Seq(Jobs)
  BY DEF LinkTypeOK, EngineTyped
<1> DEFINE j == [request |-> Asked(c).request, connection |-> c]
<1>5. /\ DOMAIN jobs' = DOMAIN jobs \cup {Len(jobs) + 1} /\ jobs'[Len(jobs) + 1] = j
      /\ \A i \in DOMAIN jobs : jobs'[i] = jobs[i]
  BY <1>1, <1>4, Added
<1>6. Queued(x)' => Queued(x) \/ x = Asked(c).request
  BY <1>5 DEF Queued
<1>7. x = Asked(c).request => Asks(toHost[c][1], x) /\ 1 \in DOMAIN toHost[c]
  BY <1>1, Taking DEF Asks
<1>8. ASSUME NEW d \in Connections, NEW i \in DOMAIN toHost'[d], Asks(toHost'[d][i], x)
      PROVE  x # Asked(c).request
             /\ \E k \in DOMAIN toHost[d] : Asks(toHost[d][k], x)
  <2>1. CASE d # c
    BY <1>1, <2>1, Taking, <1>3, <1>7, <1>8 DEF OnTheWay
  <2>2. CASE d = c
    <3>1. toHost'[d] = Tail(toHost[d]) /\ toHost[d] \in Seq(FromPage) /\ toHost[d] # <<>>
      BY <1>1, <2>2, Taking
    <3>2. i + 1 \in DOMAIN toHost[d] /\ toHost'[d][i] = toHost[d][i + 1] /\ i \in Nat \ {0}
      BY <1>8, <3>1, TakenFirst
    <3>3. i + 1 # 1
      BY <3>2
    <3> QED
      BY <1>3, <1>7, <1>8, <2>2, <3>2, <3>3 DEF OnTheWay
  <2> QED
    BY <2>1, <2>2
<1>9. OnTheWay(x)'
  BY <1>1, <1>3, <1>6, <1>8, <1>2, OnceMoved DEF OnTheWay, Unsent
<1>10. InQueue(x)'
  BY <1>3, <1>7, <1>1, <1>6, <1>5 DEF OnTheWay, InQueue, Unsent, Queued
<1>11. Ran(x)'
  BY <1>1, <1>3 DEF Ran, Unsent
<1> QED
  BY <1>9, <1>10, <1>11

\* What the connections do besides.
LEMMA SingleThreads ==
    ASSUME LinkTypeOK, Single, NEW c \in Connections, HostStep(c) \/ Leave(c)
    PROVE  Single'
<1> DEFINE Same == /\ LinkTypeOK' /\ ResultsTrue
                   /\ \A d \in Connections : Moved(toHost[d], toHost'[d], {"command"})
                   /\ UNCHANGED <<outcome, jobs, job, ran>>
<1>1. toPage' = toPage => ResultsTrue
  BY DEF ResultsTrue
<1>2. toHost' = toHost => \A d \in Connections : Moved(toHost[d], toHost'[d], {"command"})
  BY SameMoves DEF Kept
<1>3. \A t : HostTakes(c, t) =>
        \A d \in Connections : Moved(toHost[d], toHost'[d], {"command"})
  BY TakenMoves
<1>4. CASE Welcome(c)
  BY <1>4, <1>3, Welcomed, ResultSent, SingleStays DEF Welcome, OneConnection, pageVars,
     engineVars, Unsent
<1>5. CASE OpenSession(c) \/ Subscribe(c) \/ Cancel(c) \/ ReportWindows(c)
  BY <1>1, <1>3, <1>5, SessionsOpened, Subscribed, QueryCancelled, ReportTaken, SingleStays DEF
     OneConnection, pageVars, engineVars, Unsent
<1>6. CASE Register(c)
  BY <1>2, <1>6, SessionRegistered, ResultSent, SingleStays DEF OneConnection, pageVars,
     engineVars, Unsent
<1>7. CASE Snapshot(c) \/ Unregister(c) \/ ReleaseReported(c) \/ Gone(c)
  BY <1>1, <1>2, <1>7, Snapshotted, Unregistered, ReportedReleased, ConnectionGone, SingleStays
     DEF OneConnection, pageVars, engineVars, channelVars, Unsent
<1>8. CASE SendState(c)
  BY <1>2, <1>8, StateSent, ResultSent, SingleStays DEF OneConnection, pageVars, engineVars,
     Unsent
<1>9. CASE CreatePlayer(c) \/ ReleasePlayer(c) \/ ReleaseWindow(c)
  BY <1>1, <1>3, <1>9, PlayerAsked, ResultSent, SingleStays DEF OneConnection, pageVars,
     engineVars, Unsent
<1>10. CASE Leave(c)
  <2>1. \A d \in Connections : toHost'[d] = IF d = c THEN <<>> ELSE toHost[d]
    BY <1>10, HostLeft
  <2>2. \A d \in Connections : Moved(toHost[d], toHost'[d], {"command"})
    BY <2>1, SameMoves, Moves DEF Kept
  <2>3. Same
    BY <1>1, <1>10, <2>2, HostLeft DEF OneConnection, pageVars, engineVars
  <2> QED
    BY <2>3, SingleStays DEF Unsent
<1> QED
  BY <1>4, <1>5, <1>6, <1>7, <1>8, <1>9, <1>10, SingleCommanded DEF HostStep

\* The engine runs a command.
LEMMA SingleRun ==
    ASSUME LinkTypeOK, Single, RunCommand
    PROVE  Single'
<1> DEFINE r == Head(jobs).request
<1>1. /\ LinkTypeOK' /\ EngineAlone /\ jobs # <<>> /\ r \in Commands
      /\ job' = Head(jobs) /\ jobs' = Tail(jobs) /\ UNCHANGED toPage
      /\ ran' = [ran EXCEPT ![r] = @ + 1]
  BY CommandRun
<1>2. UNCHANGED <<toHost, outcome>>
  BY <1>1 DEF EngineAlone, pageVars
<1>3. jobs \in Seq(Jobs) /\ ran \in [Commands -> Nat]
  BY DEF LinkTypeOK, EngineTyped
<1>4. /\ 1 \in DOMAIN jobs /\ jobs[1].request = r /\ DOMAIN jobs' \subseteq Nat \ {0}
      /\ \A i \in DOMAIN jobs' : i + 1 \in DOMAIN jobs /\ jobs'[i] = jobs[i + 1]
  BY <1>1, <1>3, TakenFirst
<1> SUFFICES ASSUME NEW x \in Commands
             PROVE  (OnTheWay(x) /\ InQueue(x) /\ Ran(x))'
  BY DEF Single
<1>5. OnTheWay(x) /\ InQueue(x) /\ Ran(x)
  BY DEF Single
<1>6. Queued(x)' => Queued(x) /\ x # r
  BY <1>4, <1>5 DEF InQueue, Queued
<1>7. x = r => Queued(x) /\ ran[x] = 0 /\ ~Unsent(x)
  BY <1>4, <1>5 DEF InQueue, Queued
<1>8. ran'[x] = IF x = r THEN ran[x] + 1 ELSE ran[x]
  BY <1>1, <1>3
<1>9. OnTheWay(x)'
  BY <1>2, <1>5, <1>6, <1>7, <1>8 DEF OnTheWay, Unsent
<1>10. InQueue(x)'
  BY <1>4, <1>5, <1>2, <1>6, <1>8 DEF InQueue, Unsent
<1>11. Ran(x)'
  BY <1>1, <1>2, <1>3, <1>5, <1>7, <1>8 DEF Ran, Unsent
<1> QED
  BY <1>9, <1>10, <1>11

\* It takes a query from the queue.
LEMMA SingleQuery ==
    ASSUME LinkTypeOK, Single, RunQuery
    PROVE  Single'
<1>1. /\ LinkTypeOK' /\ EngineAlone /\ jobs # <<>> /\ jobs' = Tail(jobs)
      /\ UNCHANGED <<toPage, job, ran>>
  BY QueryRun
<1>2. UNCHANGED <<toHost, outcome>>
  BY <1>1 DEF EngineAlone, pageVars
<1>3. jobs \in Seq(Jobs)
  BY DEF LinkTypeOK, EngineTyped
<1>4. /\ DOMAIN jobs' \subseteq Nat \ {0}
      /\ \A i \in DOMAIN jobs' : i + 1 \in DOMAIN jobs /\ jobs'[i] = jobs[i + 1]
  BY <1>1, <1>3, TakenFirst
<1> SUFFICES ASSUME NEW x \in Commands
             PROVE  (OnTheWay(x) /\ InQueue(x) /\ Ran(x))'
  BY DEF Single
<1>5. OnTheWay(x) /\ InQueue(x) /\ Ran(x)
  BY DEF Single
<1>6. Queued(x)' => Queued(x)
  BY <1>4 DEF Queued
<1>7. OnTheWay(x)' /\ Ran(x)'
  BY <1>1, <1>2, <1>5, <1>6 DEF OnTheWay, Ran, Unsent
<1>8. InQueue(x)'
  BY <1>4, <1>5, <1>1, <1>2, <1>6 DEF InQueue, Unsent
<1> QED
  BY <1>7, <1>8

\* Every action keeps commands single.
LEMMA SingleKept ==
    ASSUME LinkTypeOK, Single, [Next]_vars
    PROVE  Single'
<1> DEFINE Same == /\ LinkTypeOK' /\ ResultsTrue
                   /\ \A d \in Connections : Moved(toHost[d], toHost'[d], {"command"})
                   /\ UNCHANGED <<outcome, ran>>
                   /\ jobs' = jobs \/ jobs' = <<>>
                   /\ job' = job \/ job' = Background
<1>1. toPage' = toPage => ResultsTrue
  BY DEF ResultsTrue
<1>2. toHost' = toHost => \A d \in Connections : Moved(toHost[d], toHost'[d], {"command"})
  BY SameMoves DEF Kept
<1>3. ASSUME NEW changed \in Changes, Wake(changed) PROVE Single'
  BY <1>1, <1>2, <1>3, Woken, SingleStays DEF EngineAlone, pageVars, Unsent
<1>4. ASSUME NEW j \in asked, AnswerQuery(j) PROVE Single'
  BY <1>4, QueryAnswered, LinkAssumption, ResultSent, <1>2, SingleStays DEF Result,
     EngineAlone, pageVars, Unsent
<1>5. CASE CopyListeners \/ Told
  BY <1>1, <1>2, <1>5, ListenersCopied, AllTold, SingleStays DEF EngineAlone, pageVars, Unsent
<1>6. ASSUME NEW c \in Connections, Tell(c) PROVE Single'
  BY <1>6, ListenerTold, ResultSent, <1>2, SingleStays DEF Tidings, EngineAlone, pageVars,
     Unsent
<1>7. CASE Reply
  BY <1>7, Replied, ResultSent, <1>2, SingleStays DEF Result, Single, Ran, EngineAlone,
     pageVars, Unsent
<1>8. CASE Restart
  BY <1>8, Restarted, SameMoves, Moves, <1>1, SingleStays DEF pageVars, Unsent
<1>9. CASE UNCHANGED vars
  BY <1>1, <1>2, <1>9, LinkTyped, SingleStays DEF vars, pageVars, channelVars, hostVars,
     engineVars, Unsent
<1> QED
  BY <1>3, <1>4, <1>5, <1>6, <1>7, <1>8, <1>9, SinglePage, SingleThreads, SingleRun, SingleQuery
     DEF Next, Host, Engine

LEMMA SingleFirst == Init => Single
<1> SUFFICES ASSUME Init, NEW r \in Commands
             PROVE  OnTheWay(r) /\ InQueue(r) /\ Ran(r)
  BY DEF Single
<1>1. /\ \A c \in Connections : toHost[c] = <<>> /\ toPage[c] = <<>>
      /\ jobs = <<>> /\ job = Background /\ ran[r] = 0 /\ outcome[r] = "new"
  BY DEF Init, Requests
<1>2. Ran(r)
  BY <1>1 DEF Ran
<1> QED
  BY <1>2, <1>1 DEF OnTheWay, InQueue, Queued

\* A command runs at most once, one that was refused never ran, and one that was
\* answered did, whatever is lost between page and host ("Nothing is sent
\* again by itself", bern.js).
THEOREM OutcomesStayTrue == Spec => []OutcomesAreTrue
<1>1. Single /\ LinkTypeOK => OutcomesAreTrue
  BY DEF OutcomesAreTrue, Single, LinkTypeOK, EngineTyped, Ran, Unsent
<1>2. LinkTypeOK /\ Single /\ [Next]_vars => Single'
  BY SingleKept
<1> QED
  BY <1>1, <1>2, LinkTypes, SingleFirst, PTL DEF Spec

-----------------------------------------------------------------------------
(* The handshakes.                                                          *)

\* The order outlives losses.
LEMMA OrderedMoved ==
    ASSUME LinkTypeOK, LinkTypeOK', NEW c \in Connections, Ordered(c),
           Moved(toHost[c], toHost'[c], HostTags), Moved(toPage[c], toPage'[c], PageTags)
    PROVE  Ordered(c)'
<1>1. /\ toHost[c] \in Seq(FromPage) /\ toHost'[c] \in Seq(FromPage)
      /\ toPage[c] \in Seq(FromHost) /\ toPage'[c] \in Seq(FromHost)
  BY DEF LinkTypeOK, ChannelsTyped
<1>2. /\ Once(toPage'[c], "welcome") /\ Once(toPage'[c], "session_opened")
      /\ Before(toPage'[c], "session_opened", "state")
  BY <1>1, MovedTags DEF PageTags, Ordered
<1> QED
  BY <1>2, <1>1, MovedTags DEF Ordered, HostTags

\* What is kept is tagged as before.
LEMMA KeptTags ==
    ASSUME NEW s, NEW t, NEW T, Kept(s, t, T), NEW x \in T
    PROVE  Tagged(t, x) <=> Tagged(s, x)
BY DEF Kept, Moved, Tagged

LEMMA StagedStays ==
    ASSUME LinkTypeOK, LinkTypeOK', NEW c \in Connections, Ordered(c), Staged(c),
           SameHost(c), SamePage(c)
    PROVE  Ordered(c)' /\ Staged(c)'
<1>1. Ordered(c)'
  BY OrderedMoved DEF SameHost, SamePage, Kept
<1>2. Tags(c)
  BY KeptTags DEF Tags, SameHost, SamePage
<1>3. /\ Welcoming(c)' <=> Welcoming(c)
      /\ Opening(c)' <=> Opening(c)
      /\ Subscribing(c)' <=> Subscribing(c)
      /\ Tagged(toHost'[c], "hello") <=> Tagged(toHost[c], "hello")
      /\ Tagged(toPage'[c], "session_opened") <=> Tagged(toPage[c], "session_opened")
      /\ Tagged(toPage'[c], "state") <=> Tagged(toPage[c], "state")
  BY <1>2 DEF Tags, HostTags, PageTags, Welcoming, Opening, Subscribing
<1> QED
  BY <1>1, <1>3 DEF Staged, SameHost, SamePage, Showing, Serving

\* What the page knows stays true.
LEMMA KnownAlike ==
    ASSUME LinkTypeOK, LinkTypeOK', Known,
           \A c \in Connections : Kept(toPage[c], toPage'[c], {"session_opened"}),
           \A c \in Connections : Alive(c)' => Alive(c) /\ conn'[c].session = conn[c].session,
           link'.socket = link.socket, link'.ready => link.ready,
           remote'.session_id = remote.session_id,
           remote'.connected => remote.connected \/ remote.session_id # NoSession
                                \/ ~Alive(link.socket),
           remote'.connected => link.socket # 0
    PROVE  Known'
<1>1. ASSUME NEW c \in Connections, NEW id
      PROVE  (\E i \in DOMAIN toPage'[c] : /\ toPage'[c][i].type = "session_opened"
                                           /\ toPage'[c][i].session = id) <=> Opened(c, id)
  BY DEF Kept, Moved, Opened
<1>2. link.socket # 0 => link.socket \in Connections
  BY LinkAssumption DEF LinkTypeOK, PageTyped, LinkRecords, Connections
<1>3. ASSUME NEW c \in Connections
      PROVE  /\ (c = link.socket /\ link.ready /\ Alive(c) /\ Serving(c))' =>
                  (remote.session_id = conn[c].session \/ Opened(c, conn[c].session))'
             /\ \A id \in SessionIds : Opened(c, id)' =>
                  /\ remote'.session_id = NoSession
                  /\ Alive(c)' => conn'[c].session = id
  <2>1. \A id : Opened(c, id)' <=> Opened(c, id)
    BY <1>1 DEF Opened
  <2>2. CASE Alive(c)'
    <3>1. Alive(c) /\ conn'[c].session = conn[c].session
      BY <2>2 DEF Alive
    <3> QED
      BY <2>1, <3>1, <1>1 DEF Known, Serving, Opened
  <2>3. CASE ~Alive(c)'
    BY <2>1, <2>3 DEF Known
  <2> QED
    BY <2>2, <2>3
<1>4. (remote.session_id # NoSession \/ remote.connected => link.socket # 0)'
  BY DEF Known
<1> QED
  BY <1>3, <1>4, <1>2 DEF Known, Alive

LEMMA KnownStays ==
    ASSUME LinkTypeOK, LinkTypeOK', Known,
           \A c \in Connections : SameHost(c) /\ SamePage(c),
           link'.socket = link.socket, link'.ready => link.ready,
           remote'.session_id = remote.session_id, remote'.connected = remote.connected
    PROVE  Known'
<1>1. \A c \in Connections : Kept(toPage[c], toPage'[c], {"session_opened"})
  BY DEF SamePage, Kept, Moved, PageTags
<1>2. remote.connected => link.socket # 0
  BY DEF Known
<1> QED
  BY <1>1, <1>2, KnownAlike DEF SameHost

LEMMA HandshakeStays ==
    ASSUME LinkTypeOK, LinkTypeOK', Handshakes,
           \A c \in Connections : SameHost(c) /\ SamePage(c),
           link'.socket = link.socket, link'.ready => link.ready,
           remote'.session_id = remote.session_id, remote'.connected = remote.connected
    PROVE  Handshakes'
BY StagedStays, KnownStays DEF Handshakes

\* Messages that are none of the handshake.
LEMMA HostSame ==
    ASSUME LinkTypeOK, UNCHANGED <<conn, step>>,
           \A c \in Connections : Kept(toHost[c], toHost'[c], HostTags),
           \A c \in Connections : conn[c].status = "none" => toHost'[c] = toHost[c]
    PROVE  \A c \in Connections : SameHost(c)
BY DEF SameHost, Alive, Registering, Snapping

LEMMA PageSame ==
    ASSUME LinkTypeOK, UNCHANGED <<link, remote>>,
           \A c \in Connections : Kept(toPage[c], toPage'[c], PageTags),
           \A c \in Connections : c # link.socket => toPage'[c] = toPage[c]
    PROVE  \A c \in Connections : SamePage(c)
BY DEF SamePage

\* The host sends none of the handshake.
LEMMA PageSent ==
    ASSUME LinkTypeOK, UNCHANGED <<link, remote>>, NEW c \in Connections, NEW m \in FromHost,
           m.type \notin PageTags, toPage' = Sent(c, m)
    PROVE  \A d \in Connections : SamePage(d)
<1>1. \A d \in Connections : Kept(toPage[d], toPage'[d], PageTags)
  BY SentMoves
<1> QED
  BY <1>1, PageSame, Sending

\* The page posts none of the handshake, and took none.
LEMMA HandshakePosts ==
    ASSUME LinkTypeOK, LinkTypeOK', Handshakes, NEW posts \in Seq(FromPage),
           \A i \in DOMAIN posts : posts[i].type \notin HostTags,
           \A c \in Connections : \/ toHost'[c] = toHost[c]
                                  \/ Alive(c) /\ toHost'[c] = toHost[c] \o posts,
           \A c \in Connections : Kept(toPage[c], toPage'[c], PageTags),
           \A c \in Connections : c # link.socket => toPage'[c] = toPage[c],
           UNCHANGED <<conn, step>>, link'.socket = link.socket, link'.ready => link.ready,
           remote'.session_id = remote.session_id, remote'.connected = remote.connected
    PROVE  Handshakes'
<1>1. \A c \in Connections : Kept(toHost[c], toHost'[c], HostTags)
  BY PostedMoves
<1>2. \A c \in Connections : SameHost(c)
  BY <1>1, HostSame DEF Alive
<1> QED
  BY <1>2, HandshakeStays DEF SamePage

LEMMA HandshakeConsumed ==
    ASSUME LinkTypeOK, LinkTypeOK', Handshakes, NEW t, t \notin PageTags,
           NEW posts, Consumed(t, posts),
           (\A i \in DOMAIN posts : posts[i].type \notin HostTags) \/ ~link'.ready,
           link'.socket = link.socket, link'.ready => link.ready,
           remote'.session_id = remote.session_id, remote'.connected = remote.connected
    PROVE  Handshakes'
<1>1. /\ \A c \in Connections : Kept(toPage[c], toPage'[c], PageTags)
      /\ \A c \in Connections : c # link.socket => toPage'[c] = toPage[c]
      /\ UNCHANGED <<conn, step>> /\ posts \in Seq(FromPage)
  BY ConsumedMoves DEF Consumed, hostVars, connVars
<1>2. CASE \A i \in DOMAIN posts : posts[i].type \notin HostTags
  BY <1>1, <1>2, HandshakePosts DEF Consumed
<1>3. CASE ~link'.ready
  BY <1>3, <1>1, SameMoves, HostSame, HandshakeStays DEF Consumed, SamePage
<1> QED
  BY <1>2, <1>3

LEMMA HandshakeTakesOther ==
    ASSUME LinkTypeOK, Handshakes, TakeUpdate \/ TakeResult \/ TakeError
    PROVE  Handshakes'
<1>0. remote \in PageRecords /\ link \in LinkRecords
  BY DEF LinkTypeOK, PageTyped
<1>1. ASSUME TakeUpdate PROVE Handshakes'
  <2>1. PICK posts : Consumed("update", posts) /\ \A i \in DOMAIN posts : posts[i].type = "cancel"
    BY <1>1, UpdateTaken
  <2> QED
    BY <2>1, HandshakeConsumed, <1>0, <1>1, UpdateTaken DEF PageTags, HostTags, PageRecords
<1>2. ASSUME TakeResult PROVE Handshakes'
  <2> DEFINE posts == Cancels(remote.pending \ {Message.request})
  <2>1. Consumed("result", posts) /\ \A i \in DOMAIN posts : posts[i].type = "cancel"
    BY <1>2, ResultTaken, Cancelling
  <2>2. /\ LinkTypeOK' /\ UNCHANGED link
        /\ remote'.session_id = remote.session_id /\ remote'.connected = remote.connected
    BY <1>0, <1>2, ResultTaken DEF PageRecords
  <2> HIDE DEF posts
  <2> QED
    BY <2>1, <2>2, HandshakeConsumed DEF PageTags, HostTags
<1>3. ASSUME TakeError PROVE Handshakes'
  <2>1. PICK posts : Consumed("error", posts)
    BY <1>3, ErrorTaken
  <2> QED
    BY <2>1, HandshakeConsumed, <1>0, <1>3, ErrorTaken DEF PageTags, PageRecords, LinkRecords
<1> QED
  BY <1>1, <1>2, <1>3

LEMMA HandshakePosted ==
    ASSUME LinkTypeOK, LinkTypeOK', Handshakes, NEW posts, Posts(posts),
           \A i \in DOMAIN posts : posts[i].type \notin HostTags,
           remote'.session_id = remote.session_id, remote'.connected = remote.connected
    PROVE  Handshakes'
<1>1. /\ UNCHANGED <<link, toPage, conn, step>> /\ posts \in Seq(FromPage)
      /\ \A c \in Connections : \/ toHost'[c] = toHost[c]
                                \/ Alive(c) /\ toHost'[c] = toHost[c] \o posts
  BY DEF Posts, hostVars, connVars
<1> QED
  BY <1>1, HandshakePosts, SameMoves

\* What the page does of its own.
LEMMA HandshakeActs ==
    ASSUME LinkTypeOK, Handshakes,
           \/ \E r \in Requests : Dispatch(r)
           \/ \E q \in Queries : Supersede(q)
           \/ \E w \in Windows : OpenWindow(w) \/ CloseWindow(w)
    PROVE  Handshakes'
<1>0. remote \in PageRecords
  BY DEF LinkTypeOK, PageTyped
<1>1. ASSUME NEW r \in Requests, Dispatch(r) PROVE Handshakes'
  <2>1. PICK posts : Posts(posts) /\ \A i \in DOMAIN posts : posts[i].type \notin HostTags
    BY <1>1, DispatchPosts DEF HostTags
  <2> QED
    BY <2>1, HandshakePosted, <1>0, <1>1, Dispatched DEF PageRecords
<1>2. ASSUME NEW q \in Queries, Supersede(q) PROVE Handshakes'
  BY <1>2, Superseded, SameMoves, HostSame, PageSame, HandshakeStays DEF channelVars, hostVars,
     connVars
<1>3. ASSUME NEW w \in Windows, OpenWindow(w) \/ CloseWindow(w) PROVE Handshakes'
  <2>1. PICK posts : Posts(posts) /\ \A i \in DOMAIN posts : posts[i].type \notin HostTags
    BY <1>3, WindowPosts DEF HostTags
  <2> QED
    BY <2>1, HandshakePosted, <1>3, WindowChanged
<1> QED
  BY <1>1, <1>2, <1>3

\* A step of connection c that is none of the handshake.
LEMMA HandshakeThread ==
    ASSUME LinkTypeOK, LinkTypeOK', Handshakes, NEW c \in Connections, OneConnection(c),
           \A d \in Connections : Kept(toHost[d], toHost'[d], HostTags),
           \A d \in Connections : d # c \/ conn[d].status = "none" => toHost'[d] = toHost[d],
           \A d \in Connections : SamePage(d),
           \A s \in {"none", "new"} : conn'[c].status = s <=> conn[c].status = s,
           Alive(c)' <=> Alive(c), conn'[c].session = conn[c].session,
           conn'[c].subscribed = conn[c].subscribed,
           Registering(c)' <=> Registering(c), Snapping(c)' <=> Snapping(c)
    PROVE  Handshakes'
<1>1. UNCHANGED <<link, remote>>
  BY DEF OneConnection, pageVars
<1> QED
  BY <1>1, HandshakeStays DEF OneConnection, SameHost, Alive, Registering, Snapping

LEMMA HandshakeOthers ==
    ASSUME LinkTypeOK, Handshakes, NEW c \in Connections,
           \/ Snapshot(c) \/ Command(c) \/ Cancel(c) \/ ReportWindows(c)
           \/ CreatePlayer(c) \/ ReleasePlayer(c) \/ ReleaseWindow(c)
           \/ Unregister(c) \/ ReleaseReported(c) \/ Gone(c)
    PROVE  Handshakes'
<1>1. conn[c] \in ConnectionRecords
  BY ThreadAt
<1>2. ASSUME OneConnection(c), UNCHANGED toPage
      PROVE  \A d \in Connections : SamePage(d)
  BY <1>2, SameMoves, PageSame DEF OneConnection, pageVars
<1>3. ASSUME UNCHANGED toHost
      PROVE  /\ \A d \in Connections : Kept(toHost[d], toHost'[d], HostTags)
             /\ \A d \in Connections : toHost'[d] = toHost[d]
  BY <1>3, SameMoves
<1>4. ASSUME NEW t, t \notin HostTags, HostTakes(c, t)
      PROVE  /\ \A d \in Connections : Kept(toHost[d], toHost'[d], HostTags)
             /\ \A d \in Connections : d # c \/ conn[d].status = "none" => toHost'[d] = toHost[d]
  BY <1>4, TakenMoves, Taking
<1>5. CASE Snapshot(c)
  BY <1>5, Snapshotted, <1>2, <1>3, HandshakeThread DEF channelVars, Alive, Registering,
     Snapping
<1>6. CASE Command(c) \/ Cancel(c) \/ ReportWindows(c)
  <2>1. /\ LinkTypeOK' /\ OneConnection(c) /\ UNCHANGED <<toPage, step>>
        /\ conn'[c].status = conn[c].status /\ conn'[c].session = conn[c].session
        /\ conn'[c].subscribed = conn[c].subscribed
    <3>1. CASE Command(c) \/ Cancel(c)
      <4>1. PICK q : conn'[c] = [conn[c] EXCEPT !.queries = q]
        BY <3>1, Commanded, QueryCancelled
      <4> QED
        BY <1>1, <4>1, <3>1, Commanded, QueryCancelled DEF ConnectionRecords
    <3>2. CASE ReportWindows(c)
      <4>1. PICK ws : conn'[c] = [conn[c] EXCEPT !.listed = Asked(c).windows, !.windows = ws]
        BY <3>2, ReportTaken
      <4> QED
        BY <1>1, <4>1, <3>2, ReportTaken DEF ConnectionRecords
    <3> QED
      BY <1>6, <3>1, <3>2
  <2>2. HostTakes(c, "command") \/ HostTakes(c, "cancel") \/ HostTakes(c, "session_windows")
    BY <1>6 DEF Command, Cancel, ReportWindows
  <2> QED
    BY <1>2, <2>1, HandshakeThread, <1>4, <2>2 DEF Alive, Registering, Snapping, HostTags
<1>7. CASE CreatePlayer(c) \/ ReleasePlayer(c) \/ ReleaseWindow(c)
  <2>1. /\ LinkTypeOK' /\ OneConnection(c) /\ UNCHANGED <<conn, step>>
        /\ [type |-> "error"] \in FromHost
        /\ toPage' = toPage \/ toPage' = Sent(c, [type |-> "error"])
    BY <1>7, PlayerAsked
  <2>2. PICK t \in {"media_create", "media_release", "media_release_window"} : HostTakes(c, t)
    BY <1>7, PlayerAsked
  <2>3. \A d \in Connections : SamePage(d)
    BY <2>1, PageSent, <1>2 DEF PageTags, OneConnection, pageVars
  <2> QED
    BY <2>1, <2>3, HandshakeThread, <1>4, <2>2 DEF Alive, Registering, Snapping, HostTags
<1>8. CASE Unregister(c)
  BY <1>8, Unregistered, <1>2, <1>3, HandshakeThread DEF channelVars, Alive, Registering,
     Snapping
<1>9. CASE ReleaseReported(c)
  BY <1>1, <1>9, ReportedReleased, <1>2, <1>3, HandshakeThread DEF channelVars,
     ConnectionRecords, Alive, Registering, Snapping
<1>10. CASE Gone(c)
  <2>1. /\ LinkTypeOK' /\ OneConnection(c) /\ UNCHANGED <<toHost, toPage>>
        /\ step[c] = <<"release">> /\ step'[c] = Listening
        /\ conn[c].status = "closing" /\ conn'[c].status = "gone"
        /\ conn'[c].session = conn[c].session /\ conn'[c].subscribed = conn[c].subscribed
    BY <1>1, <1>10, ConnectionGone DEF channelVars, ConnectionRecords
  <2> QED
    BY <1>2, <1>3, <2>1, HandshakeThread DEF Alive, Registering, Snapping, Listening
<1> QED
  BY <1>5, <1>6, <1>7, <1>8, <1>9, <1>10

\* The engine thread takes a query from what a connection waits for, no more.
LEMMA EngineConnections ==
    ASSUME LinkTypeOK,
           \/ \E changed \in Changes : Wake(changed)
           \/ \E j \in asked : AnswerQuery(j)
           \/ Engine
    PROVE  \A c \in Connections : /\ conn'[c].status = conn[c].status
                                  /\ conn'[c].session = conn[c].session
                                  /\ conn'[c].subscribed = conn[c].subscribed
                                  /\ conn'[c].listed = conn[c].listed
                                  /\ conn'[c].windows = conn[c].windows
<1>1. CASE UNCHANGED conn
  BY <1>1
<1>2. ASSUME NEW j \in asked, AnswerQuery(j), NEW c \in Connections
      PROVE  /\ conn'[c].status = conn[c].status
             /\ conn'[c].session = conn[c].session
             /\ conn'[c].subscribed = conn[c].subscribed
             /\ conn'[c].listed = conn[c].listed
             /\ conn'[c].windows = conn[c].windows
  <2>1. PICK q \in SUBSET Queries : conn'[c] = [conn[c] EXCEPT !.queries = q]
    BY <1>2, QueryAnswered
  <2> QED
    BY <2>1, ThreadAt DEF ConnectionRecords
<1> QED
  BY <1>1, <1>2, Woken, CommandRun, QueryRun, ListenersCopied, ListenerTold, AllTold, Replied
     DEF Engine

\* The engine thread.
LEMMA HandshakeEngine ==
    ASSUME LinkTypeOK, Handshakes,
           \/ \E changed \in Changes : Wake(changed)
           \/ \E j \in asked : AnswerQuery(j)
           \/ Engine
    PROVE  Handshakes'
<1>1. LinkTypeOK' /\ EngineAlone
  BY Woken, QueryAnswered, CommandRun, QueryRun, ListenersCopied, ListenerTold, AllTold, Replied
     DEF Engine
<1>2. UNCHANGED <<link, remote, toHost, step>>
  BY <1>1 DEF EngineAlone, pageVars
<1>3. \A c \in Connections : SameHost(c)
  BY <1>2, SameMoves, EngineConnections DEF SameHost, Alive, Registering, Snapping
<1> QED
  BY <1>1, <1>2, <1>3, HandshakeStays, SameMoves, PageSame, QueryAnswered, PageSent,
     ListenerTold, Replied, Woken, CommandRun, QueryRun, ListenersCopied, AllTold DEF Result,
     PageTags, Tidings, Engine

\* One connection moves on in its handshake.
LEMMA HandshakeAt ==
    ASSUME LinkTypeOK, LinkTypeOK', Handshakes, NEW c,
           \A d \in Connections : d # c => SameHost(d) /\ SamePage(d),
           c \in Connections => Ordered(c)' /\ Staged(c)',
           Known'
    PROVE  Handshakes'
BY StagedStays DEF Handshakes

\* The others of one connection.
LEMMA OthersSame ==
    ASSUME LinkTypeOK, NEW c,
           \A d \in Connections : d # c => /\ conn'[d] = conn[d] /\ step'[d] = step[d]
                                          /\ toHost'[d] = toHost[d] /\ toPage'[d] = toPage[d],
           \A d \in Connections : d # c => d # link.socket \/ UNCHANGED <<link, remote>>,
           \A d \in Connections : d # c => (d = link'.socket <=> d = link.socket)
    PROVE  \A d \in Connections : d # c => SameHost(d) /\ SamePage(d)
<1> SUFFICES ASSUME NEW d \in Connections, d # c
             PROVE  SameHost(d) /\ SamePage(d)
  OBVIOUS
<1>1. Kept(toHost[d], toHost'[d], HostTags) /\ Kept(toPage[d], toPage'[d], PageTags)
  BY SameMoves
<1>2. conn'[d] = conn[d] /\ step'[d] = step[d] /\ toPage'[d] = toPage[d] /\ toHost'[d] = toHost[d]
  OBVIOUS
<1> QED
  BY <1>1, <1>2 DEF SamePage, SameHost, Alive, Registering, Snapping

LEMMA ThreadOthers ==
    ASSUME LinkTypeOK, NEW c \in Connections, OneConnection(c),
           \A d \in Connections : d # c => toHost'[d] = toHost[d] /\ toPage'[d] = toPage[d]
    PROVE  \A d \in Connections : d # c => SameHost(d) /\ SamePage(d)
<1>1. UNCHANGED <<link, remote>>
  BY DEF OneConnection, pageVars
<1> QED
  BY <1>1, OthersSame DEF OneConnection

\* The page dials.
LEMMA HandshakeDial ==
    ASSUME LinkTypeOK, Handshakes, Dial
    PROVE  Handshakes'
<1>1. PICK c \in Connections : Dials(c)
  BY Dialled
<1>2. LinkTypeOK'
  BY Dialled
<1>3. /\ conn \in [Connections -> ConnectionRecords] /\ toHost \in [Connections -> Seq(FromPage)]
      /\ conn[c] \in ConnectionRecords /\ link \in LinkRecords /\ StepTyped(c)
  BY DEF LinkTypeOK, ConnectionsTyped, ChannelsTyped, PageTyped
<1>4. /\ link.socket = 0 /\ link'.socket = c /\ conn[c].status = "none"
      /\ conn'[c].status = "new" /\ conn'[c].session = conn[c].session
      /\ conn'[c].subscribed = conn[c].subscribed
      /\ toHost'[c] = <<[type |-> "hello"]>>
      /\ UNCHANGED <<remote, toPage, step>>
      /\ \A d \in Connections : d # c => conn'[d] = conn[d] /\ toHost'[d] = toHost[d]
  BY <1>1, <1>3 DEF Dials, LinkRecords, ConnectionRecords
<1>5. 0 \notin Connections
  BY DEF Connections
<1>6. remote.session_id = NoSession /\ ~remote.connected
  BY <1>4 DEF Handshakes, Known
<1>7. /\ toPage[c] = <<>> /\ ~Serving(c) /\ ~conn[c].subscribed /\ step[c] = Listening
      /\ Ordered(c)
  BY <1>3, <1>4, <1>5 DEF Handshakes, Staged, StepTyped
<1>8. /\ ~Welcoming(c)' /\ ~Showing(c)' /\ ~Tagged(toPage'[c], "session_opened")
  BY <1>4, <1>6, <1>7 DEF Welcoming, Showing, Tagged
<1>9. /\ ~Opening(c)' /\ ~Subscribing(c)' /\ DOMAIN toHost'[c] = {1}
       /\ toHost'[c][1].type = "hello"
  BY <1>4 DEF Opening, Subscribing, Tagged
<1>10. ~Registering(c)' /\ ~Serving(c)' /\ ~Snapping(c)'
  BY <1>4, <1>7 DEF Registering, Serving, Snapping, Listening
<1>11. Ordered(c)'
  BY <1>4, <1>7, <1>9 DEF Ordered, Once, Before
<1>12. Staged(c)'
  BY <1>4, <1>7, <1>8, <1>9, <1>10 DEF Staged
<1>13. Known'
  BY <1>4, <1>8, <1>5, <1>6, <1>10 DEF Opened, Tagged, Handshakes, Known, Alive
<1> QED
  BY <1>2, <1>11, <1>12, <1>13, HandshakeAt, <1>4, <1>5, OthersSame

\* The page leaves its socket.
LEMMA HandshakeDropped ==
    ASSUME LinkTypeOK, Handshakes, Closed \/ Reload
    PROVE  Handshakes'
<1>1. /\ LinkTypeOK' /\ Drops
      /\ remote'.session_id = NoSession /\ ~remote'.connected
  <2>1. CASE Closed
    BY <2>1, ClosedThen DEF PageRecords, LinkTypeOK, PageTyped
  <2>2. CASE Reload
    BY <2>2, Reloaded DEF NewRemote
  <2> QED
    BY <2>1, <2>2
<1>2. PICK c : c = link.socket
  OBVIOUS
<1>3. /\ UNCHANGED <<toHost, conn, step>> /\ link'.socket = 0
      /\ \A d \in Connections : toPage'[d] = IF d = c THEN <<>> ELSE toPage[d]
  BY <1>2, <1>1 DEF Drops, hostVars, connVars
<1>4. 0 \notin Connections
  BY DEF Connections
<1>5. c \in Connections => Ordered(c)' /\ Staged(c)'
  <2> SUFFICES ASSUME NEW d \in Connections, d = c
               PROVE  Ordered(d)' /\ Staged(d)'
    OBVIOUS
  <2>1. Ordered(d)'
    BY <1>1, OrderedMoved, <1>3, SameMoves, DroppedMoves DEF Handshakes, Kept
  <2>2. toPage'[d] = <<>>
    BY <1>3
  <2>3. ~Welcoming(d)' /\ ~Showing(d)' /\ ~Tagged(toPage'[d], "session_opened")
    BY <1>1, <1>3, <2>2 DEF Welcoming, Showing, Tagged
  <2>4. Staged(d)
    BY DEF Handshakes
  <2>5. Staged(d)'
    BY <1>3, <1>4, <2>2, <2>3, <2>4 DEF Staged, Opening, Subscribing, Registering, Serving,
       Snapping
  <2> QED
    BY <2>1, <2>5
<1>6. Known'
  BY <1>3, <1>1, <1>4 DEF Opened, Handshakes, Known, Alive
<1> QED
  BY <1>1, <1>5, <1>6, HandshakeAt, <1>2, <1>3, <1>4, OthersSame

\* The same of a sequence that has a name.
LEMMA JoinedAs ==
    ASSUME NEW S, NEW s \in Seq(S), NEW t \in Seq(S), NEW z, z = s \o t
    PROVE  /\ z \in Seq(S) /\ Len(s) \in Nat
           /\ \A i \in DOMAIN s : i \in DOMAIN z /\ z[i] = s[i] /\ i \in Nat /\ i <= Len(s)
           /\ \A i \in DOMAIN t : i + Len(s) \in DOMAIN z /\ z[i + Len(s)] = t[i] /\ i \in Nat
           /\ \A i \in DOMAIN z : i \in Nat /\ (i \in DOMAIN s \/ i - Len(s) \in DOMAIN t)
BY Joined

\* A page that was welcomed asks for its session and for the state.
LEMMA OpensJoined ==
    ASSUME NEW s \in Seq(FromPage), NEW id, Opens(id) \in Seq(FromPage),
           NEW t \in Seq(FromPage), \A i \in DOMAIN t : t[i].type = "cancel",
           ~Tagged(s, "open_session"), ~Tagged(s, "subscribe"), Once(s, "hello"),
           NEW z, z = s \o (Opens(id) \o t)
    PROVE  /\ Tagged(z, "open_session") /\ Tagged(z, "subscribe")
           /\ Once(z, "hello") /\ Once(z, "open_session") /\ Once(z, "subscribe")
           /\ Before(z, "open_session", "subscribe")
           /\ Tagged(z, "hello") => Tagged(s, "hello")
           /\ Asking(z, id)
<1> DEFINE o == Opens(id)
<1>1. /\ o \in Seq(FromPage) /\ Len(o) = 2 /\ DOMAIN o = {1, 2}
      /\ o[1].type = "open_session" /\ o[2].type = "subscribe" /\ o[1].resume = id
  BY DEF Opens
<1> HIDE DEF o
<1>2. z = s \o (o \o t)
  BY DEF o
<1> DEFINE ot == o \o t
<1>3. z = s \o ot
  BY <1>2
<1>4. ot = o \o t
  OBVIOUS
<1> HIDE DEF ot
<1>5. /\ ot \in Seq(FromPage)
      /\ \A i \in DOMAIN o : i \in DOMAIN ot /\ ot[i] = o[i]
      /\ \A i \in DOMAIN t : i + 2 \in DOMAIN ot /\ ot[i + 2] = t[i]
      /\ \A i \in DOMAIN ot : i \in Nat /\ (i \in DOMAIN o \/ i - 2 \in DOMAIN t)
  <2>1. o \in Seq(FromPage)
    BY <1>1
  <2>2. /\ ot \in Seq(FromPage)
        /\ \A i \in DOMAIN o : i \in DOMAIN ot /\ ot[i] = o[i]
        /\ \A i \in DOMAIN t : i + Len(o) \in DOMAIN ot /\ ot[i + Len(o)] = t[i]
        /\ \A i \in DOMAIN ot : i \in Nat /\ (i \in DOMAIN o \/ i - Len(o) \in DOMAIN t)
    BY <2>1, <1>4, JoinedAs
  <2> QED
    BY <1>1, <2>2
<1>6. /\ 1 \in DOMAIN ot /\ 2 \in DOMAIN ot
      /\ ot[1].type = "open_session" /\ ot[2].type = "subscribe" /\ ot[1].resume = id
      /\ \A i \in DOMAIN ot : i # 1 /\ i # 2 => ot[i].type = "cancel"
  <2>1. ASSUME NEW i \in DOMAIN ot, i # 1, i # 2
        PROVE  ot[i].type = "cancel"
    <3>1. i \in Nat /\ i - 2 \in DOMAIN t
      BY <1>1, <1>5, <2>1
    <3>2. (i - 2) + 2 = i
      BY <3>1
    <3> QED
      BY <3>1, <3>2, <1>5
  <2> QED
    BY <1>1, <1>5, <2>1
<1> DEFINE n == Len(s)
<1>7. /\ n \in Nat
      /\ \A i \in DOMAIN s : i \in DOMAIN z /\ z[i] = s[i] /\ i \in Nat /\ i <= n
      /\ \A i \in DOMAIN ot : i + n \in DOMAIN z /\ z[i + n] = ot[i]
      /\ \A i \in DOMAIN z : i \in Nat /\ (i \in DOMAIN s \/ i - n \in DOMAIN ot)
  BY <1>5, <1>3, JoinedAs
<1> HIDE DEF n
<1>8. /\ 1 + n \in DOMAIN z /\ z[1 + n].type = "open_session" /\ z[1 + n].resume = id
      /\ 2 + n \in DOMAIN z /\ z[2 + n].type = "subscribe"
      /\ \A i \in DOMAIN z : \/ i \in DOMAIN s /\ z[i] = s[i]
                             \/ i = 1 + n \/ i = 2 + n \/ z[i].type = "cancel"
  <2>1. ASSUME NEW i \in DOMAIN z, i \notin DOMAIN s, i # 1 + n, i # 2 + n
        PROVE  z[i].type = "cancel"
    <3>1. i \in Nat /\ i - n \in DOMAIN ot
      BY <1>7, <2>1
    <3>2. z[(i - n) + n] = ot[i - n]
      BY <1>7, <3>1
    <3>3. (i - n) + n = i /\ i - n # 1 /\ i - n # 2
      BY <1>7, <2>1, <3>1
    <3> QED
      BY <1>6, <3>1, <3>2, <3>3
  <2> QED
    BY <1>6, <1>7, <2>1
<1>9. ASSUME NEW i \in DOMAIN z
      PROVE  /\ z[i].type = "open_session" => i = 1 + n /\ z[i].resume = id
             /\ z[i].type = "subscribe" => i = 2 + n
             /\ z[i].type = "hello" => i \in DOMAIN s /\ s[i].type = "hello"
  BY <1>8 DEF Tagged
<1>10. Once(z, "hello") /\ Once(z, "open_session") /\ Once(z, "subscribe")
  <2>1. Once(z, "open_session") /\ Once(z, "subscribe")
    <3>1. \A i, j \in DOMAIN z :
             /\ z[i].type = "open_session" /\ z[j].type = "open_session" => i = j
             /\ z[i].type = "subscribe" /\ z[j].type = "subscribe" => i = j
      BY <1>9
    <3> QED
      BY <3>1 DEF Once
  <2>2. ASSUME NEW i \in DOMAIN z, NEW j \in DOMAIN z, z[i].type = "hello", z[j].type = "hello"
        PROVE  i = j
    BY <1>9, <2>2 DEF Once
  <2> QED
    BY <2>1, <2>2 DEF Once
<1>11. Before(z, "open_session", "subscribe")
  <2>1. 1 + n < 2 + n
    BY <1>7
  <2> QED
    BY <1>9, <2>1 DEF Before
<1>12. Tagged(z, "hello") => Tagged(s, "hello")
  BY <1>9 DEF Tagged
<1>13. Asking(z, id)
  BY <1>9 DEF Asking
<1> QED
  BY <1>10, <1>11, <1>12, <1>13, <1>8 DEF Tagged

\* The others of the page's connection.
LEMMA ConsumedOthers ==
    ASSUME LinkTypeOK, NEW c, c = link.socket, NEW t, NEW posts, Consumed(t, posts),
           link'.socket = link.socket
    PROVE  \A d \in Connections : d # c => SameHost(d) /\ SamePage(d)
BY OthersSame DEF Consumed, hostVars, connVars

\* A message of connection c is taken from the page's end.
LEMMA PageTaken ==
    ASSUME LinkTypeOK, LinkTypeOK', Handshakes, NEW t, NEW posts, Consumed(t, posts),
           NEW c \in Connections, c = link.socket
    PROVE  /\ \A x \in PageTags \ {t} : Tagged(toPage'[c], x) <=> Tagged(toPage[c], x)
           /\ \A x : x # t => Kept(toPage[c], toPage'[c], {x})
           /\ Tagged(toPage[c], t) /\ (Once(toPage[c], t) => ~Tagged(toPage'[c], t))
           /\ Moved(toPage[c], toPage'[c], PageTags)
           /\ UNCHANGED <<conn, step>>
           /\ \A x, y : x # y /\ y = t /\ Before(toPage[c], x, y) => ~Tagged(toPage[c], x)
<1>1. /\ toPage[c] \in Seq(FromHost) /\ toPage[c] # <<>> /\ Head(toPage[c]).type = t
      /\ toPage'[c] = Tail(toPage[c])
      /\ UNCHANGED <<conn, step>>
  BY DEF Consumed, Message, hostVars, connVars
<1>2. \A x : x # t => Kept(toPage[c], toPage'[c], {x})
  BY <1>1, Moves
<1>3. \A x \in PageTags \ {t} : Tagged(toPage'[c], x) <=> Tagged(toPage[c], x)
  BY <1>2, KeptTags
<1>4. Tagged(toPage[c], t) /\ (Once(toPage[c], t) => ~Tagged(toPage'[c], t))
  BY <1>1, FirstTag
<1>5. Moved(toPage[c], toPage'[c], PageTags)
  BY <1>1, Moves
<1> QED
  BY <1>1, <1>2, <1>3, <1>4, <1>5, FirstTag

LEMMA HandshakeWelcomed ==
    ASSUME LinkTypeOK, Handshakes, TakeWelcome
    PROVE  Handshakes'
<1>0. PICK c : c = link.socket
  OBVIOUS
<1> DEFINE id == Resumes(Message.engine)
           cancels == Cancels(remote.pending \cup {"open", "subscribe"})
<1>1. /\ LinkTypeOK' /\ UNCHANGED link /\ Opens(id) \in Seq(FromPage)
      /\ Consumed("welcome", Opens(id) \o cancels)
      /\ remote'.session_id = remote.session_id /\ remote'.connected = remote.connected
  BY WelcomeTaken DEF LinkTypeOK, PageTyped, PageRecords
<1>2. cancels \in Seq(FromPage) /\ \A i \in DOMAIN cancels : cancels[i].type = "cancel"
  BY Cancelling
<1>3. c \in Connections
  BY <1>0, <1>1 DEF Consumed
<1> HIDE DEF id, cancels
<1>4. /\ \A x \in PageTags \ {"welcome"} : Tagged(toPage'[c], x) <=> Tagged(toPage[c], x)
      /\ \A x : x # "welcome" => Kept(toPage[c], toPage'[c], {x})
      /\ Tagged(toPage[c], "welcome")
      /\ Once(toPage[c], "welcome") => ~Tagged(toPage'[c], "welcome")
      /\ Moved(toPage[c], toPage'[c], PageTags)
      /\ UNCHANGED <<conn, step>>
  BY <1>0, <1>1, <1>3, PageTaken
<1>5. Ordered(c) /\ Staged(c)
  BY <1>3 DEF Handshakes
<1>6. toHost'[c] = IF link.ready /\ Alive(c) THEN toHost[c] \o (Opens(id) \o cancels) ELSE toHost[c]
  BY <1>0, <1>1, <1>3 DEF Consumed
<1>7. \A d \in Connections : d # c => SameHost(d) /\ SamePage(d)
  BY <1>0, <1>1, ConsumedOthers
<1>8. toHost[c] \in Seq(FromPage) /\ toPage[c] \in Seq(FromHost) /\ toPage'[c] \in Seq(FromHost)
  BY <1>1, <1>3 DEF LinkTypeOK, ChannelsTyped
<1>9. ~Opening(c) /\ ~Subscribing(c)
  BY <1>4, <1>5 DEF Staged, Welcoming
<1>10. /\ Once(toHost'[c], "hello") /\ Once(toHost'[c], "open_session")
       /\ Once(toHost'[c], "subscribe") /\ Before(toHost'[c], "open_session", "subscribe")
       /\ Tagged(toHost'[c], "hello") => Tagged(toHost[c], "hello")
       /\ Subscribing(c)' => Opening(c)'
  BY <1>1, <1>2, <1>5, <1>6, <1>8, <1>9, OpensJoined DEF Ordered, Opening, Subscribing
<1>11. /\ Once(toPage'[c], "welcome") /\ Once(toPage'[c], "session_opened")
       /\ Before(toPage'[c], "session_opened", "state")
  BY <1>4, <1>5, <1>8, MovedTags DEF PageTags, Ordered
<1>12. /\ ~Welcoming(c)' /\ Showing(c)' = Showing(c)
       /\ Tagged(toPage'[c], "session_opened") <=> Tagged(toPage[c], "session_opened")
       /\ Registering(c)' = Registering(c) /\ Serving(c)' = Serving(c)
       /\ Snapping(c)' = Snapping(c)
  BY <1>1, <1>4, <1>5
     DEF PageTags, Ordered, Welcoming, Showing, Registering, Serving, Snapping
<1>13. Staged(c)'
  BY <1>0, <1>1, <1>4, <1>5, <1>9, <1>10, <1>12 DEF Staged, Welcoming
<1>14. Known'
  <2>1. \A d \in Connections : Kept(toPage[d], toPage'[d], {"session_opened"})
    <3>1. "welcome" \notin {"session_opened"}
      OBVIOUS
    <3> QED
      BY <1>1, <3>1, ConsumedMoves
  <2>2. Known
    BY DEF Handshakes
  <2> QED
    BY <1>0, <1>1, <1>4, <2>1, <2>2, KnownAlike DEF Alive, Known
<1>15. Ordered(c)'
  BY <1>10, <1>11 DEF Ordered
<1> QED
  BY <1>1, <1>7, <1>13, <1>14, <1>15, HandshakeAt

\* A connection whose threads and host end are as they were, and whose page took a message.
LEMMA StagedTaken ==
    ASSUME LinkTypeOK, LinkTypeOK', Handshakes, NEW t \in {"session_opened", "state"},
           NEW posts, Consumed(t, posts), \A i \in DOMAIN posts : posts[i].type \notin HostTags,
           link'.socket = link.socket, link'.ready = link.ready,
           NEW c \in Connections, c = link.socket,
           remote'.connected <=> remote.connected \/ t = "state"
    PROVE  /\ Ordered(c)' /\ Staged(c)'
           /\ \A d \in Connections : d # c => SameHost(d) /\ SamePage(d)
<1>1. /\ \A x \in PageTags \ {t} : Tagged(toPage'[c], x) <=> Tagged(toPage[c], x)
      /\ Tagged(toPage[c], t)
      /\ Moved(toPage[c], toPage'[c], PageTags)
      /\ UNCHANGED <<conn, step>>
  BY PageTaken
<1>2. /\ posts \in Seq(FromPage)
      /\ toHost'[c] = toHost[c] \/ (toHost'[c] = toHost[c] \o posts /\ Alive(c))
      /\ \A d \in Connections : toHost'[d] = toHost[d] \/ toHost'[d] = toHost[d] \o posts
  BY DEF Consumed
<1>3. Kept(toHost[c], toHost'[c], HostTags)
  BY <1>2, PostedMoves
<1>4. Ordered(c) /\ Staged(c)
  BY DEF Handshakes
<1>5. Ordered(c)'
  BY <1>1, <1>3, <1>4, OrderedMoved DEF Kept
<1>6. \A x \in HostTags : Tagged(toHost'[c], x) <=> Tagged(toHost[c], x)
  BY <1>3, KeptTags
<1>7. /\ Showing(c)' = Showing(c)
      /\ Tagged(toPage'[c], "session_opened") => Tagged(toPage[c], "session_opened")
  BY <1>1 DEF PageTags, Showing
<1>8. Staged(c)'
  BY <1>1, <1>2, <1>4, <1>7, <1>6 DEF Staged, Alive, PageTags, Welcoming, HostTags, Opening,
     Subscribing, Registering, Serving, Snapping
<1> QED
  BY <1>5, <1>8, ConsumedOthers

\* The page takes its session.
LEMMA HandshakeSession ==
    ASSUME LinkTypeOK, Handshakes, TakeSessionOpened
    PROVE  Handshakes'
<1>0. PICK c : c = link.socket
  OBVIOUS
<1> DEFINE id == Message.session
           posts == (<<WindowsMessage>> \o Again(id)) \o Cancels(remote.pending \ {"open"})
<1>1. /\ LinkTypeOK' /\ UNCHANGED link /\ id \in SessionIds
      /\ Consumed("session_opened", posts)
      /\ remote'.session_id = id /\ remote'.connected = remote.connected
  BY SessionTaken DEF LinkTypeOK, PageTyped, PageRecords
<1>2. \A i \in DOMAIN posts : posts[i].type \notin HostTags
  <2>1. \A i \in DOMAIN posts : posts[i].type \in {"session_windows", "media_create", "cancel"}
    BY <1>1, SessionPosts, SessionTaken
  <2> HIDE DEF posts
  <2> QED
    BY <2>1 DEF HostTags
<1>3. c \in Connections /\ toPage[c][1].session = id /\ 1 \in DOMAIN toPage[c]
      /\ toPage[c][1].type = "session_opened"
  BY <1>0, <1>1 DEF Consumed
<1> HIDE DEF id, posts
<1>4. /\ Once(toPage[c], "session_opened") => ~Tagged(toPage'[c], "session_opened")
      /\ UNCHANGED <<conn, step>>
  BY <1>0, <1>1, <1>3, PageTaken
<1>5. \A d \in Connections : \A x : ~Opened(d, x)'
  BY <1>0, <1>1, <1>3, <1>4 DEF Opened, Tagged, Consumed, Handshakes, Staged, Ordered
<1>6. Known'
  BY <1>0, <1>1, <1>3, Sessions, <1>4, <1>5 DEF Connections, Alive, Known, Handshakes, Opened
<1> QED
  BY <1>1, <1>3, <1>6, HandshakeAt, <1>0, <1>2, StagedTaken

\* The page takes the state.
LEMMA HandshakeState ==
    ASSUME LinkTypeOK, Handshakes, TakeState
    PROVE  Handshakes'
<1>0. PICK c : c = link.socket
  OBVIOUS
<1> DEFINE posts == Cancels(remote.pending \ {"subscribe"})
<1>1. /\ LinkTypeOK' /\ link'.socket = link.socket /\ link'.ready = link.ready
      /\ Consumed("state", posts)
      /\ remote'.session_id = remote.session_id /\ remote'.connected
  BY StateTaken DEF LinkTypeOK, PageTyped, PageRecords
<1>2. \A i \in DOMAIN posts : posts[i].type \notin HostTags
  <2>1. \A i \in DOMAIN posts : posts[i].type = "cancel"
    BY Cancelling
  <2> HIDE DEF posts
  <2> QED
    BY <2>1 DEF HostTags
<1>3. c \in Connections
  BY <1>0, <1>1 DEF Consumed
<1> HIDE DEF posts
<1>4. /\ Tagged(toPage[c], "state") /\ UNCHANGED <<conn, step>>
      /\ Before(toPage[c], "session_opened", "state") => ~Tagged(toPage[c], "session_opened")
  BY <1>0, <1>1, <1>3, PageTaken
<1>5. Known'
  <2>1. \A d \in Connections : Kept(toPage[d], toPage'[d], {"session_opened"})
    <3>1. "state" \notin {"session_opened"}
      OBVIOUS
    <3> QED
      BY <1>1, <3>1, ConsumedMoves
  <2>2. Known
    BY DEF Handshakes
  <2>3. remote.session_id # NoSession \/ ~Alive(link.socket)
    BY <1>0, <1>3, <1>4, <1>1 DEF Handshakes, Ordered, Staged, Showing, Opened, Tagged,
       Consumed, Known, Serving
  <2>4. link.socket # 0
    BY <1>0, <1>3 DEF Connections
  <2> QED
    BY <1>1, <2>1, <2>2, <2>3, <2>4, KnownAlike, <1>4 DEF Alive
<1> QED
  BY <1>1, <1>3, <1>5, HandshakeAt, <1>0, <1>2, StagedTaken

\* The host takes a message of connection c.
LEMMA HostTaken ==
    ASSUME LinkTypeOK, Handshakes, NEW c \in Connections, NEW t, HostTakes(c, t)
    PROVE  /\ \A x \in HostTags \ {t} : Tagged(toHost'[c], x) <=> Tagged(toHost[c], x)
           /\ Tagged(toHost[c], t) /\ (t \in HostTags => ~Tagged(toHost'[c], t))
           /\ Moved(toHost[c], toHost'[c], HostTags)
           /\ \A d \in Connections : d # c => toHost'[d] = toHost[d]
           /\ t = "subscribe" => ~Opening(c)
<1>1. /\ toHost[c] \in Seq(FromPage) /\ toHost[c] # <<>> /\ Head(toHost[c]).type = t
      /\ toHost'[c] = Tail(toHost[c])
      /\ \A d \in Connections : d # c => toHost'[d] = toHost[d]
  BY Taking DEF Asked
<1>2. \A x : x # t => Kept(toHost[c], toHost'[c], {x})
  BY <1>1, Moves
<1>3. \A x \in HostTags \ {t} : Tagged(toHost'[c], x) <=> Tagged(toHost[c], x)
  BY <1>2, KeptTags
<1>4. t \in HostTags => Once(toHost[c], t)
  BY DEF Handshakes, Ordered, HostTags
<1>5. Moved(toHost[c], toHost'[c], HostTags)
  BY <1>1, Moves
<1>6. t = "subscribe" => ~Opening(c)
  BY <1>1, FirstTag DEF Handshakes, Ordered, Opening
<1> QED
  BY <1>1, <1>3, <1>4, <1>5, <1>6, FirstTag

\* The page may hear of it.
LEMMA PageHears ==
    ASSUME LinkTypeOK, NEW c \in Connections, NEW m \in FromHost, toPage' = Sent(c, m)
    PROVE  /\ \A d \in Connections : d # c => toPage'[d] = toPage[d]
           /\ c # link.socket => toPage'[c] = toPage[c]
           /\ \A x : Tagged(toPage'[c], x) =>
                  Tagged(toPage[c], x) \/ (m.type = x /\ Alive(c) /\ link.socket = c)
           /\ \A x : Tagged(toPage[c], x) => Tagged(toPage'[c], x)
           /\ \A x : Once(toPage[c], x) /\ (m.type = x => ~Tagged(toPage[c], x))
                       => Once(toPage'[c], x)
           /\ \A x, y : Before(toPage[c], x, y) /\ (m.type = x => ~Tagged(toPage[c], y)) /\ x # y
                          => Before(toPage'[c], x, y)
<1>1. toPage'[c] = IF Alive(c) /\ link.socket = c /\ link.ready
                   THEN Append(toPage[c], m) ELSE toPage[c]
  BY Sending
<1>2. toPage[c] \in Seq(FromHost)
  BY DEF LinkTypeOK, ChannelsTyped
<1> DEFINE s == toPage[c]
<1>3. ASSUME NEW x, NEW y
      PROVE  /\ Tagged(Append(s, m), x) <=> Tagged(s, x) \/ m.type = x
             /\ Once(s, x) /\ (m.type = x => ~Tagged(s, x)) => Once(Append(s, m), x)
             /\ Before(s, x, y) /\ (m.type = x => ~Tagged(s, y)) /\ x # y
                  => Before(Append(s, m), x, y)
  BY <1>2, LastTag
<1>4. ASSUME NEW x, NEW y
      PROVE  /\ Tagged(toPage'[c], x) => Tagged(s, x) \/ (m.type = x /\ Alive(c) /\ link.socket = c)
             /\ Tagged(s, x) => Tagged(toPage'[c], x)
             /\ Once(s, x) /\ (m.type = x => ~Tagged(s, x)) => Once(toPage'[c], x)
             /\ Before(s, x, y) /\ (m.type = x => ~Tagged(s, y)) /\ x # y
                  => Before(toPage'[c], x, y)
  <2> HIDE DEF s
  <2>1. CASE toPage'[c] = Append(s, m) /\ Alive(c) /\ link.socket = c
    BY <1>3, <2>1
  <2>2. CASE toPage'[c] = s
    BY <2>2
  <2> QED
    BY <1>1, <2>1, <2>2 DEF s
<1>5. c # link.socket => toPage'[c] = toPage[c]
  BY <1>1
<1> QED
  BY <1>4, <1>5, Sending

\* The order of what the host was sent outlives taking.
LEMMA HostOrder ==
    ASSUME LinkTypeOK, LinkTypeOK', Handshakes, NEW c \in Connections,
           Moved(toHost[c], toHost'[c], HostTags)
    PROVE  /\ Once(toHost'[c], "hello") /\ Once(toHost'[c], "open_session")
           /\ Once(toHost'[c], "subscribe") /\ Before(toHost'[c], "open_session", "subscribe")
<1>1. toHost[c] \in Seq(FromPage) /\ toHost'[c] \in Seq(FromPage) /\ Ordered(c)
  BY DEF LinkTypeOK, ChannelsTyped, Handshakes
<1> QED
  BY <1>1, MovedTags DEF Ordered, HostTags

\* What the page knows is not touched by a step of its connection that sends it no session.
LEMMA KnownThread ==
    ASSUME LinkTypeOK, LinkTypeOK', Known, UNCHANGED <<link, remote>>,
           \A d \in Connections : Kept(toPage[d], toPage'[d], {"session_opened"}),
           \A d \in Connections : Alive(d)' => Alive(d) /\ conn'[d].session = conn[d].session
    PROVE  Known'
<1> QED
  BY KnownAlike DEF Known

LEMMA HandshakeGreeted ==
    ASSUME LinkTypeOK, Handshakes, NEW c \in Connections, Welcome(c)
    PROVE  Handshakes'
<1> DEFINE m == [type |-> "welcome", engine |-> engine]
<1>1. /\ LinkTypeOK' /\ OneConnection(c) /\ m \in FromHost /\ toPage' = Sent(c, m)
      /\ conn'[c].status = "open" /\ conn'[c].session = conn[c].session
      /\ HostTakes(c, "hello") /\ UNCHANGED step
  BY Welcomed, ThreadAt DEF Welcome, ConnectionRecords
<1>2. m.type = "welcome"
  OBVIOUS
<1> HIDE DEF m
<1>3. /\ UNCHANGED <<link, remote>> /\ conn[c].status = "new" /\ step[c] = Listening
      /\ Ordered(c) /\ Staged(c) /\ Known
  BY <1>1, Taking DEF OneConnection, pageVars, Handshakes
<1>4. /\ \A x \in HostTags \ {"hello"} : Tagged(toHost'[c], x) <=> Tagged(toHost[c], x)
      /\ ~Tagged(toHost'[c], "hello")
      /\ Moved(toHost[c], toHost'[c], HostTags)
      /\ \A d \in Connections : d # c => toHost'[d] = toHost[d]
  BY <1>1, HostTaken DEF HostTags
<1>5. /\ \A d \in Connections : d # c => toPage'[d] = toPage[d]
      /\ c # link.socket => toPage'[c] = toPage[c]
      /\ \A x : Tagged(toPage'[c], x) => Tagged(toPage[c], x) \/ m.type = x
      /\ \A x : Once(toPage[c], x) /\ (m.type = x => ~Tagged(toPage[c], x)) => Once(toPage'[c], x)
      /\ \A x, y : Before(toPage[c], x, y) /\ (m.type = x => ~Tagged(toPage[c], y)) /\ x # y
                     => Before(toPage'[c], x, y)
  BY <1>1, PageHears
<1>6. /\ ~Welcoming(c) /\ ~Opening(c) /\ ~Subscribing(c) /\ ~Showing(c) /\ ~Serving(c)
      /\ ~Tagged(toPage[c], "session_opened")
  BY <1>3 DEF Staged
<1>7. /\ ~Opening(c)' /\ ~Subscribing(c)'
  BY <1>4, <1>6 DEF HostTags, Opening, Subscribing
<1>8. Ordered(c)'
  BY <1>2, <1>3, <1>5, <1>6, <1>1, <1>4, HostOrder DEF Welcoming, Ordered
<1>9. Staged(c)'
  BY <1>1, <1>3, <1>4, <1>5, <1>7, <1>2, <1>6 DEF Staged, Showing, Serving, Registering,
     Snapping, Listening
<1>10. Known'
  BY <1>1, <1>2, SentMoves, <1>3, KnownThread DEF Alive, OneConnection
<1> QED
  BY <1>1, <1>8, <1>9, <1>10, HandshakeAt, <1>4, <1>5, ThreadOthers

LEMMA HandshakeOpened ==
    ASSUME LinkTypeOK, Handshakes, NEW c \in Connections, OpenSession(c)
    PROVE  Handshakes'
<1>1. /\ LinkTypeOK' /\ OneConnection(c) /\ HostTakes(c, "open_session")
      /\ UNCHANGED <<toPage, conn>> /\ step'[c][1] = "register"
  BY SessionsOpened
<1>2. /\ UNCHANGED <<link, remote>> /\ conn[c].status = "open"
      /\ Ordered(c) /\ Staged(c) /\ Known
  BY <1>1, Taking DEF OneConnection, pageVars, Handshakes
<1>3. /\ \A x \in HostTags \ {"open_session"} : Tagged(toHost'[c], x) <=> Tagged(toHost[c], x)
      /\ ~Opening(c)' /\ Opening(c)
      /\ Moved(toHost[c], toHost'[c], HostTags)
      /\ \A d \in Connections : d # c => toHost'[d] = toHost[d]
  BY <1>1, HostTaken DEF HostTags, Opening
<1>4. /\ (Subscribing(c)' <=> Subscribing(c))
      /\ Tagged(toHost'[c], "hello") <=> Tagged(toHost[c], "hello")
  BY <1>3 DEF HostTags, Subscribing
<1>5. Ordered(c)'
  BY <1>1, <1>2, <1>3, HostOrder DEF Ordered
<1>6. Staged(c)'
  BY <1>1, <1>2, <1>3, <1>4 DEF Staged, Registering, Snapping, Serving, Welcoming, Showing
<1>7. Known'
  BY <1>1, SameMoves, <1>2, KnownThread DEF Alive
<1> QED
  BY <1>1, <1>5, <1>6, <1>7, HandshakeAt, <1>3, ThreadOthers

LEMMA HandshakeSubscribed ==
    ASSUME LinkTypeOK, Handshakes, NEW c \in Connections, Subscribe(c)
    PROVE  Handshakes'
<1>1. /\ LinkTypeOK' /\ OneConnection(c) /\ HostTakes(c, "subscribe")
      /\ UNCHANGED toPage /\ step'[c][1] = "snapshot"
      /\ conn'[c].session = conn[c].session /\ conn'[c].status = conn[c].status
  <2>1. conn'[c].session = conn[c].session /\ conn'[c].status = conn[c].status
    BY Subscribed, ThreadAt DEF ConnectionRecords
  <2>2. /\ LinkTypeOK' /\ OneConnection(c) /\ HostTakes(c, "subscribe")
        /\ UNCHANGED toPage /\ step'[c] = <<"snapshot">>
    BY Subscribed
  <2> QED
    BY <2>1, <2>2
<1>2. /\ UNCHANGED <<link, remote>> /\ conn[c].status = "open" /\ step[c] = Listening
      /\ Ordered(c) /\ Staged(c) /\ Known
  BY <1>1, Taking DEF OneConnection, pageVars, Handshakes
<1>3. /\ \A x \in HostTags \ {"subscribe"} : Tagged(toHost'[c], x) <=> Tagged(toHost[c], x)
      /\ ~Subscribing(c)' /\ Subscribing(c) /\ ~Opening(c)
      /\ Moved(toHost[c], toHost'[c], HostTags)
      /\ \A d \in Connections : d # c => toHost'[d] = toHost[d]
  BY <1>1, HostTaken DEF HostTags, Subscribing
<1>4. /\ ~Opening(c)'
      /\ Tagged(toHost'[c], "hello") <=> Tagged(toHost[c], "hello")
  BY <1>3 DEF HostTags, Opening
<1>5. Ordered(c)'
  BY <1>1, <1>2, <1>3, HostOrder DEF Ordered
<1>6. Staged(c)'
  BY <1>1, <1>2, <1>3, <1>4 DEF Staged, Registering, Serving, Welcoming, Showing, Listening
<1>7. Known'
  BY <1>1, SameMoves, <1>2, KnownThread DEF Alive, OneConnection
<1> QED
  BY <1>1, <1>5, <1>6, <1>7, HandshakeAt, <1>3, ThreadOthers

LEMMA HandshakeShown ==
    ASSUME LinkTypeOK, Handshakes, NEW c \in Connections, SendState(c)
    PROVE  Handshakes'
<1>1. PICK n \in 0 .. MaxChanges, v \in [Fields -> Values] :
         /\ step[c] = <<"state", n, v>>
         /\ [type |-> "state", revision |-> n, values |-> v] \in FromHost
         /\ toPage' = Sent(c, [type |-> "state", revision |-> n, values |-> v])
  BY StateSent
<1> DEFINE m == [type |-> "state", revision |-> n, values |-> v]
<1>2. /\ LinkTypeOK' /\ OneConnection(c) /\ m \in FromHost /\ toPage' = Sent(c, m)
      /\ conn[c].status = "open" /\ step'[c] = Listening /\ UNCHANGED <<toHost, conn>>
  BY <1>1, StateSent
<1>3. m.type = "state"
  OBVIOUS
<1> HIDE DEF m
<1>4. /\ UNCHANGED <<link, remote>> /\ Ordered(c) /\ Staged(c) /\ Known /\ Snapping(c)
  BY <1>1, <1>2 DEF OneConnection, pageVars, Handshakes, Snapping
<1>5. /\ \A d \in Connections : d # c => toPage'[d] = toPage[d]
      /\ c # link.socket => toPage'[c] = toPage[c]
      /\ \A x : Tagged(toPage'[c], x) => Tagged(toPage[c], x) \/ m.type = x
      /\ \A x : Once(toPage[c], x) /\ (m.type = x => ~Tagged(toPage[c], x)) => Once(toPage'[c], x)
      /\ \A x, y : Before(toPage[c], x, y) /\ (m.type = x => ~Tagged(toPage[c], y)) /\ x # y
                     => Before(toPage'[c], x, y)
  BY <1>2, PageHears
<1>6. /\ ~Welcoming(c) /\ ~Opening(c) /\ ~Subscribing(c) /\ Serving(c)
  BY <1>4 DEF Staged
<1>7. Ordered(c)'
  BY <1>3, <1>4, <1>5, <1>2 DEF Ordered
<1>8. Staged(c)'
  BY <1>2, <1>4, <1>5, <1>3, <1>6 DEF Staged, Welcoming, Opening, Subscribing, Serving,
     Registering, Snapping, Listening
<1>9. Known'
  BY <1>2, <1>3, SentMoves, <1>4, KnownThread DEF Alive
<1> QED
  BY <1>2, <1>7, <1>8, <1>9, HandshakeAt, <1>5, ThreadOthers

\* A session is registered, and its page told.
LEMMA HandshakeRegistered ==
    ASSUME LinkTypeOK, Handshakes, NEW c \in Connections, Register(c)
    PROVE  Handshakes'
<1>1. PICK id \in SessionIds :
        /\ step[c] = <<"register", id>>
        /\ conn'[c] = [conn[c] EXCEPT !.session = id]
        /\ [type |-> "session_opened", session |-> id] \in FromHost
        /\ toPage' = Sent(c, [type |-> "session_opened", session |-> id])
  BY SessionRegistered
<1> DEFINE m == [type |-> "session_opened", session |-> id]
<1>2. /\ LinkTypeOK' /\ OneConnection(c) /\ m \in FromHost /\ toPage' = Sent(c, m)
      /\ conn[c].status = "open" /\ step'[c] = Listening /\ UNCHANGED toHost
      /\ conn'[c].session = id /\ conn'[c].status = "open"
  BY <1>1, SessionRegistered, ThreadAt DEF ConnectionRecords
<1>3. m.type = "session_opened" /\ m.session = id /\ id # NoSession
  BY Sessions
<1> HIDE DEF m
<1>4. /\ UNCHANGED <<link, remote>> /\ Ordered(c) /\ Staged(c) /\ Known /\ Registering(c)
      /\ Alive(c) /\ Alive(c)'
  BY <1>1, <1>2 DEF OneConnection, pageVars, Handshakes, Registering, Alive
<1>5. /\ \A d \in Connections : d # c => toPage'[d] = toPage[d]
      /\ c # link.socket => toPage'[c] = toPage[c]
      /\ \A x : Tagged(toPage'[c], x) => Tagged(toPage[c], x) \/ m.type = x
      /\ \A x : Once(toPage[c], x) /\ (m.type = x => ~Tagged(toPage[c], x)) => Once(toPage'[c], x)
      /\ \A x, y : Before(toPage[c], x, y) /\ (m.type = x => ~Tagged(toPage[c], y)) /\ x # y
                     => Before(toPage'[c], x, y)
  BY <1>2, PageHears
<1>6. toPage[c] \in Seq(FromHost)
  BY DEF LinkTypeOK, ChannelsTyped
<1>7. toPage'[c] = IF link.socket = c /\ link.ready THEN Append(toPage[c], m) ELSE toPage[c]
  BY <1>2, <1>4, Sending
<1>8. /\ ~Welcoming(c) /\ ~Opening(c) /\ ~Showing(c) /\ ~Serving(c)
  BY <1>4 DEF Staged
<1>9. ~Tagged(toPage[c], "session_opened")
  <2>1. ASSUME NEW i \in DOMAIN toPage[c], toPage[c][i].type = "session_opened"
        PROVE  FALSE
    <3>1. toPage[c][i].session \in SessionIds
      BY <2>1, HostMessages, <1>6, SomeMessages
    <3>2. Opened(c, toPage[c][i].session)
      BY <2>1 DEF Opened
    <3> QED
      BY <1>8, <3>1, Sessions, <1>4, <3>2 DEF Serving, Known
  <2> QED
    BY <2>1 DEF Tagged
<1>10. Ordered(c)'
  BY <1>3, <1>4, <1>5, <1>9, <1>8, <1>2 DEF Ordered, Showing
<1>11. Staged(c)'
  BY <1>2, <1>4, <1>5, <1>3, <1>8 DEF Staged, Welcoming, Opening, Showing, Serving,
     Registering, Snapping, Listening
<1>12. \A d \in Connections : d # c => /\ conn'[d] = conn[d]
                                       /\ \A x : Opened(d, x)' <=> Opened(d, x)
  BY <1>2, <1>5 DEF OneConnection, Opened
<1>13. Known'
  <2>1. c = link.socket => remote.session_id = NoSession
    BY <1>4, <1>8 DEF Known, Serving
  <2>2. ASSUME c = link.socket, link.ready
        PROVE  Opened(c, id)'
    BY <1>7, <2>2, <1>2, <1>6, Added, <1>3 DEF Opened
  <2>3. ASSUME NEW x \in SessionIds, Opened(c, x)'
        PROVE  x = id /\ c = link.socket
    BY <1>2, <1>6, <1>7, Added, <1>9, <1>3, <2>3 DEF Tagged, Opened
  <2>4. ASSUME NEW d \in Connections
        PROVE  /\ (d = link.socket /\ link.ready /\ Alive(d) /\ Serving(d))' =>
                    (remote.session_id = conn[d].session \/ Opened(d, conn[d].session))'
               /\ \A x \in SessionIds : Opened(d, x)' =>
                    /\ remote'.session_id = NoSession
                    /\ Alive(d)' => conn'[d].session = x
    BY <1>2, <2>2, <1>4, <2>1, <2>3, <1>5, <1>12 DEF Opened, Known, Alive, Serving
  <2>5. (remote.session_id # NoSession \/ remote.connected => link.socket # 0)'
    BY <1>4 DEF Known
  <2> QED
    BY <2>4, <2>5, LinkAssumption, <1>4, <1>8, <2>1, <1>12 DEF Known, LinkTypeOK, PageTyped,
       LinkRecords, Connections, Showing, Alive
<1> QED
  BY <1>2, <1>10, <1>11, <1>13, HandshakeAt, <1>5, ThreadOthers

\* The host leaves a connection.
LEMMA HandshakeLeft ==
    ASSUME LinkTypeOK, Handshakes, NEW c \in Connections, Leave(c)
    PROVE  Handshakes'
<1>1. /\ LinkTypeOK' /\ OneConnection(c) /\ UNCHANGED toPage
      /\ step[c] = Listening /\ step'[c] = <<"unregister">>
      /\ conn'[c].status = "closing" /\ conn'[c].session = conn[c].session
      /\ \A d \in Connections : toHost'[d] = IF d = c THEN <<>> ELSE toHost[d]
      /\ conn[c].status \in {"new", "open"}
  <2>1. /\ conn'[c] = [conn[c] EXCEPT !.status = "closing", !.subscribed = FALSE, !.queries = {}]
        /\ conn[c] \in ConnectionRecords
    BY HostLeft, ThreadAt
  <2>2. conn'[c].status = "closing" /\ conn'[c].session = conn[c].session
    BY <2>1 DEF ConnectionRecords
  <2> QED
    BY <2>2, HostLeft
<1>2. /\ UNCHANGED <<link, remote>> /\ Ordered(c) /\ Staged(c) /\ Known
      /\ toHost'[c] = <<>>
  BY <1>1 DEF OneConnection, pageVars, Handshakes
<1>3. /\ (Serving(c)' <=> Serving(c)) /\ (Welcoming(c)' <=> Welcoming(c))
      /\ (Showing(c)' <=> Showing(c))
  BY <1>1, <1>2 DEF Serving, Welcoming, Showing
<1>4. Ordered(c)'
  BY <1>1, <1>2 DEF Ordered, Once, Before
<1>5. Staged(c)'
  BY <1>1, <1>2, <1>3 DEF Staged, Opening, Subscribing, Tagged, Registering, Snapping, Alive
<1>6. Known'
  BY <1>1, SameMoves, <1>2, KnownThread DEF Alive, OneConnection
<1> QED
  BY <1>1, <1>4, <1>5, <1>6, HandshakeAt, ThreadOthers

\* The host starts again.
LEMMA HandshakeRestarted ==
    ASSUME LinkTypeOK, Handshakes, Restart
    PROVE  Handshakes'
<1>1. LinkTypeOK' /\ UNCHANGED <<link, remote, toPage>>
  BY Restarted DEF pageVars
<1>2. ASSUME NEW c \in Connections
      PROVE  Ordered(c)' /\ Staged(c)' /\ ~Alive(c)'
  BY Restarted, <1>1 DEF NewConnection, Handshakes, Opening, Subscribing, Tagged, Registering,
     Snapping, Alive, Listening, Serving, Staged, Welcoming, Showing, Ordered, Once, Before
<1> QED
  BY <1>2, <1>1, SameMoves, KnownThread DEF Handshakes, Alive

\* Every step keeps the handshakes.
LEMMA HandshakesKept ==
    ASSUME LinkTypeOK, Handshakes, [Next]_vars
    PROVE  Handshakes'
<1>1. CASE UNCHANGED vars
  BY <1>1, LinkTyped, SameMoves, HostSame, PageSame, HandshakeStays DEF vars, pageVars,
     channelVars, hostVars, connVars
<1>2. CASE Page
  BY <1>2, HandshakeDial, HandshakeDropped, HandshakeWelcomed, HandshakeSession,
     HandshakeState, HandshakeTakesOther, HandshakeActs DEF Page, PageTakes
<1>3. ASSUME NEW c \in Connections, HostStep(c) \/ Leave(c) PROVE Handshakes'
  BY <1>3, HandshakeGreeted, HandshakeOpened, HandshakeRegistered, HandshakeSubscribed,
     HandshakeShown, HandshakeOthers, HandshakeLeft DEF HostStep
<1> QED
  BY <1>1, <1>2, <1>3, HandshakeEngine, HandshakeRestarted DEF Next, Host

LEMMA HandshakesFirst == Init => Handshakes
<1> SUFFICES ASSUME Init PROVE Handshakes
  OBVIOUS
<1>1. /\ link.socket = 0 /\ remote.session_id = NoSession /\ ~remote.connected
      /\ \A c \in Connections : /\ toHost[c] = <<>> /\ toPage[c] = <<>>
                                /\ step[c] = Listening /\ conn[c] = NewConnection
  BY DEF Init, NewLink, NewRemote
<1>2. ASSUME NEW c \in Connections PROVE Ordered(c) /\ Staged(c)
  BY <1>1 DEF Welcoming, Opening, Subscribing, Showing, Tagged, Registering, Snapping, Serving,
     Listening, NewConnection, Ordered, Once, Before, Connections, Staged
<1>3. Known
  BY <1>1 DEF Opened, Connections, Known
<1> QED
  BY <1>2, <1>3 DEF Handshakes

-----------------------------------------------------------------------------
(* Sessions apart.                                                          *)

\* No session is opened, resumed or registered.
LEMMA ApartStays ==
    ASSUME LinkTypeOK, Apart, UNCHANGED <<engine, sessions>>,
           \A x \in SessionIds : remote'.session_id = x \/ remote'.previous = x => Held(x),
           \A c \in Connections : Moved(toPage[c], toPage'[c], {"session_opened"}),
           \A c \in Connections : Moved(toHost[c], toHost'[c], {"open_session"}),
           \A c \in Connections : \/ step'[c] = step[c]
                                  \/ step[c][1] # "register" /\ step'[c][1] # "register",
           \A c \in Connections : conn'[c].session = conn[c].session,
           \A c \in Connections :
             Serving(c) /\ (conn'[c].status = "open" \/ step'[c][1] = "unregister") =>
               conn[c].status = "open" \/ step[c][1] = "unregister"
    PROVE  Apart'
<1>1. ASSUME NEW c \in Connections, NEW x, Opened(c, x)'
      PROVE  Opened(c, x)
  BY <1>1 DEF Opened, Moved
<1>2. ASSUME NEW x \in SessionIds, Held(x)'
      PROVE  Held(x)
  BY <1>1, <1>2 DEF Held
<1>3. ASSUME NEW c \in Connections, NEW x
      PROVE  /\ step'[c] = <<"register", x>> => step[c] = <<"register", x>>
             /\ step[c][1] = "register" <=> step'[c][1] = "register"
  OBVIOUS
<1>4. ASSUME NEW c \in Connections, NEW x \in SessionIds, Resuming(c, x)'
      PROVE  Resuming(c, x)
  BY <1>3, <1>4 DEF Resuming, Moved
<1>5. ASSUME NEW x \in SessionIds, Used(x)'
      PROVE  Used(x)
  BY <1>2, <1>4, <1>5 DEF Used, Registered
<1>6. ASSUME NEW c \in Connections, NEW d \in Connections, NEW x \in SessionIds, Resuming(c, x)'
      PROVE  (~Held(x))' /\ (Resuming(d, x)' => c = d)
  BY <1>2, <1>4, <1>6 DEF Apart
<1>7. ASSUME NEW c \in Connections, NEW x \in SessionIds, step'[c] = <<"register", x>>
      PROVE  x.engine = engine' /\ (~Registered(x))'
  BY <1>3, <1>7 DEF Apart, Registered
<1>8. ASSUME NEW x \in SessionIds, Used(x)'
      PROVE  /\ x.engine <= engine'
             /\ x.engine = engine' => (Serving(x.connection) \/ Registering(x.connection))'
  BY Sessions, <1>5, <1>8, <1>3 DEF Apart, Serving, Registering
<1>9. ASSUME NEW c \in Connections,
              (Serving(c) /\ (conn[c].status = "open" \/ step[c][1] = "unregister"))'
       PROVE  ([id |-> conn[c].session, connection |-> c] \in sessions)'
  BY <1>9 DEF Serving, Apart
<1> QED
  BY <1>6, <1>7, <1>8, <1>9 DEF Apart

\* What connection c was sent is as it was, or part of it.
LEMMA Unopened ==
    ASSUME LinkTypeOK, NEW t, NEW posts, Consumed(t, posts),
           \A i \in DOMAIN posts : posts[i].type # "open_session"
    PROVE  /\ \A c \in Connections : Moved(toPage[c], toPage'[c], {"session_opened"})
           /\ \A c \in Connections : Moved(toHost[c], toHost'[c], {"open_session"})
           /\ UNCHANGED <<conn, step, engine, sessions>>
<1>1. \A c \in Connections : toHost'[c] = toHost[c] \/ toHost'[c] = toHost[c] \o posts
  BY DEF Consumed
<1>2. \A c \in Connections : Kept(toHost[c], toHost'[c], {"open_session"})
  BY <1>1, PostedMoves DEF Consumed
<1>3. UNCHANGED <<conn, step, engine, sessions>>
  BY DEF Consumed, hostVars, connVars, engineVars
<1> QED
  BY <1>2, <1>3, ConsumedMoves DEF Kept

LEMMA ApartConsumed ==
    ASSUME LinkTypeOK, Apart, NEW t, NEW posts, Consumed(t, posts),
           \A i \in DOMAIN posts : posts[i].type # "open_session",
           \A x \in SessionIds : remote'.session_id = x \/ remote'.previous = x => Held(x)
    PROVE  Apart'
<1> QED
  BY ApartStays, Unopened

LEMMA ApartTakes ==
    ASSUME LinkTypeOK, Apart, TakeSessionOpened \/ TakeState \/ TakeUpdate \/ TakeResult \/ TakeError
    PROVE  Apart'
<1>0. remote \in PageRecords
  BY DEF LinkTypeOK, PageTyped
<1>1. CASE TakeSessionOpened
  <2> DEFINE posts == (<<WindowsMessage>> \o Again(Message.session)) \o Cancels(remote.pending \ {"open"})
  <2>1. /\ Message.session \in SessionIds /\ WindowsMessage \in FromPage
        /\ Consumed("session_opened", posts)
        /\ remote'.session_id = Message.session /\ remote'.previous = remote.previous
    BY <1>0, <1>1, SessionTaken DEF PageRecords
  <2>2. \A i \in DOMAIN posts : posts[i].type # "open_session"
    <3>1. \A i \in DOMAIN posts : posts[i].type \in {"session_windows", "media_create", "cancel"}
      BY <2>1, SessionPosts
    <3> HIDE DEF posts
    <3> QED
      BY <3>1
  <2> HIDE DEF posts
  <2> QED
    BY <2>1, <2>2, ApartConsumed DEF Held, Consumed, Opened
<1>2. CASE TakeState
  <2> DEFINE posts == Cancels(remote.pending \ {"subscribe"})
  <2>1. /\ Consumed("state", posts)
        /\ remote'.session_id = remote.session_id /\ remote'.previous = remote.previous
    BY <1>0, <1>2, StateTaken DEF PageRecords
  <2>2. \A i \in DOMAIN posts : posts[i].type = "cancel"
    BY Cancelling
  <2> HIDE DEF posts
  <2> QED
    BY <2>1, <2>2, ApartConsumed DEF Held
<1>3. CASE TakeUpdate
  <2>1. PICK posts : /\ \A i \in DOMAIN posts : posts[i].type = "cancel"
                     /\ Consumed("update", posts)
    BY <1>3, UpdateTaken
  <2> QED
    BY <2>1, ApartConsumed, <1>0, <1>3, UpdateTaken DEF Held, PageRecords
<1>4. CASE TakeResult
  <2> DEFINE posts == Cancels(remote.pending \ {Message.request})
  <2>1. /\ Consumed("result", posts)
        /\ remote'.session_id = remote.session_id /\ remote'.previous = remote.previous
    BY <1>0, <1>4, ResultTaken DEF PageRecords
  <2>2. \A i \in DOMAIN posts : posts[i].type = "cancel"
    BY Cancelling
  <2> HIDE DEF posts
  <2> QED
    BY <2>1, <2>2, ApartConsumed DEF Held
<1>5. CASE TakeError
  <2>1. PICK posts : Consumed("error", posts)
    BY <1>5, ErrorTaken
  <2>2. /\ remote'.session_id = remote.session_id /\ remote'.previous = remote.previous
        /\ ~link'.ready
    BY <1>0, <1>5, ErrorTaken DEF PageRecords, LinkTypeOK, PageTyped, LinkRecords
  <2>3. /\ \A c \in Connections : toHost'[c] = toHost[c]
        /\ UNCHANGED <<conn, step, engine, sessions>>
    BY <2>1, <2>2 DEF Consumed, hostVars, connVars, engineVars
  <2>4. \A c \in Connections : Moved(toPage[c], toPage'[c], {"session_opened"})
    BY <2>1, ConsumedMoves
  <2> QED
    BY <2>2, <2>3, <2>4, ApartStays, SameMoves DEF Held, Kept
<1> QED
  BY <1>1, <1>2, <1>3, <1>4, <1>5

LEMMA ApartPosted ==
    ASSUME LinkTypeOK, Apart, NEW posts, Posts(posts),
           \A i \in DOMAIN posts : posts[i].type # "open_session",
           remote'.session_id = remote.session_id, remote'.previous = remote.previous
    PROVE  Apart'
<1>1. /\ UNCHANGED <<toPage, conn, step, engine, sessions>> /\ posts \in Seq(FromPage)
      /\ \A c \in Connections : toHost'[c] = toHost[c] \/ toHost'[c] = toHost[c] \o posts
  BY DEF Posts, hostVars, connVars, engineVars
<1>2. \A c \in Connections : Moved(toHost[c], toHost'[c], {"open_session"})
  BY <1>1, PostedMoves DEF Kept
<1> QED
  BY <1>1, <1>2, ApartStays, SameMoves DEF Held, Kept

LEMMA ApartActs ==
    ASSUME LinkTypeOK, Apart,
           \/ \E r \in Requests : Dispatch(r)
           \/ \E q \in Queries : Supersede(q)
           \/ \E w \in Windows : OpenWindow(w) \/ CloseWindow(w)
    PROVE  Apart'
<1>0. remote \in PageRecords
  BY DEF LinkTypeOK, PageTyped
<1>1. ASSUME NEW r \in Requests, Dispatch(r) PROVE Apart'
  <2>1. PICK posts : Posts(posts) /\ \A i \in DOMAIN posts : posts[i].type # "open_session"
    BY <1>1, DispatchPosts
  <2> QED
    BY <2>1, ApartPosted, <1>0, <1>1, Dispatched DEF PageRecords
<1>2. ASSUME NEW q \in Queries, Supersede(q) PROVE Apart'
  BY <1>2, Superseded, SameMoves, ApartStays DEF channelVars, hostVars, connVars, engineVars,
     Kept, Held
<1>3. ASSUME NEW w \in Windows, OpenWindow(w) \/ CloseWindow(w) PROVE Apart'
  <2>1. PICK posts : Posts(posts) /\ \A i \in DOMAIN posts : posts[i].type # "open_session"
    BY <1>3, WindowPosts
  <2> QED
    BY <2>1, ApartPosted, <1>3, WindowChanged
<1> QED
  BY <1>1, <1>2, <1>3

LEMMA ApartDialled ==
    ASSUME LinkTypeOK, Handshakes, Apart, Dial
    PROVE  Apart'
<1>1. PICK c \in Connections : Dials(c)
  BY Dialled
<1>2. conn[c].status = "none" /\ UNCHANGED <<remote, toPage, step, engine, sessions>>
  BY <1>1 DEF Dials, engineVars
<1>3. /\ conn'[c].session = conn[c].session /\ conn'[c].status = "new"
      /\ \A d \in Connections : d # c => conn'[d] = conn[d]
      /\ toHost'[c] = <<[type |-> "hello"]>> /\ [type |-> "hello"].type = "hello"
      /\ \A d \in Connections : d # c => toHost'[d] = toHost[d]
  BY <1>1 DEF Dials, LinkTypeOK, ConnectionsTyped, ChannelsTyped, ConnectionRecords
<1>4. ASSUME NEW d \in Connections
      PROVE  Moved(toHost[d], toHost'[d], {"open_session"})
  <2>1. CASE d = c
    BY <1>3, <2>1 DEF Moved
  <2>2. CASE d # c
    BY <1>3, <2>2, SameMoves DEF Kept
  <2> QED
    BY <2>1, <2>2
<1>5. ASSUME NEW d \in Connections,
             Serving(d) /\ (conn'[d].status = "open" \/ step'[d][1] = "unregister")
      PROVE  conn[d].status = "open" \/ step[d][1] = "unregister"
  BY <1>2, <1>3, <1>5
<1> QED
  BY <1>2, <1>3, <1>4, <1>5, ApartStays, SameMoves DEF Held, Kept

LEMMA ApartDropped ==
    ASSUME LinkTypeOK, Apart, Closed \/ Reload
    PROVE  Apart'
<1>1. Drops
  BY ClosedThen, Reloaded
<1>2. \A x \in SessionIds : remote'.session_id = x \/ remote'.previous = x => Held(x)
  <2>1. remote \in PageRecords
    BY DEF LinkTypeOK, PageTyped
  <2>2. CASE Closed
    <3> QED
      BY Sessions, <2>1, <2>2, ClosedThen DEF Held, PageRecords
  <2>3. CASE Reload
    BY <2>3, Reloaded, Sessions DEF NewRemote
  <2> QED
    BY <2>2, <2>3
<1>3. UNCHANGED <<toHost, conn, step, engine, sessions>>
  BY <1>1 DEF Drops, hostVars, connVars, engineVars
<1> QED
  BY <1>2, <1>3, ApartStays, <1>1, DroppedMoves, SameMoves DEF Kept

\* A page that comes back asks for the session it had, which is nobody else's then.
LEMMA ApartWelcomed ==
    ASSUME LinkTypeOK, Handshakes, Apart, TakeWelcome
    PROVE  Apart'
<1>0. PICK c : c = link.socket
  OBVIOUS
<1> DEFINE id == Resumes(Message.engine)
           cancels == Cancels(remote.pending \cup {"open", "subscribe"})
<1>1. /\ LinkTypeOK' /\ UNCHANGED link /\ Opens(id) \in Seq(FromPage)
      /\ Consumed("welcome", Opens(id) \o cancels)
      /\ remote'.session_id = remote.session_id /\ remote'.previous = NoSession
      /\ id = NoSession \/ id = remote.previous
  BY WelcomeTaken DEF LinkTypeOK, PageTyped, PageRecords, Resumes
<1>2. cancels \in Seq(FromPage) /\ \A i \in DOMAIN cancels : cancels[i].type = "cancel"
  BY Cancelling
<1>3. c \in Connections
  BY <1>0, <1>1 DEF Consumed
<1> HIDE DEF id, cancels
<1>4. /\ UNCHANGED <<conn, step, engine, sessions>>
      /\ toHost'[c] = IF link.ready /\ Alive(c)
                      THEN toHost[c] \o (Opens(id) \o cancels) ELSE toHost[c]
      /\ \A d \in Connections : d # c => toHost'[d] = toHost[d]
  BY <1>0, <1>1, <1>3 DEF Consumed, hostVars, connVars, engineVars
<1>5. \A d \in Connections : Moved(toPage[d], toPage'[d], {"session_opened"})
  BY <1>1, ConsumedMoves
<1>6. CASE ~(link.ready /\ Alive(c))
  BY <1>4, <1>6, SameMoves, <1>5, ApartStays, <1>1, Sessions DEF Kept, Held
<1>7. CASE link.ready /\ Alive(c)
  <2>1. /\ ~Opening(c) /\ ~Subscribing(c) /\ ~Serving(c) /\ Ordered(c) /\ Known
    BY <1>0, <1>1, <1>3, PageTaken DEF Handshakes, Staged, Welcoming
  <2>2. \A i \in DOMAIN toHost'[c] :
          toHost'[c][i].type = "open_session" => toHost'[c][i].resume = id
    <3>1. toHost[c] \in Seq(FromPage)
      BY <1>3 DEF LinkTypeOK, ChannelsTyped
    <3>2. Asking(toHost'[c], id)
      BY <1>2, <3>1, OpensJoined, <1>1, <1>4, <1>7, <2>1 DEF Ordered, Opening, Subscribing
    <3> QED
      BY <3>2 DEF Asking
  <2>3. \A x \in SessionIds : ~Opened(c, x)
    BY <1>3, <1>7, <2>1, Sessions DEF Known, Serving
  <2>4. remote.session_id = NoSession
    BY <1>0, <1>7, <2>1 DEF Known, Serving
  <2>5. \A x \in SessionIds : ~(remote'.session_id = x \/ remote'.previous = x)
    BY <1>1, <2>4, Sessions
  <2>6. ASSUME NEW x \in SessionIds PROVE ~Held(x)'
    BY <1>5, <2>3, <1>0, <2>5 DEF Opened, Moved, Handshakes, Staged, Held
  <2>7. ASSUME NEW d \in Connections, NEW x \in SessionIds, Resuming(d, x)'
        PROVE  Resuming(d, x) \/ (d = c /\ x = remote.previous)
    BY <1>4, <2>2, <2>7, <1>1, Sessions DEF Resuming
  <2>8. ASSUME NEW d \in Connections, NEW e \in Connections, NEW x \in SessionIds, Resuming(d, x)'
        PROVE  (~Held(x))' /\ (Resuming(e, x)' => d = e)
    BY <2>6, <2>7, <2>8 DEF Apart, Held
  <2>9. ASSUME NEW x \in SessionIds, Used(x)'
         PROVE  Used(x)
    BY <2>7, <1>4, <2>6, <2>9 DEF Used, Held, Registered
  <2>10. ASSUME NEW x \in SessionIds, Used(x)'
         PROVE  /\ x.engine <= engine'
                /\ x.engine = engine' => (Serving(x.connection) \/ Registering(x.connection))'
    BY <1>4, <2>9, <2>10 DEF Apart, Serving, Registering
  <2>11. ASSUME NEW d \in Connections, NEW x \in SessionIds, step'[d] = <<"register", x>>
         PROVE  x.engine = engine' /\ (~Registered(x))'
    BY <1>4, <2>11 DEF Apart, Registered
  <2>12. ASSUME NEW d \in Connections,
                (Serving(d) /\ (conn[d].status = "open" \/ step[d][1] = "unregister"))'
         PROVE  ([id |-> conn[d].session, connection |-> d] \in sessions)'
    BY <1>4, <2>12 DEF Apart, Serving
  <2> QED
    BY <2>8, <2>10, <2>11, <2>12, <1>4 DEF Apart
<1> QED
  BY <1>6, <1>7

\* A step of connection c that neither registers nor forgets a session.
LEMMA ApartThread ==
    ASSUME LinkTypeOK, Apart, NEW c \in Connections, OneConnection(c),
           UNCHANGED <<engine, sessions>>,
           \A d \in Connections : Moved(toPage[d], toPage'[d], {"session_opened"}),
           \A d \in Connections : Moved(toHost[d], toHost'[d], {"open_session"}),
           step'[c] = step[c] \/ (step[c][1] # "register" /\ step'[c][1] # "register"),
           conn'[c].session = conn[c].session,
           Serving(c) /\ (conn'[c].status = "open" \/ step'[c][1] = "unregister") =>
             conn[c].status = "open" \/ step[c][1] = "unregister"
    PROVE  Apart'
<1>1. UNCHANGED remote
  BY DEF OneConnection, pageVars
<1>2. ASSUME NEW d \in Connections
      PROVE  /\ step'[d] = step[d] \/ (step[d][1] # "register" /\ step'[d][1] # "register")
             /\ conn'[d].session = conn[d].session
             /\ Serving(d) /\ (conn'[d].status = "open" \/ step'[d][1] = "unregister") =>
                  conn[d].status = "open" \/ step[d][1] = "unregister"
  BY DEF OneConnection
<1> QED
  BY <1>1, <1>2, ApartStays DEF Held

\* The host answers without a session.
LEMMA SentNoSession ==
    ASSUME LinkTypeOK, NEW c \in Connections, NEW m \in FromHost, m.type # "session_opened",
           toPage' = Sent(c, m)
    PROVE  \A d \in Connections : Moved(toPage[d], toPage'[d], {"session_opened"})
BY SentMoves DEF Kept

LEMMA ApartOthers ==
    ASSUME LinkTypeOK, Handshakes, Apart, NEW c \in Connections,
           \/ Welcome(c) \/ Subscribe(c) \/ Snapshot(c) \/ SendState(c) \/ Command(c) \/ Cancel(c)
           \/ ReportWindows(c) \/ CreatePlayer(c) \/ ReleasePlayer(c) \/ ReleaseWindow(c)
           \/ Leave(c) \/ ReleaseReported(c) \/ Gone(c)
    PROVE  Apart'
<1>0. conn[c] \in ConnectionRecords
  BY ThreadAt
<1>1. ASSUME UNCHANGED toPage
      PROVE  \A d \in Connections : Moved(toPage[d], toPage'[d], {"session_opened"})
  BY <1>1, SameMoves DEF Kept
<1>2. ASSUME UNCHANGED toHost
      PROVE  \A d \in Connections : Moved(toHost[d], toHost'[d], {"open_session"})
  BY <1>2, SameMoves DEF Kept
<1>3. ASSUME NEW t, HostTakes(c, t)
      PROVE  /\ \A d \in Connections : Moved(toHost[d], toHost'[d], {"open_session"})
             /\ step[c] = Listening /\ conn[c].status = IF t = "hello" THEN "new" ELSE "open"
  BY <1>3, TakenMoves, Taking
<1>4. CASE Welcome(c)
  <2> DEFINE m == [type |-> "welcome", engine |-> engine]
  <2>1. /\ OneConnection(c) /\ UNCHANGED <<engine, sessions, step>> /\ HostTakes(c, "hello")
        /\ m \in FromHost /\ toPage' = Sent(c, m)
        /\ conn'[c].session = conn[c].session
    <3>1. conn'[c].session = conn[c].session
      BY <1>0, <1>4, Welcomed DEF ConnectionRecords
    <3> QED
      BY <1>4, <3>1, Welcomed DEF Welcome, engineVars
  <2>2. m.type # "session_opened"
    OBVIOUS
  <2> HIDE DEF m
  <2> QED
    BY <1>3, <2>1, <2>2, SentNoSession, ApartThread DEF Handshakes, Staged
<1>5. CASE Subscribe(c)
  <2>1. /\ OneConnection(c) /\ UNCHANGED <<engine, sessions, toPage>>
        /\ HostTakes(c, "subscribe") /\ step'[c] = <<"snapshot">>
    BY <1>5, Subscribed DEF engineVars
  <2>2. conn'[c].session = conn[c].session /\ conn'[c].status = conn[c].status
    BY <1>0, <1>5, Subscribed DEF ConnectionRecords
  <2> QED
    BY <1>1, <1>3, <2>1, <2>2, ApartThread DEF Listening
<1>6. CASE Snapshot(c)
  BY <1>6, Snapshotted, <1>1, <1>2, ApartThread DEF engineVars, channelVars
<1>7. CASE SendState(c)
  <2>1. PICK n \in 0 .. MaxChanges, v \in [Fields -> Values] :
         /\ step[c] = <<"state", n, v>>
         /\ [type |-> "state", revision |-> n, values |-> v] \in FromHost
         /\ toPage' = Sent(c, [type |-> "state", revision |-> n, values |-> v])
    BY <1>7, StateSent
  <2> DEFINE m == [type |-> "state", revision |-> n, values |-> v]
  <2>2. /\ OneConnection(c) /\ m \in FromHost /\ toPage' = Sent(c, m)
        /\ step'[c] = Listening /\ UNCHANGED <<toHost, conn, engine, sessions>>
    BY <1>7, <2>1, StateSent DEF engineVars
  <2>3. m.type # "session_opened"
    OBVIOUS
  <2> HIDE DEF m
  <2> QED
    BY <1>2, <2>2, <2>3, SentNoSession, ApartThread, <2>1 DEF Listening
<1>8. CASE Command(c) \/ Cancel(c) \/ ReportWindows(c)
  <2>1. conn'[c].session = conn[c].session /\ conn'[c].status = conn[c].status
    <3>1. CASE Command(c) \/ Cancel(c)
      <4>1. PICK q : conn'[c] = [conn[c] EXCEPT !.queries = q]
        BY <3>1, Commanded, QueryCancelled
      <4> QED
        BY <1>0, <4>1 DEF ConnectionRecords
    <3>2. CASE ReportWindows(c)
      <4>1. PICK ws : conn'[c] = [conn[c] EXCEPT !.listed = Asked(c).windows, !.windows = ws]
        BY <3>2, ReportTaken
      <4> QED
        BY <1>0, <4>1 DEF ConnectionRecords
    <3> QED
      BY <1>8, <3>1, <3>2
  <2>2. \A d \in Connections : Moved(toHost[d], toHost'[d], {"open_session"})
    BY <1>3, <1>8 DEF Command, Cancel, ReportWindows
  <2> QED
    BY <1>1, <2>1, <2>2, ApartThread, <1>8, Commanded, QueryCancelled, ReportTaken DEF
       engineVars
<1>9. CASE CreatePlayer(c) \/ ReleasePlayer(c) \/ ReleaseWindow(c)
  <2>1. /\ OneConnection(c) /\ UNCHANGED <<conn, step, engine, sessions>>
        /\ [type |-> "error"] \in FromHost
        /\ toPage' = toPage \/ toPage' = Sent(c, [type |-> "error"])
    BY <1>9, PlayerAsked DEF engineVars
  <2>2. PICK t \in {"media_create", "media_release", "media_release_window"} : HostTakes(c, t)
    BY <1>9, PlayerAsked
  <2> QED
    BY <1>3, <2>1, <2>2, ApartThread, SentNoSession, <1>1
<1>10. CASE Leave(c)
  <2>1. /\ OneConnection(c) /\ UNCHANGED <<toPage, engine, sessions>>
        /\ conn[c].status \in {"new", "open"}
        /\ step[c] = Listening /\ step'[c] = <<"unregister">>
        /\ \A d \in Connections : toHost'[d] = IF d = c THEN <<>> ELSE toHost[d]
    BY <1>10, HostLeft DEF engineVars
  <2>2. conn'[c].session = conn[c].session
    BY <1>0, <1>10, HostLeft DEF ConnectionRecords
  <2>3. Serving(c) => conn[c].status = "open"
    BY <2>1 DEF Handshakes, Staged
  <2>4. step[c][1] # "register" /\ step'[c][1] # "register"
    BY <2>1 DEF Listening
  <2> QED
    BY <1>1, <2>1, <2>2, <2>3, <2>4, ApartThread, SameMoves, Moves DEF Kept
<1>11. CASE ReleaseReported(c)
  <2>1. PICK ws : conn'[c] = [conn[c] EXCEPT !.windows = ws]
    BY <1>11, ReportedReleased
  <2>2. conn'[c].session = conn[c].session /\ conn'[c].status = conn[c].status
    BY <1>0, <2>1 DEF ConnectionRecords
  <2> QED
    BY <1>1, <1>2, <2>2, ApartThread, <1>11, ReportedReleased DEF engineVars, channelVars
<1>12. CASE Gone(c)
  <2>1. /\ conn'[c] = [conn[c] EXCEPT !.status = "gone"]
        /\ step[c] = <<"release">> /\ step'[c] = Listening
        /\ OneConnection(c) /\ UNCHANGED <<toPage, toHost, engine, sessions>>
    BY <1>12, ConnectionGone DEF engineVars, channelVars
  <2>2. conn'[c].session = conn[c].session /\ conn'[c].status = "gone"
    BY <1>0, <2>1 DEF ConnectionRecords
  <2>3. step[c][1] # "register" /\ step'[c][1] # "register" /\ step'[c][1] # "unregister"
    BY <2>1 DEF Listening
  <2> QED
    BY <1>1, <1>2, <2>1, <2>2, <2>3, ApartThread
<1> QED
  BY <1>4, <1>5, <1>6, <1>7, <1>8, <1>9, <1>10, <1>11, <1>12

\* A session is chosen: the one asked for, which nobody has, or a new one.
LEMMA ApartOpened ==
    ASSUME LinkTypeOK, Handshakes, Apart, NEW c \in Connections, OpenSession(c)
    PROVE  Apart'
<1>1. /\ OneConnection(c) /\ HostTakes(c, "open_session")
      /\ UNCHANGED <<toPage, conn, engine, sessions>>
  BY SessionsOpened DEF engineVars
<1>2. PICK id \in SessionIds :
        /\ step'[c] = <<"register", id>>
        /\ \/ id = Asked(c).resume /\ id.engine = engine /\ ~Registered(id)
           \/ id = [engine |-> engine, connection |-> c]
  BY SessionsOpened
<1>3. /\ step[c] = Listening /\ conn[c].status = "open"
      /\ \A d \in Connections : Moved(toHost[d], toHost'[d], {"open_session"})
      /\ \A d \in Connections : d # c => step'[d] = step[d]
      /\ UNCHANGED remote
      /\ 1 \in DOMAIN toHost[c] /\ Asked(c) = toHost[c][1] /\ Asked(c).type = "open_session"
  <2>1. \A d \in Connections : Moved(toHost[d], toHost'[d], {"open_session"})
    BY <1>1, TakenMoves
  <2>2. (\A d \in Connections : d # c => step'[d] = step[d]) /\ UNCHANGED remote
    BY <1>1 DEF OneConnection, pageVars
  <2> QED
    BY <2>1, <2>2, <1>1, Taking
<1>4. \/ Resuming(c, id) /\ id.engine = engine /\ ~Registered(id)
      \/ ~Used(id) /\ id.engine = engine /\ id.connection = c
  BY <1>3, <1>2, <1>1, HostTaken DEF Resuming, Apart, Opening, Handshakes, Staged
<1>5. ASSUME NEW d \in Connections, NEW x \in SessionIds, Resuming(d, x)'
      PROVE  Resuming(d, x) \/ (d = c /\ x = id)
  BY <1>3, <1>2, <1>5 DEF Moved, Resuming
<1>6. ASSUME NEW d \in Connections, NEW e \in Connections, NEW x \in SessionIds, Resuming(d, x)'
      PROVE  (~Held(x))' /\ (Resuming(e, x)' => d = e)
  BY <1>5, <1>6, <1>4, <1>1, <1>3 DEF Apart, Used, Held, Registered, Opened
<1>7. ASSUME NEW d \in Connections, NEW x \in SessionIds, step'[d] = <<"register", x>>
      PROVE  x.engine = engine' /\ (~Registered(x))'
  BY <1>2, <1>7, <1>4, <1>1, <1>3 DEF Used, Registered, Apart
<1>8. ASSUME NEW x \in SessionIds, Used(x)'
       PROVE  /\ x.engine <= engine'
              /\ x.engine = engine' => (Serving(x.connection) \/ Registering(x.connection))'
  BY <1>5, <1>1, <1>3, <1>8, <1>2, Sessions, ThreadAt, <1>4 DEF Used, Registered, Held,
     Opened, Registering, Apart, Serving
<1>9. ASSUME NEW d \in Connections,
              (Serving(d) /\ (conn[d].status = "open" \/ step[d][1] = "unregister"))'
       PROVE  ([id |-> conn[d].session, connection |-> d] \in sessions)'
  BY <1>1, <1>2, <1>3, <1>9 DEF Serving, Apart
<1> QED
  BY <1>6, <1>7, <1>8, <1>9, <1>1 DEF Apart

\* The chosen session is registered.
LEMMA ApartRegistered ==
    ASSUME LinkTypeOK, Handshakes, Apart, NEW c \in Connections, Register(c)
    PROVE  Apart'
<1>1. PICK id \in SessionIds :
        /\ step[c] = <<"register", id>>
        /\ sessions' = {s \in sessions : s.id # id} \cup {[id |-> id, connection |-> c]}
        /\ conn'[c] = [conn[c] EXCEPT !.session = id]
        /\ [type |-> "session_opened", session |-> id] \in FromHost
        /\ toPage' = Sent(c, [type |-> "session_opened", session |-> id])
  BY SessionRegistered
<1>2. /\ OneConnection(c) /\ step'[c] = Listening /\ UNCHANGED <<toHost, engine>>
      /\ conn[c].status = "open" /\ UNCHANGED remote
      /\ \A d \in Connections : d # c => conn'[d] = conn[d] /\ step'[d] = step[d]
  BY SessionRegistered DEF engineVars, OneConnection, pageVars
<1>3. conn'[c].session = id /\ Registering(c)
  BY <1>1, ThreadAt DEF ConnectionRecords, Registering
<1>4. ~Registered(id) /\ id.engine = engine /\ Resuming(c, id)
  BY <1>1 DEF Apart, Resuming
<1>5. sessions' = sessions \cup {[id |-> id, connection |-> c]}
  BY <1>1, <1>4 DEF Registered
<1>6. ~Opening(c)
  BY <1>3 DEF Handshakes, Staged
<1>7. ASSUME NEW d \in Connections, NEW x \in SessionIds, Resuming(d, x)'
      PROVE  Resuming(d, x) /\ x # id /\ d # c
  BY <1>2, <1>6, <1>7, <1>4 DEF Listening, Resuming, Opening, Tagged, Apart
<1>8. ASSUME NEW x \in SessionIds, Held(x)'
      PROVE  Held(x) \/ x = id
  <2>1. ASSUME NEW d \in Connections, Opened(d, x)' PROVE Held(x) \/ x = id
    <3> DEFINE m == [type |-> "session_opened", session |-> id]
    <3>1. toPage[d] \in Seq(FromHost)
      BY DEF LinkTypeOK, ChannelsTyped
    <3>2. m \in FromHost /\ m.session = id /\ toPage' = Sent(c, m)
      BY <1>1
    <3> HIDE DEF m
    <3>3. toPage'[d] = toPage[d] \/ toPage'[d] = Append(toPage[d], m)
      BY <3>2, Sending
    <3> QED
      BY <2>1, <3>2, <3>1, <3>3, Added DEF Opened, Held
  <2> QED
    BY <1>2, <1>8, <2>1 DEF Held
<1>9. ASSUME NEW d \in Connections, NEW e \in Connections, NEW x \in SessionIds, Resuming(d, x)'
      PROVE  (~Held(x))' /\ (Resuming(e, x)' => d = e)
  BY <1>7, <1>9, <1>8 DEF Apart
<1>10. ASSUME NEW d \in Connections, NEW x \in SessionIds, step'[d] = <<"register", x>>
       PROVE  x.engine = engine' /\ (~Registered(x))'
  BY <1>2, <1>10, <1>4, <1>5 DEF Listening, Resuming, Apart, Registered
<1>11. ASSUME NEW x \in SessionIds, Used(x)'
       PROVE  /\ x.engine <= engine'
              /\ x.engine = engine' => (Serving(x.connection) \/ Registering(x.connection))'
  <2>1. Used(x)
    <3>1. Used(id)
      BY <1>4 DEF Used
    <3>2. ASSUME NEW d \in Connections, Resuming(d, x)' PROVE Used(x)
      BY <1>7, <3>2 DEF Used
    <3>3. ASSUME NEW d \in Connections, conn'[d].session = x PROVE Used(x)
      BY <1>2, <1>3, <3>1, <3>3 DEF Used
    <3>4. CASE Registered(x)'
      <4>1. PICK s \in sessions' : s.id = x
        BY <3>4 DEF Registered
      <4> QED
        BY <3>1, <4>1, <1>5 DEF Used, Registered
    <3>5. CASE Held(x)'
      BY <1>8, <3>1, <3>5 DEF Used
    <3> QED
      BY <1>11, <3>2, <3>3, <3>4, <3>5 DEF Used
  <2>2. /\ x.engine <= engine
        /\ x.engine = engine => Serving(x.connection) \/ Registering(x.connection)
    BY <2>1 DEF Apart
  <2>3. CASE x.connection = c
    BY <1>2, <2>2, <2>3, <1>3, Sessions DEF Serving
  <2>4. CASE x.connection # c
    BY <1>2, <2>4, <2>2, Sessions DEF Serving, Registering
  <2> QED
    BY <2>3, <2>4
<1>12. ASSUME NEW d \in Connections,
              (Serving(d) /\ (conn[d].status = "open" \/ step[d][1] = "unregister"))'
       PROVE  ([id |-> conn[d].session, connection |-> d] \in sessions)'
  BY <1>3, <1>5, <1>2, <1>12 DEF Apart, Serving
<1> QED
  BY <1>9, <1>10, <1>11, <1>12, <1>4, <1>5 DEF Apart, Registered
\* A connection that ends forgets its session, which nobody else serves.
LEMMA ApartUnregistered ==
    ASSUME LinkTypeOK, Handshakes, Apart, NEW c \in Connections, Unregister(c)
    PROVE  Apart'
<1>1. /\ step[c] = <<"unregister">> /\ conn[c].status = "closing"
      /\ step'[c] = <<"release">> /\ \A d \in Connections : d # c => step'[d] = step[d]
      /\ sessions' = {s \in sessions : s.id # conn[c].session}
      /\ UNCHANGED <<remote, toHost, toPage, conn, engine>>
  BY Unregistered DEF OneConnection, pageVars, channelVars, engineVars
<1>2. ASSUME NEW x, Registered(x)' PROVE Registered(x)
  BY <1>1, <1>2 DEF Registered
<1>3. ASSUME NEW x PROVE Held(x)' <=> Held(x)
  BY <1>1 DEF Held, Opened
<1>4. ASSUME NEW d \in Connections, NEW x
      PROVE  /\ step'[d] = <<"register", x>> <=> step[d] = <<"register", x>>
             /\ Resuming(d, x)' <=> Resuming(d, x)
             /\ Registering(d)' <=> Registering(d)
             /\ Serving(d)' <=> Serving(d)
  BY <1>1 DEF Resuming, Registering, Serving
<1>5. ASSUME NEW x \in SessionIds, Used(x)' PROVE Used(x)
  BY <1>1, <1>2, <1>3, <1>4, <1>5 DEF Used
<1>6. ASSUME NEW d \in Connections, NEW e \in Connections, NEW x \in SessionIds, Resuming(d, x)'
      PROVE  (~Held(x))' /\ (Resuming(e, x)' => d = e)
  BY <1>4, <1>6, <1>3 DEF Apart
<1>7. ASSUME NEW d \in Connections, NEW x \in SessionIds, step'[d] = <<"register", x>>
      PROVE  x.engine = engine' /\ (~Registered(x))'
  BY <1>4, <1>7, <1>1, <1>2 DEF Apart
<1>8. ASSUME NEW x \in SessionIds, Used(x)'
      PROVE  /\ x.engine <= engine'
             /\ x.engine = engine' => (Serving(x.connection) \/ Registering(x.connection))'
  BY Sessions, <1>5, <1>8, <1>1, <1>4 DEF Apart
<1>9. ASSUME NEW d \in Connections,
              (Serving(d) /\ (conn[d].status = "open" \/ step[d][1] = "unregister"))'
       PROVE  ([id |-> conn[d].session, connection |-> d] \in sessions)'
  <2>1. d # c
    BY <1>1, <1>9
  <2>2. [id |-> conn[d].session, connection |-> d] \in sessions
    BY <1>1, <1>4, <1>9, <2>1 DEF Apart
  <2>3. conn[d].session # conn[c].session
    <3>1. SUFFICES ASSUME conn[d].session = conn[c].session PROVE FALSE
      OBVIOUS
    <3>2. Serving(c)
      BY <1>4, <1>9, <3>1 DEF Serving
    <3>3. [id |-> conn[c].session, connection |-> c] \in sessions
      BY <1>1, <3>2 DEF Apart
    <3> QED
      BY <2>1, <2>2, <3>1, <3>3 DEF Apart
  <2> QED
    BY <1>1, <2>2, <2>3
<1> QED
  BY <1>6, <1>7, <1>8, <1>9, <1>1 DEF Apart

\* The engine thread opens no session.
LEMMA ApartEngine ==
    ASSUME LinkTypeOK, Apart,
           \/ \E changed \in Changes : Wake(changed)
           \/ \E j \in asked : AnswerQuery(j)
           \/ Engine
    PROVE  Apart'
<1>1. EngineAlone
  BY Woken, QueryAnswered, CommandRun, QueryRun, ListenersCopied, ListenerTold, AllTold, Replied
     DEF Engine
<1>2. UNCHANGED <<remote, toHost, step, engine, sessions>>
  BY <1>1 DEF EngineAlone, pageVars
<1>3. \A c \in Connections : Moved(toPage[c], toPage'[c], {"session_opened"})
  <2>1. CASE UNCHANGED toPage
    BY <2>1, SameMoves DEF Kept
  <2>2. ASSUME NEW j \in asked, AnswerQuery(j)
        PROVE  \A c \in Connections : Moved(toPage[c], toPage'[c], {"session_opened"})
    BY <2>2, QueryAnswered, SentNoSession DEF Result
  <2>3. ASSUME NEW d \in Connections, Tell(d)
        PROVE  \A c \in Connections : Moved(toPage[c], toPage'[c], {"session_opened"})
    BY <2>3, ListenerTold, SentNoSession DEF Tidings
  <2>4. CASE Reply
    BY <2>4, Replied, SentNoSession DEF Result
  <2> QED
    BY <2>1, <2>2, <2>3, <2>4, Woken, CommandRun, QueryRun, ListenersCopied, AllTold
       DEF Engine
<1>4. \A c \in Connections : Moved(toHost[c], toHost'[c], {"open_session"})
  BY <1>2, SameMoves DEF Kept
<1> QED
  BY <1>2, <1>3, <1>4, ApartStays, EngineConnections DEF Held

\* A new engine has no session, and its identity is newer than any of them.
LEMMA ApartRestarted ==
    ASSUME LinkTypeOK, Handshakes, Apart, Restart
    PROVE  Apart'
<1>1. /\ UNCHANGED <<remote, toPage>> /\ engine' = engine + 1 /\ sessions' = {}
      /\ engine \in 1 .. MaxEngines
  BY Restarted DEF pageVars, LinkTypeOK, EngineTyped
<1>2. ASSUME NEW c \in Connections
      PROVE  /\ (~Serving(c))' /\ (~Registering(c))' /\ conn'[c].session = NoSession
             /\ \A x : (~Resuming(c, x))' /\ step'[c] # <<"register", x>>
  BY Restarted DEF Handshakes, Staged, Serving, NewConnection, Listening, Registering, Resuming
<1>3. ASSUME NEW x PROVE Held(x)' <=> Held(x)
  BY <1>1 DEF Held, Opened
<1>4. ASSUME NEW x \in SessionIds, Used(x)'
      PROVE  x.engine <= engine' /\ x.engine # engine'
  BY Sessions, <1>1, <1>2, <1>3, <1>4 DEF Used, Registered, Apart, SessionIds
<1> QED
  BY <1>1, <1>2, <1>4 DEF Apart

LEMMA ApartKept ==
    ASSUME LinkTypeOK, Handshakes, Apart, [Next]_vars
    PROVE  Apart'
<1>1. CASE UNCHANGED vars
  BY <1>1, SameMoves, ApartStays DEF vars, pageVars, channelVars, hostVars, connVars,
     engineVars, Kept, Held
<1>2. CASE Page
  BY <1>2, ApartDialled, ApartDropped, ApartWelcomed, ApartTakes, ApartActs DEF Page, PageTakes
<1>3. ASSUME NEW c \in Connections, HostStep(c) \/ Leave(c) PROVE Apart'
  BY <1>3, ApartOthers, ApartOpened, ApartRegistered, ApartUnregistered DEF HostStep
<1> QED
  BY <1>1, <1>2, <1>3, ApartEngine, ApartRestarted DEF Next, Host

LEMMA ApartFirst == Init => Apart
<1> SUFFICES ASSUME Init PROVE Apart
  OBVIOUS
<1>1. /\ remote.session_id = NoSession /\ remote.previous = NoSession /\ sessions = {}
      /\ \A c \in Connections : /\ toHost[c] = <<>> /\ toPage[c] = <<>>
                                /\ step[c] = Listening /\ conn[c].session = NoSession
  BY DEF Init, NewRemote, NewConnection
<1>2. \A c \in Connections : \A x : ~Resuming(c, x) /\ step[c] # <<"register", x>>
  BY <1>1 DEF Resuming, Listening
<1> QED
  BY <1>1, <1>2, Sessions DEF Apart, Serving, Used, Held, Registered, Opened

\* No two connections serve one session, the session of a connection is
\* registered to it, and a connected page has the session its connection
\* serves: whatever was lost, however the end of an older connection and a
\* resumption interleave (remote.rs, SessionOpened; channel.rs, closed).
THEOREM SessionsStayOwn == Spec => []SessionsAreOwn
<1>1. ASSUME LinkTypeOK, Handshakes, Apart
      PROVE  SessionsAreOwn
  BY <1>1 DEF Apart, Serving, Handshakes, Known, SessionsAreOwn
<1>2. LinkTypeOK /\ Handshakes /\ [Next]_vars => Handshakes'
  BY HandshakesKept
<1>3. LinkTypeOK /\ Handshakes /\ Apart /\ [Next]_vars => Apart'
  BY ApartKept
<1>4. LinkTypeOK /\ Handshakes /\ Apart => SessionsAreOwn
  BY <1>1
<1> QED
  BY <1>2, <1>3, <1>4, LinkTypes, HandshakesFirst, ApartFirst, PTL DEF Spec
-----------------------------------------------------------------------------
(* Windows as reported.                                                     *)

\* The last report when the first message is taken, ...
LEMMA ReportTaking ==
    ASSUME NEW S, NEW s \in Seq(S), s # <<>>, NEW w
    PROVE  /\ Reporting(s, w) => \/ Reporting(Tail(s), w)
                                 \/ /\ Head(s).type = "session_windows" /\ Head(s).windows = w
                                    /\ ~Tagged(Tail(s), "session_windows")
           /\ ~Tagged(s, "session_windows") =>
                Head(s).type # "session_windows" /\ ~Tagged(Tail(s), "session_windows")
<1>1. /\ 1 \in DOMAIN s /\ Head(s) = s[1] /\ DOMAIN s \subseteq Nat \ {0}
      /\ \A i \in DOMAIN Tail(s) : i + 1 \in DOMAIN s /\ Tail(s)[i] = s[i + 1] /\ i \in Nat \ {0}
      /\ \A i \in DOMAIN s : i # 1 => i - 1 \in DOMAIN Tail(s) /\ Tail(s)[i - 1] = s[i]
  BY TakenFirst
<1>2. ASSUME NEW i \in DOMAIN s, s[i].type = "session_windows", s[i].windows = w,
             \A j \in DOMAIN s : j > i => s[j].type # "session_windows"
      PROVE  \/ Reporting(Tail(s), w)
             \/ /\ Head(s).type = "session_windows" /\ Head(s).windows = w
                /\ ~Tagged(Tail(s), "session_windows")
  <2>1. CASE i = 1
    BY <1>1, <2>1, <1>2 DEF Tagged
  <2>2. CASE i # 1
    <3>1. ASSUME NEW j \in DOMAIN Tail(s), j > i - 1 PROVE Tail(s)[j].type # "session_windows"
      BY <1>1, <3>1, <1>2
    <3> QED
      BY <1>2, <3>1, <1>1, <2>2 DEF Reporting
  <2> QED
    BY <2>1, <2>2
<1>3. ASSUME ~Tagged(s, "session_windows")
      PROVE  Head(s).type # "session_windows" /\ ~Tagged(Tail(s), "session_windows")
  BY <1>1, <1>3 DEF Tagged
<1> QED
  BY <1>2, <1>3 DEF Reporting

\* ... and when others follow.
LEMMA ReportBefore ==
    ASSUME NEW S, NEW s \in Seq(S), NEW t \in Seq(S), NEW w,
           \A i \in DOMAIN t : t[i].type # "session_windows"
    PROVE  /\ Reporting(s, w) => Reporting(s \o t, w)
           /\ ~Tagged(s, "session_windows") => ~Tagged(s \o t, "session_windows")
<1>1. ASSUME NEW j \in DOMAIN (s \o t), (s \o t)[j].type = "session_windows"
      PROVE  j \in DOMAIN s /\ (s \o t)[j] = s[j]
  BY Joined, <1>1
<1>2. ASSUME NEW i \in DOMAIN s, s[i].type = "session_windows", s[i].windows = w,
             \A j \in DOMAIN s : j > i => s[j].type # "session_windows"
      PROVE  Reporting(s \o t, w)
  BY Joined, <1>1, <1>2 DEF Reporting
<1> QED
  BY <1>1, <1>2 DEF Reporting, Tagged

LEMMA ReportAfter ==
    ASSUME NEW S, NEW s \in Seq(S), NEW t \in Seq(S), NEW w, Reporting(t, w)
    PROVE  Reporting(s \o t, w)
<1>1. PICK i \in DOMAIN t : /\ t[i].type = "session_windows" /\ t[i].windows = w
                            /\ \A j \in DOMAIN t : j > i => t[j].type # "session_windows"
  BY DEF Reporting
<1>2. /\ i + Len(s) \in DOMAIN (s \o t) /\ (s \o t)[i + Len(s)] = t[i]
      /\ i \in Nat \ {0} /\ Len(s) \in Nat
  BY Joined
<1>3. ASSUME NEW j \in DOMAIN (s \o t), j > i + Len(s)
      PROVE  (s \o t)[j].type # "session_windows"
  BY <1>2, <1>3, Joined, <1>1
<1> QED
  BY <1>1, <1>2, <1>3 DEF Reporting

\* A report is the last.
LEMMA ReportAlone ==
    ASSUME NEW now
    PROVE  Reporting(<<[type |-> "session_windows", windows |-> now]>>, now)
<1> DEFINE s == <<[type |-> "session_windows", windows |-> now]>>
<1>1. DOMAIN s = {1} /\ s[1].type = "session_windows" /\ s[1].windows = now
  OBVIOUS
<1> HIDE DEF s
<1>2. ASSUME NEW j \in DOMAIN s, j > 1 PROVE FALSE
  BY <1>1, <1>2
<1> QED
  BY <1>1, <1>2 DEF Reporting, s

\* The page says nothing of windows, ...
LEMMA ListingStays ==
    ASSUME LinkTypeOK, Reported, NEW posts \in Seq(FromPage),
           \A i \in DOMAIN posts : posts[i].type # "session_windows",
           \A c \in Connections : toHost'[c] = toHost[c] \/ toHost'[c] = toHost[c] \o posts,
           remote'.windows = remote.windows,
           \A c \in Connections : conn'[c].listed = conn[c].listed,
           \A c \in Connections : Attentive(c)' => Attentive(c)
    PROVE  Reported'
<1> SUFFICES ASSUME NEW c \in Connections, Attentive(c)'
             PROVE  Listing(c)'
  BY DEF Reported
<1>1. Listing(c)
  BY DEF Reported
<1>2. OpenWindows' = OpenWindows /\ conn'[c].listed = conn[c].listed
  BY DEF OpenWindows
<1>3. CASE toHost'[c] = toHost[c]
  BY <1>1, <1>2, <1>3 DEF Listing
<1>4. CASE toHost'[c] = toHost[c] \o posts
  BY <1>1, <1>2, <1>4, ReportBefore DEF Listing, LinkTypeOK, ChannelsTyped
<1> QED
  BY <1>3, <1>4

\* ... or reports those it shows.
LEMMA ListingNew ==
    ASSUME LinkTypeOK, NEW posts \in Seq(FromPage), Reporting(posts, OpenWindows'),
           \A c \in Connections : Attentive(c)' => toHost'[c] = toHost[c] \o posts
    PROVE  Reported'
<1> SUFFICES ASSUME NEW c \in Connections, Attentive(c)'
             PROVE  Listing(c)'
  BY DEF Reported
<1>1. toHost[c] \in Seq(FromPage) /\ toHost'[c] = toHost[c] \o posts
  BY DEF LinkTypeOK, ChannelsTyped
<1> QED
  BY <1>1, ReportAfter DEF Listing

\* The host hears of other things.
LEMMA ListingHost ==
    ASSUME LinkTypeOK, Reported, NEW c \in Connections, UNCHANGED <<pageVars, races>>,
           \/ toHost' = toHost
           \/ \E t : HostTakes(c, t) /\ t # "session_windows",
           \A d \in Connections : conn'[d].listed = conn[d].listed,
           \A d \in Connections : Alive(d)' => Alive(d)
    PROVE  Reported'
<1> SUFFICES ASSUME NEW d \in Connections, Attentive(d)'
             PROVE  Listing(d)'
  BY DEF Reported
<1>1. UNCHANGED <<link, remote, races>>
  BY DEF pageVars
<1>2. Attentive(d)
  BY <1>1 DEF Attentive
<1>3. Listing(d) /\ OpenWindows' = OpenWindows /\ conn'[d].listed = conn[d].listed
  BY <1>1, <1>2 DEF Reported, OpenWindows
<1>4. CASE toHost'[d] = toHost[d]
  BY <1>3, <1>4 DEF Listing
<1>5. ASSUME NEW t, HostTakes(c, t), t # "session_windows", d = c
      PROVE  Listing(d)'
  BY <1>5, Taking, <1>3, ReportTaking DEF Asked, Listing
<1>6. ASSUME NEW t, HostTakes(c, t), d # c PROVE toHost'[d] = toHost[d]
  BY <1>6, Taking
<1> QED
  BY <1>4, <1>5, <1>6
\* What the page takes, its sessions apart.
LEMMA ReportedTakes ==
    ASSUME LinkTypeOK, Reported,
           TakeState \/ TakeUpdate \/ TakeResult \/ TakeError
    PROVE  Reported'
<1>0. remote \in PageRecords /\ link \in LinkRecords
  BY DEF LinkTypeOK, PageTyped
<1>1. ASSUME NEW t, NEW posts, Consumed(t, posts),
             \A i \in DOMAIN posts : posts[i].type # "session_windows",
             remote'.windows = remote.windows, remote'.session_id = remote.session_id,
             link'.socket = link.socket, link'.ready => link.ready
      PROVE  Reported'
  BY <1>1, ListingStays DEF Consumed, hostVars, connVars, histories, Attentive, Alive
<1>2. CASE TakeState
  <2> DEFINE posts == Cancels(remote.pending \ {"subscribe"})
  <2>1. /\ Consumed("state", posts) /\ link'.socket = link.socket /\ link'.ready = link.ready
        /\ remote'.windows = remote.windows /\ remote'.session_id = remote.session_id
    BY <1>0, <1>2, StateTaken DEF PageRecords
  <2>2. \A i \in DOMAIN posts : posts[i].type = "cancel"
    BY Cancelling
  <2> HIDE DEF posts
  <2> QED
    BY <1>1, <2>1, <2>2
<1>3. CASE TakeUpdate
  <2>1. PICK posts : /\ \A i \in DOMAIN posts : posts[i].type = "cancel"
                     /\ Consumed("update", posts)
    BY <1>3, UpdateTaken
  <2> QED
    BY <1>1, <2>1, <1>0, <1>3, UpdateTaken DEF PageRecords
<1>4. CASE TakeResult
  <2> DEFINE posts == Cancels(remote.pending \ {Message.request})
  <2>1. /\ Consumed("result", posts) /\ UNCHANGED link
        /\ remote'.windows = remote.windows /\ remote'.session_id = remote.session_id
    BY <1>0, <1>4, ResultTaken DEF PageRecords
  <2>2. \A i \in DOMAIN posts : posts[i].type = "cancel"
    BY Cancelling
  <2> HIDE DEF posts
  <2> QED
    BY <1>1, <2>1, <2>2
<1>5. CASE TakeError
  BY <1>0, <1>5, ErrorTaken DEF LinkRecords, Reported, Attentive
<1> QED
  BY <1>2, <1>3, <1>4, <1>5

\* A session is opened, and its windows reported.
LEMMA ReportedOpened ==
    ASSUME LinkTypeOK, TakeSessionOpened
    PROVE  Reported'
<1> DEFINE id == Message.session
           s == <<WindowsMessage>>
           t == Again(id)
           u == Cancels(remote.pending \ {"open"})
<1>1. /\ UNCHANGED link /\ id \in SessionIds /\ s \o t \in Seq(FromPage)
      /\ Consumed("session_opened", (s \o t) \o u)
      /\ WindowsMessage \in FromPage
      /\ remote'.windows = remote.windows
  <2>1. remote \in PageRecords
    BY DEF LinkTypeOK, PageTyped
  <2>2. /\ UNCHANGED link /\ id \in SessionIds /\ s \o t \in Seq(FromPage)
        /\ Consumed("session_opened", (s \o t) \o u) /\ WindowsMessage \in FromPage
    BY SessionTaken
  <2> HIDE DEF s, t, u
  <2> QED
    BY <2>2, <2>1, SessionTaken DEF PageRecords
<1>2. s \in Seq(FromPage) /\ Reporting(s, OpenWindows)
  BY <1>1, ReportAlone DEF WindowsMessage
<1>3. t \in Seq(FromPage) /\ \A i \in DOMAIN t : t[i].type = "media_create"
  BY <1>1, ShownAgain
<1>4. u \in Seq(FromPage) /\ \A i \in DOMAIN u : u[i].type = "cancel"
  BY Cancelling
<1> HIDE DEF s, t, u
<1>5. Reporting(s \o t, OpenWindows)
  BY <1>2, <1>3, ReportBefore
<1> DEFINE v == s \o t
<1>6. v \in Seq(FromPage) /\ Reporting(v, OpenWindows)
  BY <1>1, <1>5
<1>7. Consumed("session_opened", v \o u)
  BY <1>1
<1> HIDE DEF v
<1>8. Reporting(v \o u, OpenWindows) /\ v \o u \in Seq(FromPage)
  BY <1>4, <1>6, ReportBefore, Joined
<1>9. OpenWindows' = OpenWindows
  BY <1>1 DEF OpenWindows
<1>10. ASSUME NEW c \in Connections, Attentive(c)' PROVE toHost'[c] = toHost[c] \o (v \o u)
  BY <1>7, <1>1, <1>10 DEF Consumed, hostVars, connVars, Attentive, Alive
<1> QED
  BY <1>8, <1>10, ListingNew, <1>9

\* What the page does by itself: windows change, and are reported.
LEMMA ReportedShown ==
    ASSUME LinkTypeOK, Reported, NEW w \in Windows, OpenWindow(w) \/ CloseWindow(w)
    PROVE  Reported'
<1>1. PICK now, posts :
        /\ posts \in Seq(FromPage) /\ Posts(posts) /\ OpenWindows' = now
        /\ remote.connected => Reporting(posts, now)
        /\ races' = Between
  <2>1. ASSUME NEW m \in FromPage, m.type # "session_windows"
        PROVE  <<m>> \in Seq(FromPage) /\ \A i \in DOMAIN <<m>> : <<m>>[i].type # "session_windows"
    BY <2>1
  <2>2. CASE OpenWindow(w)
    <3> DEFINE now == OpenWindows \cup {w}
               s == Reports(now)
    <3>1. PICK m : m \in FromPage /\ m.type = "media_create" /\ s \in Seq(FromPage)
                   /\ Posts(s \o <<m>>)
      BY <2>2, WindowOpened
    <3>2. remote.connected => Reporting(s, now)
      BY ReportAlone DEF Reports
    <3> DEFINE t == <<m>>
    <3>3. t \in Seq(FromPage) /\ \A i \in DOMAIN t : t[i].type # "session_windows"
      BY <2>1, <3>1
    <3>4. Posts(s \o t) /\ s \in Seq(FromPage)
      BY <3>1
    <3>5. OpenWindows' = now /\ races' = Between
      BY <2>2, WindowOpened
    <3> HIDE DEF t, s
    <3> QED
      BY <3>4, <3>5, <3>2, <3>3, ReportBefore, Joined
  <2>3. CASE CloseWindow(w)
    <3> DEFINE now == OpenWindows \ {w}
               t == Reports(now)
    <3>1. PICK s : s \in Seq(FromPage) /\ t \in Seq(FromPage) /\ Posts(s \o t)
      BY <2>3, WindowClosed
    <3>2. remote.connected => Reporting(t, now)
      BY ReportAlone DEF Reports
    <3>3. OpenWindows' = now /\ races' = Between
      BY <2>3, WindowClosed
    <3> HIDE DEF t
    <3> QED
      BY <3>1, <3>3, <3>2, ReportAfter, Joined
  <2> QED
    BY <2>2, <2>3
<1>2. ASSUME NEW c \in Connections, Attentive(c)'
      PROVE  remote.connected /\ toHost'[c] = toHost[c] \o posts
  BY <1>1, <1>2 DEF Posts, hostVars, connVars, Attentive, Alive, Between
<1>3. CASE \E c \in Connections : Attentive(c)'
  BY <1>1, <1>2, <1>3, ListingNew
<1>4. CASE ~\E c \in Connections : Attentive(c)'
  BY <1>4 DEF Reported
<1> QED
  BY <1>3, <1>4

LEMMA ReportedPage ==
    ASSUME LinkTypeOK, Handshakes, Reported, Page
    PROVE  Reported'
<1>0. remote \in PageRecords /\ link \in LinkRecords
  BY DEF LinkTypeOK, PageTyped
<1>1. CASE Dial
  BY <1>1 DEF Dial, Handshakes, Known, Reported, Attentive
<1>2. CASE Closed \/ Reload
  BY <1>2, ClosedThen, Reloaded DEF Drops, Reported, Attentive
<1>3. CASE TakeWelcome
  <2> DEFINE posts == Opens(Resumes(Message.engine)) \o Cancels(remote.pending \cup {"open", "subscribe"})
  <2>1. /\ Consumed("welcome", posts) /\ UNCHANGED link
        /\ remote'.windows = remote.windows /\ remote'.session_id = remote.session_id
        /\ Opens(Resumes(Message.engine)) \in Seq(FromPage)
    BY <1>0, <1>3, WelcomeTaken DEF PageRecords
  <2>2. \A i \in DOMAIN posts : posts[i].type \in {"open_session", "subscribe", "cancel"}
    BY <2>1, WelcomePosts
  <2> HIDE DEF posts
  <2>3. /\ posts \in Seq(FromPage) /\ UNCHANGED <<conn, races>>
        /\ \A c \in Connections : toHost'[c] = toHost[c] \/ toHost'[c] = toHost[c] \o posts
    BY <2>1 DEF Consumed, hostVars, connVars, histories
  <2>4. \A i \in DOMAIN posts : posts[i].type # "session_windows"
    BY <2>2
  <2> QED
    BY <2>1, <2>3, <2>4, ListingStays DEF Attentive, Alive
<1>4. ASSUME NEW r \in Requests, Dispatch(r) PROVE Reported'
  <2>1. PICK posts : /\ Posts(posts)
                     /\ \A i \in DOMAIN posts : posts[i].type \in {"cancel", "command"}
    BY <1>4, DispatchPosts
  <2>2. /\ remote'.windows = remote.windows /\ remote'.session_id = remote.session_id
        /\ UNCHANGED races
    BY <1>0, <1>4, Dispatched DEF PageRecords, histories
  <2>3. /\ posts \in Seq(FromPage) /\ UNCHANGED <<conn, link>>
        /\ \A c \in Connections : toHost'[c] = toHost[c] \/ toHost'[c] = toHost[c] \o posts
    BY <2>1 DEF Posts, hostVars, connVars
  <2>4. \A i \in DOMAIN posts : posts[i].type # "session_windows"
    BY <2>1
  <2> QED
    BY <2>2, <2>3, <2>4, ListingStays DEF Attentive, Alive
<1>5. ASSUME NEW q \in Queries, Supersede(q) PROVE Reported'
  BY <1>5, Superseded DEF channelVars, hostVars, connVars, histories, Reported, Attentive,
     Listing, OpenWindows, Alive
<1> QED
  BY <1>1, <1>2, <1>3, <1>4, <1>5, ReportedTakes, ReportedOpened, ReportedShown
     DEF Page, PageTakes

\* The threads of the connections.
LEMMA ReportedThreads ==
    ASSUME LinkTypeOK, Reported, NEW c \in Connections, HostStep(c) \/ Leave(c)
    PROVE  Reported'
<1>0. conn[c] \in ConnectionRecords
  BY ThreadAt
<1>1. ASSUME OneConnection(c), conn'[c].listed = conn[c].listed, Alive(c)' => Alive(c),
             toHost' = toHost \/ \E t : HostTakes(c, t) /\ t # "session_windows"
      PROVE  Reported'
  BY <1>1, ListingHost DEF OneConnection, Alive
<1>2. CASE Welcome(c)
  <2>1. /\ OneConnection(c) /\ HostTakes(c, "hello")
        /\ conn'[c] = [conn[c] EXCEPT !.status = "open"]
    BY <1>2, Welcomed DEF Welcome
  <2>2. Alive(c)
    BY <2>1, Taking DEF Alive
  <2> QED
    BY <1>1, <2>1, <2>2, <1>0 DEF ConnectionRecords
<1>3. CASE OpenSession(c)
  BY <1>1, <1>3, SessionsOpened DEF Alive
<1>4. CASE Register(c)
  <2>1. PICK id : conn'[c] = [conn[c] EXCEPT !.session = id]
    BY <1>4, SessionRegistered
  <2> QED
    BY <1>1, <1>4, SessionRegistered, <1>0, <2>1 DEF Alive, ConnectionRecords
<1>5. CASE Subscribe(c)
  <2>1. conn'[c] = [conn[c] EXCEPT !.subscribed = TRUE]
    BY <1>5, Subscribed
  <2> QED
    BY <1>1, <1>5, Subscribed, <1>0, <2>1 DEF Alive, ConnectionRecords
<1>6. CASE Snapshot(c) \/ SendState(c)
  BY <1>1, <1>6, Snapshotted, StateSent DEF Alive, channelVars
<1>7. CASE Command(c) \/ Cancel(c)
  <2>1. PICK q : conn'[c] = [conn[c] EXCEPT !.queries = q]
    BY <1>7, Commanded, QueryCancelled
  <2>2. OneConnection(c) /\ \E t : HostTakes(c, t) /\ t # "session_windows"
    BY <1>7, Commanded, QueryCancelled
  <2> QED
    BY <1>1, <2>2, <1>0, <2>1 DEF Alive, ConnectionRecords
<1>8. CASE CreatePlayer(c) \/ ReleasePlayer(c) \/ ReleaseWindow(c)
  BY <1>1, <1>8, PlayerAsked DEF Alive
<1>9. CASE Unregister(c)
  BY <1>1, <1>9, Unregistered DEF Alive, channelVars
<1>10. CASE ReleaseReported(c)
  <2>1. PICK ws : conn'[c] = [conn[c] EXCEPT !.windows = ws]
    BY <1>10, ReportedReleased
  <2> QED
    BY <1>1, <1>10, ReportedReleased, <1>0, <2>1 DEF Alive, channelVars, ConnectionRecords
<1>11. CASE Gone(c)
  BY <1>11, ConnectionGone, <1>0, <1>1 DEF ConnectionRecords, Alive, channelVars
<1>12. CASE Leave(c)
  <2>1. conn'[c].status = "closing"
    BY <1>0, <1>12, HostLeft DEF ConnectionRecords
  <2>2. /\ \A d \in Connections : d # c => conn'[d] = conn[d] /\ toHost'[d] = toHost[d]
        /\ UNCHANGED <<link, remote, races>>
    BY <1>12, HostLeft DEF OneConnection, pageVars
  <2>3. ASSUME NEW d \in Connections, Attentive(d)' PROVE Listing(d)'
    BY <2>1, <2>3, <2>2 DEF Attentive, Alive, Reported, Listing, OpenWindows
  <2> QED
    BY <2>3 DEF Reported
<1>13. CASE ReportWindows(c)
  <2>1. /\ OneConnection(c) /\ HostTakes(c, "session_windows")
        /\ \E ws : conn'[c] = [conn[c] EXCEPT !.listed = Asked(c).windows, !.windows = ws]
    BY <1>13, ReportTaken
  <2>2. conn'[c].listed = Asked(c).windows /\ conn'[c].status = conn[c].status
    BY <1>0, <2>1 DEF ConnectionRecords
  <2>3. /\ \A d \in Connections : d # c => conn'[d] = conn[d]
        /\ UNCHANGED <<link, remote, races>>
    BY <2>1 DEF OneConnection, pageVars
  <2>4. /\ toHost[c] \in Seq(FromPage) /\ toHost[c] # <<>>
        /\ \A d \in Connections : toHost'[d] = IF d = c THEN Tail(toHost[d]) ELSE toHost[d]
        /\ Head(toHost[c]).type = "session_windows"
    BY <2>1, Taking DEF Asked
  <2>5. ASSUME NEW d \in Connections, Attentive(d)' PROVE Listing(d)'
    BY <2>2, <2>3, <2>5, <2>4, ReportTaking DEF Attentive, Alive, Reported, OpenWindows,
       Listing, Asked
  <2> QED
    BY <2>5 DEF Reported
<1> QED
  BY <1>2, <1>3, <1>4, <1>5, <1>6, <1>7, <1>8, <1>9, <1>10, <1>11, <1>12, <1>13 DEF HostStep

LEMMA ReportedKept ==
    ASSUME LinkTypeOK, Handshakes, Reported, [Next]_vars
    PROVE  Reported'
<1>1. CASE UNCHANGED vars
  BY <1>1 DEF vars, pageVars, channelVars, hostVars, connVars, histories, Reported, Attentive,
     Listing, OpenWindows, Alive
<1>2. CASE \/ \E changed \in Changes : Wake(changed)
           \/ \E j \in asked : AnswerQuery(j)
           \/ Engine
  <2>1. EngineAlone
    BY <1>2, Woken, QueryAnswered, CommandRun, QueryRun, ListenersCopied, ListenerTold,
       AllTold, Replied DEF Engine
  <2>2. UNCHANGED <<link, remote, toHost, races>>
    BY <2>1 DEF EngineAlone, pageVars
  <2>3. ASSUME NEW c \in Connections, Attentive(c)' PROVE Listing(c)'
    BY <2>2, <2>3, <1>2, EngineConnections DEF Attentive, Alive, Reported, Listing, OpenWindows
  <2> QED
    BY <2>3 DEF Reported
<1>3. CASE Restart
  BY <1>3, Restarted DEF NewConnection, Attentive, Alive, Reported
<1> QED
  BY <1>1, <1>2, <1>3, ReportedPage, ReportedThreads DEF Next, Host

LEMMA ReportedFirst == Init => Reported
BY DEF Init, Reported, Attentive, NewLink

\* The host lists the windows a page shows once it heard all the page sent, unless
\* one opened or closed while the page connected: a report of an older state of
\* the page is always followed by a newer one (Remote::windows_changed).
THEOREM WindowsStayListed == Spec => []WindowsAreListed
<1>1. ASSUME LinkTypeOK, Handshakes, Reported
      PROVE  WindowsAreListed
  BY <1>1 DEF WindowsAreListed, Quiet, Attentive, Handshakes, Known, Reported, Listing,
     Reporting
<1>2. LinkTypeOK /\ Handshakes /\ [Next]_vars => Handshakes'
  BY HandshakesKept
<1>3. LinkTypeOK /\ Handshakes /\ Reported /\ [Next]_vars => Reported'
  BY ReportedKept
<1>4. LinkTypeOK /\ Handshakes /\ Reported => WindowsAreListed
  BY <1>1
<1> QED
  BY <1>2, <1>3, <1>4, LinkTypes, HandshakesFirst, ReportedFirst, PTL DEF Spec

-----------------------------------------------------------------------------
(* The mirror follows.                                                      *)

LEMMA Passes ==
    ASSUME NEW S, NEW s \in Seq(S)
    PROVE  /\ Passed(s, s, 0)
           /\ \A m \in S : ~Tells(m) => Passed(s, Append(s, m), 0)
           /\ s # <<>> => Passed(s, Tail(s), 1)
<1>0. DOMAIN s \subseteq Nat \ {0}
  BY LenProperties
<1>1. Passed(s, s, 0)
  BY <1>0 DEF Passed
<1>2. ASSUME NEW m \in S, ~Tells(m)
      PROVE  Passed(s, Append(s, m), 0)
  BY <1>0, Added, <1>2 DEF Passed
<1>3. ASSUME s # <<>>
      PROVE  Passed(s, Tail(s), 1)
  BY <1>3, TakenFirst DEF Passed
<1> QED
  BY <1>1, <1>2, <1>3

\* Numbers.
LEMMA Ranks ==
    ASSUME LinkTypeOK, NEW c \in Connections
    PROVE  /\ toPage[c] \in Seq(FromHost) /\ DOMAIN toPage[c] \subseteq Nat \ {0}
           /\ revision \in Nat /\ engine \in Nat \ {0} /\ ToldUpTo(c) \in Int
           /\ ToldUpTo(c) <= revision
           /\ \A f \in Fields : state[f] \in Values /\ state[f].revision \in Nat
           /\ remote.revision \in Nat
           /\ \A i \in DOMAIN toPage[c] :
                /\ toPage[c][i] \in FromHost
                /\ Tells(toPage[c][i]) => toPage[c][i].revision \in Nat
<1>1. /\ toPage[c] \in Seq(FromHost) /\ revision \in Nat /\ engine \in Nat \ {0}
      /\ state \in [Fields -> Values] /\ remote \in PageRecords
  BY LinkAssumption DEF LinkTypeOK, ChannelsTyped, EngineTyped, PageTyped
<1>2. DOMAIN toPage[c] \subseteq Nat \ {0}
  BY <1>1, LenProperties
<1>3. ToldUpTo(c) \in Int /\ ToldUpTo(c) <= revision
  BY <1>1 DEF ToldUpTo
<1>4. remote.revision \in Nat
  BY <1>1, LinkAssumption DEF PageRecords
<1>5. \A m \in FromHost : Tells(m) => m.revision \in Nat
  BY LinkAssumption DEF FromHost, Updates, Tells, Ranked
<1>6. \A i \in DOMAIN toPage[c] : toPage[c][i] \in FromHost
  BY <1>1, LenProperties
<1> QED
  BY <1>1, <1>2, <1>3, <1>4, <1>5, <1>6, LinkAssumption DEF Values

\* What is coming comes, although the first messages were taken.
LEMMA ComingPassed ==
    ASSUME LinkTypeOK, NEW c \in Connections, NEW f \in Fields, NEW k \in {0, 1},
           Passed(toPage[c], toPage'[c], k), state'[f] = state[f], Alive(c)' => Alive(c),
           Untold(c) /\ f \in told => Untold(c)' /\ f \in told',
           NEW i \in Nat, NEW n \in Nat, Coming(c, i, f),
           \A j \in DOMAIN toPage[c] :
             j >= i /\ Brings(toPage[c][j], f) => j > k /\ j - k >= n
    PROVE  Coming(c, n, f)'
<1>1. CASE \E j \in DOMAIN toPage[c] : j >= i /\ Brings(toPage[c][j], f)
  <2>1. PICK j \in DOMAIN toPage[c] : j >= i /\ Brings(toPage[c][j], f)
    BY <1>1
  <2>2. j > k /\ j - k >= n
    BY <2>1
  <2>3. j - k \in DOMAIN toPage'[c] /\ toPage'[c][j - k] = toPage[c][j]
    BY <2>2 DEF Passed
  <2> QED
    BY <2>2, <2>3, <2>1 DEF Coming, Brings
<1>2. CASE /\ Alive(c) => Untold(c) /\ f \in told
           /\ \A j \in DOMAIN toPage[c] :
                Ranked(toPage[c][j]) => toPage[c][j].revision < state[f].revision
  BY <1>2 DEF Passed, Tells, Coming, Alive
<1> QED
  BY <1>1, <1>2 DEF Coming
LEMMA StatedPassed ==
    ASSUME LinkTypeOK, LinkTypeOK', NEW c \in Connections, NEW k \in {0, 1}, Stated(c),
           EngineStill, overtaken'[c] = overtaken[c],
           Passed(toPage[c], toPage'[c], k), Current(c)' => Current(c), Alive(c)' => Alive(c)
    PROVE  Stated(c)'
<1> SUFFICES ASSUME Current(c)', NEW i \in DOMAIN toPage'[c], toPage'[c][i].type = "state",
                    NEW f \in Fields \ overtaken'[c]
             PROVE  Follows(c, i, toPage[c][i].revision, toPage[c][i].values, f)'
  BY DEF Stated
<1>1. /\ i \in Nat \ {0} /\ DOMAIN toPage[c] \subseteq Nat \ {0}
      /\ i + k \in DOMAIN toPage[c] /\ toPage'[c][i] = toPage[c][i + k]
  BY LenProperties, Ranks DEF LinkTypeOK, ChannelsTyped, Passed, Tells
<1> DEFINE n == toPage[c][i + k].revision
           v == toPage[c][i + k].values
<1>2. Follows(c, i + k, n, v, f)
  BY <1>1 DEF Stated
<1>3. UNCHANGED <<state, told>> /\ (Untold(c)' <=> Untold(c))
  BY DEF EngineStill, Untold
<1>4. Coming(c, i + k, f) => Coming(c, i, f)'
  BY <1>1, <1>3, ComingPassed
<1>5. n = toPage'[c][i].revision /\ v = toPage'[c][i].values
  BY <1>1
<1> HIDE DEF n, v
<1> QED
  BY <1>2, <1>3, <1>4, <1>5 DEF Follows

LEMMA QueuePassed ==
    ASSUME LinkTypeOK, LinkTypeOK', NEW c \in Connections, NEW k \in {0, 1}, Queue(c),
           engine' = engine, revision <= revision', ToldUpTo(c) <= ToldUpTo(c)',
           \A f \in Fields : state[f].revision <= state'[f].revision,
           Passed(toPage[c], toPage'[c], k), Current(c)' => Current(c)
    PROVE  Queue(c)'
<1> SUFFICES ASSUME Current(c)'
             PROVE  Queue(c)'
  BY DEF Queue
<1>0. /\ DOMAIN toPage'[c] \subseteq Nat \ {0}
      /\ revision \in Nat /\ revision' \in Nat /\ ToldUpTo(c) \in Int /\ ToldUpTo(c)' \in Int
      /\ \A f \in Fields : state[f].revision \in Nat /\ state'[f].revision \in Nat
      /\ \A i \in DOMAIN toPage[c] : Tells(toPage[c][i]) => toPage[c][i].revision \in Nat
  <2>1. revision' \in Nat /\ ToldUpTo(c)' \in Int
    BY DEF LinkTypeOK, EngineTyped, ToldUpTo
  <2>2. DOMAIN toPage'[c] \subseteq Nat \ {0}
    BY LenProperties DEF LinkTypeOK, ChannelsTyped
  <2> QED
    BY <2>1, <2>2, Ranks, LinkAssumption DEF LinkTypeOK, EngineTyped, Values
<1>1. ASSUME NEW i \in DOMAIN toPage'[c], Tells(toPage'[c][i])
      PROVE  i + k \in DOMAIN toPage[c] /\ toPage'[c][i] = toPage[c][i + k]
  BY <1>1 DEF Passed
<1>2. Current(c)
  OBVIOUS
<1>3. ASSUME NEW i \in DOMAIN toPage'[c], NEW j \in DOMAIN toPage'[c], i < j,
             Ranked(toPage'[c][i]), toPage'[c][j].type = "update"
      PROVE  toPage'[c][i].revision < toPage'[c][j].revision
  BY <1>1, <1>3, <1>0, <1>2 DEF Tells, Ranked, Queue
<1>4. ASSUME NEW i \in DOMAIN toPage'[c]
      PROVE  /\ Tells(toPage'[c][i]) => toPage'[c][i].revision <= revision'
             /\ Ranked(toPage'[c][i]) => toPage'[c][i].revision <= ToldUpTo(c)'
  <2>1. CASE Tells(toPage'[c][i])
    <3>1. i + k \in DOMAIN toPage[c] /\ toPage'[c][i] = toPage[c][i + k]
      BY <1>1, <2>1
    <3>2. toPage[c][i + k].revision \in Nat /\ toPage[c][i + k].revision <= revision
      BY <1>0, <1>2, <2>1, <3>1 DEF Queue
    <3>3. Ranked(toPage[c][i + k]) => toPage[c][i + k].revision <= ToldUpTo(c)
      BY <1>2, <3>1 DEF Queue
    <3> QED
      BY <1>0, <3>1, <3>2, <3>3
  <2>2. CASE ~Tells(toPage'[c][i])
    BY <2>2 DEF Tells
  <2> QED
    BY <2>1, <2>2
<1>5. ASSUME NEW i \in DOMAIN toPage'[c], NEW f \in Fields,
             toPage'[c][i].type = "update", f \in toPage'[c][i].fields
      PROVE  /\ toPage'[c][i].values[f] = [engine |-> engine, revision |-> toPage'[c][i].revision]
             /\ state'[f].revision >= toPage'[c][i].revision
  BY <1>5, <1>1, <1>2, <1>0 DEF Tells, Ranked, Queue
<1> QED
  BY <1>3, <1>4, <1>5 DEF Queue

LEMMA MirroredStays ==
    ASSUME LinkTypeOK, LinkTypeOK', NEW c \in Connections, Mirrored(c),
           EngineStill, overtaken'[c] = overtaken[c],
           remote'.connected = remote.connected, remote'.revision = remote.revision,
           remote'.values = remote.values,
           Passed(toPage[c], toPage'[c], 0), Current(c)' => Current(c), Alive(c)' => Alive(c)
    PROVE  Mirrored(c)'
<1> SUFFICES ASSUME Current(c)', remote'.connected
             PROVE  /\ remote'.revision <= revision'
                    /\ \A f \in Fields \ overtaken'[c] :
                         Follows(c, 1, remote.revision, remote.values, f)'
  BY DEF Mirrored
<1>1. UNCHANGED <<revision, state, told>> /\ (Untold(c)' <=> Untold(c))
  BY DEF EngineStill, Untold
<1>2. ASSUME NEW f \in Fields \ overtaken'[c]
      PROVE  Follows(c, 1, remote.revision, remote.values, f)'
  BY Ranks, <1>1, ComingPassed DEF Mirrored, Follows
<1> QED
  BY <1>1, <1>2 DEF Mirrored
LEMMA TakenStays ==
    ASSUME NEW c \in Connections, Taken(c), EngineStill, overtaken'[c] = overtaken[c],
           step'[c][1] = "state" => step'[c] = step[c]
    PROVE  Taken(c)'
<1> QED
  BY DEF Taken, EngineStill, Untold

LEMMA OvertakenStays ==
    ASSUME LinkTypeOK, NEW c \in Connections, Overtaken(c), EngineStill,
           overtaken'[c] = overtaken[c],
           remote'.connected = remote.connected, remote'.revision = remote.revision,
           NEW k \in {0, 1}, Passed(toPage[c], toPage'[c], k), Current(c)' => Current(c),
           step'[c][1] = "state" => step'[c] = step[c],
           overtaken[c] # {} =>
             (~Welcoming(c) /\ ~Opening(c) /\ ~Subscribing(c) /\ ~Registering(c)
                /\ step[c][1] # "snapshot")'
    PROVE  Overtaken(c)'
<1> SUFFICES ASSUME overtaken[c] # {}
             PROVE  Overtaken(c)'
  BY DEF Overtaken
<1>1. revision' = revision /\ ToldUpTo(c)' = ToldUpTo(c)
  BY DEF EngineStill, ToldUpTo, Untold
<1>2. ASSUME Current(c)', remote'.connected PROVE remote'.revision <= ToldUpTo(c)'
  BY <1>1, <1>2 DEF Overtaken
<1>3. ASSUME Current(c)', NEW i \in DOMAIN toPage'[c], toPage'[c][i].type = "state"
      PROVE  toPage'[c][i].revision <= ToldUpTo(c)'
  BY <1>3, <1>1 DEF Passed, Tells, Overtaken
<1> QED
  BY <1>2, <1>3, <1>1 DEF Overtaken

\* Nothing the page hears of the state changes.
LEMMA FollowStays ==
    ASSUME LinkTypeOK, LinkTypeOK', NEW c \in Connections, Follow(c),
           EngineStill, overtaken'[c] = overtaken[c],
           remote'.connected = remote.connected, remote'.revision = remote.revision,
           remote'.values = remote.values,
           Passed(toPage[c], toPage'[c], 0), Current(c)' => Current(c), Alive(c)' => Alive(c),
           step'[c][1] = "state" => step'[c] = step[c],
           overtaken[c] # {} =>
             (~Welcoming(c) /\ ~Opening(c) /\ ~Subscribing(c) /\ ~Registering(c)
                /\ step[c][1] # "snapshot")',
           Untouched(c)', Listens(c)'
    PROVE  Follow(c)'
<1>1. Mirrored(c) /\ Stated(c) /\ Taken(c) /\ Overtaken(c) /\ Queue(c)
  BY DEF Follow
<1>2. 0 \in {0, 1}
  OBVIOUS
<1>3. Queue(c)'
  BY <1>1, <1>2, QueuePassed, Ranks DEF EngineStill, ToldUpTo, Untold
<1>4. Taken(c)'
  BY <1>1, TakenStays
<1>5. Overtaken(c)'
  BY <1>1, <1>2, OvertakenStays
<1> QED
  BY <1>3, <1>4, <1>5, <1>1, <1>2, StatedPassed, MirroredStays DEF Follow

\* A connection the page does not hear hears nothing new.
LEMMA FollowOff ==
    ASSUME LinkTypeOK, LinkTypeOK', NEW c \in Connections, Follow(c),
           EngineStill, UNCHANGED <<jobs, job, asked>>,
           overtaken'[c] = overtaken[c], conn'[c] = conn[c], step'[c] = step[c],
           toHost'[c] = toHost[c], Moved(toPage[c], toPage'[c], {"welcome", "state"}),
           toPage[c] = <<>> => toPage'[c] = <<>>,
           c # link'.socket \/ ~link'.ready,
           c = link'.socket /\ remote'.connected => c = link.socket /\ remote.connected
    PROVE  Follow(c)'
<1>1. ~Current(c)'
  BY DEF Current
<1>2. Taken(c)'
  BY TakenStays DEF Follow
<1>3. /\ Welcoming(c)' => Welcoming(c)
      /\ Showing(c)' => Showing(c)
      /\ Opening(c)' <=> Opening(c)
      /\ Subscribing(c)' <=> Subscribing(c)
      /\ Registering(c)' <=> Registering(c)
      /\ Snapping(c)' <=> Snapping(c)
      /\ Alive(c)' <=> Alive(c)
  BY DEF Welcoming, Showing, Opening, Subscribing, Registering, Snapping, Alive, Tagged, Moved
<1>4. Overtaken(c)'
  BY <1>1, <1>3 DEF EngineStill, ToldUpTo, Untold, Overtaken, Follow
<1>5. Untouched(c)'
  BY DEF Untouched, Follow, Fresh, EngineStill
<1>6. Listens(c)'
  BY <1>3 DEF Listens, Follow, Moved, EngineStill
<1> QED
  BY <1>2, <1>4, <1>5, <1>6, <1>1 DEF Follow, Mirrored, Stated, Queue

\* Being current is known from what stays.
LEMMA CurrentStays ==
    ASSUME NEW c \in Connections, engine' = engine,
           c = link'.socket /\ link'.ready => c = link.socket /\ link.ready,
           remote'.engine_id = remote.engine_id, Kept(toPage[c], toPage'[c], {"welcome"})
    PROVE  /\ Current(c)' => Current(c)
           /\ Current(c) /\ c = link'.socket /\ link'.ready => Current(c)'
           /\ Welcoming(c)' <=> Welcoming(c)
<1>1. Greeted(c)' <=> Greeted(c)
  BY DEF Greeted, Kept, Moved
<1> QED
  BY <1>1 DEF Current, Welcoming, Tagged, Kept, Moved

\* Neither the state nor the handshake is spoken of.
LEMMA FollowCalm ==
    ASSUME LinkTypeOK, LinkTypeOK', NEW c \in Connections, Follow(c),
           EngineStill, overtaken'[c] = overtaken[c],
           link'.socket = link.socket, link'.ready = link.ready,
           remote'.engine_id = remote.engine_id, remote'.connected = remote.connected,
           remote'.revision = remote.revision, remote'.values = remote.values,
           \/ toPage'[c] = toPage[c]
           \/ \E m \in FromHost : /\ ~Tells(m) /\ m.type # "welcome"
                                  /\ toPage'[c] = Append(toPage[c], m),
           Moved(toHost[c], toHost'[c], {"open_session", "subscribe"}),
           Alive(c)' => Alive(c) /\ conn'[c].subscribed = conn[c].subscribed,
           Alive(c)' /\ ~Fresh(c)' => ~Fresh(c),
           step'[c] = step[c] \/ step'[c][1] \notin {"register", "snapshot", "state"},
           Untouched(c)'
    PROVE  Follow(c)'
<1>0. toPage[c] \in Seq(FromHost)
  BY Ranks
<1>1. Passed(toPage[c], toPage'[c], 0)
  BY <1>0, Passes
<1>2. Kept(toPage[c], toPage'[c], {"welcome"})
  BY <1>0, Moves
<1>3. /\ Current(c)' => Current(c)
      /\ Current(c) => Current(c)'
      /\ Welcoming(c)' <=> Welcoming(c)
  BY <1>2, CurrentStays DEF EngineStill, Current
<1>4. /\ Opening(c)' => Opening(c)
      /\ Subscribing(c)' => Subscribing(c)
      /\ Registering(c)' => Registering(c)
      /\ Snapping(c)' => Snapping(c)
      /\ step'[c][1] = "snapshot" => step[c][1] = "snapshot"
      /\ step'[c][1] = "state" => step'[c] = step[c]
  BY DEF Opening, Subscribing, Registering, Snapping, Tagged, Moved
<1>5. ASSUME NEW i \in DOMAIN toPage'[c], toPage'[c][i].type = "welcome"
      PROVE  toPage'[c][i].engine <= engine'
  BY <1>2, <1>5 DEF Listens, Follow, Kept, Moved, EngineStill
<1>6. Listens(c)'
  BY <1>4, <1>3, <1>5, <1>1 DEF Listens, Follow, Fresh, Alive, Showing, Tagged, Passed, Tells
<1>7. Alive(c)' => Alive(c)
  OBVIOUS
<1> QED
  BY <1>1, <1>3, <1>4, <1>6, <1>7, FollowStays DEF Overtaken, Follow

LEMMA UntouchedStays ==
    ASSUME LinkTypeOK, NEW c \in Connections, Untouched(c), Fresh(c)' => Fresh(c),
           Fresh(c)' => toPage'[c] = toPage[c], overtaken'[c] = overtaken[c],
           UNCHANGED <<telling, job, asked>>,
           \/ UNCHANGED jobs
           \/ \E j \in Jobs : jobs' = Append(jobs, j) /\ (Fresh(c)' => j.connection # c)
    PROVE  Untouched(c)'
<1> SUFFICES ASSUME Fresh(c)'
             PROVE  Untouched(c)'
  BY DEF Untouched
<1>1. jobs \in Seq(Jobs)
  BY DEF LinkTypeOK, EngineTyped
<1>2. \A i \in DOMAIN jobs' : jobs'[i].connection # c
  <2>1. CASE UNCHANGED jobs
    BY <2>1 DEF Untouched
  <2>2. CASE \E j \in Jobs : jobs' = Append(jobs, j) /\ (Fresh(c)' => j.connection # c)
    <3>1. PICK j \in Jobs : jobs' = Append(jobs, j) /\ j.connection # c
      BY <2>2
    <3>2. ASSUME NEW i \in DOMAIN jobs' PROVE jobs'[i].connection # c
      BY <1>1, <3>1, Added DEF Untouched
    <3> QED
      BY <3>2
  <2> QED
    BY <2>1, <2>2
<1> QED
  BY <1>2 DEF Untouched

\* A connection whose thread does not step.
LEMMA FollowElse ==
    ASSUME LinkTypeOK, LinkTypeOK', NEW d \in Connections, Follow(d),
           EngineStill, UNCHANGED <<link, remote, job, asked>>, overtaken'[d] = overtaken[d],
           conn'[d] = conn[d], step'[d] = step[d],
           toHost'[d] = toHost[d], toPage'[d] = toPage[d],
           \/ UNCHANGED jobs
           \/ \E j \in Jobs : jobs' = Append(jobs, j) /\ (Fresh(d)' => j.connection # d)
    PROVE  Follow(d)'
<1>1. Untouched(d)'
  BY UntouchedStays DEF Follow, Fresh, EngineStill
<1>2. Moved(toHost[d], toHost'[d], {"open_session", "subscribe"})
  BY SameMoves DEF Kept
<1>3. Alive(d)' /\ ~Fresh(d)' => ~Fresh(d)
  BY DEF Fresh
<1> QED
  BY <1>1, <1>2, <1>3, FollowCalm DEF Alive

LEMMA PublishedStays ==
    ASSUME Published, UNCHANGED <<engine, state, revision, at, told>>,
           remote'.engine_id = remote.engine_id,
           \A r \in Commands : outcome'[r] = "waiting" /\ r \in remote'.pending =>
             remote'.connected
    PROVE  Published'
BY DEF Published

\* A thread of the host steps.
LEMMA FollowThread ==
    ASSUME LinkTypeOK, LinkTypeOK', Mirrors, NEW c \in Connections, OneConnection(c),
           EngineStill, UNCHANGED <<job, asked>>,
           \/ UNCHANGED jobs
           \/ \E j \in Jobs : jobs' = Append(jobs, j) /\ j.connection = c,
           \A d \in Connections : d # c => toHost'[d] = toHost[d] /\ toPage'[d] = toPage[d],
           Follow(c)'
    PROVE  Mirrors'
<1>1. UNCHANGED <<link, remote, outcome>> /\ UNCHANGED overtaken
  BY DEF OneConnection, pageVars
<1>2. ASSUME NEW d \in Connections, d # c
      PROVE  Follow(d)'
  BY <1>1, <1>2, FollowElse DEF OneConnection, Mirrors
<1>3. Published'
  BY <1>1, PublishedStays DEF Mirrors, Published, EngineStill
<1> QED
  BY <1>2, <1>3 DEF Mirrors

\* A thread steps, and neither the state nor the handshake is spoken of.
LEMMA ThreadCalm ==
    ASSUME LinkTypeOK, LinkTypeOK', Mirrors, NEW c \in Connections, OneConnection(c),
           EngineStill, UNCHANGED <<job, asked>>,
           \/ UNCHANGED jobs
           \/ /\ ~Fresh(c)'
              /\ \E j \in Jobs : jobs' = Append(jobs, j) /\ j.connection = c,
           \/ UNCHANGED toPage
           \/ /\ ~Fresh(c)'
              /\ \E m \in FromHost : /\ ~Tells(m) /\ m.type # "welcome"
                                     /\ toPage' = Sent(c, m),
           UNCHANGED toHost \/ \E t : HostTakes(c, t),
           Alive(c)' => Alive(c) /\ conn'[c].subscribed = conn[c].subscribed,
           ~Fresh(c)' => ~Fresh(c) \/ ~Alive(c)', Fresh(c)' => Fresh(c),
           step'[c] = step[c] \/ step'[c][1] \notin {"register", "snapshot", "state"}
    PROVE  Mirrors'
<1>1. Follow(c)
  BY DEF Mirrors
<1>2. /\ \A d \in Connections : d # c => toHost'[d] = toHost[d] /\ toPage'[d] = toPage[d]
      /\ Moved(toHost[c], toHost'[c], {"open_session", "subscribe"})
  <2>1. \A d \in Connections : d # c => toPage'[d] = toPage[d]
    BY Sending
  <2>2. \A d \in Connections : d # c => toHost'[d] = toHost[d]
    BY Taking
  <2> QED
    BY <2>1, <2>2, SameMoves, TakenMoves DEF Kept
<1>3. /\ \/ toPage'[c] = toPage[c]
         \/ \E m \in FromHost : /\ ~Tells(m) /\ m.type # "welcome"
                                /\ toPage'[c] = Append(toPage[c], m)
      /\ Fresh(c)' => toPage'[c] = toPage[c]
  BY Sending
<1>4. UNCHANGED <<link, remote>> /\ overtaken'[c] = overtaken[c] /\ UNCHANGED telling
  BY DEF OneConnection, pageVars, EngineStill
<1>5. Follow(c)'
  BY <1>1, <1>2, <1>3, <1>4, FollowCalm, UntouchedStays DEF Follow
<1> QED
  BY <1>2, <1>5, FollowThread

LEMMA EngineUnmoved ==
    ASSUME UNCHANGED engineVars
    PROVE  EngineStill /\ UNCHANGED <<job, asked, jobs>>
BY DEF engineVars, EngineStill

LEMMA MirrorsThreads ==
    ASSUME LinkTypeOK, Mirrors, NEW c \in Connections,
           \/ Register(c) \/ Command(c) \/ Cancel(c) \/ ReportWindows(c)
           \/ CreatePlayer(c) \/ ReleasePlayer(c) \/ ReleaseWindow(c)
           \/ Leave(c) \/ Unregister(c) \/ ReleaseReported(c) \/ Gone(c)
    PROVE  Mirrors'
<1>0. conn[c] \in ConnectionRecords
  BY ThreadAt
<1>1. CASE Register(c)
  <2>1. PICK id : /\ conn'[c] = [conn[c] EXCEPT !.session = id]
                  /\ [type |-> "session_opened", session |-> id] \in FromHost
                  /\ toPage' = Sent(c, [type |-> "session_opened", session |-> id])
    BY <1>1, SessionRegistered
  <2>2. /\ LinkTypeOK' /\ OneConnection(c) /\ step'[c] = Listening /\ UNCHANGED toHost
        /\ conn[c].status = "open" /\ UNCHANGED engineVars
    BY <1>1, SessionRegistered
  <2>3. conn'[c].status = conn[c].status /\ conn'[c].subscribed = conn[c].subscribed
    BY <1>0, <2>1 DEF ConnectionRecords
  <2> DEFINE m == [type |-> "session_opened", session |-> id]
  <2>4. m \in FromHost /\ ~Tells(m) /\ m.type # "welcome" /\ toPage' = Sent(c, m)
    BY <2>1 DEF Tells, Ranked
  <2> HIDE DEF m
  <2> QED
    BY <2>2, <2>3, <2>4, EngineUnmoved, ThreadCalm DEF Alive, Fresh, Listening
<1>2. CASE Command(c)
  <2>1. PICK q : conn'[c] = [conn[c] EXCEPT !.queries = q]
    BY <1>2, Commanded
  <2>2. /\ LinkTypeOK' /\ OneConnection(c) /\ HostTakes(c, "command")
        /\ UNCHANGED <<toPage, step, engine, revision, state, at, job, told, telling, asked>>
        /\ conn[c].status = "open"
    BY <1>2, Commanded, Taking
  <2>3. conn'[c].status = conn[c].status /\ conn'[c].subscribed = conn[c].subscribed
    BY <1>0, <2>1 DEF ConnectionRecords
  <2> DEFINE j == [request |-> Asked(c).request, connection |-> c]
  <2>4. j \in Jobs /\ jobs' = Append(jobs, j) /\ j.connection = c
    BY <1>2, Commanded
  <2> HIDE DEF j
  <2> QED
    BY <2>2, <2>3, <2>4, ThreadCalm DEF Alive, Fresh, EngineStill
<1>3. CASE Cancel(c) \/ ReportWindows(c)
  <2>1. conn'[c].status = conn[c].status /\ conn'[c].subscribed = conn[c].subscribed
    <3>1. CASE Cancel(c)
      <4>1. PICK q : conn'[c] = [conn[c] EXCEPT !.queries = q]
        BY <3>1, QueryCancelled
      <4> QED
        BY <1>0, <4>1 DEF ConnectionRecords
    <3>2. CASE ReportWindows(c)
      <4>1. PICK ws : conn'[c] = [conn[c] EXCEPT !.listed = Asked(c).windows, !.windows = ws]
        BY <3>2, ReportTaken
      <4> QED
        BY <1>0, <4>1 DEF ConnectionRecords
    <3> QED
      BY <1>3, <3>1, <3>2
  <2> QED
    BY <2>1, EngineUnmoved, ThreadCalm, <1>3, QueryCancelled, ReportTaken DEF Alive, Fresh
<1>4. CASE CreatePlayer(c) \/ ReleasePlayer(c) \/ ReleaseWindow(c)
  <2>1. /\ LinkTypeOK' /\ OneConnection(c) /\ UNCHANGED <<conn, step, engineVars>>
        /\ [type |-> "error"] \in FromHost
        /\ toPage' = toPage \/ toPage' = Sent(c, [type |-> "error"])
    BY <1>4, PlayerAsked
  <2>2. PICK t \in {"media_create", "media_release", "media_release_window"} : HostTakes(c, t)
    BY <1>4, PlayerAsked
  <2>3. conn[c].status = "open"
    BY <2>2, Taking
  <2> DEFINE m == [type |-> "error"]
  <2>4. ~Tells(m) /\ m.type # "welcome"
    BY DEF Tells, Ranked
  <2>5. m \in FromHost /\ (toPage' = toPage \/ toPage' = Sent(c, m))
    BY <2>1
  <2> HIDE DEF m
  <2> QED
    BY <2>1, <2>2, <2>3, <2>4, <2>5, EngineUnmoved, ThreadCalm DEF Alive, Fresh
<1>5. CASE Leave(c)
  <2>1. conn'[c].status = "closing"
    BY <1>0, <1>5, HostLeft DEF ConnectionRecords
  <2>2. /\ LinkTypeOK' /\ OneConnection(c) /\ step'[c] = <<"unregister">>
        /\ \A d \in Connections : toHost'[d] = IF d = c THEN <<>> ELSE toHost[d]
        /\ UNCHANGED <<toPage, engineVars>>
    BY <1>5, HostLeft
  <2>3. /\ EngineStill /\ UNCHANGED <<job, asked, jobs, link, remote, telling>>
        /\ overtaken'[c] = overtaken[c]
    BY <2>2, EngineUnmoved DEF OneConnection, pageVars, EngineStill
  <2>4. ~Alive(c)' /\ ~Fresh(c)' /\ step'[c][1] \notin {"register", "snapshot", "state"}
    BY <2>1, <2>2 DEF Alive, Fresh
  <2>5. Untouched(c)' /\ Follow(c)
    BY <2>4 DEF Untouched, Mirrors
  <2>6. Follow(c)'
    BY <2>2, <2>3, <2>4, <2>5, FollowCalm, SameMoves, Moves
  <2> QED
    BY <2>2, <2>3, <2>6, FollowThread
<1>6. CASE Unregister(c) \/ ReleaseReported(c) \/ Gone(c)
  <2>1. /\ LinkTypeOK' /\ OneConnection(c) /\ UNCHANGED <<toHost, toPage, engineVars>>
        /\ conn[c].status = "closing"
        /\ step'[c] = step[c] \/ step'[c] = <<"release">> \/ step'[c] = Listening
    BY Unregistered, ReportedReleased, ConnectionGone, <1>6 DEF channelVars
  <2>2. conn'[c].status \in {"closing", "gone"}
    <3>1. CASE Unregister(c)
      BY <2>1, <3>1, Unregistered
    <3>2. CASE ReleaseReported(c)
      <4>1. PICK ws : conn'[c] = [conn[c] EXCEPT !.windows = ws]
        BY <3>2, ReportedReleased
      <4> QED
        BY <1>0, <2>1, <4>1 DEF ConnectionRecords
    <3>3. CASE Gone(c)
      BY <3>3, ConnectionGone, <1>0 DEF ConnectionRecords
    <3> QED
      BY <1>6, <3>1, <3>2, <3>3
  <2>3. ~Alive(c)' /\ ~Fresh(c)' /\ ~Fresh(c)
    BY <2>1, <2>2 DEF Alive, Fresh
  <2> QED
    BY <2>1, <2>3, EngineUnmoved, ThreadCalm DEF Listening
<1> QED
  BY <1>1, <1>2, <1>3, <1>4, <1>5, <1>6

\* A thread steps before anything was told over a State of its connection.
LEMMA ThreadEarly ==
    ASSUME LinkTypeOK, LinkTypeOK', Mirrors, NEW c \in Connections, OneConnection(c),
           UNCHANGED <<toPage, engineVars>>, UNCHANGED toHost \/ \E t : HostTakes(c, t),
           conn[c].status = "open", conn'[c].status = "open", overtaken[c] = {},
           Snapping(c)' \/ Showing(c) => conn'[c].subscribed, Taken(c)'
    PROVE  Mirrors'
<1>1. /\ EngineStill /\ UNCHANGED <<job, asked, jobs, link, remote, telling>>
      /\ overtaken'[c] = overtaken[c] /\ toPage'[c] = toPage[c] /\ engine' = engine
  BY EngineUnmoved DEF OneConnection, pageVars, EngineStill
<1>2. Follow(c) /\ 0 \in {0, 1} /\ Passed(toPage[c], toPage'[c], 0)
  BY <1>1, Ranks, Passes DEF Mirrors
<1>3. Current(c)' <=> Current(c)
  BY <1>1 DEF Current, Greeted, Welcoming, Tagged
<1>4. Alive(c)' /\ Alive(c) /\ ~Fresh(c)' /\ (Showing(c)' <=> Showing(c))
  BY <1>1 DEF Alive, Fresh, Showing, Tagged
<1>5. Queue(c)'
  BY <1>1, <1>2, <1>3, QueuePassed, Ranks DEF Follow, EngineStill, ToldUpTo, Untold
<1>6. Overtaken(c)' /\ Untouched(c)'
  BY <1>1, <1>4 DEF Overtaken, Untouched
<1>7. Listens(c)'
  BY <1>1, <1>2, <1>3, <1>4 DEF Listens, Follow, Fresh
<1>8. Follow(c)'
  BY <1>5, <1>6, <1>7, <1>1, <1>2, <1>3, <1>4, StatedPassed, MirroredStays DEF Follow
<1> QED
  BY <1>1, <1>8, FollowThread, Taking

LEMMA MirrorsSubscribing ==
    ASSUME LinkTypeOK, Handshakes, Mirrors, NEW c \in Connections,
           OpenSession(c) \/ Subscribe(c) \/ Snapshot(c)
    PROVE  Mirrors'
<1>0. conn[c] \in ConnectionRecords /\ Overtaken(c) /\ Listens(c) /\ Published /\ Staged(c)
  BY ThreadAt DEF Mirrors, Follow, Handshakes
<1>1. CASE OpenSession(c)
  <2>1. PICK id \in SessionIds : step'[c] = <<"register", id>>
    BY <1>1, SessionsOpened
  <2>2. /\ LinkTypeOK' /\ OneConnection(c) /\ HostTakes(c, "open_session")
        /\ UNCHANGED <<toPage, conn, engineVars>>
    BY <1>1, SessionsOpened
  <2>3. conn[c].status = "open" /\ Opening(c)
    BY <2>2, HostTaken, Taking DEF Opening
  <2>4. ~Snapping(c)' /\ Taken(c)'
    BY <2>1 DEF Snapping, Taken
  <2> QED
    BY <2>2, <2>3, <2>4, ThreadEarly, <1>0 DEF Overtaken, Staged
<1>2. CASE Subscribe(c)
  <2>1. conn'[c] = [conn[c] EXCEPT !.subscribed = TRUE]
    BY <1>2, Subscribed
  <2>2. /\ LinkTypeOK' /\ OneConnection(c) /\ HostTakes(c, "subscribe")
        /\ step'[c] = <<"snapshot">> /\ UNCHANGED <<toPage, engineVars>>
    BY <1>2, Subscribed
  <2>3. conn[c].status = "open" /\ Subscribing(c)
    BY <2>2, HostTaken, Taking DEF Subscribing
  <2>4. Taken(c)'
    BY <2>2 DEF Taken
  <2> QED
    BY <2>2, <2>3, <2>4, ThreadEarly, <1>0, <2>1 DEF Overtaken, ConnectionRecords
<1>3. CASE Snapshot(c)
  BY <1>3, Snapshotted, <1>0, Ranks, ThreadEarly DEF channelVars, Overtaken, Snapping, Alive,
     Listens, engineVars, Published, Taken
<1> QED
  BY <1>1, <1>2, <1>3

\* What is left to be told is newer than all that was told.
LEMMA Latest ==
    ASSUME LinkTypeOK, Published, NEW c \in Connections, Queue(c), Current(c), Untold(c),
           NEW f \in Fields, f \in told
    PROVE  /\ state[f].revision = revision
           /\ \A j \in DOMAIN toPage[c] :
                Ranked(toPage[c][j]) => toPage[c][j].revision < state[f].revision
<1>1. state[f].revision = revision
  BY DEF Published, Untold
<1>2. ToldUpTo(c) = revision - 1 /\ revision \in Nat
  BY Ranks DEF ToldUpTo
<1>3. ASSUME NEW j \in DOMAIN toPage[c], Ranked(toPage[c][j])
      PROVE  toPage[c][j].revision < state[f].revision
  <2>1. toPage[c][j].revision \in Nat /\ toPage[c][j].revision <= ToldUpTo(c)
    BY <1>3, Ranks DEF Queue, Tells
  <2> QED
    BY <1>1, <1>2, <2>1
<1> QED
  BY <1>1, <1>3

LEMMA MirrorsShown ==
    ASSUME LinkTypeOK, Handshakes, Mirrors, NEW c \in Connections, SendState(c)
    PROVE  Mirrors'
<1>1. PICK n \in 0 .. MaxChanges, v \in [Fields -> Values] :
        /\ step[c] = <<"state", n, v>>
        /\ [type |-> "state", revision |-> n, values |-> v] \in FromHost
        /\ toPage' = Sent(c, [type |-> "state", revision |-> n, values |-> v])
  BY StateSent
<1>2. /\ LinkTypeOK' /\ OneConnection(c) /\ conn[c].status = "open" /\ step'[c] = Listening
      /\ UNCHANGED <<toHost, conn, engineVars>>
  BY StateSent
<1> DEFINE m == [type |-> "state", revision |-> n, values |-> v]
<1>3. /\ m \in FromHost /\ toPage' = Sent(c, m)
      /\ m.type = "state" /\ m.revision = n /\ m.values = v
  BY <1>1
<1> HIDE DEF m
<1>4. /\ EngineStill /\ UNCHANGED <<job, asked, jobs, link, remote, telling>>
      /\ overtaken'[c] = overtaken[c] /\ engine' = engine
      /\ UNCHANGED <<revision, state, told>>
  BY <1>2, EngineUnmoved DEF OneConnection, pageVars, EngineStill
<1>5. /\ Taken(c) /\ Overtaken(c) /\ Queue(c) /\ Listens(c) /\ Published /\ Staged(c)
      /\ Snapping(c) /\ Alive(c)
  BY <1>1, <1>2 DEF Mirrors, Follow, Handshakes, Snapping, Alive
<1>6. ~Showing(c) /\ ~Welcoming(c) /\ ~Opening(c) /\ ~Subscribing(c)
  BY <1>5 DEF Staged
<1>7. conn[c].subscribed /\ ~Fresh(c)
  BY <1>2, <1>5 DEF Listens, Fresh
<1>8. toPage[c] \in Seq(FromHost) /\ n \in Nat /\ revision \in Nat
  BY <1>1, Ranks, LinkAssumption
<1>9. toPage'[c] = IF link.socket = c /\ link.ready THEN Append(toPage[c], m) ELSE toPage[c]
  BY <1>3, <1>5, Sending
<1>10. Kept(toPage[c], toPage'[c], {"welcome"})
  BY <1>3, SentMoves
<1>11. (Current(c)' <=> Current(c)) /\ (Welcoming(c)' <=> Welcoming(c))
  BY <1>4, <1>10, CurrentStays DEF Current
<1>12. (Untold(c)' <=> Untold(c)) /\ ToldUpTo(c)' = ToldUpTo(c)
  BY <1>4 DEF Untold, ToldUpTo, EngineStill
<1>13. ASSUME Current(c)'
       PROVE  /\ toPage'[c] = Append(toPage[c], m) /\ ~remote'.connected
              /\ Len(toPage[c]) \in Nat
              /\ DOMAIN toPage'[c] = DOMAIN toPage[c] \cup {Len(toPage[c]) + 1}
              /\ toPage'[c][Len(toPage[c]) + 1] = m
              /\ \A i \in DOMAIN toPage[c] :
                   /\ toPage'[c][i] = toPage[c][i] /\ i < Len(toPage[c]) + 1
                   /\ toPage[c][i].type # "state"
  BY <1>4, <1>13, <1>9, <1>6, <1>3, <1>8, Added DEF Current, Showing, Tagged
<1>14. Mirrored(c)'
  BY <1>13 DEF Mirrored
<1>15. Stated(c)'
  <2> SUFFICES ASSUME Current(c)', NEW i \in DOMAIN toPage'[c], toPage'[c][i].type = "state",
                      NEW f \in Fields \ overtaken'[c]
               PROVE  Follows(c, i, toPage[c][i].revision, toPage[c][i].values, f)'
    BY DEF Stated
  <2>1. i = Len(toPage[c]) + 1 /\ toPage'[c][i] = m /\ toPage'[c] = Append(toPage[c], m)
    BY <1>13
  <2>2. CASE state[f].revision <= n
    BY <1>1, <1>4, <1>5, <2>2, <1>3, <2>1 DEF Taken, Follows
  <2>3. CASE ~(state[f].revision <= n)
    BY <1>1, <1>4, <1>5, <2>3, <1>11, Latest, <1>3, <1>13, <1>12, <2>1 DEF Taken, Ranked,
       Coming, Follows
  <2> QED
    BY <2>2, <2>3
<1>16. Overtaken(c)'
  <2> SUFFICES ASSUME overtaken[c] # {}
               PROVE  Overtaken(c)'
    BY <1>4 DEF Overtaken
  <2>1. n <= ToldUpTo(c)
    BY <1>1, <1>5 DEF Overtaken
  <2>2. ASSUME Current(c)', NEW i \in DOMAIN toPage'[c], toPage'[c][i].type = "state"
        PROVE  toPage'[c][i].revision <= ToldUpTo(c)'
    BY <1>13, <2>2, <1>3, <1>12, <2>1
  <2>3. Current(c)' => ~remote'.connected
    BY <1>13
  <2> QED
    BY <2>2, <2>3, <1>2, <1>6, <1>11 DEF Overtaken, Opening, Subscribing, Registering,
       Listening
<1>17. Queue(c)'
  <2> SUFFICES ASSUME Current(c)'
               PROVE  Queue(c)'
    BY DEF Queue
  <2>1. ~Ranked(m) /\ m.type # "update" /\ m.revision <= revision
    BY <1>1, <1>3, <1>5 DEF Ranked, Taken
  <2>2. \A i \in DOMAIN toPage'[c] : \/ i \in DOMAIN toPage[c] /\ toPage'[c][i] = toPage[c][i]
                                     \/ toPage'[c][i] = m
    BY <1>13
  <2>3. ASSUME NEW i \in DOMAIN toPage'[c], NEW j \in DOMAIN toPage'[c], i < j,
               Ranked(toPage'[c][i]), toPage'[c][j].type = "update"
        PROVE  toPage'[c][i].revision < toPage'[c][j].revision
    BY <1>5, <1>11, <2>1, <2>2, <2>3 DEF Queue
  <2>4. ASSUME NEW i \in DOMAIN toPage'[c]
        PROVE  /\ Tells(toPage'[c][i]) => toPage'[c][i].revision <= revision'
               /\ Ranked(toPage'[c][i]) => toPage'[c][i].revision <= ToldUpTo(c)'
               /\ \A f \in Fields : toPage'[c][i].type = "update" /\ f \in toPage'[c][i].fields =>
                    /\ toPage'[c][i].values[f]
                         = [engine |-> engine', revision |-> toPage'[c][i].revision]
                    /\ state'[f].revision >= toPage'[c][i].revision
    BY <1>4, <1>5, <1>11, <1>12, <2>1, <2>2 DEF Queue
  <2> QED
    BY <2>3, <2>4 DEF Queue
<1>18. Listens(c)'
  BY <1>4, <1>5, <1>10, <1>2, <1>7, <1>11 DEF Listens, Kept, Moved
<1>19. Follow(c)'
  BY <1>14, <1>15, <1>16, <1>17, <1>18, <1>2, <1>7 DEF Follow, Taken, Listening, Untouched,
     Fresh
<1> QED
  BY <1>2, <1>4, <1>19, FollowThread, <1>3, Sending

LEMMA MirrorsWelcomed ==
    ASSUME LinkTypeOK, Handshakes, Mirrors, NEW c \in Connections, Welcome(c)
    PROVE  Mirrors'
<1> DEFINE m == [type |-> "welcome", engine |-> engine]
<1>1. /\ LinkTypeOK' /\ OneConnection(c) /\ m \in FromHost /\ HostTakes(c, "hello")
      /\ conn'[c] = [conn[c] EXCEPT !.status = "open"] /\ toPage' = Sent(c, m)
      /\ UNCHANGED <<step, engineVars>>
  BY Welcomed DEF Welcome
<1>2. m.type = "welcome" /\ m.engine = engine
  OBVIOUS
<1> HIDE DEF m
<1>3. /\ EngineStill /\ UNCHANGED <<job, asked, jobs, link, remote, telling>>
      /\ overtaken'[c] = overtaken[c] /\ engine' = engine
  BY <1>1, EngineUnmoved DEF OneConnection, pageVars, EngineStill
<1>4. conn[c].status = "new" /\ step[c] = Listening /\ conn'[c].status = "open"
  BY ThreadAt, <1>1, Taking DEF ConnectionRecords
<1>5. toPage[c] = <<>> /\ overtaken[c] = {} /\ Staged(c)
  BY <1>4 DEF Mirrors, Follow, Untouched, Fresh, Handshakes
<1>6. ~Showing(c)
  BY <1>4, <1>5 DEF Staged
<1>7. /\ toPage'[c] = IF link.socket = c /\ link.ready THEN <<m>> ELSE <<>>
      /\ \A d \in Connections : d # c => toPage'[d] = toPage[d]
  <2>1. Append(<<>>, m) = <<m>>
    BY <1>1, SMT
  <2>2. Alive(c)
    BY <1>4 DEF Alive
  <2>3. \A d \in Connections :
          toPage'[d] = IF d = c /\ Alive(c) /\ link.socket = c /\ link.ready
                       THEN Append(toPage[d], m) ELSE toPage[d]
    BY <1>1, Sending
  <2>4. Append(toPage[c], m) = <<m>>
    BY <1>5, <2>1, Zenon
  <2> QED
    BY <1>5, <2>3, <2>4, <2>2
<1>8. \A i \in DOMAIN toPage'[c] : toPage'[c][i] = m /\ link.socket = c /\ link.ready
  BY <1>7
<1>9. ~Showing(c)' /\ ~Snapping(c)' /\ ~Fresh(c)'
  BY <1>1, <1>2, <1>3, <1>4, <1>6, <1>8 DEF Showing, Snapping, Tagged, Fresh, Listening
<1>10. c = link'.socket => ~remote'.connected
  BY <1>9 DEF Showing
<1>11. Stated(c)' /\ Queue(c)'
  BY <1>2, <1>8 DEF Stated, Queue, Ranked, Tells
<1>12. Listens(c)'
  BY Ranks, <1>2, <1>3, <1>8, <1>9, <1>7 DEF Listens, Current, Greeted
<1>13. Follow(c)'
  BY <1>11, <1>12, <1>1, <1>3, <1>4, <1>5, <1>9, <1>10 DEF Follow, Mirrored, Current, Taken,
     Overtaken, Untouched, Listening
<1> QED
  BY <1>1, <1>3, <1>7, <1>13, FollowThread, Taking

LEMMA MirrorsHost ==
    ASSUME LinkTypeOK, Handshakes, Mirrors, NEW c \in Connections, HostStep(c) \/ Leave(c)
    PROVE  Mirrors'
BY MirrorsThreads, MirrorsSubscribing, MirrorsShown, MirrorsWelcomed DEF HostStep

LEMMA StatedCarried ==
    ASSUME LinkTypeOK, NEW c \in Connections, Follow(c), toPage'[c] = toPage[c],
           Current(c)' => Current(c), overtaken'[c] = overtaken[c], Carried(c)
    PROVE  Stated(c)'
<1> SUFFICES ASSUME Current(c)', NEW i \in DOMAIN toPage'[c], toPage'[c][i].type = "state",
                    NEW f \in Fields \ overtaken'[c]
             PROVE  Follows(c, i, toPage[c][i].revision, toPage[c][i].values, f)'
  BY DEF Stated
<1>1. /\ i \in DOMAIN toPage[c] /\ i \in Nat /\ toPage[c][i].type = "state"
      /\ toPage[c][i].revision \in Nat
  BY Ranks DEF Tells
<1>2. PICK n, v : n = toPage[c][i].revision /\ v = toPage[c][i].values
  OBVIOUS
<1>3. n \in Nat /\ n <= revision
  BY <1>1, <1>2 DEF Follow, Queue, Tells
<1>4. Follows(c, i, n, v, f)
  BY <1>1, <1>2 DEF Follow, Stated
<1>5. Follows(c, i, n, v, f)'
  BY <1>1, <1>3, <1>4 DEF Carried, Follow, Listens, Showing, Tagged
<1> QED
  BY <1>5, <1>2 DEF Follows

LEMMA MirroredCarried ==
    ASSUME LinkTypeOK, NEW c \in Connections, Follow(c), UNCHANGED <<link, remote>>,
           revision <= revision', revision' \in Nat,
           Current(c)' => Current(c), overtaken'[c] = overtaken[c], Carried(c)
    PROVE  Mirrored(c)'
<1> SUFFICES ASSUME Current(c)', remote'.connected
             PROVE  /\ remote'.revision <= revision'
                    /\ \A f \in Fields \ overtaken'[c] :
                         Follows(c, 1, remote.revision, remote.values, f)'
  BY DEF Mirrored
<1>1. remote.revision \in Nat /\ revision \in Nat /\ remote.revision <= revision
  BY Ranks DEF Follow, Mirrored
<1>2. PICK n, v : n = remote.revision /\ v = remote.values
  OBVIOUS
<1>3. ASSUME NEW f \in Fields \ overtaken'[c]
      PROVE  Follows(c, 1, remote.revision, remote.values, f)'
  BY <1>2, <1>1 DEF Follow, Mirrored, Carried, Follows, Listens, Showing, Current
<1> QED
  BY <1>1, <1>3

\* A step of the engine thread that sends nothing.
LEMMA FollowEngine ==
    ASSUME LinkTypeOK, LinkTypeOK', NEW c \in Connections, Follow(c), EngineAlone,
           toPage'[c] = toPage[c], conn'[c] = conn[c], overtaken'[c] = overtaken[c],
           revision <= revision', ToldUpTo(c) <= ToldUpTo(c)',
           \A f \in Fields : state[f].revision <= state'[f].revision,
           Carried(c), Taken(c)', Untouched(c)'
    PROVE  Follow(c)'
<1>1. UNCHANGED <<link, remote, toHost, step, engine>>
  BY DEF EngineAlone, pageVars
<1>2. Current(c)' <=> Current(c)
  BY <1>1 DEF Current, Greeted, Welcoming, Tagged
<1>3. /\ revision' \in Nat /\ ToldUpTo(c) \in Int /\ ToldUpTo(c)' \in Int
      /\ \A n \in Nat : n <= ToldUpTo(c) => n <= ToldUpTo(c)'
      /\ remote.revision \in Nat
      /\ \A i \in DOMAIN toPage[c] : Tells(toPage[c][i]) => toPage[c][i].revision \in Nat
  BY Ranks DEF LinkTypeOK, EngineTyped, ToldUpTo
<1>4. Queue(c)'
  BY Ranks, Passes, <1>1, <1>2, QueuePassed DEF Follow
<1>5. Overtaken(c)'
  BY <1>1, LinkAssumption, ThreadAt, <1>3, <1>2 DEF Overtaken, Follow, Welcoming, Opening,
     Subscribing, Registering, Tagged, StepTyped, Listening, Tells
<1>6. Listens(c)'
  BY <1>1, <1>2 DEF Follow, Listens, Snapping, Showing, Tagged, Alive, Fresh
<1> QED
  BY <1>4, <1>5, <1>6, <1>1, <1>2, <1>3, StatedCarried, MirroredCarried DEF Follow

LEMMA UntouchedEngine ==
    ASSUME LinkTypeOK, Handshakes, NEW c \in Connections, Untouched(c),
           \/ \E changed \in Changes : Wake(changed)
           \/ RunCommand \/ RunQuery \/ CopyListeners \/ Told
    PROVE  Untouched(c)'
<1> SUFFICES ASSUME Fresh(c)'
             PROVE  Untouched(c)'
  BY DEF Untouched
<1>1. UNCHANGED <<toPage, conn, overtaken>>
  BY Woken, CommandRun, QueryRun, ListenersCopied, AllTold
<1>2. Fresh(c)
  BY <1>1 DEF Fresh
<1>3. jobs \in Seq(Jobs) /\ c # 0
  BY DEF LinkTypeOK, EngineTyped, Connections
<1>4. ASSUME jobs # <<>>
      PROVE  /\ Head(jobs).connection # c
             /\ \A i \in DOMAIN Tail(jobs) : Tail(jobs)[i].connection # c
  BY <1>2, <1>3, <1>4, TakenFirst DEF Untouched
<1>5. CASE \E changed \in Changes : Wake(changed)
  BY <1>5, Woken, <1>1, <1>2, <1>3 DEF Untouched, Background
<1>6. CASE RunCommand
  BY <1>6, CommandRun, <1>1, <1>2, <1>4 DEF Untouched
<1>7. CASE RunQuery
  BY <1>7, QueryRun, <1>1, <1>2, <1>4 DEF RunQuery, Untouched
<1>8. CASE CopyListeners
  BY <1>8, ListenersCopied, <1>2, <1>1 DEF Handshakes, Staged, Fresh, Untouched
<1>9. CASE Told
  BY <1>1, <1>2, <1>9, AllTold DEF Untouched
<1> QED
  BY <1>5, <1>6, <1>7, <1>8, <1>9

\* The last change stays, and whoever is still to be told of it will be.
LEMMA CarriedAlong ==
    ASSUME NEW c \in Connections, UNCHANGED state,
           toPage'[c] = toPage[c], conn'[c] = conn[c],
           \A f \in Fields : Alive(c) /\ conn[c].subscribed /\ Untold(c) /\ f \in told =>
             Untold(c)' /\ f \in told'
    PROVE  Carried(c)
<1> SUFFICES ASSUME NEW v, NEW i \in Nat, NEW n \in Nat, NEW f \in Fields,
                    Alive(c) => conn[c].subscribed, Follows(c, i, n, v, f)
             PROVE  Follows(c, i, n, v, f)'
  BY DEF Carried
<1>1. Alive(c)' <=> Alive(c)
  BY DEF Alive
<1> QED
  BY <1>1 DEF Follows, Coming, Brings

\* A publication.
LEMMA CarriedPublished ==
    ASSUME LinkTypeOK, NEW c \in Connections, Published, Queue(c),
           NEW changed \in Changes, Publishes(changed), UNCHANGED <<toPage, conn>>
    PROVE  Carried(c)
<1>0. /\ toPage[c] \in Seq(FromHost) /\ revision \in Nat /\ ToldUpTo(c) = revision
      /\ \A f \in Fields : state[f].revision \in Nat
      /\ \A j \in DOMAIN toPage[c] : Tells(toPage[c][j]) => toPage[c][j].revision \in Nat
      /\ ~Untold(c) /\ Untold(c)'
  BY Ranks DEF Publishes, Untold, ToldUpTo
<1> SUFFICES ASSUME NEW v, NEW i \in Nat, NEW n \in Nat, NEW f \in Fields,
                    n <= revision, Current(c), Follows(c, i, n, v, f)
             PROVE  Follows(c, i, n, v, f)'
  BY DEF Carried
<1>1. CASE f \in changed
  <2>1. state'[f].revision = revision + 1 /\ f \in told'
    BY <1>1 DEF Publishes
  <2>2. ASSUME NEW j \in DOMAIN toPage'[c], Ranked(toPage'[c][j])
        PROVE  toPage'[c][j].revision < state'[f].revision
    <3>1. toPage[c][j].revision \in Nat /\ toPage[c][j].revision <= ToldUpTo(c)
      BY <1>0, <2>2 DEF Queue, Tells
    <3> QED
      BY <1>0, <2>1, <3>1
  <2>3. Coming(c, i, f)'
    BY <1>0, <2>1, <2>2 DEF Coming
  <2> QED
    BY <2>3, <1>0, <2>1 DEF Follows
<1>2. CASE f \notin changed
  BY <1>2, <1>0 DEF Publishes, Alive, Coming, Brings, Follows
<1> QED
  BY <1>1, <1>2

\* A thread that is about to send a State has a listener.
LEMMA TakenListens ==
    ASSUME LinkTypeOK, NEW c \in Connections, Follow(c), step[c][1] = "state"
    PROVE  Alive(c) /\ conn[c].subscribed /\ step[c][2] \in Nat
<1> QED
  BY ThreadAt, LinkAssumption DEF Follow, Listens, Snapping, Alive, StepTyped, Listening

LEMMA MirrorsSilent ==
    ASSUME LinkTypeOK, Handshakes, Mirrors,
           \/ \E changed \in Changes : Wake(changed)
           \/ RunCommand \/ RunQuery \/ CopyListeners \/ Told
    PROVE  Mirrors'
<1>1. LinkTypeOK' /\ EngineAlone /\ UNCHANGED <<toPage, conn, overtaken>>
  BY Woken, CommandRun, QueryRun, ListenersCopied, AllTold
<1>2. UNCHANGED <<link, remote, outcome, step, engine>>
  BY <1>1 DEF EngineAlone, pageVars
<1>3. Published /\ \A c \in Connections : Follow(c)
  BY DEF Mirrors
<1>4. revision \in Nat /\ \A f \in Fields : state[f].revision \in Nat
  BY Ranks DEF LinkTypeOK, EngineTyped, Values
<1>5. ASSUME NEW changed \in Changes, Publishes(changed)
      PROVE  Mirrors'
  <2>1. /\ revision' = revision + 1 /\ at = "idle" /\ at' = "copy" /\ told' = changed
        /\ \A f \in Fields : \/ f \in changed /\ state'[f] = [engine |-> engine, revision |-> revision + 1]
                             \/ f \notin changed /\ state'[f] = state[f]
        /\ changed \subseteq Fields
    BY <1>5, LinkAssumption DEF Publishes
  <2>5. \A f \in Fields : /\ state[f].revision <= state'[f].revision
                          /\ state'[f].engine = engine /\ state'[f].revision <= revision'
    BY <1>3, <1>4, <2>1 DEF Published
  <2>3. Published'
    BY <1>2, <1>3, <2>1, <2>5 DEF Published
  <2>4. ASSUME NEW c \in Connections PROVE Follow(c)'
    BY <1>1, <1>3, <1>5, CarriedPublished, <1>4, <2>1, <1>2, TakenListens, UntouchedEngine,
       <2>5, FollowEngine DEF Follow, Untold, ToldUpTo, Taken
  <2> QED
    BY <2>3, <2>4 DEF Mirrors
<1>6. ASSUME UNCHANGED <<revision, state>>,
             at' \in {"copy", "tell"} => at \in {"copy", "tell"} /\ told' = told,
             \A c \in Connections :
                /\ Untold(c)' => Untold(c)
                /\ Alive(c) /\ conn[c].subscribed /\ Untold(c) => Untold(c)' /\ told' = told
      PROVE  Mirrors'
  BY <1>2, <1>3, <1>6, <1>1, CarriedAlong, <1>4, TakenListens, UntouchedEngine, FollowEngine
     DEF Published, ToldUpTo, Taken, Follow, Mirrors
<1>7. CASE \E changed \in Changes : Wake(changed)
  BY <1>5, <1>7, Woken
<1>8. CASE RunCommand
  BY <1>5, <1>8, CommandRun, <1>6 DEF Untold
<1>9. CASE RunQuery
  BY <1>9, QueryRun, <1>6 DEF Untold
<1>10. CASE CopyListeners
  BY <1>10, ListenersCopied, <1>6 DEF Untold
<1>11. CASE Told
  BY <1>11, AllTold, <1>6 DEF Untold
<1> QED
  BY <1>7, <1>8, <1>9, <1>10, <1>11

LEMMA MirrorsAnswered ==
    ASSUME LinkTypeOK, Mirrors, NEW j \in asked, AnswerQuery(j)
    PROVE  Mirrors'
<1> DEFINE m == Result(j)
<1>1. /\ LinkTypeOK' /\ EngineAlone /\ j.connection \in Connections
      /\ m \in FromHost /\ toPage' = Sent(j.connection, m)
      /\ UNCHANGED <<overtaken, revision, state, jobs, at, job, told, telling>>
      /\ asked' \subseteq asked
  BY QueryAnswered DEF AnswerQuery
<1>2. m.type = "result" /\ ~Tells(m)
  BY QueryAnswered, LinkAssumption DEF Result, Tells, Ranked
<1> HIDE DEF m
<1>3. EngineStill /\ UNCHANGED <<link, remote, outcome, toHost, step>>
  BY <1>1 DEF EngineAlone, EngineStill, pageVars
<1>4. ASSUME NEW c \in Connections PROVE Follow(c)'
  <2>1. Follow(c) /\ (Alive(c)' <=> Alive(c)) /\ (Fresh(c)' <=> Fresh(c))
        /\ conn'[c].subscribed = conn[c].subscribed
    BY EngineConnections DEF Mirrors, Alive, Fresh
  <2>2. toPage'[c] = toPage[c] \/ (c = j.connection /\ toPage'[c] = Append(toPage[c], m))
    BY <1>1, Sending
  <2>3. Untouched(c)'
    BY <2>1, <1>1, <2>2 DEF Follow, Untouched
  <2>4. Moved(toHost[c], toHost'[c], {"open_session", "subscribe"})
    BY <1>3, SameMoves DEF Kept
  <2> QED
    BY <1>1, <1>3, <2>1, <2>3, <2>4, FollowCalm, <1>2, <2>2
<1>5. Published'
  BY <1>1, <1>3, PublishedStays DEF Mirrors, Published, EngineStill
<1> QED
  BY <1>4, <1>5 DEF Mirrors

LEMMA TellingHeard ==
    ASSUME LinkTypeOK, Published, NEW c \in Connections, Follow(c), Telling(c)
    PROVE  /\ Untold(c) /\ ~Untold(c)' /\ ToldUpTo(c) = revision - 1 /\ ToldUpTo(c)' = revision
           /\ revision \in Nat /\ (Current(c)' <=> Current(c)) /\ (Alive(c)' <=> Alive(c))
           /\ ~Fresh(c) /\ ~Fresh(c)' /\ (Welcoming(c)' <=> Welcoming(c))
           /\ Tidings.type = "update" /\ Tidings.revision = revision /\ Tidings.fields = told
           /\ \A f \in told : Tidings.values[f] = state[f]
           /\ \A f \in told : state[f] = [engine |-> engine, revision |-> revision]
           /\ Kept(toPage[c], toPage'[c], {"welcome"})
           /\ \A i \in DOMAIN toPage[c] : i \in DOMAIN toPage'[c] /\ toPage'[c][i] = toPage[c][i]
           /\ \A i \in DOMAIN toPage'[c] :
                \/ i \in DOMAIN toPage[c] /\ toPage'[c][i] = toPage[c][i]
                \/ i = Len(toPage[c]) + 1 /\ toPage'[c][i] = Tidings
           /\ Alive(c) /\ Current(c) => /\ Len(toPage[c]) + 1 \in DOMAIN toPage'[c]
                                        /\ toPage'[c][Len(toPage[c]) + 1] = Tidings
           /\ Len(toPage[c]) \in Nat /\ \A i \in DOMAIN toPage[c] : i <= Len(toPage[c])
<1> DEFINE m == Tidings
<1>1. Untold(c) /\ ~Untold(c)' /\ revision \in Nat /\ engine' = engine
  BY Ranks DEF Telling, Untold
<1>2. ToldUpTo(c) = revision - 1 /\ ToldUpTo(c)' = revision
  BY <1>1 DEF ToldUpTo, Telling
<1>3. ~Fresh(c) /\ ~Fresh(c)' /\ (Alive(c)' <=> Alive(c))
  BY DEF Follow, Untouched, Telling, Fresh, Alive
<1>4. m.type = "update" /\ m.revision = revision /\ m.fields = told
      /\ \A f \in told : m.values[f] = state[f]
  BY DEF Tidings
<1>5. \A f \in told : state[f] = [engine |-> engine, revision |-> revision]
  BY DEF LinkTypeOK, EngineTyped, Published, Telling, Values
<1>6. toPage[c] \in Seq(FromHost) /\ m \in FromHost
  BY Ranks DEF Telling
<1> HIDE DEF m
<1>7. toPage'[c] = toPage[c] \/ toPage'[c] = Append(toPage[c], m)
  BY DEF Telling, m
<1>8. Kept(toPage[c], toPage'[c], {"welcome"})
  BY <1>4, <1>6, <1>7, Moves
<1>9. (Current(c)' <=> Current(c)) /\ (Welcoming(c)' <=> Welcoming(c))
  BY <1>1, <1>8, CurrentStays DEF Telling, Current
<1>10. Alive(c) /\ Current(c) => toPage'[c] = Append(toPage[c], m)
  BY DEF Telling, Current, m
<1>11. Len(toPage[c]) \in Nat /\ \A i \in DOMAIN toPage[c] : i <= Len(toPage[c])
  BY <1>6, LenProperties
<1> QED
  BY <1>1, <1>2, <1>3, <1>4, <1>5, <1>8, <1>9, <1>10, <1>11, <1>6, <1>7, Added DEF m

\* What lacks the change is told of it, or has it coming as before.
LEMMA ToldFollows ==
    ASSUME LinkTypeOK, Published, NEW c \in Connections, Follow(c), Telling(c), Current(c),
           NEW f \in Fields, f \notin overtaken[c] \ told,
           NEW i \in Nat, i <= Len(toPage[c]) + 1, NEW n \in Nat, NEW v,
           f \notin overtaken[c] => Follows(c, i, n, v, f),
           f \in overtaken[c] => n <= ToldUpTo(c)
    PROVE  Follows(c, i, n, v, f)'
<1>0. UNCHANGED <<state, told>> /\ state[f].revision \in Nat
  BY Ranks DEF Telling
<1>1. CASE f \in told
  <2>1. state[f].revision = revision /\ revision \in Nat
    BY <1>1, TellingHeard
  <2>2. CASE revision <= n
    BY <2>1, <2>2, TellingHeard, <1>0 DEF Follows
  <2>3. CASE ~(revision <= n)
    <3>1. CASE Alive(c)
      <4> DEFINE k == Len(toPage[c]) + 1
      <4>1. k \in DOMAIN toPage'[c] /\ toPage'[c][k] = Tidings
        BY <3>1, TellingHeard
      <4>2. Coming(c, i, f)'
        BY <4>1, <1>0, <1>1, <2>1, TellingHeard DEF Coming, Brings
      <4> QED
        BY <1>0, <2>1, <2>3, <4>2 DEF Follows
    <3>2. CASE ~Alive(c)
      BY <3>2, TellingHeard, <1>1, Latest, <1>0, <2>1, <2>3 DEF Telling, Follow, Coming,
         Follows
    <3> QED
      BY <3>1, <3>2
  <2> QED
    BY <2>2, <2>3
<1>2. CASE f \notin told
  <2>1. Coming(c, i, f) => Coming(c, i, f)'
    <3>1. CASE \E j \in DOMAIN toPage[c] : j >= i /\ Brings(toPage[c][j], f)
      <4>1. PICK j \in DOMAIN toPage[c] : j >= i /\ Brings(toPage[c][j], f)
        BY <3>1
      <4>2. j \in DOMAIN toPage'[c] /\ toPage'[c][j] = toPage[c][j]
        BY TellingHeard
      <4> QED
        BY <4>1, <4>2, <1>0 DEF Coming, Brings
    <3>2. CASE /\ ~Alive(c)
               /\ \A j \in DOMAIN toPage[c] :
                    Ranked(toPage[c][j]) => toPage[c][j].revision < state[f].revision
      BY <3>2, TellingHeard, <1>0 DEF Telling, Coming
    <3> QED
      BY <1>2, <3>1, <3>2 DEF Coming
  <2> QED
    BY <1>0, <2>1, <1>2 DEF Follows
<1> QED
  BY <1>1, <1>2

LEMMA FollowTold ==
    ASSUME LinkTypeOK, LinkTypeOK', Handshakes, Published, NEW c \in Connections, Follow(c),
           Telling(c)
    PROVE  Follow(c)'
<1>1. /\ Mirrored(c) /\ Stated(c) /\ Taken(c) /\ Overtaken(c) /\ Queue(c) /\ Listens(c)
      /\ UNCHANGED <<link, remote, toHost, step, conn, engine, revision, state, told>>
      /\ Staged(c)
  BY DEF Follow, Telling, Handshakes
<1>2. /\ ToldUpTo(c) = revision - 1 /\ ToldUpTo(c)' = revision /\ revision \in Nat
      /\ (Current(c)' <=> Current(c)) /\ (Welcoming(c)' <=> Welcoming(c))
      /\ (Alive(c)' <=> Alive(c)) /\ ~Fresh(c)' /\ ~Fresh(c)
      /\ Tidings.type = "update" /\ Tidings.revision = revision /\ Tidings.fields = told
      /\ \A i \in DOMAIN toPage'[c] :
           \/ i \in DOMAIN toPage[c] /\ toPage'[c][i] = toPage[c][i]
           \/ i = Len(toPage[c]) + 1 /\ toPage'[c][i] = Tidings
      /\ Len(toPage[c]) \in Nat /\ \A i \in DOMAIN toPage[c] : i <= Len(toPage[c])
  BY TellingHeard
<1>3. /\ remote.revision \in Nat /\ DOMAIN toPage[c] \subseteq Nat \ {0}
      /\ \A i \in DOMAIN toPage[c] : Tells(toPage[c][i]) => toPage[c][i].revision \in Nat
  BY Ranks
<1>4. overtaken'[c] = IF step[c][1] = "state" THEN overtaken[c] \cup told
                      ELSE overtaken[c] \ told
  BY DEF Telling
<1>5. \A i \in DOMAIN toPage'[c] : toPage'[c][i].type = "state" =>
        i \in DOMAIN toPage[c] /\ toPage'[c][i] = toPage[c][i]
  BY <1>2
<1>6. Showing(c)' <=> Showing(c)
  BY <1>5, TellingHeard, <1>1 DEF Tagged, Showing
<1>7. step[c][1] = "state" => ~Showing(c)
  BY <1>1 DEF Staged, Snapping
<1>8. Mirrored(c)'
  <2> SUFFICES ASSUME Current(c)', remote'.connected
               PROVE  Mirrored(c)'
    BY DEF Mirrored
  <2>1. PICK n, v : n = remote.revision /\ v = remote.values
    OBVIOUS
  <2>2. ASSUME NEW f \in Fields \ overtaken'[c]
        PROVE  Follows(c, 1, remote.revision, remote.values, f)'
    BY <1>1, <1>2, <2>1, <1>4, <1>3, ToldFollows, <1>7 DEF Mirrored, Overtaken, Follows,
       Showing, Current
  <2> QED
    BY <2>2, <1>1, <1>2 DEF Mirrored
<1>9. Stated(c)'
  <2> SUFFICES ASSUME Current(c)', NEW i \in DOMAIN toPage'[c], toPage'[c][i].type = "state",
                      NEW f \in Fields \ overtaken'[c]
               PROVE  Follows(c, i, toPage[c][i].revision, toPage[c][i].values, f)'
    BY DEF Stated
  <2>1. i \in DOMAIN toPage[c] /\ toPage'[c][i] = toPage[c][i]
    BY <1>5
  <2>2. PICK n, v : n = toPage[c][i].revision /\ v = toPage[c][i].values
    OBVIOUS
  <2>3. f \notin overtaken[c] => Follows(c, i, n, v, f)
    BY <1>1, <1>2, <2>1, <2>2 DEF Stated
  <2>4. f \in overtaken[c] => n <= ToldUpTo(c)
    BY <1>1, <1>2, <2>1, <2>2 DEF Overtaken
  <2>5. f \notin overtaken[c] \ told
    BY <1>4, <1>7, <2>1 DEF Showing, Tagged
  <2>6. Follows(c, i, n, v, f)'
    BY <1>2, <2>3, <2>4, <2>5, ToldFollows, <1>3, <2>1, <2>2 DEF Tells
  <2> QED
    BY <2>6, <2>1, <2>2 DEF Follows
<1>10. Taken(c)'
  BY <1>1, <1>4 DEF Taken
<1>11. Overtaken(c)'
  BY <1>1, <1>2, <1>6, <1>7, <1>4, <1>3, <1>5 DEF Overtaken, Staged, Snapping, Registering,
     Opening, Subscribing, Tagged, Taken, Showing, Current, Tells
<1>12. Queue(c)'
  <2> SUFFICES ASSUME Current(c)'
               PROVE  Queue(c)'
    BY DEF Queue
  <2>1. ASSUME NEW i \in DOMAIN toPage[c]
        PROVE  /\ Tells(toPage[c][i]) => toPage[c][i].revision <= revision
               /\ Ranked(toPage[c][i]) => toPage[c][i].revision <= revision - 1
               /\ Ranked(toPage[c][i]) => toPage[c][i].revision \in Nat
    BY <1>1, <1>2, <1>3 DEF Queue, Tells
  <2>2. ASSUME NEW i \in DOMAIN toPage'[c], NEW j \in DOMAIN toPage'[c], i < j,
               Ranked(toPage'[c][i]), toPage'[c][j].type = "update"
        PROVE  toPage'[c][i].revision < toPage'[c][j].revision
    BY <1>2, <1>3, <2>2, <1>1, <2>1 DEF Queue
  <2>3. ASSUME NEW i \in DOMAIN toPage'[c]
        PROVE  /\ Tells(toPage'[c][i]) => toPage'[c][i].revision <= revision'
               /\ Ranked(toPage'[c][i]) => toPage'[c][i].revision <= ToldUpTo(c)'
    BY <1>1, <1>2, <2>1
  <2>4. ASSUME NEW i \in DOMAIN toPage'[c], NEW f \in Fields,
               toPage'[c][i].type = "update", f \in toPage'[c][i].fields
        PROVE  /\ toPage'[c][i].values[f]
                    = [engine |-> engine', revision |-> toPage'[c][i].revision]
               /\ state'[f].revision >= toPage'[c][i].revision
    <3>1. CASE i \in DOMAIN toPage[c] /\ toPage'[c][i] = toPage[c][i]
      BY <1>1, <1>2, <2>4, <3>1 DEF Queue
    <3>2. CASE toPage'[c][i] = Tidings
      BY <1>2, <2>4, <3>2, TellingHeard, <1>1
    <3> QED
      BY <1>2, <3>1, <3>2
  <2> QED
    BY <2>2, <2>3, <2>4 DEF Queue
<1>13. Untouched(c)'
  BY <1>2 DEF Untouched
<1>14. Listens(c)'
  BY <1>1, <1>2, <1>6 DEF Listens, Snapping
<1> QED
  BY <1>8, <1>9, <1>10, <1>11, <1>12, <1>13, <1>14 DEF Follow

LEMMA MirrorsTold ==
    ASSUME LinkTypeOK, Handshakes, Mirrors, NEW c \in Connections, Tell(c)
    PROVE  Mirrors'
<1>1. /\ LinkTypeOK' /\ EngineAlone /\ at = "tell" /\ c \in telling
      /\ telling' = telling \ {c} /\ Tidings \in FromHost /\ toPage' = Sent(c, Tidings)
      /\ \A d \in Connections :
           overtaken'[d] = IF d # c THEN overtaken[d]
                           ELSE IF step[c][1] = "state" THEN overtaken[c] \cup told
                           ELSE overtaken[c] \ told
      /\ UNCHANGED <<conn, revision, state, jobs, at, job, told, asked>>
  BY ListenerTold
<1>2. UNCHANGED <<link, remote, outcome, toHost, step, engine>>
  BY <1>1 DEF EngineAlone, pageVars
<1>3. Published /\ \A d \in Connections : Follow(d)
  BY DEF Mirrors
<1>4. Published'
  BY <1>1, <1>2, <1>3, PublishedStays DEF Published
<1>5. \A d \in Connections :
        toPage'[d] = IF d = c /\ Alive(c) /\ link.socket = c /\ link.ready
                     THEN Append(toPage[d], Tidings) ELSE toPage[d]
  BY <1>1, Sending
<1>6. Follow(c)'
  BY <1>1, <1>2, <1>5, <1>3, FollowTold DEF Telling
<1>7. ASSUME NEW d \in Connections, d # c PROVE Follow(d)'
  BY <1>1, <1>5, <1>7, Ranks, CarriedAlong, <1>2, <1>3, FollowEngine DEF Untold, ToldUpTo,
     Follow, Taken, Untouched, Fresh
<1> QED
  BY <1>4, <1>6, <1>7 DEF Mirrors

LEMMA MirrorsReplied ==
    ASSUME LinkTypeOK, Mirrors, Reply
    PROVE  Mirrors'
<1> DEFINE m == Result(job)
<1>1. /\ LinkTypeOK' /\ EngineAlone /\ at = "reply" /\ at' = "idle" /\ job' = Background
      /\ job.connection \in Connections /\ job.request \in Commands
      /\ m \in FromHost /\ toPage' = Sent(job.connection, m)
      /\ UNCHANGED <<conn, overtaken, revision, state, jobs, told, telling, asked>>
  BY Replied
<1>2. m.type = "result" /\ m.revision = revision /\ Ranked(m)
  BY <1>1 DEF Result, Ranked
<1> HIDE DEF m
<1>3. UNCHANGED <<link, remote, outcome, toHost, step, engine>>
  BY <1>1 DEF EngineAlone, pageVars
<1>4. Published /\ \A d \in Connections : Follow(d)
  BY DEF Mirrors
<1>5. Published'
  BY <1>1, <1>3, <1>4 DEF Published
<1>6. ASSUME NEW c \in Connections PROVE Follow(c)'
  <2>1. ~Untold(c) /\ ~Untold(c)' /\ ToldUpTo(c) = revision /\ ToldUpTo(c)' = revision
    BY <1>1 DEF Untold, ToldUpTo
  <2>2. /\ toPage[c] \in Seq(FromHost) /\ DOMAIN toPage[c] \subseteq Nat \ {0}
        /\ revision \in Nat /\ \A f \in Fields : state[f].revision \in Nat
        /\ \A i \in DOMAIN toPage[c] : Tells(toPage[c][i]) => toPage[c][i].revision \in Nat
    BY Ranks
  <2>3. CASE toPage'[c] = toPage[c]
    BY <1>1, <2>1, <2>2, <2>3, CarriedAlong, <1>3, <1>4, FollowEngine DEF Follow, Taken,
       Untouched, Fresh, Background, Connections
  <2>4. CASE toPage'[c] # toPage[c]
    <3>1. toPage'[c] = Append(toPage[c], m) /\ Alive(c) /\ c = job.connection
      BY <1>1, <2>4, Sending
    <3>2. ~Fresh(c) /\ Alive(c)' /\ ~Fresh(c)'
      BY <1>1, <1>4, <3>1 DEF Follow, Untouched, Fresh, Alive
    <3>3. /\ \A i \in DOMAIN toPage[c] : /\ i \in DOMAIN toPage'[c] /\ toPage'[c][i] = toPage[c][i]
                                         /\ i < Len(toPage[c]) + 1
          /\ \A i \in DOMAIN toPage'[c] :
               \/ i \in DOMAIN toPage[c] /\ toPage'[c][i] = toPage[c][i]
               \/ i = Len(toPage[c]) + 1 /\ toPage'[c][i] = m
          /\ Len(toPage[c]) \in Nat
      BY <1>1, <2>2, <3>1, Added
    <3>4. (Current(c)' <=> Current(c)) /\ (Welcoming(c)' <=> Welcoming(c))
      BY <1>3, CurrentStays, <1>1, <1>2, <2>2, <3>1, Moves DEF Current
    <3>5. ASSUME NEW f \in Fields, NEW i, Coming(c, i, f)
          PROVE  Coming(c, i, f)'
      <4>1. PICK j \in DOMAIN toPage[c] : j >= i /\ Brings(toPage[c][j], f)
        BY <2>1, <3>1, <3>5 DEF Coming
      <4>2. j \in DOMAIN toPage'[c] /\ toPage'[c][j] = toPage[c][j]
        BY <3>3
      <4> QED
        BY <4>1, <4>2, <1>1 DEF Coming, Brings
    <3>6. Mirrored(c)'
      BY <1>1, <1>3, <1>4, <3>4, <3>5 DEF Mirrored, Follow, Follows
    <3>7. \A i \in DOMAIN toPage'[c] : toPage'[c][i].type = "state" =>
            i \in DOMAIN toPage[c] /\ toPage'[c][i] = toPage[c][i]
      BY <1>2, <3>3
    <3>8. Stated(c)'
      BY <3>7, <1>1, <1>4, <3>4, <3>5 DEF Stated, Follow, Follows
    <3>9. Overtaken(c)'
      BY <1>1, <1>3, <1>4, <2>1, <3>4, <3>7
         DEF Follow, Overtaken, Opening, Subscribing, Registering
    <3>10. Queue(c)'
      <4> SUFFICES ASSUME Current(c)'
                   PROVE  Queue(c)'
        BY DEF Queue
      <4>0. Queue(c) /\ Current(c)
        BY <1>4, <3>4 DEF Follow
      <4>1. ASSUME NEW i \in DOMAIN toPage'[c], NEW j \in DOMAIN toPage'[c], i < j,
                   Ranked(toPage'[c][i]), toPage'[c][j].type = "update"
            PROVE  toPage'[c][i].revision < toPage'[c][j].revision
        BY <1>2, <3>3, <4>1, <2>2, <4>0 DEF Queue
      <4>2. ASSUME NEW i \in DOMAIN toPage'[c]
            PROVE  /\ Tells(toPage'[c][i]) => toPage'[c][i].revision <= revision'
                   /\ Ranked(toPage'[c][i]) => toPage'[c][i].revision <= ToldUpTo(c)'
                   /\ \A f \in Fields :
                        toPage'[c][i].type = "update" /\ f \in toPage'[c][i].fields =>
                          /\ toPage'[c][i].values[f]
                               = [engine |-> engine', revision |-> toPage'[c][i].revision]
                          /\ state'[f].revision >= toPage'[c][i].revision
        <5>1. CASE i \in DOMAIN toPage[c] /\ toPage'[c][i] = toPage[c][i]
          BY <1>1, <1>3, <2>1, <4>0, <5>1 DEF Queue
        <5>2. CASE toPage'[c][i] = m
          BY <1>1, <1>2, <2>1, <2>2, <5>2
        <5> QED
          BY <3>3, <5>1, <5>2
      <4> QED
        BY <4>1, <4>2 DEF Queue
    <3>11. Listens(c)'
      BY <1>2, <1>3, <1>4, <3>3, <3>7, <1>1, <3>1, <3>2, <3>4 DEF Follow, Listens, Showing,
         Tagged, Snapping
    <3> QED
      BY <3>6, <3>8, <3>9, <3>10, <3>11, <1>1, <1>3, <1>4, <2>1, <3>2 DEF Follow, Taken,
         Untouched
  <2> QED
    BY <2>3, <2>4
<1> QED
  BY <1>5, <1>6 DEF Mirrors

LEMMA MirrorsRestarted ==
    ASSUME LinkTypeOK, Mirrors, Restart
    PROVE  Mirrors'
<1>1. /\ LinkTypeOK' /\ UNCHANGED <<pageVars, toPage, histories>>
      /\ engine' = engine + 1 /\ revision' = 0
      /\ state' = [f \in Fields |-> [engine |-> engine + 1, revision |-> 0]]
      /\ jobs' = <<>> /\ at' = "idle" /\ job' = Background
      /\ told' = {} /\ telling' = {} /\ asked' = {}
  BY Restarted
<1>2. UNCHANGED <<link, remote, outcome, toPage, overtaken>>
  BY <1>1 DEF pageVars, histories
<1>3. engine \in Nat /\ remote.engine_id \in Nat /\ remote.engine_id <= engine
  BY LinkAssumption DEF LinkTypeOK, EngineTyped, PageTyped, PageRecords, Mirrors, Published
<1>4. ASSUME NEW c \in Connections PROVE Follow(c)'
  <2>1. /\ conn'[c] = IF conn[c].status = "none" THEN conn[c]
                      ELSE [NewConnection EXCEPT !.status = "gone"]
        /\ step'[c] = Listening /\ toHost'[c] = <<>>
    BY <1>1, Restarted
  <2>2. Follow(c)
    BY DEF Mirrors
  <2>3. conn'[c].status \in {"none", "gone"} /\ (Fresh(c)' => Fresh(c))
    BY <2>1 DEF NewConnection, Fresh
  <2>4. \A i \in DOMAIN toPage'[c] : toPage'[c][i].type = "welcome" =>
          toPage'[c][i].engine <= engine' /\ toPage'[c][i].engine # engine'
    BY Ranks, HostMessages, <2>2, LinkAssumption, <1>1, <1>2, <1>3 DEF Follow, Listens
  <2>5. ~Current(c)'
    BY <1>1, <1>2, <1>3, <2>4 DEF Current, Greeted
  <2>6. Overtaken(c)'
    BY <2>1, <1>2, <2>2, <2>5 DEF Opening, Subscribing, Registering, Tagged, Listening,
       Welcoming, Follow, Overtaken
  <2>7. Untouched(c)'
    BY <1>1, <1>2, <2>2, <2>3 DEF Follow, Untouched, Background, Connections
  <2>8. Listens(c)'
    BY <2>3, <2>4 DEF Listens, Alive
  <2> QED
    BY <2>6, <2>7, <2>8, <2>1, <2>5 DEF Follow, Mirrored, Stated, Queue, Taken, Listening
<1>5. Published'
  BY <1>1, <1>2, <1>3 DEF Mirrors, Published
<1> QED
  BY <1>4, <1>5 DEF Mirrors

LEMMA MirrorsEngine ==
    ASSUME LinkTypeOK, Handshakes, Mirrors,
           \/ \E changed \in Changes : Wake(changed)
           \/ \E j \in asked : AnswerQuery(j)
           \/ Engine
           \/ Restart
    PROVE  Mirrors'
BY MirrorsSilent, MirrorsAnswered, MirrorsTold, MirrorsReplied, MirrorsRestarted DEF Engine

\* The page heard a message of connection c.
LEMMA FollowConsumed ==
    ASSUME LinkTypeOK, LinkTypeOK', NEW c \in Connections, Follow(c), c = link.socket,
           NEW t, NEW posts, Consumed(t, posts),
           link'.socket = link.socket, link'.ready = link.ready,
           Current(c)' => Current(c), Current(c) => Current(c)',
           Mirrored(c)', Showing(c)' => Showing(c),
           overtaken[c] # {} =>
             /\ (~Welcoming(c) /\ ~Opening(c) /\ ~Subscribing(c))'
             /\ Current(c)' /\ remote'.connected => remote'.revision <= ToldUpTo(c)
    PROVE  Follow(c)'
<1>1. /\ toPage[c] \in Seq(FromHost) /\ toPage[c] # <<>> /\ toPage'[c] = Tail(toPage[c])
      /\ UNCHANGED <<hostVars, histories>>
  BY DEF Consumed
<1>2. EngineStill /\ UNCHANGED <<conn, step, job, jobs, asked, overtaken, engine, telling>>
  BY <1>1 DEF hostVars, connVars, engineVars, histories, EngineStill
<1>3. Passed(toPage[c], toPage'[c], 1) /\ 1 \in {0, 1}
  BY <1>1, Passes
<1>4. ~Fresh(c) /\ ~Fresh(c)' /\ (Alive(c)' <=> Alive(c))
  BY <1>1, <1>2 DEF Follow, Untouched, Fresh, Alive
<1>5. ToldUpTo(c)' = ToldUpTo(c) /\ revision' = revision /\ state' = state
  BY <1>2 DEF EngineStill, ToldUpTo, Untold
<1>6. Stated(c)'
  BY <1>2, <1>3, <1>4, StatedPassed DEF Follow
<1>7. Queue(c)'
  BY <1>5, Ranks, <1>2, <1>3, QueuePassed DEF Follow
<1>8. Taken(c)'
  BY <1>2, TakenStays DEF Follow
<1>9. Overtaken(c)'
  BY <1>2, <1>3, <1>5 DEF Overtaken, Passed, Tells, Follow, Registering
<1>10. Untouched(c)'
  BY <1>4 DEF Untouched
<1> QED
  BY <1>6, <1>7, <1>8, <1>9, <1>10, <1>1, <1>2, TakenFirst, <1>4 DEF Follow, Listens, Snapping

\* Nothing else changes.
LEMMA MirrorsConsumed ==
    ASSUME LinkTypeOK, LinkTypeOK', Mirrors, NEW t, NEW posts, Consumed(t, posts),
           link'.socket = link.socket,
           \/ ~link'.ready /\ remote'.connected = remote.connected
           \/ \A c \in Connections : c = link.socket => Follow(c)',
           remote'.engine_id <= engine,
           \A r \in Commands : outcome'[r] = "waiting" /\ r \in remote'.pending =>
             remote'.connected
    PROVE  Mirrors'
<1>1. /\ EngineStill /\ UNCHANGED <<jobs, job, asked, conn, step, overtaken>>
      /\ UNCHANGED <<engine, state, revision, at, told>>
  BY DEF hostVars, connVars, engineVars, histories, EngineStill, Consumed
<1>2. Published'
  BY <1>1 DEF Mirrors, Published
<1>3. ASSUME NEW c \in Connections, c # link.socket \/ ~link'.ready,
             c = link.socket => remote'.connected = remote.connected
      PROVE  Follow(c)'
  BY ConsumedMoves, <1>3, <1>1, FollowOff DEF Mirrors, Consumed
<1> QED
  BY <1>2, <1>3 DEF Mirrors

\* What the page heard changes nothing it shows.
LEMMA MirroredHeard ==
    ASSUME LinkTypeOK, LinkTypeOK', NEW c \in Connections, Mirrored(c),
           EngineStill, overtaken'[c] = overtaken[c],
           remote'.connected = remote.connected, remote'.revision = remote.revision,
           remote'.values = remote.values, Passed(toPage[c], toPage'[c], 1),
           Current(c)' => Current(c), Alive(c)' => Alive(c),
           toPage[c][1].type = "update" => toPage[c][1].revision <= remote.revision
    PROVE  Mirrored(c)'
<1> SUFFICES ASSUME Current(c)', remote'.connected
             PROVE  /\ remote'.revision <= revision'
                    /\ \A f \in Fields \ overtaken'[c] :
                         Follows(c, 1, remote.revision, remote.values, f)'
  BY DEF Mirrored
<1>1. UNCHANGED <<revision, state, told>> /\ (Untold(c)' <=> Untold(c))
  BY DEF EngineStill, Untold
<1>2. ASSUME NEW f \in Fields \ overtaken'[c]
      PROVE  Follows(c, 1, remote.revision, remote.values, f)'
  BY Ranks, <1>1, ComingPassed DEF Mirrored, Brings, Follows
<1> QED
  BY <1>1, <1>2 DEF Mirrored

LEMMA MirrorsResults ==
    ASSUME LinkTypeOK, Handshakes, Mirrors, TakeResult \/ TakeSessionOpened
    PROVE  Mirrors'
<1>1. PICK t, posts :
        /\ LinkTypeOK' /\ UNCHANGED link /\ Consumed(t, posts)
        /\ t \in {"result", "session_opened"}
        /\ \A i \in DOMAIN posts : posts[i].type \notin {"open_session", "subscribe"}
        /\ remote'.connected = remote.connected /\ remote'.engine_id = remote.engine_id
        /\ remote'.revision = remote.revision /\ remote'.values = remote.values
        /\ \A q \in Commands :
             /\ outcome'[q] = "waiting" => outcome[q] = "waiting"
             /\ q \in remote'.pending => q \in remote.pending
  <2>0. remote \in PageRecords /\ \A q \in Commands : q \in Requests /\ q \notin cancelled
    BY LinkAssumption DEF LinkTypeOK, PageTyped, Requests
  <2>1. CASE TakeResult
    <3> DEFINE posts == Cancels(remote.pending \ {Message.request})
    <3>1. /\ LinkTypeOK' /\ UNCHANGED link /\ Consumed("result", posts)
          /\ remote' = [remote EXCEPT
                            !.pending = (remote.pending \ {Message.request}) \ cancelled]
          /\ \A q \in Requests : q \notin cancelled =>
                outcome'[q] = IF q = Message.request /\ q \in remote.pending THEN "done"
                              ELSE outcome[q]
      BY <2>1, ResultTaken
    <3>2. \A i \in DOMAIN posts : posts[i].type = "cancel"
      BY Cancelling
    <3>3. /\ remote'.connected = remote.connected /\ remote'.engine_id = remote.engine_id
          /\ remote'.revision = remote.revision /\ remote'.values = remote.values
          /\ remote'.pending = (remote.pending \ {Message.request}) \ cancelled
      BY <2>0, <3>1 DEF PageRecords
    <3>4. \A q \in Commands : /\ outcome'[q] = "waiting" => outcome[q] = "waiting"
                              /\ q \in remote'.pending => q \in remote.pending
      BY <2>0, <3>1, <3>3
    <3> HIDE DEF posts
    <3> QED
      BY <3>1, <3>2, <3>3, <3>4
  <2>2. CASE TakeSessionOpened
    <3> DEFINE posts == (<<WindowsMessage>> \o Again(Message.session))
                          \o Cancels(remote.pending \ {"open"})
    <3>1. /\ LinkTypeOK' /\ UNCHANGED link /\ Consumed("session_opened", posts)
          /\ WindowsMessage \in FromPage /\ Message.session \in SessionIds
          /\ remote' = [remote EXCEPT !.session_id = Message.session,
                            !.pending = (remote.pending \ {"open"}) \ cancelled]
          /\ \A q \in Requests : q \notin cancelled => outcome'[q] = outcome[q]
      BY <2>2, SessionTaken
    <3>2. \A i \in DOMAIN posts :
            posts[i].type \in {"session_windows", "media_create", "cancel"}
      BY <3>1, SessionPosts
    <3>3. /\ remote'.connected = remote.connected /\ remote'.engine_id = remote.engine_id
          /\ remote'.revision = remote.revision /\ remote'.values = remote.values
          /\ remote'.pending = (remote.pending \ {"open"}) \ cancelled
      BY <2>0, <3>1 DEF PageRecords
    <3>4. \A q \in Commands : /\ outcome'[q] = "waiting" => outcome[q] = "waiting"
                              /\ q \in remote'.pending => q \in remote.pending
      BY <2>0, <3>1, <3>3
    <3> HIDE DEF posts
    <3> QED
      BY <3>1, <3>2, <3>3, <3>4
  <2> QED
    BY <2>1, <2>2
<1>2. ASSUME NEW c \in Connections, c = link.socket
      PROVE  Follow(c)'
  <2>1. Follow(c) /\ Message = toPage[c][1] /\ Message.type = t /\ UNCHANGED <<hostVars, histories>>
        /\ toPage[c] \in Seq(FromHost) /\ toPage[c] # <<>> /\ toPage'[c] = Tail(toPage[c])
    BY <1>1, <1>2 DEF Mirrors, Consumed
  <2>2. EngineStill /\ UNCHANGED <<conn, engine>> /\ overtaken'[c] = overtaken[c]
    BY <2>1 DEF hostVars, connVars, engineVars, histories, EngineStill
  <2>3. (Current(c)' => Current(c)) /\ (Current(c) => Current(c)')
        /\ (Welcoming(c)' <=> Welcoming(c))
    BY <1>1, <2>2, CurrentStays, ConsumedMoves DEF Current
  <2>4. Moved(toHost[c], toHost'[c], {"open_session", "subscribe"})
    <3>1. toHost[c] \in Seq(FromPage) /\ posts \in Seq(FromPage)
      BY <1>1, SameMoves DEF Consumed
    <3>2. toHost'[c] = toHost[c] \/ toHost'[c] = toHost[c] \o posts
      BY <1>1 DEF Consumed
    <3> DEFINE T == {"open_session", "subscribe"}
    <3>3. \A i \in DOMAIN posts : posts[i].type \notin T
      BY <1>1
    <3> HIDE DEF T
    <3>4. Kept(toHost[c], toHost[c], T) /\ Kept(toHost[c], toHost[c] \o posts, T)
      BY <3>1, <3>3, Moves
    <3>5. Moved(toHost[c], toHost'[c], T)
      BY <3>2, <3>4 DEF Kept
    <3> QED
      BY <3>5 DEF T
  <2>5. /\ Opening(c)' => Opening(c)
        /\ Subscribing(c)' => Subscribing(c)
    BY <2>4 DEF Opening, Subscribing, Tagged, Moved
  <2>6. Passed(toPage[c], toPage'[c], 1)
    BY <2>1, Passes
  <2>7. Showing(c)' => Showing(c)
    BY <1>1, <2>6 DEF Showing, Tagged, Passed, Tells
  <2>8. Mirrored(c)'
    BY <2>2, <1>1, <2>1, <2>3, <2>6, MirroredHeard DEF Alive, Follow
  <2> QED
    BY <1>1, <1>2, <2>1, <2>3, <2>7, <2>8, FollowConsumed, <2>5 DEF Follow, Overtaken
<1> QED
  BY <1>1, <1>2, MirrorsConsumed DEF Published, Mirrors

LEMMA MirrorsGreeted ==
    ASSUME LinkTypeOK, Handshakes, Mirrors, TakeWelcome
    PROVE  Mirrors'
<1> DEFINE posts == Opens(Resumes(Message.engine)) \o Cancels(remote.pending \cup {"open", "subscribe"})
<1>1. /\ LinkTypeOK' /\ UNCHANGED link /\ Consumed("welcome", posts)
      /\ remote' = [remote EXCEPT !.engine_id = Message.engine, !.previous = NoSession,
                        !.pending = (remote.pending \cup {"open", "subscribe"}) \ cancelled]
      /\ \A q \in Requests : q \notin cancelled => outcome'[q] = outcome[q]
  BY WelcomeTaken
<1> HIDE DEF posts
<1>2. /\ remote'.connected = remote.connected /\ remote'.engine_id = Message.engine
      /\ remote'.pending = (remote.pending \cup {"open", "subscribe"}) \ cancelled
  BY <1>1 DEF LinkTypeOK, PageTyped, PageRecords
<1>3. PICK c \in Connections : c = link.socket
  BY <1>1 DEF Consumed
<1>4. /\ Follow(c) /\ Message = toPage[c][1] /\ Message.type = "welcome"
      /\ toPage[c] \in Seq(FromHost) /\ toPage[c] # <<>> /\ toPage'[c] = Tail(toPage[c])
      /\ 1 \in DOMAIN toPage[c] /\ UNCHANGED <<hostVars, histories>> /\ link.ready
  BY <1>1, <1>3 DEF Mirrors, Consumed
<1>5. Welcoming(c) /\ ~Welcoming(c)' /\ Staged(c)
  BY <1>1, <1>3, PageTaken DEF Handshakes, Ordered, Welcoming
<1>6. ~Showing(c) /\ ~remote.connected
  BY <1>3, <1>5 DEF Staged, Showing
<1>7. UNCHANGED <<engine, overtaken>> /\ overtaken[c] = {}
  BY <1>4, <1>5 DEF hostVars, engineVars, histories, Follow, Overtaken
<1>8. ~Greeted(c)'
  BY <1>5 DEF Greeted, Welcoming, Tagged
<1>9. Current(c)' <=> Current(c)
  BY <1>1, <1>2, <1>3, <1>5, <1>7, <1>8, <1>4 DEF Current, Handshakes, Ordered, Once, Greeted
<1>10. Mirrored(c)' /\ (Showing(c)' => Showing(c))
  BY <1>4, Passes, <1>1, <1>2, <1>6 DEF Tagged, Passed, Tells, Mirrored, Showing
<1>11. Follow(c)'
  BY <1>1, <1>3, <1>4, <1>7, <1>9, <1>10, FollowConsumed
<1>12. ASSUME NEW r \in Commands, outcome'[r] = "waiting", r \in remote'.pending
       PROVE  remote'.connected
  BY LinkAssumption, <1>1, <1>2, <1>12 DEF LinkTypeOK, PageTyped, Requests, Mirrors, Published
<1> QED
  BY <1>1, <1>2, <1>3, <1>11, <1>12, MirrorsConsumed, <1>4 DEF Follow, Listens

LEMMA MirrorsState ==
    ASSUME LinkTypeOK, Handshakes, Mirrors, TakeState
    PROVE  Mirrors'
<1> DEFINE posts == Cancels(remote.pending \ {"subscribe"})
<1>1. /\ LinkTypeOK' /\ link'.socket = link.socket /\ link'.ready = link.ready
      /\ Consumed("state", posts)
      /\ Message.revision \in 0 .. MaxChanges /\ Message.values \in [Fields -> Values]
      /\ remote' = [remote EXCEPT !.values = Message.values,
                        !.revision = Message.revision, !.connected = TRUE,
                        !.pending = (remote.pending \ {"subscribe"}) \ cancelled]
  BY StateTaken
<1>2. \A i \in DOMAIN posts : posts[i].type \notin {"open_session", "subscribe"}
  BY Cancelling
<1> HIDE DEF posts
<1>3. /\ remote'.connected /\ remote'.engine_id = remote.engine_id
      /\ remote'.revision = Message.revision /\ remote'.values = Message.values
  BY <1>1 DEF LinkTypeOK, PageTyped, PageRecords
<1>4. PICK c \in Connections : c = link.socket
  BY <1>1 DEF Consumed
<1>5. /\ Follow(c) /\ Message = toPage[c][1] /\ Message.type = "state"
      /\ toPage[c] \in Seq(FromHost) /\ toPage[c] # <<>> /\ toPage'[c] = Tail(toPage[c])
      /\ 1 \in DOMAIN toPage[c] /\ UNCHANGED <<hostVars, histories>> /\ link.ready
      /\ posts \in Seq(FromPage)
      /\ toHost'[c] = toHost[c] \/ toHost'[c] = toHost[c] \o posts
  BY <1>1, <1>4 DEF Mirrors, Consumed
<1>6. /\ EngineStill /\ UNCHANGED <<conn, engine, state, revision, told, overtaken>>
      /\ (Untold(c)' <=> Untold(c)) /\ (Alive(c)' <=> Alive(c))
  BY <1>5 DEF hostVars, connVars, engineVars, histories, EngineStill, Untold, Alive
<1>7. Showing(c) /\ Staged(c) /\ Passed(toPage[c], toPage'[c], 1)
  BY <1>5, Passes DEF Showing, Tagged, Handshakes
<1>8. ~Welcoming(c) /\ ~Opening(c) /\ ~Subscribing(c)
  BY <1>7 DEF Staged
<1>9. /\ Current(c)' => Current(c)
      /\ Current(c) => Current(c)'
      /\ Welcoming(c)' <=> Welcoming(c)
  <2>1. Kept(toPage[c], toPage'[c], {"welcome"})
    <3>1. PICK t : t = "state" /\ t \notin {"welcome"} /\ Consumed(t, posts)
      BY <1>1
    <3> QED
      BY <3>1, ConsumedMoves
  <2> QED
    BY <1>1, <1>3, <1>6, <2>1, CurrentStays DEF Current
<1>10. ~Opening(c)' /\ ~Subscribing(c)'
  <2> DEFINE T == {"open_session", "subscribe"}
  <2>1. toHost[c] \in Seq(FromPage) /\ \A i \in DOMAIN posts : posts[i].type \notin T
    BY <1>2, SameMoves
  <2> HIDE DEF T
  <2>2. Kept(toHost[c], toHost[c], T) /\ Kept(toHost[c], toHost[c] \o posts, T)
    BY <1>5, <2>1, Moves
  <2>3. Moved(toHost[c], toHost'[c], T)
    BY <1>5, <2>2 DEF Kept
  <2> QED
    BY <1>8, <2>3 DEF T, Opening, Subscribing, Tagged, Moved
<1>11. Mirrored(c)'
  <2> SUFFICES ASSUME Current(c)'
               PROVE  /\ remote'.revision <= revision'
                      /\ \A f \in Fields \ overtaken'[c] :
                           Follows(c, 1, remote.revision, remote.values, f)'
    BY DEF Mirrored
  <2>1. ASSUME NEW f \in Fields \ overtaken'[c]
        PROVE  Follows(c, 1, remote.revision, remote.values, f)'
    BY <1>5, <1>6, <1>9, Ranks, <1>7, ComingPassed, <1>3 DEF Follow, Stated, Brings, Follows
  <2> QED
    BY <2>1, <1>3, <1>5, <1>6, <1>9 DEF Follow, Queue, Tells
<1>12. Follow(c)'
  BY <1>1, <1>4, <1>5, <1>7, <1>9, <1>11, FollowConsumed, <1>3, <1>8, <1>10 DEF Follow,
     Overtaken
<1> QED
  BY <1>1, <1>3, <1>4, <1>12, MirrorsConsumed DEF Mirrors, Published

\* An update that the page applies.
LEMMA MirroredUpdated ==
    ASSUME LinkTypeOK, LinkTypeOK', NEW c \in Connections, c = link.socket, Follow(c), Published,
           EngineStill, overtaken'[c] = overtaken[c], Alive(c)' => Alive(c),
           Passed(toPage[c], toPage'[c], 1), Current(c)' => Current(c),
           1 \in DOMAIN toPage[c], toPage[c][1].type = "update",
           remote'.connected = remote.connected,
           toPage[c][1].revision > remote.revision, remote'.revision = toPage[c][1].revision,
           toPage[c][1].fields \subseteq Fields,
           remote'.values = [f \in Fields |-> IF f \in toPage[c][1].fields
                                              THEN toPage[c][1].values[f] ELSE remote.values[f]]
    PROVE  Mirrored(c)'
<1> SUFFICES ASSUME Current(c)', remote'.connected
             PROVE  /\ remote'.revision <= revision'
                    /\ \A f \in Fields \ overtaken'[c] :
                         Follows(c, 1, remote.revision, remote.values, f)'
  BY DEF Mirrored
<1>1. UNCHANGED <<revision, state, told>> /\ (Untold(c)' <=> Untold(c))
  BY DEF EngineStill, Untold
<1>2. PICK n : n = toPage[c][1].revision
  OBVIOUS
<1>3. /\ Mirrored(c) /\ Queue(c) /\ Current(c) /\ remote.connected
      /\ n \in Nat /\ remote.revision \in Nat /\ n > remote.revision /\ remote'.revision = n
      /\ DOMAIN toPage[c] \subseteq Nat \ {0}
      /\ \A f \in Fields : state[f].revision \in Nat /\ state[f] \in Values
  BY <1>2, Ranks DEF Follow, Tells, Ranked
<1>4. ASSUME NEW f \in Fields \ overtaken'[c]
      PROVE  Follows(c, 1, remote.revision, remote.values, f)'
  <2>1. Follows(c, 1, remote.revision, remote.values, f)
    BY <1>3 DEF Mirrored
  <2>2. ASSUME state[f].revision > n PROVE Coming(c, 1, f)'
    <3>1. Coming(c, 1, f)
      BY <1>3, <2>1, <2>2 DEF Follows
    <3>2. ASSUME NEW j \in DOMAIN toPage[c], j >= 1, Brings(toPage[c][j], f)
          PROVE  j > 1 /\ j - 1 >= 1
      BY <1>2, <1>3, <2>2, <3>2 DEF Brings
    <3> QED
      BY <1>1, <3>1, <3>2, ComingPassed
  <2>3. CASE f \in toPage[c][1].fields
    <3>1. /\ toPage[c][1].values[f] = [engine |-> engine, revision |-> n]
          /\ state[f].revision >= n
      BY <1>2, <1>3, <2>3 DEF Queue
    <3>2. CASE state[f].revision = n
      BY <1>3, <3>2, <1>1, <2>3, <3>1 DEF Published, Values, Follows
    <3>3. CASE state[f].revision # n
      BY <1>3, <3>1, <3>3, <1>1, <2>2 DEF Follows
    <3> QED
      BY <3>2, <3>3
  <2>4. CASE f \notin toPage[c][1].fields
    <3>1. CASE state[f].revision <= remote.revision
      BY <1>3, <2>1, <3>1, <1>1, <2>4 DEF Follows
    <3>2. CASE ~(state[f].revision <= remote.revision)
      <4>1. state[f].revision > n
        <5>1. CASE \E j \in DOMAIN toPage[c] : j >= 1 /\ Brings(toPage[c][j], f)
          <6>1. PICK j \in DOMAIN toPage[c] : j >= 1 /\ Brings(toPage[c][j], f)
            BY <5>1
          <6>2. n < toPage[c][j].revision
            BY <1>2, <1>3, <6>1, <2>4 DEF Queue, Ranked, Brings
          <6> QED
            BY <1>3, <6>2, <6>1 DEF Brings
        <5>2. CASE \A j \in DOMAIN toPage[c] :
                     Ranked(toPage[c][j]) => toPage[c][j].revision < state[f].revision
          BY <1>2, <1>3, <5>2 DEF Ranked
        <5> QED
          BY <5>1, <5>2, <2>1, <3>2 DEF Coming, Follows
      <4> QED
        BY <1>1, <1>3, <2>2, <4>1 DEF Follows
    <3> QED
      BY <3>1, <3>2
  <2> QED
    BY <2>3, <2>4
<1> QED
  BY <1>4, <1>1, <1>2, <1>3 DEF Mirrored, Queue, Tells, Ranked

LEMMA MirrorsUpdated ==
    ASSUME LinkTypeOK, Handshakes, Mirrors, TakeUpdate
    PROVE  Mirrors'
<1>1. PICK posts :
        /\ LinkTypeOK' /\ UNCHANGED link /\ Consumed("update", posts)
        /\ \A i \in DOMAIN posts : posts[i].type \notin {"open_session", "subscribe"}
  BY UpdateTaken
<1>2. /\ \A q \in Requests : q \notin cancelled => outcome'[q] = outcome[q]
      /\ Message.revision \in 0 .. MaxChanges /\ Message.fields \subseteq Fields
      /\ remote'.connected = remote.connected /\ remote'.engine_id = remote.engine_id
      /\ remote'.pending \subseteq remote.pending
      /\ \/ /\ Message.revision > remote.revision /\ remote'.revision = Message.revision
            /\ remote'.values = [f \in Fields |-> IF f \in Message.fields
                                                  THEN Message.values[f] ELSE remote.values[f]]
         \/ /\ ~(Message.revision > remote.revision) /\ remote'.revision = remote.revision
            /\ remote'.values = remote.values
  <2>1. remote \in PageRecords
    BY DEF LinkTypeOK, PageTyped
  <2>2. /\ \A q \in Requests : q \notin cancelled => outcome'[q] = outcome[q]
        /\ Message.revision \in 0 .. MaxChanges /\ Message.fields \subseteq Fields
        /\ \/ /\ Message.revision > remote.revision
              /\ remote' = [remote EXCEPT
                    !.values = [f \in Fields |-> IF f \in Message.fields
                                                 THEN Message.values[f] ELSE remote.values[f]],
                    !.revision = Message.revision,
                    !.pending = remote.pending \ cancelled]
           \/ /\ ~(Message.revision > remote.revision)
              /\ remote' = remote
    BY UpdateTaken
  <2> DEFINE F == [f \in Fields |-> IF f \in Message.fields
                                    THEN Message.values[f] ELSE remote.values[f]]
  <2> HIDE DEF F
  <2>3. CASE remote' = remote /\ ~(Message.revision > remote.revision)
    BY <2>2, <2>3
  <2>4. CASE /\ Message.revision > remote.revision
             /\ remote' = [remote EXCEPT !.values = F, !.revision = Message.revision,
                                         !.pending = remote.pending \ cancelled]
    BY <2>1, <2>4, <2>2 DEF PageRecords, F
  <2> QED
    BY <2>2, <2>3, <2>4 DEF F
<1>3. PICK c \in Connections : c = link.socket
  BY <1>1 DEF Consumed
<1>4. /\ Follow(c) /\ Message = toPage[c][1] /\ Message.type = "update"
      /\ toPage[c] \in Seq(FromHost) /\ toPage[c] # <<>> /\ toPage'[c] = Tail(toPage[c])
      /\ 1 \in DOMAIN toPage[c] /\ UNCHANGED <<hostVars, histories>> /\ link.ready
      /\ posts \in Seq(FromPage)
      /\ toHost'[c] = toHost[c] \/ toHost'[c] = toHost[c] \o posts
  BY <1>1, <1>3 DEF Mirrors, Consumed
<1>5. /\ EngineStill /\ UNCHANGED <<conn, engine, overtaken>> /\ (Alive(c)' <=> Alive(c))
  BY <1>4 DEF hostVars, connVars, engineVars, histories, EngineStill, Alive
<1>6. Passed(toPage[c], toPage'[c], 1)
  BY <1>4, Passes
<1>7. /\ Current(c)' => Current(c)
      /\ Current(c) => Current(c)'
      /\ Welcoming(c)' <=> Welcoming(c)
  <2>1. Kept(toPage[c], toPage'[c], {"welcome"})
    <3>1. PICK t : t = "update" /\ t \notin {"welcome"} /\ Consumed(t, posts)
      BY <1>1
    <3> QED
      BY <3>1, ConsumedMoves
  <2> QED
    BY <1>1, <1>2, <1>5, <2>1, CurrentStays DEF Current
<1>8. (Opening(c)' => Opening(c)) /\ (Subscribing(c)' => Subscribing(c))
  <2> DEFINE T == {"open_session", "subscribe"}
  <2>1. toHost[c] \in Seq(FromPage) /\ \A i \in DOMAIN posts : posts[i].type \notin T
    BY <1>1, SameMoves
  <2> HIDE DEF T
  <2>2. Kept(toHost[c], toHost[c], T) /\ Kept(toHost[c], toHost[c] \o posts, T)
    BY <1>4, <2>1, Moves
  <2>3. Moved(toHost[c], toHost'[c], T)
    BY <1>4, <2>2 DEF Kept
  <2> QED
    BY <2>3 DEF T, Opening, Subscribing, Tagged, Moved
<1>9. Showing(c)' => Showing(c)
  BY <1>1, <1>2, <1>6 DEF Showing, Tagged, Passed, Tells
<1>10. Mirrored(c)'
  BY <1>2, <1>4, <1>1, <1>3, <1>5, <1>6, <1>7, MirroredUpdated, Ranks, MirroredHeard DEF
     Mirrors, Tells, Ranked, Follow
<1>11. Follow(c)'
  BY <1>1, <1>3, <1>4, <1>7, <1>9, <1>10, FollowConsumed, <1>8, <1>2 DEF Follow, Overtaken,
     Queue, Ranked
<1>12. remote'.engine_id <= engine
  BY <1>2 DEF Mirrors, Published
<1> QED
  BY <1>1, <1>3, <1>11, <1>12, MirrorsConsumed, LinkAssumption, <1>2 DEF LinkTypeOK, PageTyped,
     Requests, Mirrors, Published

LEMMA MirrorsError ==
    ASSUME LinkTypeOK, Mirrors, TakeError
    PROVE  Mirrors'
<1>1. PICK posts : Consumed("error", posts)
  BY ErrorTaken
<1>2. link'.socket = link.socket /\ ~link'.ready
  BY ErrorTaken DEF LinkTypeOK, PageTyped, LinkRecords
<1>3. /\ remote'.connected = remote.connected /\ remote'.engine_id = remote.engine_id
      /\ remote'.pending = remote.pending \ cancelled
  BY ErrorTaken DEF LinkTypeOK, PageTyped, PageRecords
<1>4. remote'.engine_id <= engine
  BY <1>3 DEF Mirrors, Published
<1> QED
  BY <1>1, <1>2, <1>3, <1>4, ErrorTaken, MirrorsConsumed, LinkAssumption DEF LinkTypeOK,
     PageTyped, Requests, Mirrors, Published

\* What the page posts besides the handshake's messages.
LEMMA MirrorsPosted ==
    ASSUME LinkTypeOK, LinkTypeOK', Mirrors, NEW posts, Posts(posts),
           \A i \in DOMAIN posts : posts[i].type \notin {"open_session", "subscribe"},
           remote'.engine_id = remote.engine_id, remote'.connected = remote.connected,
           remote'.revision = remote.revision, remote'.values = remote.values,
           \A r \in Commands : outcome'[r] = "waiting" /\ r \in remote'.pending =>
             remote'.connected
    PROVE  Mirrors'
<1>1. UNCHANGED <<link, toPage, conn, step, engine, revision, state, jobs, at, job,
                  told, telling, asked, overtaken>>
  BY DEF Posts, hostVars, connVars, engineVars
<1>2. EngineStill
  BY <1>1 DEF EngineStill
<1>3. ASSUME NEW c \in Connections
      PROVE  Follow(c)'
  <2>1. Follow(c)
    BY DEF Mirrors
  <2>2. Moved(toHost[c], toHost'[c], {"open_session", "subscribe"})
    <3> DEFINE T == {"open_session", "subscribe"}
    <3>1. /\ toHost[c] \in Seq(FromPage) /\ \A i \in DOMAIN posts : posts[i].type \notin T
          /\ posts \in Seq(FromPage)
      BY SameMoves DEF Posts
    <3> HIDE DEF T
    <3>2. Moved(toHost[c], toHost'[c], T)
      BY <3>1, Moves DEF Kept, Posts
    <3> QED
      BY <3>2 DEF T
  <2> QED
    BY <1>1, <1>2, <2>1, <2>2, FollowCalm DEF Alive, Fresh, Follow, Untouched
<1>4. Published'
  BY <1>1, PublishedStays DEF Mirrors
<1> QED
  BY <1>3, <1>4 DEF Mirrors

LEMMA MirrorsActs ==
    ASSUME LinkTypeOK, Mirrors,
           \/ \E r \in Requests : Dispatch(r)
           \/ \E q \in Queries : Supersede(q)
           \/ \E w \in Windows : OpenWindow(w) \/ CloseWindow(w)
    PROVE  Mirrors'
<1>0. remote \in PageRecords /\ \A q \in Commands : q \in Requests /\ q \notin cancelled
  BY LinkAssumption DEF LinkTypeOK, PageTyped, Requests
<1>1. ASSUME NEW r \in Requests, Dispatch(r) PROVE Mirrors'
  <2>1. PICK posts : Posts(posts) /\ \A i \in DOMAIN posts : posts[i].type \in {"cancel", "command"}
    BY <1>1, DispatchPosts
  <2>2. /\ LinkTypeOK'
        /\ remote'.engine_id = remote.engine_id /\ remote'.connected = remote.connected
        /\ remote'.revision = remote.revision /\ remote'.values = remote.values
        /\ remote'.pending = (remote.pending \ cancelled)
                               \cup (IF remote.connected THEN {r} ELSE {})
    BY <1>0, <1>1, Dispatched DEF PageRecords
  <2>3. ASSUME NEW q \in Commands, outcome'[q] = "waiting", q \in remote'.pending
        PROVE  remote'.connected
    BY <1>0, <1>1, <2>2, <2>3, Dispatched DEF Mirrors, Published
  <2> QED
    BY <2>1, <2>2, <2>3, MirrorsPosted
<1>2. ASSUME NEW q \in Queries, Supersede(q) PROVE Mirrors'
  <2> DEFINE posts == <<>>
  <2>1. /\ LinkTypeOK' /\ UNCHANGED <<remote, outcome>>
        /\ UNCHANGED <<link, toHost, toPage, hostVars, overtaken>>
    BY <1>2, Superseded DEF channelVars, histories
  <2>2. Posts(posts) /\ \A i \in DOMAIN posts : posts[i].type \notin {"open_session", "subscribe"}
    BY <2>1, SameMoves DEF Posts
  <2>3. \A r \in Commands : outcome'[r] = "waiting" /\ r \in remote'.pending => remote'.connected
    BY <2>1 DEF Mirrors, Published
  <2> HIDE DEF posts
  <2> QED
    BY <2>1, <2>2, <2>3, MirrorsPosted
<1>3. ASSUME NEW w \in Windows, OpenWindow(w) \/ CloseWindow(w) PROVE Mirrors'
  <2>1. PICK posts : Posts(posts) /\ \A i \in DOMAIN posts :
                        posts[i].type \notin {"open_session", "subscribe"}
    BY <1>3, WindowPosts
  <2>2. /\ LinkTypeOK' /\ UNCHANGED outcome
        /\ remote'.engine_id = remote.engine_id /\ remote'.connected = remote.connected
        /\ remote'.revision = remote.revision /\ remote'.values = remote.values
        /\ remote'.pending = remote.pending
    BY <1>3, WindowChanged
  <2> QED
    BY <2>1, <2>2, MirrorsPosted DEF Mirrors, Published
<1> QED
  BY <1>1, <1>2, <1>3

LEMMA MirrorsDialled ==
    ASSUME LinkTypeOK, Handshakes, Mirrors, Dial
    PROVE  Mirrors'
<1>1. LinkTypeOK' /\ \E c \in Connections : Dials(c)
  BY Dialled
<1>2. PICK c \in Connections : Dials(c)
  BY <1>1
<1>3. UNCHANGED <<remote, cancelled, outcome, toPage, step, engine, revision, state, jobs, at,
                  job, told, telling, asked, overtaken>>
  BY <1>2 DEF Dials, engineVars
<1>4. /\ link.socket = 0 /\ link'.socket = c /\ conn[c].status = "none"
      /\ conn'[c].status = "new"
      /\ \A d \in Connections : d # c => conn'[d] = conn[d] /\ toHost'[d] = toHost[d]
  BY <1>2 DEF Dials, LinkTypeOK, PageTyped, LinkRecords, ConnectionsTyped, ChannelsTyped,
              ConnectionRecords
<1>5. EngineStill
  BY <1>3 DEF EngineStill
<1>6. ~remote.connected
  BY <1>4 DEF Handshakes, Known
<1>7. ASSUME NEW d \in Connections, d # c
      PROVE  Follow(d)'
  BY <1>3, SameMoves, <1>1, <1>4, <1>5, <1>6, <1>7, FollowOff DEF Kept, Mirrors
<1>8. Follow(c)'
  BY <1>4, <1>3, <1>6 DEF Mirrors, Follow, Untouched, Fresh, LinkTypeOK, ConnectionsTyped,
     StepTyped, Listening, Mirrored, Stated, Queue, Taken, Overtaken, Listens, Snapping,
     Showing, Tagged
<1>9. Published'
  BY <1>3, PublishedStays DEF Mirrors, Published
<1> QED
  BY <1>7, <1>8, <1>9 DEF Mirrors

LEMMA MirrorsDropped ==
    ASSUME LinkTypeOK, Mirrors, Closed \/ Reload
    PROVE  Mirrors'
<1>1. LinkTypeOK' /\ Drops
  BY ClosedThen, Reloaded
<1>2. UNCHANGED <<toHost, conn, step, engine, revision, state, jobs, at, job, told, telling,
                  asked, overtaken>>
  BY <1>1 DEF Drops, hostVars, connVars, engineVars, histories
<1>3. EngineStill
  BY <1>2 DEF EngineStill
<1>4. ~remote'.connected /\ remote'.pending = {} /\ remote'.engine_id <= engine
  <2>0. remote \in PageRecords /\ remote.engine_id <= engine /\ engine \in Nat
    BY DEF LinkTypeOK, PageTyped, Mirrors, Published, EngineTyped
  <2>1. CASE Closed
    BY <2>0, <2>1, ClosedThen DEF PageRecords
  <2>2. CASE Reload
    BY <2>0, <2>2, Reloaded DEF NewRemote
  <2> QED
    BY <2>1, <2>2
<1>5. ASSUME NEW c \in Connections
      PROVE  Follow(c)'
  BY <1>1, DroppedMoves, <1>2, <1>3, <1>4, FollowOff DEF Mirrors, Drops
<1>6. Published'
  BY <1>2, <1>4 DEF Mirrors, Published
<1> QED
  BY <1>5, <1>6 DEF Mirrors

LEMMA MirrorsKept ==
    ASSUME LinkTypeOK, Handshakes, Mirrors, [Next]_vars
    PROVE  Mirrors'
<1>1. CASE Page
  BY <1>1, MirrorsDialled, MirrorsDropped, MirrorsActs, MirrorsError, MirrorsUpdated, MirrorsState,
     MirrorsResults, MirrorsGreeted DEF Page, PageTakes
<1>2. CASE Host
  BY <1>2, MirrorsHost, MirrorsEngine DEF Host
<1>3. CASE UNCHANGED vars
  BY <1>3, PublishedStays, LinkTyped, FollowElse DEF vars, pageVars, channelVars, hostVars,
     connVars, engineVars, histories, Mirrors, Published, EngineStill
<1> QED
  BY <1>1, <1>2, <1>3 DEF Next

LEMMA MirrorsFirst == Init => Mirrors
<1> SUFFICES ASSUME Init
             PROVE  Mirrors
  OBVIOUS
<1>1. Published
  BY LinkAssumption DEF Init, Published, NewRemote, Requests
<1>2. ASSUME NEW c \in Connections
      PROVE  Follow(c)
  BY DEF Init, Current, NewLink, Fresh, NewConnection, NewRemote, Mirrored, Stated, Queue,
     Taken, Overtaken, Listening, Untouched, Listens, Snapping, Showing, Tagged, Background,
     Connections, Follow
<1> QED
  BY <1>1, <1>2 DEF Mirrors

\* A connected page that heard everything sent to it shows the engine's state,
\* except for fields told between the snapshot and the State made from it: no
\* loss, reconnection, restart or interleaving of the listeners' thread with a
\* subscription leaves the mirror behind (channel.rs, Subscribe; remote.rs, Update).
THEOREM MirrorKeepsUp == Spec => []MirrorFollows
<1>1. ASSUME LinkTypeOK, Handshakes, Mirrors
      PROVE  MirrorFollows
  BY <1>1 DEF MirrorFollows, Quiet, Showing, Handshakes, Mirrors, Staged, Fresh, Follow,
     Listens, Mirrored, Coming, Untold, Follows
<1>2. LinkTypeOK /\ Handshakes /\ [Next]_vars => Handshakes'
  BY HandshakesKept
<1>3. LinkTypeOK /\ Handshakes /\ Mirrors /\ [Next]_vars => Mirrors'
  BY MirrorsKept
<1>4. LinkTypeOK /\ Handshakes /\ Mirrors => MirrorFollows
  BY <1>1
<1> QED
  BY <1>2, <1>3, <1>4, LinkTypes, HandshakesFirst, MirrorsFirst, PTL DEF Spec

\* A command that waits is answered by a result on its connection, only.
LEMMA AnsweredByResult ==
    ASSUME LinkTypeOK, [Next]_vars, NEW r \in Commands,
           outcome[r] = "waiting", outcome'[r] = "done"
    PROVE  TakeResult /\ r \in remote.pending /\ Message.request = r
<1>1. r \in Requests /\ r \notin cancelled /\ outcome'[r] # outcome[r]
  BY LinkAssumption DEF LinkTypeOK, PageTyped, Requests
<1>2. CASE UNCHANGED outcome
  BY <1>1, <1>2
<1>3. CASE Closed
  BY <1>1, <1>3, ClosedThen
<1>4. CASE Reload
  BY <1>1, <1>4, Reloaded
<1>5. CASE TakeError
  BY <1>1, <1>5, ErrorTaken
<1>6. CASE TakeUpdate
  BY <1>1, <1>6, UpdateTaken
<1>7. CASE TakeState
  BY <1>1, <1>7, StateTaken
<1>8. CASE TakeWelcome
  BY <1>1, <1>8, WelcomeTaken
<1>9. CASE TakeSessionOpened
  BY <1>1, <1>9, SessionTaken
<1>10. CASE TakeResult
  BY <1>1, <1>10, ResultTaken
<1>11. ASSUME NEW q \in Requests, Dispatch(q)
       PROVE  FALSE
  BY <1>1, <1>11, Dispatched
<1>12. ASSUME NEW q \in Queries, Supersede(q)
       PROVE  UNCHANGED outcome
  BY <1>12 DEF Supersede
<1>13. ASSUME NEW w \in Windows, OpenWindow(w) \/ CloseWindow(w)
       PROVE  UNCHANGED outcome
  BY <1>13 DEF OpenWindow, CloseWindow
<1>14. CASE Dial
  BY <1>2, <1>14 DEF Dial
<1>15. CASE Page
  BY <1>2, <1>3, <1>4, <1>5, <1>6, <1>7, <1>8, <1>9, <1>10, <1>11, <1>12, <1>13, <1>14, <1>15
     DEF Page, PageTakes
<1>16. CASE Host
  BY <1>2, <1>16 DEF HostStep, Leave, Welcome, OpenSession, Register, Subscribe, Snapshot,
     SendState, Command, Cancel, ReportWindows, CreatePlayer, ReleasePlayer, ReleaseWindow,
     Unregister, ReleaseReported, Gone, pageVars, Wake, AnswerQuery, Engine, RunCommand,
     RunQuery, CopyListeners, Tell, Told, Reply, Restart, Host
<1>17. CASE UNCHANGED vars
  BY <1>2, <1>17 DEF vars, pageVars
<1> QED
  BY <1>15, <1>16, <1>17 DEF Next

\* The result of a command comes after what the engine had published by then.
LEMMA ResultsFollow ==
    ASSUME LinkTypeOK, Handshakes, Mirrors, [Next]_vars, NEW r \in Commands,
           outcome[r] = "waiting", outcome'[r] = "done", remote.engine_id = engine,
           NEW f \in Fields \ overtaken[link.socket], state[f].revision <= Message.revision
    PROVE  remote.values[f] = state[f]
<1>1. TakeResult /\ r \in remote.pending /\ Message.request = r
  BY AnsweredByResult
<1>2. PICK posts : Consumed("result", posts)
  BY <1>1, ResultTaken
<1>3. PICK c \in Connections : c = link.socket
  BY <1>2 DEF Consumed
<1>4. /\ link.ready /\ toPage[c] \in Seq(FromHost) /\ 1 \in DOMAIN toPage[c]
      /\ Message = toPage[c][1] /\ Ranked(toPage[c][1])
  BY <1>1, <1>2, <1>3 DEF Consumed, Ranked
<1>5. remote.connected /\ Follow(c) /\ Staged(c)
  BY <1>1 DEF Mirrors, Published, Handshakes
<1>6. ~Welcoming(c)
  BY <1>3, <1>5 DEF Showing, Staged
<1>7. Current(c)
  BY <1>3, <1>4, <1>6 DEF Current
<1>8. ~Coming(c, 1, f)
  <2> SUFFICES ASSUME Coming(c, 1, f)
               PROVE  FALSE
    OBVIOUS
  <2>0. /\ state[f].revision \in Nat /\ toPage[c][1].revision \in Nat
        /\ state[f].revision <= toPage[c][1].revision
    BY <1>4, Ranks DEF LinkTypeOK, EngineTyped, Tells, Values
  <2>1. CASE \E j \in DOMAIN toPage[c] : j >= 1 /\ Brings(toPage[c][j], f)
    <3>1. PICK j \in DOMAIN toPage[c] : j >= 1 /\ Brings(toPage[c][j], f)
      BY <2>1
    <3>2. j # 1
      BY <1>2, <1>4, <3>1 DEF Brings, Consumed
    <3>3. 1 < j
      BY <1>4, <3>1, <3>2
    <3> QED
      BY <2>0, <3>1, <1>4, <1>5, <1>7, <3>3 DEF Brings, Follow, Queue
  <2>2. CASE \A j \in DOMAIN toPage[c] :
               Ranked(toPage[c][j]) => toPage[c][j].revision < state[f].revision
    BY <1>4, <2>0, <2>2
  <2> QED
    BY <2>1, <2>2 DEF Coming
<1> QED
  BY <1>8, <1>3, <1>5, <1>7 DEF Follows, Follow, Mirrored

\* A caller learns the result of its command when the page's mirror has what the
\* engine had published when it answered: a reply never overtakes an update on its
\* way (lib.rs, tell, runs before the reply; one channel keeps the order).
THEOREM RepliesKeepOrder == Spec => RepliesFollowMirror
<1>1. ASSUME LinkTypeOK, Handshakes, Mirrors, [Next]_vars
      PROVE  [\A r \in Commands :
                outcome[r] = "waiting" /\ outcome'[r] = "done" /\ remote.engine_id = engine =>
                  \A f \in Fields \ overtaken[link.socket] :
                    state[f].revision <= Message.revision => remote.values[f] = state[f]]_vars
  BY <1>1, ResultsFollow
<1>2. LinkTypeOK /\ Handshakes /\ [Next]_vars => Handshakes'
  BY HandshakesKept
<1>3. LinkTypeOK /\ Handshakes /\ Mirrors /\ [Next]_vars => Mirrors'
  BY MirrorsKept
<1>4. LinkTypeOK /\ Handshakes /\ Mirrors /\ [Next]_vars =>
        [\A r \in Commands :
           outcome[r] = "waiting" /\ outcome'[r] = "done" /\ remote.engine_id = engine =>
             \A f \in Fields \ overtaken[link.socket] :
               state[f].revision <= Message.revision => remote.values[f] = state[f]]_vars
  BY <1>1
<1> QED
  BY <1>2, <1>3, <1>4, LinkTypes, HandshakesFirst, MirrorsFirst, PTL
     DEF Spec, RepliesFollowMirror

-----------------------------------------------------------------------------
(* Players carry over.                                                      *)

LEMMA Forwarding ==
    ASSUME LinkTypeOK, NEW c \in Connections
    PROVE  /\ toHost'[c] = toHost[c] => Forwards(c, 0)
           /\ \A posts \in Seq(FromPage) :
                /\ \A i \in DOMAIN posts : posts[i].type \notin Shows
                /\ toHost'[c] = toHost[c] \o posts
                => Forwards(c, 0)
           /\ \A d \in Connections : \A t : HostTakes(d, t) =>
                IF d = c THEN Forwards(c, 1) ELSE Forwards(c, 0)
<1>0. toHost[c] \in Seq(FromPage) /\ DOMAIN toHost[c] \subseteq Nat \ {0}
  BY LenProperties DEF LinkTypeOK, ChannelsTyped
<1>1. ASSUME toHost'[c] = toHost[c]
      PROVE  Forwards(c, 0)
  BY <1>0, <1>1 DEF Forwards
<1>2. ASSUME NEW posts \in Seq(FromPage), \A i \in DOMAIN posts : posts[i].type \notin Shows,
             toHost'[c] = toHost[c] \o posts
      PROVE  Forwards(c, 0)
  <2>1. \A j \in DOMAIN toHost[c] : j - 0 \in DOMAIN toHost'[c] /\ toHost'[c][j - 0] = toHost[c][j]
    BY <1>0, <1>2, Joined
  <2>2. ASSUME NEW i \in DOMAIN toHost'[c]
        PROVE  /\ i \in Nat \ {0}
               /\ toHost'[c][i].type \in Shows =>
                    i + 0 \in DOMAIN toHost[c] /\ toHost'[c][i] = toHost[c][i + 0]
    <3>1. CASE i \in DOMAIN toHost[c]
      BY <1>0, <1>2, <3>1, Joined
    <3>2. CASE i \notin DOMAIN toHost[c]
      BY <1>0, <1>2, <3>2, Joined
    <3> QED
      BY <3>1, <3>2
  <2> QED
    BY <1>0, <2>1, <2>2 DEF Forwards
<1>3. ASSUME NEW d \in Connections, NEW t, HostTakes(d, t)
      PROVE  IF d = c THEN Forwards(c, 1) ELSE Forwards(c, 0)
  <2>1. CASE d = c
    <3>1. toHost[c] # <<>> /\ toHost'[c] = Tail(toHost[c])
      BY <1>3, <2>1, Taking
    <3> QED
      BY <1>0, <2>1, <3>1, TakenFirst DEF Forwards
  <2>2. CASE d # c
    BY <1>1, <1>3, <2>2, Taking
  <2> QED
    BY <2>1, <2>2
<1> QED
  BY <1>1, <1>2, <1>3

\* What of the players' places that keeps.
LEMMA PlacedShifted ==
    ASSUME LinkTypeOK, NEW c \in Connections, Placed(c), NEW k, Forwards(c, k),
           remote'.created = remote.created, remote'.windows = remote.windows,
           \A x \in Players : Stands(c, x, 0)' => Stands(c, x, 0) \/ (k = 1 /\ Stands(c, x, 1)),
           \A p \in remote.created :
             Stands(c, p.player, 0) \/ (k = 1 /\ Stands(c, p.player, 1)) => Stands(c, p.player, 0)',
           k = 1 => \A x \in Players : Releases(toHost[c][1], x) => ~Stands(c, x, 0)'
    PROVE  Placed(c)'
<1>0. /\ k \in {0, 1}
      /\ DOMAIN toHost[c] \subseteq Nat \ {0} /\ DOMAIN toHost'[c] \subseteq Nat \ {0}
      /\ Places(c) = {0} \cup DOMAIN toHost[c] /\ Places(c)' = {0} \cup DOMAIN toHost'[c]
      /\ remote.created \subseteq [player : Players, owner : Windows]
  BY DEF Forwards, Places, LinkTypeOK, PageTyped, PageRecords
\* Where a player stood.
<1>1. ASSUME NEW x \in Players, NEW i \in Places(c)', Stands(c, x, i)'
      PROVE  /\ i = 0 => Stands(c, x, 0) \/ (k = 1 /\ 1 \in Places(c) /\ Stands(c, x, 1))
             /\ i # 0 => i + k \in Places(c) /\ Stands(c, x, i + k)
  BY <1>1, <1>0 DEF Stands, Places, Forwards, Shows
<1>2. ASSUME NEW x \in Players, NEW y \in Players, NEW i \in Places(c)', NEW j \in Places(c)',
             Stands(c, x, i)', Stands(c, y, j)', x.window = y.window
      PROVE  x = y /\ i = j
  <2>1. PICK m \in Places(c) : Stands(c, x, m) /\ IF i = 0 THEN m \in {0, k} ELSE m = i + k
    BY <1>0, <1>1, <1>2
  <2>2. PICK n \in Places(c) : Stands(c, y, n) /\ IF j = 0 THEN n \in {0, k} ELSE n = j + k
    BY <1>0, <1>1, <1>2
  <2> QED
    BY <1>0, <2>1, <2>2, <1>2 DEF Placed
<1>3. ASSUME NEW x \in Players, NEW i \in Places(c)', Stands(c, x, i)'
      PROVE  /\ remote.windows[x.window] # "new"
             /\ \/ \E p \in remote.created : p.player = x
                \/ \E j \in DOMAIN toHost'[c] : j > i /\ Releases(toHost'[c][j], x)
  <2>1. PICK m \in Places(c) : Stands(c, x, m) /\ IF i = 0 THEN m \in {0, k} ELSE m = i + k
    BY <1>0, <1>1, <1>3
  <2>2. ASSUME NEW j \in DOMAIN toHost[c], j > m, Releases(toHost[c][j], x)
        PROVE  \E n \in DOMAIN toHost'[c] : n > i /\ Releases(toHost'[c][n], x)
    BY <1>0, <1>3, <2>2, <2>1 DEF Forwards
  <2> QED
    BY <2>1, <2>2 DEF Placed
<1>4. ASSUME NEW p \in remote.created
      PROVE  \E i \in Places(c)' : Stands(c, p.player, i)'
  <2>1. PICK m \in Places(c) : Stands(c, p.player, m)
    BY DEF Placed
  <2>2. CASE m = 0 \/ m = k
    BY <1>0, <2>1, <2>2
  <2>3. CASE m # 0 /\ m # k
    BY <1>0, <2>1, <2>3 DEF Stands, Forwards
  <2> QED
    BY <2>2, <2>3
<1>5. ASSUME NEW w \in Windows, NEW i \in DOMAIN toHost'[c], Closes(toHost'[c][i], w)
      PROVE  remote.windows[w] = "closed"
  BY <1>5 DEF Closes, Forwards, Shows, Placed
<1> QED
  BY <1>2, <1>3, <1>4, <1>5 DEF Placed

\* What of the owners' reports, and of a page that said nothing.
LEMMA CoveredShifted ==
    ASSUME LinkTypeOK, NEW c \in Connections, Covered(c), NEW k, Forwards(c, k),
           conn'[c].session = conn[c].session \/ ~Serving(c),
           conn[c].windows \subseteq conn'[c].windows,
           Alive(c)' => Alive(c),
           Lives(c)' => \A p \in players' : p.owner \in conn'[c].windows,
           k = 1 /\ toHost[c][1].type = "session_windows" => \A w \in toHost[c][1].windows :
             [session |-> conn[c].session, window |-> w] \in conn'[c].windows
    PROVE  Covered(c)'
<1> SUFFICES ASSUME Alive(c)', NEW i \in DOMAIN toHost'[c], toHost'[c][i].type = "media_create"
             PROVE  /\ Serving(c)' /\ toHost'[c][i].owner.session = conn'[c].session
                    /\ \/ toHost'[c][i].owner \in conn'[c].windows
                       \/ \E j \in DOMAIN toHost'[c] :
                            /\ j < i /\ toHost'[c][j].type = "session_windows"
                            /\ toHost'[c][i].owner.window \in toHost'[c][j].windows
                    /\ toHost'[c][i].owner.window = toHost'[c][i].player.window
  BY DEF Covered
<1> DEFINE n == i + k
           m == toHost[c][n]
<1>1. /\ n \in DOMAIN toHost[c] /\ toHost'[c][i] = m /\ m.type = "media_create"
      /\ DOMAIN toHost[c] \subseteq Nat \ {0} /\ k \in {0, 1} /\ i \in Nat
  BY DEF Forwards, Shows
<1>2. /\ Serving(c) /\ m.owner.session = conn[c].session
      /\ \/ m.owner \in conn[c].windows
         \/ \E j \in DOMAIN toHost[c] :
              /\ j < n /\ toHost[c][j].type = "session_windows"
              /\ m.owner.window \in toHost[c][j].windows
      /\ m.owner.window = m.player.window
  BY <1>1 DEF Covered
<1>3. m \in FromPage
  BY <1>1, ElementOfSeq, LenProperties DEF LinkTypeOK, ChannelsTyped
<1>4. m.owner \in Owners
  BY <1>1, <1>3, PageMessages
<1> HIDE DEF n, m
<1>5. ASSUME NEW j \in DOMAIN toHost[c], j < n, toHost[c][j].type = "session_windows",
             m.owner.window \in toHost[c][j].windows
      PROVE  \/ m.owner \in conn'[c].windows
             \/ \E l \in DOMAIN toHost'[c] :
                  /\ l < i /\ toHost'[c][l].type = "session_windows"
                  /\ m.owner.window \in toHost'[c][l].windows
  BY <1>1, <1>5, <1>2, <1>4 DEF Forwards, n, Owners, Players
<1> QED
  BY <1>1, <1>2, <1>5 DEF Serving

LEMMA BareShifted ==
    ASSUME NEW c \in Connections, Bare(c), NEW k, Forwards(c, k), players' = players
    PROVE  Bare(c)'
BY DEF Bare, Forwards

LEMMA Appending ==
    ASSUME NEW c \in Connections, NEW q, Appended(c, q)
    PROVE  \E n \in Nat :
             /\ DOMAIN toHost[c] \subseteq Nat \ {0} /\ DOMAIN q \subseteq Nat \ {0}
             /\ \A i \in DOMAIN toHost[c] :
                  i <= n /\ i \in DOMAIN toHost'[c] /\ toHost'[c][i] = toHost[c][i]
             /\ \A i \in DOMAIN q : i + n \in DOMAIN toHost'[c] /\ toHost'[c][i + n] = q[i]
             /\ \A i \in DOMAIN toHost'[c] :
                  \/ i \in DOMAIN toHost[c]
                  \/ \E j \in DOMAIN q : i = j + n
<1>1. \A i \in DOMAIN toHost'[c] :
        i \in DOMAIN toHost[c] \/ \E j \in DOMAIN q : i = j + Len(toHost[c])
  BY Joined DEF Appended
<1>2. /\ DOMAIN toHost[c] \subseteq Nat \ {0} /\ DOMAIN q \subseteq Nat \ {0}
      /\ \A i \in DOMAIN toHost[c] :
           i <= Len(toHost[c]) /\ i \in DOMAIN toHost'[c] /\ toHost'[c][i] = toHost[c][i]
      /\ \A i \in DOMAIN q : /\ i + Len(toHost[c]) \in DOMAIN toHost'[c]
                             /\ toHost'[c][i + Len(toHost[c])] = q[i]
      /\ Len(toHost[c]) \in Nat
  BY Joined, LenProperties DEF Appended
<1> QED
  BY <1>1, <1>2

LEMMA PlacedAppended ==
    ASSUME NEW c \in Connections, NEW q, Appended(c, q), players' = players,
           \A x, y \in Players, i, j \in Places(c) :
             Stands(c, x, i) /\ Stands(c, y, j) /\ x.window = y.window => x = y /\ i = j,
           \A i, j \in DOMAIN q :
             /\ q[i].type = "media_create" /\ q[j].type = "media_create"
             /\ q[i].player.window = q[j].player.window
             => i = j,
           \A i \in DOMAIN q : q[i].type = "media_create" =>
             /\ remote'.windows[q[i].player.window] # "new"
             /\ \E p \in remote'.created : p.player = q[i].player
             /\ \A x \in Players, j \in Places(c) :
                  Stands(c, x, j) => x.window # q[i].player.window,
           \A x \in Players, i \in Places(c) : Stands(c, x, i) =>
             /\ remote'.windows[x.window] # "new"
             /\ \/ \E p \in remote'.created : p.player = x
                \/ \E j \in DOMAIN toHost[c] : j > i /\ Releases(toHost[c][j], x)
                \/ \E j \in DOMAIN q : Releases(q[j], x),
           \A p \in remote'.created :
             \/ \E i \in Places(c) : Stands(c, p.player, i)
             \/ \E i \in DOMAIN q : q[i].type = "media_create" /\ q[i].player = p.player,
           \A w \in Windows : /\ \A i \in DOMAIN toHost[c] :
                                   Closes(toHost[c][i], w) => remote'.windows[w] = "closed"
                              /\ \A i \in DOMAIN q :
                                   Closes(q[i], w) => remote'.windows[w] = "closed"
    PROVE  Placed(c)'
<1>0. PICK n \in Nat :
        /\ DOMAIN toHost[c] \subseteq Nat \ {0} /\ DOMAIN q \subseteq Nat \ {0}
        /\ \A i \in DOMAIN toHost[c] :
             i <= n /\ i \in DOMAIN toHost'[c] /\ toHost'[c][i] = toHost[c][i]
        /\ \A i \in DOMAIN q : i + n \in DOMAIN toHost'[c] /\ toHost'[c][i + n] = q[i]
        /\ \A i \in DOMAIN toHost'[c] : i \in DOMAIN toHost[c] \/ \E j \in DOMAIN q : i = j + n
  BY Appending
<1>1. ASSUME NEW x, NEW i, Stands(c, x, i)'
      PROVE  \/ i \in Places(c) /\ Stands(c, x, i)
             \/ \E j \in DOMAIN q : i = j + n /\ q[j].type = "media_create" /\ q[j].player = x
  BY <1>0, <1>1 DEF Stands, Places
<1>2. ASSUME NEW x, NEW i \in Places(c), Stands(c, x, i)
      PROVE  i \in Places(c)' /\ Stands(c, x, i)' /\ i <= n /\ i \in Nat
  BY <1>0, <1>2 DEF Stands, Places
<1>3. ASSUME NEW x \in Players, NEW y \in Players, NEW i \in Places(c)', NEW j \in Places(c)',
             Stands(c, x, i)', Stands(c, y, j)', x.window = y.window
      PROVE  x = y /\ i = j
  BY <1>1, <1>3
<1>4. ASSUME NEW x \in Players, NEW i \in Places(c)', Stands(c, x, i)'
      PROVE  /\ remote'.windows[x.window] # "new"
             /\ \/ \E p \in remote'.created : p.player = x
                \/ \E j \in DOMAIN toHost'[c] : j > i /\ Releases(toHost'[c][j], x)
  BY <1>0, <1>2, <1>1, <1>4
<1>5. ASSUME NEW p \in remote'.created
      PROVE  \E i \in Places(c)' : Stands(c, p.player, i)'
  BY <1>2, <1>0 DEF Stands, Places
<1>6. ASSUME NEW w \in Windows, NEW i \in DOMAIN toHost'[c], Closes(toHost'[c][i], w)
      PROVE  remote'.windows[w] = "closed"
  BY <1>0, <1>6
<1> QED
  BY <1>3, <1>4, <1>5, <1>6 DEF Placed

LEMMA CoveredAppended ==
    ASSUME NEW c \in Connections, NEW q, Appended(c, q), UNCHANGED <<players, conn>>,
           Covered(c),
           \A i \in DOMAIN q : q[i].type = "media_create" =>
             /\ Serving(c) /\ q[i].owner.session = conn[c].session
             /\ q[i].owner.window = q[i].player.window
             /\ \E j \in DOMAIN q : /\ j < i /\ q[j].type = "session_windows"
                                    /\ q[i].owner.window \in q[j].windows
    PROVE  Covered(c)'
<1>0. PICK n \in Nat :
        /\ DOMAIN toHost[c] \subseteq Nat \ {0} /\ DOMAIN q \subseteq Nat \ {0}
        /\ \A i \in DOMAIN toHost[c] :
             i <= n /\ i \in DOMAIN toHost'[c] /\ toHost'[c][i] = toHost[c][i]
        /\ \A i \in DOMAIN q : i + n \in DOMAIN toHost'[c] /\ toHost'[c][i + n] = q[i]
        /\ \A i \in DOMAIN toHost'[c] : i \in DOMAIN toHost[c] \/ \E j \in DOMAIN q : i = j + n
  BY Appending
<1> SUFFICES ASSUME Alive(c)', NEW i \in DOMAIN toHost'[c], toHost'[c][i].type = "media_create"
             PROVE  /\ Serving(c)' /\ toHost'[c][i].owner.session = conn'[c].session
                    /\ \/ toHost'[c][i].owner \in conn'[c].windows
                       \/ \E j \in DOMAIN toHost'[c] :
                            /\ j < i /\ toHost'[c][j].type = "session_windows"
                            /\ toHost'[c][i].owner.window \in toHost'[c][j].windows
                    /\ toHost'[c][i].owner.window = toHost'[c][i].player.window
  BY DEF Covered, Lives
<1>1. CASE i \in DOMAIN toHost[c]
  BY <1>0, <1>1 DEF Covered, Alive, Serving
<1>2. ASSUME NEW j \in DOMAIN q, i = j + n
      PROVE  /\ Serving(c)' /\ toHost'[c][i].owner.session = conn'[c].session
             /\ \E l \in DOMAIN toHost'[c] :
                  /\ l < i /\ toHost'[c][l].type = "session_windows"
                  /\ toHost'[c][i].owner.window \in toHost'[c][l].windows
             /\ toHost'[c][i].owner.window = toHost'[c][i].player.window
  <2>1. toHost'[c][i] = q[j]
    BY <1>0, <1>2
  <2>2. PICK l \in DOMAIN q : /\ l < j /\ q[l].type = "session_windows"
                              /\ q[j].owner.window \in q[l].windows
    BY <2>1
  <2> QED
    BY <2>1, <2>2, <1>0, <1>2 DEF Serving
<1> QED
  BY <1>0, <1>1, <1>2

\* Steps that say nothing of windows and players.
LEMMA PlayersCalm ==
    ASSUME LinkTypeOK, CarriesOver, UNCHANGED <<players, races>>,
           \A c \in Connections :
             \E k : Forwards(c, k) /\ (k = 1 => toHost[c][1].type \notin Shows),
           \A c \in Connections :
             /\ conn'[c].windows = conn[c].windows
             /\ conn'[c].session = conn[c].session \/ ~Serving(c)
             /\ (Alive(c)' <=> Alive(c)) /\ (Lives(c)' <=> Lives(c))
             /\ Tagged(toPage'[c], "error") => Tagged(toPage[c], "error"),
           link'.problem # "failed" \/ link.problem = "failed",
           Named => Named',
           \A c \in Connections : c = link'.socket /\ link'.ready =>
             /\ c = link.socket /\ link.ready /\ remote'.session_id = remote.session_id
             /\ remote'.created = remote.created /\ remote'.windows = remote.windows
    PROVE  CarriesOver'
<1> SUFFICES ASSUME races = {}
             PROVE  /\ \A c \in Connections :
                         /\ Covered(c)'
                         /\ c = link'.socket /\ link'.ready /\ Alive(c)' =>
                              IF remote'.session_id = NoSession THEN Bare(c)' ELSE Placed(c)'
  BY DEF CarriesOver
<1> SUFFICES ASSUME NEW c \in Connections
             PROVE  /\ Covered(c)'
                    /\ c = link'.socket /\ link'.ready /\ Alive(c)' =>
                         IF remote'.session_id = NoSession THEN Bare(c)' ELSE Placed(c)'
  OBVIOUS
<1>1. PICK k : Forwards(c, k) /\ (k = 1 => toHost[c][1].type \notin Shows)
  OBVIOUS
<1>2. Covered(c)'
  BY <1>1, CoveredShifted DEF CarriesOver, Shows, Covered
<1>3. ASSUME c = link'.socket /\ link'.ready /\ Alive(c)', remote'.session_id # NoSession
      PROVE  Placed(c)'
  BY <1>3, <1>1, PlacedShifted DEF CarriesOver, Stands, Releases, Shows, Forwards, LinkTypeOK,
     PageTyped, PageRecords
<1>4. ASSUME c = link'.socket /\ link'.ready /\ Alive(c)', remote'.session_id = NoSession
      PROVE  Bare(c)'
  BY <1>1, <1>4, BareShifted DEF CarriesOver
<1> QED
  BY <1>2, <1>3, <1>4

\* What the page takes and does.
LEMMA PlayersPosted ==
    ASSUME LinkTypeOK, CarriesOver, UNCHANGED <<hostVars, races>>, NEW posts \in Seq(FromPage),
           \A i \in DOMAIN posts : posts[i].type \notin Shows,
           \A c \in Connections : toHost'[c] = toHost[c] \/ toHost'[c] = toHost[c] \o posts,
           \A c \in Connections : Moved(toPage[c], toPage'[c], {"error"}),
           link'.problem # "failed" \/ link.problem = "failed", Named => Named',
           \A c \in Connections : c = link'.socket /\ link'.ready =>
             /\ c = link.socket /\ link.ready /\ remote'.session_id = remote.session_id
             /\ remote'.created = remote.created /\ remote'.windows = remote.windows
    PROVE  CarriesOver'
<1>1. UNCHANGED <<conn, players>>
  BY DEF hostVars, connVars
<1>2. \A c \in Connections : Forwards(c, 0)
  BY Forwarding
<1>3. \A c \in Connections : Tagged(toPage'[c], "error") => Tagged(toPage[c], "error")
  BY DEF Moved, Tagged
<1>4. \A c \in Connections : (Alive(c)' <=> Alive(c)) /\ (Lives(c)' <=> Lives(c))
  BY <1>1 DEF Alive, Lives
<1> QED
  BY <1>1, <1>3, <1>4, PlayersCalm, <1>2

LEMMA PlayersTaken ==
    ASSUME LinkTypeOK, CarriesOver, races' = {},
           \/ TakeWelcome \/ TakeState \/ TakeUpdate \/ TakeResult \/ TakeError
           \/ (\E r \in Requests : Dispatch(r)) \/ (\E q \in Queries : Supersede(q))
           \/ Closed \/ Reload
    PROVE  CarriesOver'
<1>0. remote \in PageRecords /\ link \in LinkRecords
  BY DEF LinkTypeOK, PageTyped
<1> DEFINE Same == /\ remote'.session_id = remote.session_id
                   /\ remote'.created = remote.created /\ remote'.windows = remote.windows
<1>1. ASSUME NEW t, NEW posts, Consumed(t, posts), Same,
             \A i \in DOMAIN posts : posts[i].type \in {"open_session", "subscribe", "cancel"},
             link'.socket = link.socket, link'.ready = link.ready,
             link'.problem # "failed" \/ link.problem = "failed"
      PROVE  CarriesOver'
  <2>1. /\ posts \in Seq(FromPage) /\ UNCHANGED <<hostVars, races, players>>
        /\ \A c \in Connections : toHost'[c] = toHost[c] \/ toHost'[c] = toHost[c] \o posts
    BY <1>1 DEF Consumed, histories, hostVars
  <2>2. Named => Named'
    BY <1>1, <2>1 DEF Named
  <2>3. \A i \in DOMAIN posts : posts[i].type \notin Shows
    BY <1>1 DEF Shows
  <2> QED
    BY <1>1, <2>1, <2>2, <2>3, PlayersPosted, ConsumedMoves
<1>2. CASE TakeWelcome
  <2> DEFINE posts == Opens(Resumes(Message.engine)) \o Cancels(remote.pending \cup {"open", "subscribe"})
  <2>1. /\ Consumed("welcome", posts) /\ UNCHANGED link /\ Same
        /\ Opens(Resumes(Message.engine)) \in Seq(FromPage)
    BY <1>0, <1>2, WelcomeTaken DEF PageRecords
  <2>2. \A i \in DOMAIN posts : posts[i].type \in {"open_session", "subscribe", "cancel"}
    BY <2>1, WelcomePosts
  <2> HIDE DEF posts, Same
  <2> QED
    BY <1>1, <2>1, <2>2
<1>3. CASE TakeState
  <2> DEFINE posts == Cancels(remote.pending \ {"subscribe"})
  <2>1. /\ Consumed("state", posts) /\ link'.socket = link.socket /\ link'.ready = link.ready
        /\ Same
    BY <1>0, <1>3, StateTaken DEF PageRecords
  <2>2. link'.problem # "failed" \/ link.problem = "failed"
    BY <1>0, <1>3 DEF TakeState, Connects, LinkRecords
  <2>3. \A i \in DOMAIN posts : posts[i].type = "cancel"
    BY Cancelling
  <2> HIDE DEF posts, Same
  <2> QED
    BY <1>1, <2>1, <2>2, <2>3
<1>4. CASE TakeUpdate
  <2>1. PICK posts : /\ \A i \in DOMAIN posts : posts[i].type = "cancel"
                     /\ Consumed("update", posts)
    BY <1>4, UpdateTaken
  <2>2. UNCHANGED link /\ Same
    BY <1>0, <1>4, UpdateTaken DEF PageRecords
  <2> HIDE DEF Same
  <2> QED
    BY <1>1, <2>1, <2>2
<1>5. CASE TakeResult
  <2> DEFINE posts == Cancels(remote.pending \ {Message.request})
  <2>1. Consumed("result", posts) /\ UNCHANGED link /\ Same
    BY <1>0, <1>5, ResultTaken DEF PageRecords
  <2>2. \A i \in DOMAIN posts : posts[i].type = "cancel"
    BY Cancelling
  <2> HIDE DEF posts, Same
  <2> QED
    BY <1>1, <2>1, <2>2
\* No error is on its way.
<1>6. CASE TakeError
  BY <1>6, Arriving DEF TakeError, Took, histories, Tagged, CarriesOver
<1>7. ASSUME NEW posts, Posts(posts), UNCHANGED races, Same,
             \A i \in DOMAIN posts : posts[i].type \in {"cancel", "command"}
      PROVE  CarriesOver'
  <2>1. /\ posts \in Seq(FromPage) /\ UNCHANGED <<hostVars, link, players>>
        /\ \A c \in Connections : toHost'[c] = toHost[c] \/ toHost'[c] = toHost[c] \o posts
    BY <1>7 DEF Posts, hostVars
  <2>2. \A c \in Connections : Moved(toPage[c], toPage'[c], {"error"})
    BY <1>7, SameMoves DEF Posts, Kept
  <2>3. Named => Named'
    BY <1>7, <2>1 DEF Named
  <2>4. \A i \in DOMAIN posts : posts[i].type \notin Shows
    BY <1>7 DEF Shows
  <2>5. link'.problem # "failed" \/ link.problem = "failed"
    BY <2>1
  <2> QED
    BY <1>7, <2>1, <2>2, <2>3, <2>4, <2>5, PlayersPosted
<1>8. ASSUME NEW r \in Requests, Dispatch(r) PROVE CarriesOver'
  <2>1. PICK posts : /\ Posts(posts)
                     /\ \A i \in DOMAIN posts : posts[i].type \in {"cancel", "command"}
    BY <1>8, DispatchPosts
  <2>2. Same /\ UNCHANGED races
    BY <1>0, <1>8, Dispatched DEF PageRecords, histories
  <2> HIDE DEF Same
  <2> QED
    BY <1>7, <2>1, <2>2
<1>9. ASSUME NEW q \in Queries, Supersede(q) PROVE CarriesOver'
  <2>1. UNCHANGED <<link, remote, toHost, toPage, hostVars, races>>
    BY <1>9 DEF Supersede, histories, channelVars
  <2>2. Same /\ UNCHANGED players
    BY <2>1 DEF hostVars
  <2>3. <<>> \in Seq(FromPage) /\ DOMAIN <<>> = {}
    OBVIOUS
  <2> QED
    BY <2>1, <2>2, <2>3, PlayersPosted, SameMoves DEF Named, Kept
<1>10. CASE Closed \/ Reload
  <2>1. /\ Drops
        /\ \/ remote'.created = {}
           \/ remote'.created = remote.created /\ remote'.windows = remote.windows
    <3>1. CASE Closed
      BY <1>0, <3>1, ClosedThen DEF PageRecords
    <3>2. CASE Reload
      BY <3>2, Reloaded DEF NewRemote
    <3> QED
      BY <1>10, <3>1, <3>2
  <2>2. link'.problem # "failed" \/ link.problem = "failed"
    <3>1. CASE Closed
      BY <1>0, <3>1 DEF Closed, LinkRecords
    <3>2. CASE Reload
      BY <3>2 DEF Reload, NewLink
    <3> QED
      BY <1>10, <3>1, <3>2
  <2>3. UNCHANGED <<hostVars, toHost, races, players>> /\ link'.socket = 0 /\ ~link'.ready
    BY <2>1 DEF Drops, histories, hostVars
  <2>4. Named => Named'
    BY <2>1, <2>3 DEF Named
  <2>5. <<>> \in Seq(FromPage) /\ DOMAIN <<>> = {}
    OBVIOUS
  <2> QED
    BY <2>1, <2>3, <2>4, <2>5, <2>2, PlayersPosted, DroppedMoves
<1> QED
  BY <1>2, <1>3, <1>4, <1>5, <1>6, <1>8, <1>9, <1>10

\* The page adds messages q about windows and players.
LEMMA PlayersTold ==
    ASSUME LinkTypeOK, CarriesOver, races = {}, UNCHANGED <<link, hostVars, races>>,
           NEW q \in Seq(FromPage),
           \A c \in Connections :
             toHost'[c] = IF c = link.socket /\ link.ready /\ Alive(c)
                          THEN toHost[c] \o q ELSE toHost[c],
           \A c \in Connections : Moved(toPage[c], toPage'[c], {"error"}),
           Named', remote'.session_id # NoSession \/ ~link.ready \/ ~Alive(link.socket),
           \A c \in Connections : c = link.socket /\ link.ready /\ Alive(c) /\ Appended(c, q) =>
             /\ Placed(c)'
             /\ \A i \in DOMAIN q : q[i].type = "media_create" =>
                  /\ Serving(c) /\ q[i].owner.session = conn[c].session
                  /\ q[i].owner.window = q[i].player.window
                  /\ \E j \in DOMAIN q : /\ j < i /\ q[j].type = "session_windows"
                                         /\ q[i].owner.window \in q[j].windows
    PROVE  CarriesOver'
<1>1. UNCHANGED <<conn, players>>
  BY DEF hostVars, connVars
<1>2. \A c \in Connections : (Alive(c)' <=> Alive(c)) /\ (Lives(c)' <=> Lives(c))
  BY <1>1 DEF Alive, Lives
<1>3. ASSUME NEW c \in Connections, c = link.socket, link.ready, Alive(c)
      PROVE  Covered(c)' /\ Placed(c)'
  BY <1>3, <1>1, CoveredAppended DEF Appended, LinkTypeOK, ChannelsTyped, CarriesOver
<1>4. ASSUME NEW c \in Connections, ~(c = link.socket /\ link.ready /\ Alive(c))
      PROVE  Covered(c)'
  BY <1>4, Forwarding, <1>1, <1>2, CoveredShifted DEF CarriesOver, Covered
<1> QED
  BY <1>1, <1>2, <1>3, <1>4 DEF CarriesOver, Moved, Tagged

LEMMA LedBy ==
    ASSUME NEW S, NEW h \in Seq(S), Len(h) = 1, NEW t \in Seq(S), NEW u \in Seq(S), NEW q,
           q = (h \o t) \o u
    PROVE  q \in Seq(S) /\ LedOut(q, h, t, u)
<1>1. DOMAIN h = {1}
  BY LenProperties
<1> DEFINE v == h \o t
<1>2. v \in Seq(S) /\ 1 \in DOMAIN v /\ v[1] = h[1]
  BY <1>1, Joined
<1>3. \A i \in DOMAIN v : i = 1 \/ (i - 1 \in DOMAIN t /\ i \in Nat)
  BY <1>1, Joined
<1>4. \A i \in DOMAIN t : i \in Nat \ {0} /\ i + 1 \in DOMAIN v /\ v[i + 1] = t[i]
  <2>1. \A i \in DOMAIN t : /\ i + Len(h) \in DOMAIN v /\ v[i + Len(h)] = t[i]
                            /\ i \in Nat \ {0}
    BY Joined
  <2> QED
    BY <2>1
<1> HIDE DEF v
<1>5. q = v \o u
  BY DEF v
<1>6. /\ q \in Seq(S)
      /\ \A i \in DOMAIN v : i \in DOMAIN q /\ q[i] = v[i]
      /\ \A i \in DOMAIN q : i \in DOMAIN v \/ \E j \in DOMAIN u : q[i] = u[j]
  <2> DEFINE r == v \o u
  <2>1. q \in Seq(S) /\ \A i \in DOMAIN v : i \in DOMAIN q /\ q[i] = v[i]
    BY <1>5, <1>2, Joined
  <2>2. ASSUME NEW i \in DOMAIN q, i \notin DOMAIN v
        PROVE  \E j \in DOMAIN u : q[i] = u[j]
    <3>1. i \in Nat /\ Len(v) \in Nat /\ i - Len(v) \in DOMAIN u
      BY <1>2, <1>5, <2>2, Joined
    <3>2. (i - Len(v)) + Len(v) = i
      BY <3>1
    <3> QED
      BY <1>5, <3>1, <3>2, <1>2, Joined
  <2> QED
    BY <2>1, <2>2
<1>7. ASSUME NEW i \in DOMAIN v, i # 1
      PROVE  i - 1 \in DOMAIN t /\ v[i] = t[i - 1] /\ 1 < i /\ i \in Nat
  BY <1>3, <1>4, <1>7
<1> QED
  BY <1>2, <1>6, <1>7, <1>4 DEF LedOut

\* A message, then players, then what is withdrawn.
LEMMA Led ==
    ASSUME NEW q, NEW h, h[1].type = "session_windows",
           NEW t, IsInjective(t), \A i \in DOMAIN t : t[i].type = "media_create",
           NEW u, \A i \in DOMAIN u : u[i].type = "cancel", LedOut(q, h, t, u)
    PROVE  /\ \A i \in DOMAIN q : q[i].type \in {"session_windows", "media_create", "cancel"}
           /\ \A i \in DOMAIN q : q[i].type = "media_create" =>
                1 < i /\ i \in Nat /\ i - 1 \in DOMAIN t /\ q[i] = t[i - 1]
           /\ \A i, j \in DOMAIN q : q[i].type = "media_create" /\ q[i] = q[j] => i = j
<1>1. \A i \in DOMAIN q : q[i].type = "media_create" =>
        1 < i /\ i \in Nat /\ i - 1 \in DOMAIN t /\ q[i] = t[i - 1]
  BY DEF LedOut
<1>2. ASSUME NEW i \in DOMAIN q, NEW j \in DOMAIN q, q[i].type = "media_create", q[i] = q[j]
      PROVE  i = j
  BY <1>1, <1>2 DEF IsInjective
<1> QED
  BY <1>1, <1>2 DEF LedOut

LEMMA SessionShown ==
    ASSUME LinkTypeOK, NEW id \in SessionIds, WindowsMessage \in FromPage, NEW waiting,
           NEW made,
           \A p \in remote.created :
             made[p] = CreateMessage(p.player, [session |-> id, window |-> p.owner])
    PROVE  \E q \in Seq(FromPage) :
             /\ q = (<<WindowsMessage>> \o Again(id)) \o Cancels(waiting)
             /\ Recalls(q, made)
<1> DEFINE h == <<WindowsMessage>>
           t == Again(id)
           u == Cancels(waiting)
<1>1. /\ t \in Seq(FromPage) /\ IsInjective(t)
      /\ \A i \in DOMAIN t : t[i].type = "media_create" /\ \E p \in remote.created : t[i] = made[p]
      /\ \A p \in remote.created : \E i \in DOMAIN t : t[i] = made[p]
  BY ShownAgain
<1>2. u \in Seq(FromPage) /\ \A i \in DOMAIN u : u[i].type = "cancel"
  BY Cancelling
<1>3. h \in Seq(FromPage) /\ Len(h) = 1 /\ h[1] = WindowsMessage /\ h[1].type = "session_windows"
  BY DEF WindowsMessage
<1> HIDE DEF h, t, u
<1>4. PICK q : q = (h \o t) \o u
  OBVIOUS
<1>5. q \in Seq(FromPage) /\ LedOut(q, h, t, u)
  BY <1>1, <1>2, <1>3, <1>4, LedBy
<1>6. /\ 1 \in DOMAIN q /\ q[1] = h[1]
      /\ \A i \in DOMAIN t : \E j \in DOMAIN q : q[j] = t[i]
      /\ \A i \in DOMAIN q : q[i].type \in {"session_windows", "media_create", "cancel"}
      /\ \A i \in DOMAIN q : q[i].type = "media_create" =>
           1 < i /\ i \in Nat /\ i - 1 \in DOMAIN t /\ q[i] = t[i - 1]
      /\ \A i, j \in DOMAIN q : q[i].type = "media_create" /\ q[i] = q[j] => i = j
  <2>1. /\ h[1].type = "session_windows" /\ IsInjective(t) /\ LedOut(q, h, t, u)
        /\ \A i \in DOMAIN t : t[i].type = "media_create"
        /\ \A i \in DOMAIN u : u[i].type = "cancel"
    BY <1>1, <1>2, <1>3, <1>5
  <2>2. /\ \A i \in DOMAIN q : q[i].type \in {"session_windows", "media_create", "cancel"}
        /\ \A i \in DOMAIN q : q[i].type = "media_create" =>
             1 < i /\ i \in Nat /\ i - 1 \in DOMAIN t /\ q[i] = t[i - 1]
        /\ \A i, j \in DOMAIN q : q[i].type = "media_create" /\ q[i] = q[j] => i = j
    BY ONLY <2>1, Led
  <2> QED
    BY <2>2, <1>5 DEF LedOut
<1>7. \A i \in DOMAIN q : q[i].type = "media_create" =>
        1 < i /\ \E p \in remote.created : q[i] = made[p]
  <2>1. ASSUME NEW i \in DOMAIN q, q[i].type = "media_create"
        PROVE  1 < i /\ \E p \in remote.created : q[i] = made[p]
    <3>1. 1 < i /\ i - 1 \in DOMAIN t /\ q[i] = t[i - 1]
      BY <1>6, <2>1
    <3>2. PICK p \in remote.created : t[i - 1] = made[p]
      BY <1>1, <3>1
    <3> QED
      BY <3>1, <3>2
  <2> QED
    BY <2>1
<1>8. \A p \in remote.created : \E i \in DOMAIN q : q[i] = made[p]
  <2>1. ASSUME NEW p \in remote.created
        PROVE  \E i \in DOMAIN q : q[i] = made[p]
    <3>1. PICK i \in DOMAIN t : t[i] = made[p]
      BY <1>1
    <3> QED
      BY <1>6, <3>1
  <2> QED
    BY <2>1
<1> QED
  BY <1>3, <1>6, <1>7, <1>8, <1>5, <1>4 DEF Recalls, h, t, u

LEMMA PlayersOpened ==
    ASSUME LinkTypeOK, Handshakes, CarriesOver, races' = {}, TakeSessionOpened
    PROVE  CarriesOver'
<1> DEFINE id == Message.session
           p0 == (<<WindowsMessage>> \o Again(id)) \o Cancels(remote.pending \ {"open"})
<1>1. /\ UNCHANGED link /\ id \in SessionIds /\ Consumed("session_opened", p0)
      /\ WindowsMessage \in FromPage
      /\ remote' = [remote EXCEPT !.session_id = id,
                       !.pending = (remote.pending \ {"open"}) \ cancelled]
  BY SessionTaken
<1> HIDE DEF p0
<1>2. PICK made : \A p \in remote.created :
        made[p] = CreateMessage(p.player, [session |-> id, window |-> p.owner])
  <2> DEFINE f == [p \in remote.created |->
                     CreateMessage(p.player, [session |-> id, window |-> p.owner])]
  <2>1. \A p \in remote.created :
          f[p] = CreateMessage(p.player, [session |-> id, window |-> p.owner])
    OBVIOUS
  <2> QED
    BY <2>1
<1>3. PICK q \in Seq(FromPage) : q = p0 /\ Recalls(q, made)
  BY <1>1, <1>2, SessionShown DEF p0
<1>4. /\ 1 \in DOMAIN q /\ q[1] = WindowsMessage
      /\ \A i \in DOMAIN q : q[i].type \in {"session_windows", "media_create", "cancel"}
      /\ \A i \in DOMAIN q : q[i].type = "media_create" =>
           1 < i /\ \E p \in remote.created : q[i] = made[p]
      /\ \A i, j \in DOMAIN q : q[i].type = "media_create" /\ q[i] = q[j] => i = j
      /\ \A p \in remote.created : \E i \in DOMAIN q : q[i] = made[p]
  BY <1>3 DEF Recalls
<1>5. Consumed("session_opened", q)
  BY <1>1, <1>3
<1>6. /\ races = {} /\ UNCHANGED <<hostVars, races, conn, players>> /\ link.ready
      /\ link.socket \in Connections /\ Opened(link.socket, id)
      /\ \A c \in Connections :
           toHost'[c] = IF c = link.socket /\ link.ready /\ Alive(c)
                        THEN toHost[c] \o q ELSE toHost[c]
  BY <1>1, <1>5 DEF Consumed, histories, hostVars, connVars, Opened
<1>7. /\ remote'.session_id = id /\ remote'.created = remote.created
      /\ remote'.windows = remote.windows /\ id # NoSession
      /\ remote.created \subseteq [player : Players, owner : Windows]
      /\ remote.windows \in [Windows -> {"new", "open", "closed"}]
  BY <1>1, Sessions DEF LinkTypeOK, PageTyped, PageRecords
<1>8. Named /\ Named'
  BY <1>6, <1>7 DEF CarriesOver, Named
<1>9. \A p \in remote.created :
        /\ made[p].type = "media_create" /\ made[p].player = p.player
        /\ made[p].owner = [session |-> id, window |-> p.owner]
        /\ p.player.window = p.owner /\ p.owner \in OpenWindows
  <2> SUFFICES ASSUME NEW p \in remote.created
               PROVE  /\ made[p].type = "media_create" /\ made[p].player = p.player
                      /\ made[p].owner = [session |-> id, window |-> p.owner]
                      /\ p.player.window = p.owner /\ p.owner \in OpenWindows
    OBVIOUS
  <2>1. made[p] = [type |-> "media_create", player |-> p.player,
                   owner |-> [session |-> id, window |-> p.owner]]
    BY <1>2 DEF CreateMessage
  <2>2. p.player.window = p.owner /\ remote.windows[p.owner] = "open" /\ p.owner \in Windows
    BY <1>7, <1>8 DEF Named
  <2> QED
    BY <2>1, <2>2 DEF OpenWindows
<1>10. ASSUME NEW c \in Connections, c = link.socket, Alive(c), Appended(c, q)
       PROVE  /\ Placed(c)'
              /\ \A i \in DOMAIN q : q[i].type = "media_create" =>
                   /\ Serving(c) /\ q[i].owner.session = conn[c].session
                   /\ q[i].owner.window = q[i].player.window
                   /\ \E j \in DOMAIN q : /\ j < i /\ q[j].type = "session_windows"
                                          /\ q[i].owner.window \in q[j].windows
  <2>1. conn[c].session = id /\ Bare(c)
    BY <1>6, <1>10, <1>1 DEF Handshakes, Known, CarriesOver
  <2>2. \A x, i : ~Stands(c, x, i)
    BY <2>1 DEF Bare, Stands, Shows
  <2>3. \A w \in Windows, i \in DOMAIN q : ~Closes(q[i], w)
    BY <1>4 DEF Closes
  <2>4. ASSUME NEW i \in DOMAIN q, NEW j \in DOMAIN q, q[i].type = "media_create",
               q[j].type = "media_create", q[i].player.window = q[j].player.window
        PROVE  i = j
    <3>1. PICK x \in remote.created : q[i] = made[x]
      BY <1>4, <2>4
    <3>2. PICK y \in remote.created : q[j] = made[y]
      BY <1>4, <2>4
    <3>3. q[i].player = x.player /\ q[j].player = y.player
          /\ x.player.window = x.owner /\ y.player.window = y.owner
      BY <1>9, <3>1, <3>2
    <3>4. x = y
      BY <1>8, <2>4, <3>3 DEF Named
    <3> QED
      BY <1>4, <2>4, <3>1, <3>2, <3>4
  <2>5. ASSUME NEW i \in DOMAIN q, q[i].type = "media_create"
        PROVE  /\ remote'.windows[q[i].player.window] # "new"
               /\ \E p \in remote'.created : p.player = q[i].player
    <3>1. PICK x \in remote.created : q[i] = made[x]
      BY <1>4, <2>5
    <3>2. q[i].player = x.player /\ x.player.window \in OpenWindows
      BY <1>9, <3>1
    <3> QED
      BY <1>7, <3>1, <3>2 DEF OpenWindows
  <2>6. \A p \in remote'.created : \E i \in DOMAIN q : q[i].type = "media_create" /\ q[i].player = p.player
    <3>1. ASSUME NEW p \in remote.created
          PROVE  \E i \in DOMAIN q : q[i].type = "media_create" /\ q[i].player = p.player
      <4>1. PICK i \in DOMAIN q : q[i] = made[p]
        BY <1>4
      <4> QED
        BY <1>9, <4>1
    <3> QED
      BY <1>7, <3>1
  <2>7. Placed(c)'
    BY <1>6, <1>10, <2>2, <2>5, <2>6, <2>3, <2>4, PlacedAppended, <2>1 DEF Bare, Closes, Shows
  <2>8. Serving(c)
    BY <1>7, <2>1 DEF Serving
  <2>9. ASSUME NEW i \in DOMAIN q, q[i].type = "media_create"
         PROVE  /\ q[i].owner.session = id /\ q[i].owner.window = q[i].player.window
                /\ \E j \in DOMAIN q : /\ j < i /\ q[j].type = "session_windows"
                                       /\ q[i].owner.window \in q[j].windows
    <3>1. PICK x \in remote.created : q[i] = made[x]
      BY <1>4, <2>9
    <3>2. q[i].owner = [session |-> id, window |-> x.owner] /\ q[i].player.window = x.owner
          /\ x.owner \in OpenWindows
      BY <1>9, <3>1
    <3>3. 1 \in DOMAIN q /\ 1 < i /\ q[1].type = "session_windows" /\ q[1].windows = OpenWindows
      BY <1>4, <2>9 DEF WindowsMessage
    <3> QED
      BY <3>2, <3>3
  <2> QED
    BY <2>1, <2>7, <2>8, <2>9
<1> QED
  BY <1>1, <1>4, <1>6, <1>7, <1>8, <1>10, PlayersTold, <1>5, ConsumedMoves

\* A page that changes its windows when nothing raced has a session that is known.
LEMMA PlayersAttended ==
    ASSUME LinkTypeOK, Handshakes, CarriesOver, races' = {}, races' = Between,
           NEW c \in Connections, c = link.socket, link.ready, Alive(c)
    PROVE  /\ remote.connected /\ remote.session_id # NoSession
           /\ Placed(c) /\ Serving(c) /\ conn[c].session = remote.session_id
<1>1. races = {} /\ remote.connected
  BY DEF Between
<1> QED
  BY <1>1 DEF CarriesOver, Serving, Handshakes, Known

LEMMA PlayersShown ==
    ASSUME LinkTypeOK, Handshakes, CarriesOver, races' = {}, NEW w \in Windows, OpenWindow(w)
    PROVE  CarriesOver'
<1> DEFINE now == OpenWindows \cup {w}
           player == [session |-> link.sessionID, window |-> w]
<1> DEFINE made == remote.created \cup {[player |-> player, owner |-> w]}
<1>1. PICK m :
        /\ m \in FromPage /\ m.type = "media_create" /\ m.player = player
        /\ m.owner = Qualified(w) /\ Reports(now) \in Seq(FromPage)
        /\ Posts(Reports(now) \o <<m>>)
        /\ remote' = [remote EXCEPT !.windows = [remote.windows EXCEPT ![w] = "open"],
                                    !.created = made]
        /\ remote.windows[w] = "new" /\ races' = Between
  BY WindowOpened DEF Arranged, WithPlayer
<1>2. /\ remote.windows \in [Windows -> {"new", "open", "closed"}]
      /\ remote.created \subseteq [player : Players, owner : Windows]
      /\ remote \in PageRecords
  BY DEF LinkTypeOK, PageTyped, PageRecords
<1>3. /\ remote'.session_id = remote.session_id /\ remote'.created = made
      /\ remote'.windows = [remote.windows EXCEPT ![w] = "open"]
  <2> HIDE DEF made, player
  <2> QED
    BY <1>1, <1>2 DEF PageRecords
<1>4. player.window = w /\ [player |-> player, owner |-> w] \in made
      /\ [player |-> player, owner |-> w].player = player
  BY <1>1
<1>5. PICK x : x = [player |-> player, owner |-> w]
  OBVIOUS
<1>6. /\ made = remote.created \cup {x} /\ x.player = m.player /\ x.owner = w
      /\ m.player.window = w
  BY <1>1, <1>5
<1> HIDE DEF player, made
<1>7. races = {} /\ UNCHANGED <<races, link, hostVars, conn, players>>
  BY <1>1 DEF Between, Posts, hostVars, connVars
<1>8. Named
  BY <1>7 DEF CarriesOver
<1>9. Named'
  BY <1>1, <1>2, <1>3, <1>8, <1>6, <1>7 DEF Named
<1>10. PICK q : q = Reports(now) \o <<m>>
  OBVIOUS
<1>11. /\ q \in Seq(FromPage)
       /\ \A c \in Connections :
            toHost'[c] = IF c = link.socket /\ link.ready /\ Alive(c)
                         THEN toHost[c] \o q ELSE toHost[c]
  BY <1>1, <1>10 DEF Posts
<1>12. \A c \in Connections : Moved(toPage[c], toPage'[c], {"error"})
  BY <1>1, SameMoves DEF Posts, Kept
<1>13. ASSUME NEW c \in Connections, c = link.socket, link.ready, Alive(c)
       PROVE  /\ remote.session_id # NoSession
              /\ Appended(c, q) => Placed(c)'
              /\ \A i \in DOMAIN q : q[i].type = "media_create" =>
                   /\ Serving(c) /\ q[i].owner.session = conn[c].session
                   /\ q[i].owner.window = q[i].player.window
                   /\ \E j \in DOMAIN q : /\ j < i /\ q[j].type = "session_windows"
                                          /\ q[i].owner.window \in q[j].windows
  <2>1. /\ remote.connected /\ remote.session_id # NoSession
        /\ Placed(c) /\ Serving(c) /\ conn[c].session = remote.session_id
    BY <1>1, <1>13, PlayersAttended
  <2>2. DOMAIN q = {1, 2} /\ q[2] = m /\ q[1].type = "session_windows" /\ q[1].windows = now
    <3> DEFINE r == Reports(now)
               z == <<m>>
    <3>1. r = <<[type |-> "session_windows", windows |-> now]>>
      BY <2>1 DEF Reports
    <3>2. Len(r) = 1 /\ DOMAIN r = {1} /\ r[1].type = "session_windows" /\ r[1].windows = now
      <4> HIDE DEF r
      <4> QED
        BY <3>1
    <3>3. z \in Seq(FromPage) /\ DOMAIN z = {1} /\ z[1] = m
      BY <1>1
    <3>4. q = r \o z /\ r \in Seq(FromPage)
      BY <1>1, <1>10
    <3> HIDE DEF r, z
    <3>5. /\ 1 \in DOMAIN q /\ q[1] = r[1] /\ 1 + 1 \in DOMAIN q /\ q[1 + 1] = m
          /\ \A i \in DOMAIN q : i \in Nat /\ (i = 1 \/ i - 1 = 1)
      <4>1. /\ \A i \in DOMAIN r : i \in DOMAIN q /\ q[i] = r[i]
            /\ \A i \in DOMAIN z : i + Len(r) \in DOMAIN q /\ q[i + Len(r)] = z[i]
            /\ \A i \in DOMAIN q : i \in Nat /\ (i \in DOMAIN r \/ i - Len(r) \in DOMAIN z)
        <5>1. z \in Seq(FromPage)
          BY <3>3
        <5> QED
          BY <3>4, <5>1, JoinedAs
      <4> QED
        BY <3>2, <3>3, <4>1
    <3> QED
      BY <3>2, <3>5
  <2>3. \A i \in DOMAIN q : q[i].type = "media_create" => i = 2
    BY <2>2
  <2>4. m.owner.session = conn[c].session /\ m.owner.window = w
    BY <1>1, <2>1 DEF Qualified
  <2>5. ASSUME Appended(c, q)
        PROVE  Placed(c)'
    BY <1>1, <1>2, <1>3, <2>1, <2>2, <1>6, <2>3, <1>7, <2>5, PlacedAppended DEF Placed,
       Players, Closes
  <2> QED
    BY <2>1, <2>5, <1>6, <2>2, <2>3, <2>4
<1>14. remote'.session_id # NoSession \/ ~link.ready \/ ~Alive(link.socket)
  BY LinkAssumption, <1>3, <1>13 DEF LinkTypeOK, PageTyped, LinkRecords, Connections
<1> QED
  BY <1>7, <1>9, <1>11, <1>12, <1>13, <1>14, PlayersTold

LEMMA PlayersHidden ==
    ASSUME LinkTypeOK, Handshakes, CarriesOver, races' = {}, NEW w \in Windows, CloseWindow(w)
    PROVE  CarriesOver'
<1> DEFINE t == Reports(OpenWindows \ {w})
<1>1. PICK s, made :
        /\ s \in Seq(FromPage)
        /\ \A i \in DOMAIN s :
             \/ s[i].type = "media_release" /\ \E p \in remote.created :
                  p.owner = w /\ s[i].player = p.player
             \/ s[i].type = "media_release_window" /\ s[i].owner = Qualified(w)
        /\ \A p \in remote.created : p.owner = w => \E i \in DOMAIN s : Releases(s[i], p.player)
        /\ t \in Seq(FromPage) /\ Posts(s \o t)
        /\ made = remote.created \ {p \in remote.created : p.owner = w}
        /\ remote' = [remote EXCEPT !.windows = [remote.windows EXCEPT ![w] = "closed"],
                                    !.created = made]
        /\ races' = Between
  BY WindowClosed DEF Arranged
<1>2. /\ remote.windows \in [Windows -> {"new", "open", "closed"}]
      /\ remote \in PageRecords /\ remote.windows[w] = "open"
  BY DEF LinkTypeOK, PageTyped, PageRecords, CloseWindow
<1>3. /\ remote'.session_id = remote.session_id
      /\ remote'.created = made
      /\ remote'.windows = [remote.windows EXCEPT ![w] = "closed"]
  BY <1>1, <1>2 DEF PageRecords
<1>4. \A p : p \in remote'.created <=> p \in remote.created /\ p.owner # w
  BY <1>1, <1>3
<1>5. races = {} /\ UNCHANGED <<races, link, hostVars, conn, players>>
  BY <1>1 DEF Between, Posts, hostVars, connVars
<1>6. Named
  BY <1>5 DEF CarriesOver
<1>7. Named'
  BY <1>2, <1>3, <1>4, <1>5, <1>6 DEF Named
<1>8. PICK q : q = s \o t
  OBVIOUS
<1>9. /\ q \in Seq(FromPage)
      /\ \A c \in Connections :
           toHost'[c] = IF c = link.socket /\ link.ready /\ Alive(c)
                        THEN toHost[c] \o q ELSE toHost[c]
  BY <1>1, <1>8 DEF Posts
<1>10. \A c \in Connections : Moved(toPage[c], toPage'[c], {"error"})
  BY <1>1, SameMoves DEF Posts, Kept
<1>11. \A i \in DOMAIN t : t[i].type = "session_windows"
  BY DEF Reports
<1> HIDE DEF t
<1>12. /\ \A i \in DOMAIN q : (\E j \in DOMAIN s : q[i] = s[j]) \/ q[i].type = "session_windows"
       /\ \A j \in DOMAIN s : \E i \in DOMAIN q : q[i] = s[j]
  BY <1>1, <1>8, Joined, <1>11
<1>13. \A i \in DOMAIN q : q[i].type # "media_create"
  BY <1>1, <1>12
<1>14. \A v \in Windows, i \in DOMAIN q : Closes(q[i], v) => v = w
  BY <1>1, <1>6, <1>12 DEF Closes, Qualified, Named
<1>15. \A p \in remote.created : p.owner = w => \E i \in DOMAIN q : Releases(q[i], p.player)
  BY <1>1, <1>12
<1>16. ASSUME NEW c \in Connections, c = link.socket, link.ready, Alive(c)
       PROVE  remote.session_id # NoSession /\ (Appended(c, q) => Placed(c)')
  <2>1. Placed(c) /\ remote.session_id # NoSession
    BY <1>1, <1>16, PlayersAttended
  <2>2. ASSUME Appended(c, q)
        PROVE  Placed(c)'
    BY <1>2, <1>3, <1>4, <1>15, <2>1, <1>14, <1>5, <1>13, <2>2, PlacedAppended DEF Placed,
       Players
  <2> QED
    BY <2>1, <2>2
<1> QED
  BY <1>5, <1>7, <1>9, <1>10, <1>13, <1>16, PlayersTold, LinkAssumption, <1>3 DEF LinkTypeOK,
     PageTyped, LinkRecords, Connections

\* A new connection is made when the old ones are over.
LEMMA PlayersDialled ==
    ASSUME LinkTypeOK, Handshakes, CarriesOver, races' = {}, Dial
    PROVE  CarriesOver'
<1>1. PICK c \in Connections : Dials(c)
  BY Dialled
<1>2. /\ races = {} /\ (\A d \in Connections : ~Lives(d)) /\ link.socket = 0
      /\ UNCHANGED <<remote, toPage, players>>
  BY <1>1 DEF Dials
<1>3. /\ players = {} /\ link.problem # "failed" /\ Named
      /\ \A d \in Connections : ~Tagged(toPage[d], "error")
  BY <1>2 DEF CarriesOver
<1>4. /\ toHost'[c] = <<[type |-> "hello"]>> /\ conn'[c].status = "new"
      /\ \A d \in Connections : d # c => conn'[d] = conn[d]
      /\ link'.socket = c /\ link'.problem = link.problem
  BY <1>1 DEF Dials, ConnectionRecords, LinkRecords, LinkTypeOK, ChannelsTyped,
     ConnectionsTyped, PageTyped
<1>5. Lives(c)' /\ \A d \in Connections : d # c => ~Lives(d)' /\ ~Alive(d)'
  BY <1>2, <1>4 DEF Lives, Alive
<1>6. Bare(c)' /\ Covered(c)'
  BY <1>2, <1>3, <1>4 DEF Bare, Covered, Shows
<1>7. remote'.session_id = NoSession
  BY <1>2 DEF Handshakes, Known
<1>8. Named'
  BY <1>2, <1>3 DEF Named
<1> QED
  BY <1>2, <1>3, <1>4, <1>5, <1>6, <1>7, <1>8 DEF CarriesOver, Covered

LEMMA PlayersPage ==
    ASSUME LinkTypeOK, Handshakes, CarriesOver, Page
    PROVE  CarriesOver'
<1> SUFFICES ASSUME races' = {} PROVE CarriesOver'
  BY DEF CarriesOver
<1> QED
  BY PlayersDialled, PlayersTaken, PlayersOpened, PlayersShown, PlayersHidden DEF Page, PageTakes

\* A connection does what is not about players.
LEMMA PlayersThread ==
    ASSUME LinkTypeOK, CarriesOver, NEW c \in Connections, OneConnection(c), UNCHANGED players,
           conn'[c].windows = conn[c].windows,
           conn'[c].session = conn[c].session \/ ~Serving(c),
           (Alive(c)' <=> Alive(c)) /\ (Lives(c)' <=> Lives(c)),
           toHost' = toHost \/ \E t : HostTakes(c, t) /\ t \notin Shows,
           \/ toPage' = toPage
           \/ \E m \in FromHost : m.type # "error" /\ toPage' = Sent(c, m)
    PROVE  CarriesOver'
<1>1. UNCHANGED <<link, remote, races>> /\ \A d \in Connections : d # c => conn'[d] = conn[d]
  BY DEF OneConnection, pageVars
<1>2. \A d \in Connections :
        \E k : Forwards(d, k) /\ (k = 1 => toHost[d][1].type \notin Shows)
  <2>1. 0 # 1
    OBVIOUS
  <2>2. CASE toHost' = toHost
    BY <2>1, <2>2, Forwarding
  <2>3. ASSUME NEW t, HostTakes(c, t), t \notin Shows
        PROVE  \A d \in Connections :
                 \E k : Forwards(d, k) /\ (k = 1 => toHost[d][1].type \notin Shows)
    <3>1. toHost[c][1].type \notin Shows
      BY <2>3, Taking
    <3> QED
      BY <2>1, <3>1, <2>3, Forwarding
  <2> QED
    BY <2>2, <2>3
<1>3. \A d \in Connections : Tagged(toPage'[d], "error") => Tagged(toPage[d], "error")
  BY PageHears
<1>4. Named => Named'
  BY <1>1 DEF Named
<1> QED
  BY <1>1, <1>2, <1>3, <1>4, PlayersCalm DEF Alive, Lives

LEMMA PlayersThreads ==
    ASSUME LinkTypeOK, Handshakes, CarriesOver, NEW c \in Connections,
           \/ Welcome(c) \/ OpenSession(c) \/ Register(c) \/ Subscribe(c) \/ Snapshot(c)
           \/ SendState(c) \/ Command(c) \/ Cancel(c) \/ Unregister(c)
    PROVE  CarriesOver'
<1>0. conn[c] \in ConnectionRecords
  BY ThreadAt
<1> DEFINE Goal == /\ OneConnection(c) /\ UNCHANGED players
                   /\ conn'[c].windows = conn[c].windows
                   /\ conn'[c].session = conn[c].session \/ ~Serving(c)
                   /\ (Alive(c)' <=> Alive(c)) /\ (Lives(c)' <=> Lives(c))
                   /\ toHost' = toHost \/ \E t : HostTakes(c, t) /\ t \notin Shows
                   /\ \/ toPage' = toPage
                      \/ \E m \in FromHost : m.type # "error" /\ toPage' = Sent(c, m)
<1> SUFFICES Goal
  BY PlayersThread
<1>1. CASE Welcome(c)
  <2>1. /\ OneConnection(c) /\ HostTakes(c, "hello")
        /\ conn'[c] = [conn[c] EXCEPT !.status = "open"]
        /\ UNCHANGED players
        /\ [type |-> "welcome", engine |-> engine] \in FromHost
        /\ toPage' = Sent(c, [type |-> "welcome", engine |-> engine])
    BY <1>1, Welcomed DEF Welcome
  <2>2. /\ conn'[c].windows = conn[c].windows /\ conn'[c].session = conn[c].session
        /\ conn'[c].status = "open" /\ conn[c].status = "new"
    BY <1>0, <2>1, Taking DEF ConnectionRecords
  <2> QED
    BY <2>1, <2>2 DEF Alive, Lives, Shows
<1>2. CASE OpenSession(c)
  BY <1>2, SessionsOpened DEF Alive, Lives, Shows
<1>3. CASE Register(c)
  <2>1. PICK id :
          /\ OneConnection(c) /\ step[c] = <<"register", id>>
          /\ conn'[c] = [conn[c] EXCEPT !.session = id]
          /\ [type |-> "session_opened", session |-> id] \in FromHost
          /\ toPage' = Sent(c, [type |-> "session_opened", session |-> id])
          /\ UNCHANGED <<toHost, players>>
    BY <1>3, SessionRegistered
  <2>2. ~Serving(c)
    BY <2>1 DEF Handshakes, Staged, Registering
  <2> QED
    BY <2>1, <2>2, <1>0 DEF Alive, Lives, ConnectionRecords
<1>4. CASE Subscribe(c)
  <2>1. conn'[c] = [conn[c] EXCEPT !.subscribed = TRUE]
    BY <1>4, Subscribed
  <2> QED
    BY <1>4, Subscribed, <1>0, <2>1 DEF Alive, Lives, Shows, ConnectionRecords
<1>5. CASE Snapshot(c)
  BY <1>5, Snapshotted DEF Alive, Lives, channelVars
<1>6. CASE SendState(c)
  <2>1. PICK n, v :
          /\ [type |-> "state", revision |-> n, values |-> v] \in FromHost
          /\ toPage' = Sent(c, [type |-> "state", revision |-> n, values |-> v])
    BY <1>6, StateSent
  <2> QED
    BY <1>6, <2>1, StateSent DEF Alive, Lives
<1>7. CASE Command(c) \/ Cancel(c)
  <2>1. PICK qs : conn'[c] = [conn[c] EXCEPT !.queries = qs]
    BY <1>7, Commanded, QueryCancelled
  <2>2. /\ OneConnection(c) /\ UNCHANGED <<players, toPage>>
        /\ \E t : HostTakes(c, t) /\ t \notin Shows
    <3>1. CASE Command(c)
      <4>1. OneConnection(c) /\ UNCHANGED <<players, toPage>> /\ HostTakes(c, "command")
        BY <3>1, Commanded
      <4> QED
        BY <4>1 DEF Shows
    <3>2. CASE Cancel(c)
      BY <3>2, QueryCancelled DEF Shows
    <3> QED
      BY <1>7, <3>1, <3>2
  <2> QED
    BY <2>2, <1>0, <2>1 DEF Alive, Lives, ConnectionRecords
<1>8. CASE Unregister(c)
  BY <1>8, Unregistered DEF Alive, Lives, channelVars
<1> QED
  BY <1>1, <1>2, <1>3, <1>4, <1>5, <1>6, <1>7, <1>8

\* A connection that lives is alone.
LEMMA PlayersAlone ==
    ASSUME CarriesOver, races = {}, NEW c \in Connections, Lives(c)
    PROVE  \A d \in Connections : d # c => ~Lives(d) /\ ~Alive(d)
BY DEF CarriesOver, Lives, Alive

\* A connection takes a message about windows and players.
LEMMA PlayersAsked ==
    ASSUME LinkTypeOK, CarriesOver, races = {}, NEW c \in Connections, OneConnection(c),
           NEW t \in Shows, HostTakes(c, t), Placed(c) \/ c # link.socket \/ ~link.ready,
           conn'[c].status = conn[c].status, conn'[c].session = conn[c].session,
           conn[c].windows \subseteq conn'[c].windows,
           t = "session_windows" => \A w \in Asked(c).windows :
             [session |-> conn[c].session, window |-> w] \in conn'[c].windows,
           \A p \in players' : p.owner \in conn'[c].windows /\ p.owner.window = p.player.window,
           \A d \in Connections : toPage'[d] = toPage[d],
           c = link.socket /\ link.ready =>
             /\ \A x \in Players : Stands(c, x, 0)' => Stands(c, x, 0) \/ Stands(c, x, 1)
             /\ \A p \in remote.created :
                  Stands(c, p.player, 0) \/ Stands(c, p.player, 1) => Stands(c, p.player, 0)'
             /\ \A x \in Players : Releases(Asked(c), x) => ~Stands(c, x, 0)'
    PROVE  CarriesOver'
<1>1. /\ UNCHANGED <<link, remote, races>> /\ \A d \in Connections : d # c => conn'[d] = conn[d]
      /\ link.problem # "failed" /\ Covered(c) /\ Named
      /\ \A d \in Connections : ~Tagged(toPage[d], "error")
  BY DEF OneConnection, pageVars, CarriesOver
<1>2. Forwards(c, 1) /\ Asked(c) = toHost[c][1] /\ conn[c].status = "open" /\ Asked(c).type = t
  BY Forwarding, Taking DEF Shows
<1>3. /\ Lives(c) /\ Lives(c)' /\ Alive(c)
      /\ \A d \in Connections : d # c => ~Lives(d)' /\ ~Alive(d)'
  BY <1>1, <1>2, PlayersAlone DEF Lives, Alive
<1>4. Covered(c)'
  BY <1>1, <1>2, <1>3, CoveredShifted
<1>5. ASSUME c = link.socket, link.ready
      PROVE  remote.session_id # NoSession /\ Placed(c)'
  BY <1>2, <1>3, <1>5, Taking, <1>1, PlacedShifted DEF CarriesOver, Bare
<1>6. Named'
  BY <1>1 DEF Named
<1> QED
  BY <1>1, <1>3, <1>5, <1>6, <1>4 DEF CarriesOver, Covered

LEMMA PlayersHeard ==
    ASSUME LinkTypeOK, CarriesOver, races' = {}, NEW c \in Connections,
           ReportWindows(c) \/ CreatePlayer(c) \/ ReleasePlayer(c) \/ ReleaseWindow(c)
    PROVE  CarriesOver'
<1>0. PICK t \in Shows :
        /\ OneConnection(c) /\ HostTakes(c, t) /\ races = {}
        /\ ReportWindows(c) => t = "session_windows"
        /\ CreatePlayer(c) => t = "media_create"
        /\ ReleasePlayer(c) => t = "media_release"
        /\ ReleaseWindow(c) => t = "media_release_window"
  BY ReportTaken, PlayerAsked DEF OneConnection, ReportWindows, CreatePlayer, ReleasePlayer,
     ReleaseWindow, HostTakes, Shows
<1>1. /\ Asked(c) = toHost[c][1] /\ Asked(c).type = t /\ 1 \in DOMAIN toHost[c]
      /\ conn[c].status = "open" /\ Asked(c) \in FromPage
  BY <1>0, Taking DEF Shows
<1>2. /\ Lives(c) /\ Alive(c) /\ Covered(c) /\ Named /\ conn[c] \in ConnectionRecords
      /\ players \subseteq [player : Players, owner : Owners]
      /\ remote.created \subseteq [player : Players, owner : Windows]
  BY <1>0, <1>1, ThreadAt DEF CarriesOver, Lives, Alive, LinkTypeOK, PageTyped, PageRecords
<1>3. Placed(c) \/ c # link.socket \/ ~link.ready
  BY <1>0, <1>1, <1>2 DEF CarriesOver, Bare
<1>4. \A p \in players : p.owner \in conn[c].windows /\ p.owner.window = p.player.window
  BY <1>2 DEF Covered, Named
<1>5. \A x : /\ Stands(c, x, 0) <=> \E p \in players : p.player = x
             /\ Stands(c, x, 0)' <=> \E p \in players' : p.player = x
             /\ Stands(c, x, 1) <=> t = "media_create" /\ Asked(c).player = x
  BY <1>0, Forwarding, <1>1 DEF Forwards, Stands
<1>6. CASE ReportWindows(c)
  BY <1>6, <1>2, ThreadAt, <1>0, <1>1, <1>5, <1>3, <1>4, PlayersAsked DEF ReportWindows,
     ConnectionRecords, Releases
<1>7. UNCHANGED conn \/ ReportWindows(c)
  BY PlayerAsked
<1>8. CASE CreatePlayer(c)
  <2> DEFINE x == Asked(c).player
             o == Asked(c).owner
  <2>1. x \in Players /\ o \in conn[c].windows /\ o.window = x.window
    BY <1>0, <1>1, <1>2, <1>8, PageMessages, Taking, LenProperties DEF Covered
  <2>2. \A y : Stands(c, y, 1) <=> y = x
    BY <1>0, <1>8, <1>5
  <2>3. CASE \E p \in players : p.player = x
    BY <1>1, <1>5, <2>2, <2>3, <1>3, <2>1, <1>8, PlayerAsked, Sending, <1>0, <1>4, <1>7,
       PlayersAsked DEF Places, Placed, CreatePlayer
  <2>4. CASE ~\E p \in players : p.player = x
    <3>1. players' = players \cup {[player |-> x, owner |-> o]} /\ UNCHANGED toPage
      BY <1>8, <2>4 DEF CreatePlayer
    <3>2. \A y : Stands(c, y, 0)' <=> Stands(c, y, 0) \/ Stands(c, y, 1)
      <4>1. \A y : (\E p \in players' : p.player = y) <=> (\E p \in players : p.player = y) \/ y = x
        <5>1. [player |-> x, owner |-> o].player = x
          OBVIOUS
        <5> HIDE DEF x, o
        <5> QED
          BY <3>1, <5>1
      <4> QED
        BY <1>5, <2>2, <4>1
    <3>3. \A y : ~Releases(Asked(c), y)
      BY <1>0, <1>1, <1>8 DEF Releases
    <3> QED
      BY <1>0, <1>3, <1>7, <1>8, <3>1, <3>2, <3>3, PlayersAsked, <1>4, <2>1
  <2> QED
    BY <2>3, <2>4
<1>9. CASE ReleasePlayer(c) \/ ReleaseWindow(c)
  <2>1. /\ players' \subseteq players /\ UNCHANGED toPage
        /\ \A p \in players \ players' : Closes(Asked(c), p.player.window)
        /\ \A x : Releases(Asked(c), x) => ~Stands(c, x, 0)'
    BY <1>0, <1>1, <1>4, <1>9, <1>5 DEF ReleasePlayer, ReleaseWindow, Closes, Releases
  <2>2. \A x : ~Stands(c, x, 1) /\ (Stands(c, x, 0)' => Stands(c, x, 0))
    BY <1>0, <1>9, <1>5, <2>1
  <2>3. ASSUME NEW p \in remote.created, Stands(c, p.player, 0), Placed(c)
        PROVE  Stands(c, p.player, 0)'
    <3>1. PICK q \in players : q.player = p.player
      BY <1>5, <2>3
    <3>2. q \in players'
      BY <1>1, <2>1, <2>3, <1>2, <3>1 DEF Placed, Named
    <3> QED
      BY <1>5, <3>1, <3>2
  <2> QED
    BY <1>0, <1>3, <1>7, <1>9, <2>1, <2>2, <2>3, PlayersAsked, <1>4
<1> QED
  BY <1>6, <1>8, <1>9

\* A connection ends.
LEMMA PlayersEnded ==
    ASSUME LinkTypeOK, CarriesOver, races' = {}, NEW c \in Connections,
           Leave(c) \/ ReleaseReported(c) \/ Gone(c)
    PROVE  CarriesOver'
<1>0. conn[c] \in ConnectionRecords
  BY ThreadAt
<1>1. /\ OneConnection(c) /\ conn[c].status \in {"new", "open", "closing"}
      /\ UNCHANGED toPage /\ (Gone(c) \/ Leave(c) => UNCHANGED players)
  BY HostLeft, ReportedReleased, ConnectionGone DEF channelVars
<1>2. /\ races = {} /\ UNCHANGED <<link, remote>>
      /\ \A d \in Connections : d # c => conn'[d] = conn[d]
  BY <1>1 DEF OneConnection, pageVars
<1>3. /\ Covered(c) /\ Named /\ Lives(c) /\ \A d \in Connections : d # c => ~Lives(d) /\ ~Alive(d)
  BY <1>1, <1>2, PlayersAlone DEF CarriesOver, Lives
<1>4. CASE Leave(c)
  <2>1. conn'[c].windows = conn[c].windows /\ conn'[c].status = "closing" /\ UNCHANGED players
    BY <1>0, <1>1, <1>4, HostLeft DEF ConnectionRecords
  <2> QED
    BY <1>1, <1>2, <1>3, <2>1 DEF CarriesOver, Covered, Lives, Alive, Named
<1>5. CASE ReleaseReported(c)
  <2>1. PICK w \in conn[c].windows :
          /\ players' = {p \in players : p.owner # w}
          /\ conn' = [conn EXCEPT ![c].windows = conn[c].windows \ {w}]
    BY <1>5 DEF ReleaseReported
  <2> QED
    BY <1>1, <1>2, <1>3, <2>1, <1>0, <1>5, ThreadAt, ReportedReleased DEF CarriesOver, Covered,
       Lives, Alive, Named, ConnectionRecords
\* What it reported is released, so nothing is left.
<1>6. CASE Gone(c)
  <2>1. conn[c].windows = {} /\ conn'[c] = [conn[c] EXCEPT !.status = "gone"]
    BY <1>6, ConnectionGone DEF Gone
  <2>2. conn'[c].status = "gone" /\ players = {} /\ UNCHANGED players
    BY <1>0, <1>1, <1>3, <1>6, <2>1 DEF ConnectionRecords, Covered
  <2> QED
    BY <1>1, <1>2, <1>3, <2>2 DEF CarriesOver, Covered, Lives, Alive, Named
<1> QED
  BY <1>4, <1>5, <1>6

\* The engine has no players.
LEMMA PlayersEngine ==
    ASSUME LinkTypeOK, CarriesOver,
           \/ \E changed \in Changes : Wake(changed)
           \/ \E j \in asked : AnswerQuery(j)
           \/ Engine
    PROVE  CarriesOver'
<1>1. EngineAlone
  BY Woken, QueryAnswered, CommandRun, QueryRun, ListenersCopied, ListenerTold, AllTold, Replied
     DEF Engine
<1>2. UNCHANGED <<link, remote, toHost, players, races>>
  BY <1>1 DEF EngineAlone, pageVars
<1>3. \A c \in Connections :
        \E k : Forwards(c, k) /\ (k = 1 => toHost[c][1].type \notin Shows)
  BY <1>2, Forwarding
<1>4. \A c \in Connections : Tagged(toPage'[c], "error") => Tagged(toPage[c], "error")
  <2>1. CASE UNCHANGED toPage
    BY <2>1
  <2>2. ASSUME NEW d \in Connections, NEW m \in FromHost, m.type # "error", toPage' = Sent(d, m)
        PROVE  \A c \in Connections : Tagged(toPage'[c], "error") => Tagged(toPage[c], "error")
    BY <2>2, PageHears
  <2>3. ASSUME NEW j \in asked, AnswerQuery(j)
        PROVE  /\ j.connection \in Connections /\ Result(j) \in FromHost
               /\ Result(j).type # "error" /\ toPage' = Sent(j.connection, Result(j))
    BY <2>3, QueryAnswered DEF Result
  <2>4. ASSUME NEW d \in Connections, Tell(d)
        PROVE  Tidings \in FromHost /\ Tidings.type # "error" /\ toPage' = Sent(d, Tidings)
    BY <2>4, ListenerTold DEF Tidings
  <2>5. ASSUME Reply
        PROVE  /\ job.connection \in Connections /\ Result(job) \in FromHost
               /\ Result(job).type # "error" /\ toPage' = Sent(job.connection, Result(job))
    BY <2>5, Replied DEF Result
  <2> QED
    BY <2>1, <2>2, <2>3, <2>4, <2>5, Woken, CommandRun, QueryRun, ListenersCopied, AllTold
       DEF Engine
<1>5. Named => Named'
  BY <1>2 DEF Named
<1> QED
  BY <1>2, <1>3, <1>4, <1>5, PlayersCalm, EngineConnections DEF Alive, Lives

LEMMA PlayersKept ==
    ASSUME LinkTypeOK, Handshakes, CarriesOver, [Next]_vars
    PROVE  CarriesOver'
<1>1. CASE UNCHANGED vars
  <2>1. UNCHANGED <<link, remote, toHost, toPage, hostVars, players, races>>
    BY <1>1 DEF vars, pageVars, channelVars, hostVars, histories
  <2>2. <<>> \in Seq(FromPage) /\ DOMAIN <<>> = {}
    OBVIOUS
  <2> QED
    BY <2>1, <2>2, PlayersPosted, SameMoves DEF Named, Kept
<1>2. ASSUME NEW c \in Connections, HostStep(c) \/ Leave(c) PROVE CarriesOver'
  BY <1>2, PlayersThreads, PlayersHeard, PlayersEnded DEF CarriesOver, HostStep
<1>3. CASE Restart
  BY <1>3, Restarted DEF pageVars, histories, NewConnection, CarriesOver, Covered, Lives,
     Alive, Named
<1> QED
  BY <1>1, <1>2, <1>3, PlayersPage, PlayersEngine DEF Next, Host

LEMMA PlayersFirst == Init => CarriesOver
BY DEF Init, CarriesOver, Covered, Lives, Alive, Named, Tagged, NewLink, NewRemote, NewConnection

\* While connections take turns and no window changes between a session and its first
\* State, the link never fails, and once all was heard the hub has exactly the players
\* of the page's windows: they carry over to a new connection and a new engine, and
\* those of closed windows and lost connections are released (remote.rs, SessionOpened;
\* channel.rs, closed).
THEOREM PlayersStayPlaced == Spec => []PlayersCarryOver
<1>1. ASSUME LinkTypeOK, Handshakes, CarriesOver
      PROVE  PlayersCarryOver
  BY <1>1 DEF PlayersCarryOver, CarriesOver, Settled, Quiet, Handshakes, Known, Places,
     LinkTypeOK, ConnectionsTyped, Placed, Stands
<1>2. LinkTypeOK /\ Handshakes /\ [Next]_vars => Handshakes'
  BY HandshakesKept
<1>3. LinkTypeOK /\ Handshakes /\ CarriesOver /\ [Next]_vars => CarriesOver'
  BY PlayersKept
<1>4. LinkTypeOK /\ Handshakes /\ CarriesOver => PlayersCarryOver
  BY <1>1
<1> QED
  BY <1>2, <1>3, <1>4, LinkTypes, HandshakesFirst, PlayersFirst, PTL DEF Spec

=============================================================================
