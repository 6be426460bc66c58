--------------------------- MODULE MediaHubProofs ---------------------------
(***************************************************************************)
(* Proofs about MediaHub, for any players, pages, sources and bounds.      *)
(***************************************************************************)
EXTENDS MediaHubInvariants, SequenceTheorems, FiniteSetTheorems, TLAPS

-----------------------------------------------------------------------------
(* Sequences.                                                              *)

\* A sequence without its first element.
LEMMA Rest ==
    ASSUME NEW S, NEW s \in Seq(S), s # <<>>
    PROVE  /\ Head(s) \in S /\ Tail(s) \in Seq(S)
           /\ 1 \in DOMAIN s /\ Head(s) = s[1]
           /\ \A i \in DOMAIN Tail(s) : i + 1 \in DOMAIN s /\ Tail(s)[i] = s[i + 1]
           /\ DOMAIN s \subseteq Nat \ {0} /\ DOMAIN Tail(s) \subseteq Nat \ {0}
           /\ \A i \in DOMAIN s : i # 1 => i - 1 \in DOMAIN Tail(s) /\ Tail(s)[i - 1] = s[i]
           /\ Len(s) # 1 => Tail(s) # <<>>
           /\ Len(s) = 1 => DOMAIN s = {1}
<1>1. /\ Len(s) \in Nat \ {0} /\ Head(s) \in S /\ Tail(s) \in Seq(S)
      /\ Len(Tail(s)) = Len(s) - 1
      /\ \A i \in 1 .. Len(Tail(s)) : Tail(s)[i] = s[i + 1]
  BY EmptySeq, HeadTailProperties, LenProperties
<1>2. DOMAIN s = 1 .. Len(s) /\ DOMAIN Tail(s) = 1 .. Len(Tail(s))
  BY <1>1, LenProperties
<1>3. Head(s) = s[1]
  BY <1>1, EmptySeq, HeadTailProperties
<1>4. ASSUME Tail(s) = <<>> PROVE Len(s) = 1
  <2>1. Len(Tail(s)) = 0
    BY <1>1, <1>4, EmptySeq
  <2>2. Len(s) - 1 = 0 /\ Len(s) \in Nat
    BY <1>1, <2>1
  <2> QED
    BY <2>2
<1> QED
  BY <1>1, <1>2, <1>3, <1>4

\* A sequence with one element more.
LEMMA More ==
    ASSUME NEW S, NEW s \in Seq(S), NEW m \in S
    PROVE  /\ Append(s, m) \in Seq(S)
           /\ DOMAIN Append(s, m) = DOMAIN s \cup {Len(s) + 1}
           /\ Append(s, m)[Len(s) + 1] = m
           /\ \A i \in DOMAIN s : Append(s, m)[i] = s[i] /\ i \in Nat \ {0} /\ i < Len(s) + 1
           /\ Len(s) \in Nat
<1>1. /\ Len(s) \in Nat /\ DOMAIN s = 1 .. Len(s)
      /\ Append(s, m) \in Seq(S) /\ Len(Append(s, m)) = Len(s) + 1
      /\ Append(s, m)[Len(s) + 1] = m
      /\ \A i \in 1 .. Len(s) : Append(s, m)[i] = s[i]
  BY AppendProperties, LenProperties
<1>2. DOMAIN Append(s, m) = 1 .. (Len(s) + 1)
  BY <1>1, LenProperties
<1> QED
  BY <1>1, <1>2

\* A set in some order.
LEMMA Ordered ==
    ASSUME NEW S, IsFiniteSet(S)
    PROVE  /\ SetToSeq(S) \in Seq(S)
           /\ \A x \in S : \E i \in DOMAIN SetToSeq(S) : SetToSeq(S)[i] = x
           /\ \A i, j \in DOMAIN SetToSeq(S) : SetToSeq(S)[i] = SetToSeq(S)[j] => i = j
           /\ Len(SetToSeq(S)) = Cardinality(S)
<1> DEFINE n == Cardinality(S)
<1>1. n \in Nat /\ ExistsBijection(1 .. n, S)
  BY FS_CardinalityType
<1>2. PICK f \in [1 .. n -> S] : IsInjective(f)
  BY <1>1 DEF ExistsBijection, Bijection, Injection
<1>3. SetToSeq(S) \in [1 .. n -> S] /\ IsInjective(SetToSeq(S))
  BY <1>2 DEF SetToSeq
<1>4. IsFiniteSet(1 .. n) /\ Cardinality(1 .. n) = n
  BY <1>1, FS_Interval
<1>5. SetToSeq(S) \in Surjection(1 .. n, S)
  BY <1>3, <1>4, FS_Injection DEF Injection
<1>6. SetToSeq(S) \in Seq(S) /\ DOMAIN SetToSeq(S) = 1 .. n
  BY <1>1, <1>3
<1>7. Len(SetToSeq(S)) = n
  BY <1>1, <1>6, LenProperties
<1> QED
  BY <1>3, <1>5, <1>6, <1>7 DEF Surjection, IsInjective

\* A sequence without its element i.
LEMMA Without ==
    ASSUME NEW S, NEW s \in Seq(S), NEW i \in DOMAIN s
    PROVE  /\ RemoveAt(s, i) \in Seq(S)
           /\ Len(RemoveAt(s, i)) = Len(s) - 1
           /\ \A j \in DOMAIN RemoveAt(s, i) :
                 RemoveAt(s, i)[j] = IF j < i THEN s[j] ELSE s[j + 1]
           /\ Len(s) \in Nat /\ DOMAIN s = 1 .. Len(s)
           /\ DOMAIN RemoveAt(s, i) = 1 .. (Len(s) - 1)
<1> DEFINE a == SubSeq(s, 1, i - 1)
           b == SubSeq(s, i + 1, Len(s))
<1>1. Len(s) \in Nat /\ DOMAIN s = 1 .. Len(s) /\ i \in 1 .. Len(s)
  BY LenProperties
<1>2. a \in Seq(S) /\ Len(a) = i - 1 /\ \A j \in 1 .. i - 1 : a[j] = s[j]
  <2>1. \A j \in 1 .. i - 1 : s[j] \in S
    BY <1>1, ElementOfSeq
  <2> QED
    BY <1>1, <2>1, SubSeqProperties
<1>3. b \in Seq(S) /\ Len(b) = Len(s) - i /\ \A j \in 1 .. Len(s) - i : b[j] = s[i + j]
  <2>1. \A j \in i + 1 .. Len(s) : s[j] \in S
    BY <1>1, ElementOfSeq
  <2> QED
    BY <1>1, <2>1, SubSeqProperties
<1>4. RemoveAt(s, i) = a \o b
  BY DEF RemoveAt
<1> HIDE DEF a, b
<1>5. /\ a \o b \in Seq(S) /\ Len(a \o b) = Len(a) + Len(b)
      /\ \A j \in 1 .. Len(a) + Len(b) :
            (a \o b)[j] = IF j <= Len(a) THEN a[j] ELSE b[j - Len(a)]
  BY <1>2, <1>3, ConcatProperties
<1>6. Len(a) + Len(b) = Len(s) - 1
  BY <1>1, <1>2, <1>3
<1>7. DOMAIN (a \o b) = 1 .. (Len(s) - 1)
  BY <1>5, <1>6, LenProperties
<1>8. ASSUME NEW j \in 1 .. (Len(s) - 1)
      PROVE  (a \o b)[j] = IF j < i THEN s[j] ELSE s[j + 1]
  <2>1. (a \o b)[j] = IF j <= i - 1 THEN a[j] ELSE b[j - (i - 1)]
    BY <1>2, <1>5, <1>6
  <2>2. CASE j < i
    BY <1>1, <1>2, <2>1, <2>2
  <2>3. CASE ~(j < i)
    <3>1. j - (i - 1) \in 1 .. (Len(s) - i) /\ i + (j - (i - 1)) = j + 1 /\ ~(j <= i - 1)
      BY <1>1, <2>3
    <3> QED
      BY <1>3, <2>1, <2>3, <3>1
  <2> QED
    BY <2>2, <2>3
<1>9. RemoveAt(s, i) \in Seq(S) /\ Len(RemoveAt(s, i)) = Len(s) - 1
  BY <1>4, <1>5, <1>6
<1> QED
  BY <1>1, <1>4, <1>7, <1>8, <1>9

-----------------------------------------------------------------------------
(* The hub's calls.                                                        *)

\* Two records of a player say the same of what is played.
SamePlay(new, old) ==
    /\ new.source = old.source /\ new.version = old.version
    /\ new.load = old.load /\ new.runner = old.runner

\* The new request of p.
LEMMA Tracking ==
    ASSUME NEW h, NEW D, D \subseteq PlayerIds, NEW p \in D, h \in HubsOf(D)
    PROVE  /\ Tracked(h, p) \in HubsOf(D)
           /\ Tracked(h, p).executor = h.executor
           /\ Tracked(h, p).next_request = h.next_request + 1
           /\ Tracked(h, p).pending =
                 h.pending \cup {[request |-> h.next_request + 1, player |-> p]}
           /\ \A q \in D \ {p} : Tracked(h, p).players[q] = h.players[q]
           /\ LET new == Tracked(h, p).players[p] IN
                 /\ new.request = h.next_request + 1 /\ new.status = "accepted" /\ ~new.lost
                 /\ SamePlay(new, h.players[p]) /\ new.of = h.players[p].of
<1> DEFINE id == h.next_request + 1
           new == [h.players[p] EXCEPT !.request = id, !.status = "accepted", !.lost = FALSE]
           w == [request |-> id, player |-> p]
           t == [h EXCEPT !.next_request = id, !.players[p] = new, !.pending = @ \cup {w}]
<1>1. h.players \in [D -> PlayerRecords] /\ h.players[p] \in PlayerRecords /\ id \in Nat
  BY DEF HubsOf
<1>2. new \in PlayerRecords /\ w \in [request : Nat, player : PlayerIds]
  BY <1>1 DEF PlayerRecords
<1>3. Tracked(h, p) = t
  BY DEF Tracked
<1> HIDE DEF new, w, id
<1>4. t.executor = h.executor /\ t.next_request = id /\ t.pending = h.pending \cup {w}
  BY DEF HubsOf
<1>5. t.players = [h.players EXCEPT ![p] = new]
  BY DEF HubsOf
<1>6. t.players[p] = new /\ \A q \in D \ {p} : t.players[q] = h.players[q]
  BY <1>1, <1>5
<1>7. t \in HubsOf(D)
  BY <1>1, <1>2 DEF HubsOf
<1>8. /\ new.request = id /\ new.status = "accepted" /\ ~new.lost
      /\ SamePlay(new, h.players[p]) /\ new.of = h.players[p].of
  BY <1>1 DEF new, PlayerRecords, SamePlay
<1> HIDE DEF t
<1> QED
  BY <1>3, <1>4, <1>6, <1>7, <1>8 DEF id, w

\* The new version of p.
LEMMA Sourcing ==
    ASSUME NEW h, NEW D, D \subseteq PlayerIds, NEW p \in D, h \in HubsOf(D),
           NEW url \in Urls \cup {None}, h.players[p].version < MaxVersion
    PROVE  /\ Sourced(h, p, url) \in HubsOf(D)
           /\ Sourced(h, p, url).executor = h.executor
           /\ Sourced(h, p, url).next_request = h.next_request
           /\ Sourced(h, p, url).pending = h.pending
           /\ \A q \in D \ {p} : Sourced(h, p, url).players[q] = h.players[q]
           /\ LET new == Sourced(h, p, url).players[p]
                  old == h.players[p]
              IN /\ new.version = old.version + 1 /\ new.source = url
                 /\ new.of = 0 /\ new.load = 0 /\ new.runner = old.runner
                 /\ new.request = old.request /\ new.status = old.status
                 /\ new.lost = old.lost
<1> DEFINE new == [h.players[p] EXCEPT !.version = @ + 1, !.source = url,
                                       !.of = 0, !.load = 0]
           t == [h EXCEPT !.players[p] = new]
<1>1. h.players \in [D -> PlayerRecords] /\ h.players[p] \in PlayerRecords
  BY DEF HubsOf
<1>2. h.players[p].version + 1 \in 0 .. MaxVersion
  BY <1>1, MediaAssumption DEF PlayerRecords
<1>3. new \in PlayerRecords
  BY <1>1, <1>2 DEF PlayerRecords
<1>4. Sourced(h, p, url) = t
  BY DEF Sourced
<1> HIDE DEF new
<1>5. /\ t.executor = h.executor /\ t.next_request = h.next_request /\ t.pending = h.pending
      /\ t.players = [h.players EXCEPT ![p] = new]
  BY DEF HubsOf
<1>6. t.players[p] = new /\ \A q \in D \ {p} : t.players[q] = h.players[q]
  BY <1>1, <1>5
<1>7. t \in HubsOf(D)
  BY <1>1, <1>3 DEF HubsOf
<1>8. /\ new.version = h.players[p].version + 1 /\ new.source = url
      /\ new.of = 0 /\ new.load = 0 /\ new.runner = h.players[p].runner
      /\ new.request = h.players[p].request /\ new.status = h.players[p].status
      /\ new.lost = h.players[p].lost
  BY <1>1 DEF new, PlayerRecords
<1> HIDE DEF t
<1> QED
  BY <1>4, <1>5, <1>6, <1>7, <1>8

\* The load of it.
LEMMA LoadingIt ==
    ASSUME NEW h, NEW D, D \subseteq PlayerIds, NEW p \in D, h \in HubsOf(D)
    PROVE  /\ Loads(h, p) \in HubsOf(D)
           /\ Loads(h, p).executor = h.executor
           /\ Loads(h, p).next_request = h.next_request + 1
           /\ Loads(h, p).pending =
                 h.pending \cup {[request |-> h.next_request + 1, player |-> p]}
           /\ \A q \in D \ {p} : Loads(h, p).players[q] = h.players[q]
           /\ LET new == Loads(h, p).players[p]
                  old == h.players[p]
              IN /\ new.request = h.next_request + 1 /\ new.status = "accepted" /\ ~new.lost
                 /\ new.source = old.source /\ new.version = old.version
                 /\ new.load = h.next_request + 1 /\ new.runner = old.runner
                 /\ new.of = old.of
<1> DEFINE t == Tracked(h, p)
           l == [t EXCEPT !.players[p].load = t.next_request]
           new == [t.players[p] EXCEPT !.load = t.next_request]
<1>1. /\ t \in HubsOf(D) /\ t.executor = h.executor /\ t.next_request = h.next_request + 1
      /\ t.pending = h.pending \cup {[request |-> h.next_request + 1, player |-> p]}
      /\ \A q \in D \ {p} : t.players[q] = h.players[q]
      /\ t.players[p].request = h.next_request + 1 /\ t.players[p].status = "accepted"
      /\ ~t.players[p].lost /\ t.players[p].of = h.players[p].of
      /\ SamePlay(t.players[p], h.players[p])
  BY Tracking
<1>2. Loads(h, p) = l
  BY DEF Loads
<1> HIDE DEF t
<1>3. /\ t.players \in [D -> PlayerRecords] /\ t.players[p] \in PlayerRecords
      /\ t.next_request \in Nat /\ h.players[p] \in PlayerRecords
  BY <1>1 DEF HubsOf
<1>4. new \in PlayerRecords
  BY <1>3 DEF PlayerRecords
<1>5. /\ l.executor = t.executor /\ l.next_request = t.next_request /\ l.pending = t.pending
      /\ l.players = [t.players EXCEPT ![p].load = t.next_request]
  BY <1>1 DEF HubsOf
<1>6. l.players[p] = new /\ \A q \in D \ {p} : l.players[q] = t.players[q]
  BY <1>3, <1>5
<1>7. /\ new.request = h.next_request + 1 /\ new.status = "accepted" /\ ~new.lost
      /\ new.source = h.players[p].source /\ new.version = h.players[p].version
      /\ new.load = h.next_request + 1 /\ new.runner = h.players[p].runner
      /\ new.of = h.players[p].of
  BY <1>1, <1>3 DEF PlayerRecords, SamePlay
<1> HIDE DEF new
<1>8. l.players \in [D -> PlayerRecords]
  BY <1>3, <1>4, <1>5, <1>6
<1>9. l \in HubsOf(D)
  BY <1>1, <1>8 DEF HubsOf
<1> HIDE DEF l
<1> QED
  BY <1>1, <1>2, <1>5, <1>6, <1>7, <1>9

\* The runner of p.
LEMMA Running ==
    ASSUME NEW h, NEW D, D \subseteq PlayerIds, NEW p \in D, h \in HubsOf(D),
           NEW page \in BOOLEAN
    PROVE  /\ RunsOn(h, p, page) \in HubsOf(D)
           /\ RunsOn(h, p, page).executor = h.executor
           /\ RunsOn(h, p, page).next_request = h.next_request
           /\ RunsOn(h, p, page).pending = h.pending
           /\ \A q \in D \ {p} : RunsOn(h, p, page).players[q] = h.players[q]
           /\ LET new == RunsOn(h, p, page).players[p]
                  old == h.players[p]
              IN /\ new.runner = page /\ new.version = old.version /\ new.source = old.source
                 /\ new.load = old.load
<1> DEFINE new == [h.players[p] EXCEPT !.runner = page]
           t == [h EXCEPT !.players[p].runner = page]
<1>1. h.players \in [D -> PlayerRecords] /\ h.players[p] \in PlayerRecords
  BY DEF HubsOf
<1>2. new \in PlayerRecords
  BY <1>1 DEF PlayerRecords
<1>3. RunsOn(h, p, page) = t
  BY DEF RunsOn
<1>4. /\ t.executor = h.executor /\ t.next_request = h.next_request /\ t.pending = h.pending
      /\ t.players = [h.players EXCEPT ![p].runner = page]
  BY DEF HubsOf
<1>5. t.players[p] = new /\ \A q \in D \ {p} : t.players[q] = h.players[q]
  BY <1>1, <1>4
<1> HIDE DEF new
<1>6. t.players \in [D -> PlayerRecords]
  BY <1>1, <1>2, <1>4, <1>5
<1>7. t \in HubsOf(D)
  BY <1>6 DEF HubsOf
<1>8. /\ new.runner = page /\ new.version = h.players[p].version
      /\ new.source = h.players[p].source /\ new.load = h.players[p].load
  BY <1>1 DEF new, PlayerRecords
<1> HIDE DEF t
<1> QED
  BY <1>3, <1>4, <1>5, <1>7, <1>8

Callers == Pages \cup {"device", "caller"}

\* The players that a change of p leaves alone.
OthersStay(p) == \A q \in Existing \ {p} : hub'.players[q] = hub.players[q]

\* One request about p is made, for the thread `by` to hand over.
Asks(by, p, op) ==
    /\ sending = {} /\ p \in Existing /\ by \in Callers /\ op \in {"load", "unload", "control"}
    /\ hub' \in HubsOf(Existing) /\ hub'.executor = hub.executor
    /\ hub'.next_request = hub.next_request + 1
    /\ hub'.pending = hub.pending \cup {[request |-> hub.next_request + 1, player |-> p]}
    /\ OthersStay(p)
    /\ LET new == hub'.players[p]
           old == hub.players[p]
       IN /\ new.request = hub.next_request + 1 /\ new.status = "accepted" /\ ~new.lost
          /\ op = "control" => SamePlay(new, old) /\ new.of = old.of
          /\ op # "control" => new.version = old.version + 1 /\ new.of = 0
          /\ op = "load" => new.load = hub.next_request + 1
          /\ op = "unload" => new.load = 0 /\ new.source = None /\ new.runner = old.runner
          /\ RunnerOf(hub', p) # "none"
          /\ sending' = {[by |-> by, requests |->
                <<[request |-> hub.next_request + 1, player |-> p, version |-> new.version,
                   op |-> op, to |-> RunnerOf(hub', p)]>>]}

\* Nobody runs p: its source is only noted.
Notes(p) ==
    /\ sending = {} /\ sending' = {} /\ p \in Existing
    /\ hub' \in HubsOf(Existing) /\ hub'.executor = hub.executor
    /\ hub'.next_request = hub.next_request /\ hub'.pending = hub.pending
    /\ OthersStay(p)
    /\ RunnerOf(hub, p) = "none"
    /\ LET new == hub'.players[p]
           old == hub.players[p]
       IN /\ new.version = old.version + 1 /\ new.of = 0 /\ new.load = 0
          /\ new.runner = old.runner /\ new.request = old.request
          /\ new.status = old.status /\ new.lost = old.lost

\* Who runs a player, by the fields it depends on.
LEMMA RunnerIs ==
    ASSUME NEW h, NEW D, NEW p \in D, h \in HubsOf(D)
    PROVE  /\ RunnerOf(h, p) \in {"none", "device", "router"}
           /\ h.players[p].runner => RunnerOf(h, p) = "router"
           /\ ~h.players[p].runner => RunnerOf(h, p) = h.executor
           /\ h.players[p] \in PlayerRecords /\ h.players[p].runner \in BOOLEAN
BY DEF RunnerOf, HubsOf, PlayerRecords

\* Only the new request is handed over.
LEMMA SendingOne ==
    ASSUME NEW by, NEW r, sending = {}, Sends(by, <<r>>)
    PROVE  sending' = {[by |-> by, requests |-> <<r>>]}
BY DEF Sends

\* bind makes a request, or notes the source.
LEMMA Binding ==
    ASSUME HubTyped, NEW by \in Callers, NEW p \in Existing, NEW url \in Urls \cup {None},
           Bind(by, p, url)
    PROVE  \/ /\ Asks(by, p, "load") \/ Asks(by, p, "unload")
              /\ hub'.players[p].runner = hub.players[p].runner
              /\ RunnerOf(hub, p) # "none"
           \/ Notes(p)
<1> DEFINE s == Sourced(hub, p, url)
           t == IF url = None THEN Tracked(s, p) ELSE Loads(s, p)
           op == IF url = None THEN "unload" ELSE "load"
<1>0. /\ hub \in HubsOf(Existing) /\ Existing \subseteq PlayerIds
      /\ sending = {} /\ hub.players[p].version < MaxVersion
  BY DEF HubTyped, Bind, Locks, SendFree
<1>1. /\ s \in HubsOf(Existing) /\ s.executor = hub.executor
      /\ s.next_request = hub.next_request /\ s.pending = hub.pending
      /\ \A q \in Existing \ {p} : s.players[q] = hub.players[q]
  BY <1>0, Sourcing
<1>2. LET new == s.players[p]
          old == hub.players[p]
      IN /\ new.version = old.version + 1 /\ new.source = url
         /\ new.of = 0 /\ new.load = 0 /\ new.runner = old.runner
         /\ new.request = old.request /\ new.status = old.status /\ new.lost = old.lost
  BY <1>0, Sourcing
<1>3. CASE RunnerOf(hub, p) = "none"
  <2>1. hub' = s /\ UNCHANGED sending
    BY <1>3 DEF Bind
  <2> HIDE DEF s
  <2>2. OthersStay(p)
    BY <1>1, <2>1 DEF OthersStay
  <2> QED
    BY <1>0, <1>1, <1>2, <1>3, <2>1, <2>2 DEF Notes
<1>4. CASE RunnerOf(hub, p) # "none"
  <2>1. hub' = t /\ Sends(by, <<Request(t, p, op)>>)
    BY <1>4 DEF Bind
  <2> HIDE DEF s
  <2>2. /\ t \in HubsOf(Existing) /\ t.executor = s.executor
        /\ t.next_request = s.next_request + 1
        /\ t.pending = s.pending \cup {[request |-> s.next_request + 1, player |-> p]}
        /\ \A q \in Existing \ {p} : t.players[q] = s.players[q]
    BY <1>0, <1>1, Tracking, LoadingIt
  <2>3. LET new == t.players[p]
            old == s.players[p]
        IN /\ new.request = s.next_request + 1 /\ new.status = "accepted" /\ ~new.lost
           /\ new.source = old.source /\ new.version = old.version
           /\ new.runner = old.runner /\ new.of = old.of
           /\ new.load = IF url = None THEN old.load ELSE s.next_request + 1
    <3>1. CASE url = None
      BY <1>0, <1>1, <3>1, Tracking DEF SamePlay
    <3>2. CASE url # None
      BY <1>0, <1>1, <3>2, LoadingIt
    <3> QED
      BY <3>1, <3>2
  <2> HIDE DEF t
  <2>4. RunnerOf(hub', p) = RunnerOf(hub, p)
    BY <1>0, <1>1, <1>2, <2>1, <2>2, <2>3, RunnerIs
  <2>5. sending' = {[by |-> by, requests |-> <<Request(t, p, op)>>]}
    BY <1>0, <2>1, SendingOne
  <2>6. OthersStay(p)
    BY <1>1, <2>1, <2>2 DEF OthersStay
  <2>7. Asks(by, p, op)
    BY <1>0, <1>1, <1>2, <1>4, <2>1, <2>2, <2>3, <2>4, <2>5, <2>6 DEF Asks, Request
  <2> QED
    BY <1>2, <1>4, <2>1, <2>3, <2>7
<1> QED
  BY <1>3, <1>4

\* Open makes a load.
LEMMA Opening ==
    ASSUME HubTyped, NEW by \in Callers, NEW page \in BOOLEAN, NEW p, NEW url \in Urls,
           Open(by, page, p, url)
    PROVE  /\ Asks(by, p, "load") /\ hub'.players[p].runner = page
           /\ p \in Application /\ (page \/ hub.executor # "none")
<1> DEFINE a == RunsOn(hub, p, page)
           s == Sourced(a, p, url)
           t == Loads(s, p)
<1>0. /\ hub \in HubsOf(Existing) /\ Existing \subseteq PlayerIds /\ p \in Application
      /\ p \in Existing /\ sending = {} /\ hub.players[p].version < MaxVersion
      /\ page \/ hub.executor # "none"
      /\ hub' = t /\ Sends(by, <<Request(t, p, "load")>>)
  BY DEF HubTyped, Open, Locks, SendFree
<1>1. /\ a \in HubsOf(Existing) /\ a.executor = hub.executor
      /\ a.next_request = hub.next_request /\ a.pending = hub.pending
      /\ \A q \in Existing \ {p} : a.players[q] = hub.players[q]
      /\ a.players[p].runner = page /\ a.players[p].version = hub.players[p].version
  BY <1>0, Running
<1> HIDE DEF a
<1>2. /\ s \in HubsOf(Existing) /\ s.executor = a.executor
      /\ s.next_request = a.next_request /\ s.pending = a.pending
      /\ \A q \in Existing \ {p} : s.players[q] = a.players[q]
      /\ s.players[p].version = a.players[p].version + 1 /\ s.players[p].of = 0
      /\ s.players[p].runner = a.players[p].runner
  BY <1>0, <1>1, Sourcing
<1> HIDE DEF s
<1>3. /\ t \in HubsOf(Existing) /\ t.executor = s.executor
      /\ t.next_request = s.next_request + 1
      /\ t.pending = s.pending \cup {[request |-> s.next_request + 1, player |-> p]}
      /\ \A q \in Existing \ {p} : t.players[q] = s.players[q]
  BY <1>0, <1>2, LoadingIt
<1>4. LET new == t.players[p]
          old == s.players[p]
      IN /\ new.request = s.next_request + 1 /\ new.status = "accepted" /\ ~new.lost
         /\ new.version = old.version /\ new.runner = old.runner /\ new.of = old.of
         /\ new.load = s.next_request + 1
  BY <1>0, <1>2, LoadingIt
<1> HIDE DEF t
<1>5. RunnerOf(hub', p) # "none"
  BY <1>0, <1>1, <1>2, <1>3, <1>4, RunnerIs
<1>6. sending' = {[by |-> by, requests |-> <<Request(t, p, "load")>>]}
  BY <1>0, SendingOne
<1>7. OthersStay(p)
  BY <1>0, <1>1, <1>2, <1>3 DEF OthersStay
<1>8. Asks(by, p, "load")
  BY <1>0, <1>1, <1>2, <1>3, <1>4, <1>5, <1>6, <1>7 DEF Asks, Request
<1> QED
  BY <1>0, <1>1, <1>2, <1>4, <1>8

\* Play, Pause and Seek make a control.
LEMMA Controlling ==
    ASSUME HubTyped, NEW by \in Callers, NEW p, Control(by, p)
    PROVE  /\ Asks(by, p, "control") /\ RunnerOf(hub, p) # "none"
           /\ hub'.players[p].runner = hub.players[p].runner
<1> DEFINE t == Tracked(hub, p)
<1>0. /\ hub \in HubsOf(Existing) /\ Existing \subseteq PlayerIds
      /\ p \in Existing /\ sending = {} /\ RunnerOf(hub, p) # "none"
      /\ hub' = t /\ Sends(by, <<Request(t, p, "control")>>)
  BY DEF HubTyped, Control, Locks, SendFree
<1>1. /\ t \in HubsOf(Existing) /\ t.executor = hub.executor
      /\ t.next_request = hub.next_request + 1
      /\ t.pending = hub.pending \cup {[request |-> hub.next_request + 1, player |-> p]}
      /\ \A q \in Existing \ {p} : t.players[q] = hub.players[q]
  BY <1>0, Tracking
<1>2. LET new == t.players[p] IN
         /\ new.request = hub.next_request + 1 /\ new.status = "accepted" /\ ~new.lost
         /\ SamePlay(new, hub.players[p]) /\ new.of = hub.players[p].of
  BY <1>0, Tracking
<1> HIDE DEF t
<1>3. RunnerOf(hub', p) = RunnerOf(hub, p) /\ t.players[p].runner = hub.players[p].runner
  BY <1>0, <1>1, <1>2, RunnerIs DEF SamePlay
<1>4. sending' = {[by |-> by, requests |-> <<Request(t, p, "control")>>]}
  BY <1>0, SendingOne
<1>5. OthersStay(p)
  BY <1>0, <1>1 DEF OthersStay
<1>6. Asks(by, p, "control")
  BY <1>0, <1>1, <1>2, <1>3, <1>4, <1>5 DEF Asks, Request
<1> QED
  BY <1>0, <1>3, <1>6

\* The load of q, for e.
LoadOf(q, e) ==
    [request |-> hub'.players[q].request, player |-> q, version |-> hub'.players[q].version,
     op |-> "load", to |-> e]

\* Player q has a source that no page runs.
Unattended(q) == ~hub.players[q].runner /\ hub.players[q].source # None

\* Executor e attaches: the thread `by` hands over a load of each player of those.
Reloads(by, e) ==
    /\ sending = {} /\ by \in Callers /\ e \in {"device", "router"}
    /\ hub' \in HubsOf(Existing) /\ hub'.executor = e
    /\ hub.next_request <= hub'.next_request
    /\ hub'.pending = hub.pending \cup {[request |-> hub'.players[q].request, player |-> q] :
                                          q \in {q \in Existing : Unattended(q)}}
    /\ \A q \in Existing :
          LET new == hub'.players[q]
              old == hub.players[q]
          IN /\ old.runner => new = old
             /\ ~old.runner => new.of = 0
             /\ ~Unattended(q) => /\ SamePlay(new, old) /\ new.request = old.request
                                  /\ new.status = old.status /\ new.lost = old.lost
             /\ Unattended(q) =>
                   /\ new.version = old.version + 1 /\ new.load = new.request
                   /\ new.status = "accepted" /\ ~new.lost
                   /\ new.source = old.source /\ ~new.runner
                   /\ new.request \in Nat
                   /\ hub.next_request < new.request /\ new.request <= hub'.next_request
                   /\ \E t \in sending' : \E i \in DOMAIN t.requests :
                         t.requests[i] = LoadOf(q, e)
    /\ \A t \in sending' :
          /\ t = [by |-> by, requests |-> t.requests]
          /\ t.requests \in Seq(Requests) /\ t.requests # <<>>
          /\ \A i \in DOMAIN t.requests : t.requests[i].request = hub.next_request + i
          /\ \A i \in DOMAIN t.requests : \E q \in Existing :
                Unattended(q) /\ t.requests[i] = LoadOf(q, e)
    /\ \A s, t \in sending' : s = t

LEMMA Attaching ==
    ASSUME HubTyped, NEW by \in Callers, NEW e \in {"device", "router"}, AttachExecutor(by, e)
    PROVE  Reloads(by, e)
<1> DEFINE left == {p \in Existing : ~hub.players[p].runner}
           again == {p \in left : hub.players[p].source # None}
           order == SetToSeq(again)
           place(p) == CHOOSE i \in DOMAIN order : order[i] = p
           id(p) == hub.next_request + place(p)
           Loading(p) == [hub.players[p] EXCEPT !.version = @ + 1, !.of = 0, !.load = id(p),
                                           !.request = id(p), !.status = "accepted",
                                           !.lost = FALSE]
           new == [p \in Existing |-> IF p \in again THEN Loading(p)
                                      ELSE IF p \in left THEN [hub.players[p] EXCEPT !.of = 0]
                                      ELSE hub.players[p]]
           pending == {[request |-> id(p), player |-> p] : p \in again}
           requests == [i \in DOMAIN order |->
             [request |-> hub.next_request + i, player |-> order[i], op |-> "load",
              version |-> hub.players[order[i]].version + 1, to |-> e]]
           h == [hub EXCEPT !.executor = e, !.players = new, !.pending = @ \cup pending,
                            !.next_request = @ + Len(order)]
<1>0. /\ hub \in HubsOf(Existing) /\ Existing \subseteq PlayerIds /\ IsFiniteSet(Existing)
      /\ sending = {} /\ \A p \in left : hub.players[p].version < MaxVersion
      /\ hub.next_request \in Nat
  BY DEF HubTyped, AttachExecutor, Locks, SendFree, HubsOf
<1>1. Attached(hub, e, left) = <<h, requests>>
  BY DEF Attached, Existing
<1> HIDE DEF h, requests
<1>2. hub' = h /\ Sends(by, requests)
  BY <1>1 DEF AttachExecutor
<1> USE DEF h, requests
<1>3. IsFiniteSet(again)
  BY <1>0, FS_Subset
<1>4. /\ order \in Seq(again)
      /\ \A x \in again : \E i \in DOMAIN order : order[i] = x
      /\ \A i, j \in DOMAIN order : order[i] = order[j] => i = j
  BY <1>3, Ordered
<1> HIDE DEF order
<1>5. /\ Len(order) \in Nat /\ DOMAIN order = 1 .. Len(order)
      /\ \A i \in DOMAIN order : order[i] \in again
  BY <1>4, LenProperties, ElementOfSeq
<1>6. /\ \A p \in again : place(p) \in DOMAIN order /\ order[place(p)] = p
      /\ \A i \in DOMAIN order : place(order[i]) = i
  BY <1>4, <1>5
<1> HIDE DEF place
<1>7. \A p \in again : /\ id(p) \in Nat /\ hub.next_request < id(p)
                       /\ id(p) <= hub.next_request + Len(order)
  BY <1>0, <1>5, <1>6
<1> HIDE DEF id
<1>8. ASSUME NEW p \in again
      PROVE  /\ Loading(p) \in PlayerRecords
             /\ Loading(p).version = hub.players[p].version + 1 /\ Loading(p).of = 0
             /\ Loading(p).load = id(p) /\ Loading(p).request = id(p)
             /\ Loading(p).status = "accepted" /\ ~Loading(p).lost
             /\ Loading(p).source = hub.players[p].source /\ ~Loading(p).runner
  <2>1. hub.players[p] \in PlayerRecords /\ ~hub.players[p].runner
    BY <1>0 DEF HubsOf
  <2>2. hub.players[p].version + 1 \in 0 .. MaxVersion
    BY <1>0, <2>1, MediaAssumption DEF PlayerRecords
  <2> QED
    BY <1>7, <2>1, <2>2 DEF PlayerRecords
<1>9. ASSUME NEW p \in Existing
      PROVE  /\ [hub.players[p] EXCEPT !.of = 0] \in PlayerRecords
             /\ SamePlay([hub.players[p] EXCEPT !.of = 0], hub.players[p])
             /\ [hub.players[p] EXCEPT !.of = 0].of = 0
             /\ [hub.players[p] EXCEPT !.of = 0].request = hub.players[p].request
             /\ [hub.players[p] EXCEPT !.of = 0].status = hub.players[p].status
             /\ [hub.players[p] EXCEPT !.of = 0].lost = hub.players[p].lost
             /\ hub.players[p] \in PlayerRecords
  <2>1. hub.players[p] \in PlayerRecords
    BY <1>0 DEF HubsOf
  <2> QED
    BY <2>1 DEF PlayerRecords, SamePlay
<1> HIDE DEF Loading
<1>10. new \in [Existing -> PlayerRecords]
  BY <1>8, <1>9
<1>11. ASSUME NEW q \in Existing
       PROVE  /\ Unattended(q) <=> q \in again
              /\ hub.players[q].runner <=> q \notin left
              /\ q \in again => new[q] = Loading(q)
              /\ q \in left /\ q \notin again => new[q] = [hub.players[q] EXCEPT !.of = 0]
              /\ q \notin left => new[q] = hub.players[q]
  BY DEF Unattended
<1> HIDE DEF new
<1>12. pending \subseteq [request : Nat, player : PlayerIds]
  BY <1>0, <1>7
<1>13. {[request |-> new[q].request, player |-> q] : q \in {q \in Existing : Unattended(q)}}
          = pending
  <2>1. {q \in Existing : Unattended(q)} = again
    BY <1>11
  <2>2. \A q \in again : new[q].request = id(q)
    BY <1>8, <1>11
  <2> HIDE DEF again
  <2> QED
    BY <2>1, <2>2
<1> HIDE DEF pending, requests
<1>14. /\ h.executor = e /\ h.players = new /\ h.pending = hub.pending \cup pending
       /\ h.next_request = hub.next_request + Len(order) /\ h.next_request \in Nat
  BY <1>0, <1>5 DEF HubsOf
<1>15. h \in HubsOf(Existing)
  BY <1>0, <1>10, <1>12, <1>14 DEF HubsOf
<1> HIDE DEF h
<1>16. hub'.players = new /\ hub' \in HubsOf(Existing)
  BY <1>2, <1>14, <1>15
<1>17. ASSUME NEW i \in DOMAIN order
       PROVE  /\ order[i] \in again /\ requests[i] = LoadOf(order[i], e)
              /\ requests[i].request = hub.next_request + i
              /\ requests[i] \in Requests
  <2>1. order[i] \in again /\ order[i] \in Existing /\ id(order[i]) = hub.next_request + i
    BY <1>5, <1>6 DEF id
  <2>2. /\ hub'.players[order[i]].request = hub.next_request + i
        /\ hub'.players[order[i]].version = hub.players[order[i]].version + 1
    BY <1>8, <1>11, <1>16, <2>1
  <2>3. requests[i] = LoadOf(order[i], e) /\ requests[i].request = hub.next_request + i
    BY <2>2 DEF requests, LoadOf
  <2>4. hub'.players[order[i]] \in PlayerRecords
    BY <1>16, <2>1 DEF HubsOf
  <2>5. LoadOf(order[i], e) \in Requests
    BY <1>0, <2>1, <2>4, MediaAssumption DEF LoadOf, Requests, PlayerRecords
  <2> QED
    BY <2>1, <2>3, <2>5
<1>18. DOMAIN requests = DOMAIN order /\ requests \in Seq(Requests)
  <2>1. DOMAIN requests = 1 .. Len(order)
    BY <1>5 DEF requests
  <2>2. requests = [i \in 1 .. Len(order) |-> requests[i]]
    BY <1>5 DEF requests
  <2>3. requests \in [1 .. Len(order) -> Requests]
    BY <1>5, <1>17, <2>1, <2>2
  <2> QED
    BY <1>5, <2>1, <2>3, SeqDef
<1>19. \A t \in sending' : t = [by |-> by, requests |-> requests] /\ requests # <<>>
  BY <1>0, <1>2 DEF Sends
<1>20. requests # <<>> => [by |-> by, requests |-> requests] \in sending'
  BY <1>0, <1>2 DEF Sends
<1>21. ASSUME NEW q \in Existing, Unattended(q)
       PROVE  \E t \in sending' : \E i \in DOMAIN t.requests : t.requests[i] = LoadOf(q, e)
  <2>1. PICK i \in DOMAIN order : order[i] = q
    BY <1>4, <1>11, <1>21
  <2>2. requests[i] = LoadOf(q, e) /\ i \in DOMAIN requests
    BY <1>17, <1>18, <2>1
  <2>3. requests # <<>>
    BY <2>2
  <2> QED
    BY <1>20, <2>2, <2>3
<1>22. \A t \in sending' :
          /\ t = [by |-> by, requests |-> t.requests]
          /\ t.requests \in Seq(Requests) /\ t.requests # <<>>
          /\ \A i \in DOMAIN t.requests : t.requests[i].request = hub.next_request + i
          /\ \A i \in DOMAIN t.requests : \E q \in Existing :
                Unattended(q) /\ t.requests[i] = LoadOf(q, e)
  <2> SUFFICES ASSUME NEW t \in sending'
               PROVE  /\ t = [by |-> by, requests |-> t.requests]
                      /\ t.requests \in Seq(Requests) /\ t.requests # <<>>
                      /\ \A i \in DOMAIN t.requests :
                            t.requests[i].request = hub.next_request + i
                      /\ \A i \in DOMAIN t.requests : \E q \in Existing :
                            Unattended(q) /\ t.requests[i] = LoadOf(q, e)
    OBVIOUS
  <2>1. t = [by |-> by, requests |-> requests] /\ requests # <<>>
    BY <1>19
  <2>2. t.requests = requests
    BY <2>1
  <2>3. ASSUME NEW i \in DOMAIN requests
        PROVE  /\ requests[i].request = hub.next_request + i
               /\ \E q \in Existing : Unattended(q) /\ requests[i] = LoadOf(q, e)
    <3>1. order[i] \in again /\ requests[i] = LoadOf(order[i], e)
      BY <1>17, <1>18
    <3>2. order[i] \in Existing /\ Unattended(order[i])
      BY <1>11, <3>1
    <3> QED
      BY <1>17, <1>18, <3>1, <3>2
  <2> QED
    BY <1>18, <2>1, <2>2, <2>3
<1>23. \A s, t \in sending' : s = t
  BY <1>19
<1>24. ASSUME NEW q \in Existing
       PROVE  LET nq == hub'.players[q]
                  old == hub.players[q]
              IN /\ old.runner => nq = old
                 /\ ~old.runner => nq.of = 0
                 /\ ~Unattended(q) => /\ SamePlay(nq, old) /\ nq.request = old.request
                                      /\ nq.status = old.status /\ nq.lost = old.lost
                 /\ Unattended(q) =>
                       /\ nq.version = old.version + 1 /\ nq.load = nq.request
                       /\ nq.status = "accepted" /\ ~nq.lost
                       /\ nq.source = old.source /\ ~nq.runner
                       /\ nq.request \in Nat
                       /\ hub.next_request < nq.request /\ nq.request <= hub'.next_request
  <2>1. hub.players[q] \in PlayerRecords /\ (Unattended(q) <=> q \in again)
    BY <1>9, <1>11
  <2>2. CASE q \in again
    <3>1. hub'.players[q] = Loading(q)
      BY <1>11, <1>16, <2>2
    <3>2. q \in left
      BY <2>2
    <3>3. ~hub.players[q].runner
      BY <3>2
    <3>4. hub'.next_request = hub.next_request + Len(order)
      BY <1>2, <1>14
    <3> HIDE DEF left, again
    <3> QED
      BY <1>7, <1>8, <2>1, <2>2, <3>1, <3>3, <3>4
  <2>3. CASE q \in left /\ q \notin again
    <3>1. hub'.players[q] = [hub.players[q] EXCEPT !.of = 0]
      BY <1>11, <1>16, <2>3
    <3>2. ~hub.players[q].runner /\ ~Unattended(q)
      BY <1>11, <2>3
    <3> HIDE DEF left, again
    <3> QED
      BY <1>9, <3>1, <3>2
  <2>4. CASE q \notin left
    <3>1. hub'.players[q] = hub.players[q] /\ hub.players[q].runner /\ ~Unattended(q)
      BY <1>11, <1>16, <2>4
    <3> QED
      BY <3>1 DEF SamePlay
  <2> QED
    BY <2>2, <2>3, <2>4
<1> HIDE DEF left, again
<1>25. /\ hub'.executor = e /\ hub.next_request <= hub'.next_request
       /\ hub'.pending = hub.pending \cup {[request |-> hub'.players[q].request, player |-> q] :
                                          q \in {q \in Existing : Unattended(q)}}
  BY <1>0, <1>2, <1>5, <1>13, <1>14, <1>16
<1> QED
  BY <1>0, <1>16, <1>21, <1>22, <1>23, <1>24, <1>25 DEF Reloads

\* Player p goes, and its release is handed over if anything runs it.
Removes(by, p) ==
    /\ sending = {} /\ by \in Callers /\ p \in Existing
    /\ hub' \in HubsOf(Existing \ {p}) /\ hub'.executor = hub.executor
    /\ hub'.next_request = hub.next_request + 1
    /\ hub'.pending = {w \in hub.pending : w.player # p}
    /\ OthersStay(p)
    /\ \A t \in sending' :
          /\ RunnerOf(hub, p) # "none"
          /\ t = [by |-> by, requests |->
                    <<[request |-> hub.next_request + 1, player |-> p, op |-> "release",
                       version |-> hub.players[p].version, to |-> RunnerOf(hub, p)]>>]

LEMMA Releasing ==
    ASSUME HubTyped, NEW by \in Callers, NEW p, Release(by, p)
    PROVE  /\ sending = {}
           /\ p \in Existing => Removes(by, p)
           /\ p \notin Existing => UNCHANGED <<hub, sending>>
<1>0. hub \in HubsOf(Existing) /\ sending = {}
  BY DEF HubTyped, Release, Locks, SendFree
<1>1. ASSUME p \in Existing PROVE Removes(by, p)
  <2> DEFINE h == Removed(hub, p)
             e == RunnerOf(hub, p)
             r == [request |-> h.next_request, player |-> p, op |-> "release",
                   version |-> hub.players[p].version, to |-> e]
  <2>1. hub' = h /\ Sends(by, IF e = "none" THEN <<>> ELSE <<r>>)
    BY <1>1 DEF Release
  <2>2. /\ h.executor = hub.executor /\ h.next_request = hub.next_request + 1
        /\ h.pending = {w \in hub.pending : w.player # p}
        /\ h.players = [q \in Existing \ {p} |-> hub.players[q]]
    BY <1>0 DEF Removed, HubsOf, Existing
  <2>3. h \in HubsOf(Existing \ {p})
    <3>1. h.players \in [Existing \ {p} -> PlayerRecords]
      BY <1>0, <2>2 DEF HubsOf
    <3>2. /\ h.pending \subseteq [request : Nat, player : PlayerIds]
          /\ h.next_request \in Nat
      BY <1>0, <2>2 DEF HubsOf
    <3>3. h = [hub EXCEPT !.players = h.players, !.pending = h.pending,
                          !.next_request = h.next_request]
      BY <1>0, <2>2 DEF HubsOf, Removed, Existing
    <3> HIDE DEF h
    <3> QED
      BY <1>0, <3>1, <3>2, <3>3 DEF HubsOf
  <2> HIDE DEF h
  <2>4. \A t \in sending' : e # "none" /\ t = [by |-> by, requests |-> <<r>>]
    BY <1>0, <2>1 DEF Sends
  <2>5. OthersStay(p)
    BY <2>1, <2>2 DEF OthersStay
  <2> QED
    BY <1>0, <1>1, <2>1, <2>2, <2>3, <2>4, <2>5 DEF Removes
<1> QED
  BY <1>0, <1>1 DEF Release

\* Page c has a player.
Creates(c) ==
    /\ c \in Windows /\ c \notin Existing
    /\ hub' \in HubsOf(Existing \cup {c}) /\ hub'.executor = hub.executor
    /\ hub'.next_request = hub.next_request /\ hub'.pending = hub.pending
    /\ \A q \in Existing : hub'.players[q] = hub.players[q]
    /\ LET new == hub'.players[c]
       IN /\ new.source = None /\ new.version = 0 /\ new.of = 0 /\ new.load = 0
          /\ new.status = "none" /\ new.runner
    /\ sending' = sending /\ router'.players[c] = c
    /\ thread[c] = Receiving /\ (\A s \in sending : s.by # c) /\ outbox[c] = <<>>
    /\ c \notin reborn' => \A e \in Executors :
          backend[e][c] = NoElement /\ \A i \in DOMAIN inbox[e] : inbox[e][i].player # c

LEMMA Creating == ASSUME Typed, NEW c \in Pages, Create(c) PROVE Creates(c)
<1> DEFINE new == [NewPlayer EXCEPT !.runner = TRUE]
           players == [p \in Existing \cup {c} |-> IF p = c THEN new ELSE hub.players[p]]
           h == [hub EXCEPT !.players = players]
<1>0. hub \in HubsOf(Existing) /\ c \in Windows /\ c \notin Existing /\ hub' = h
  BY DEF Typed, HubTyped, Create
<1>1. /\ new \in PlayerRecords /\ new.source = None /\ new.version = 0 /\ new.of = 0
      /\ new.load = 0 /\ new.status = "none" /\ new.runner
  <2>1. 0 \in 0 .. MaxVersion
    BY MediaAssumption
  <2>2. NewPlayer \in PlayerRecords
    BY <2>1 DEF NewPlayer, PlayerRecords
  <2>3. new \in PlayerRecords /\ new.runner
    BY <2>2 DEF PlayerRecords
  <2>4. /\ new.source = None /\ new.version = 0 /\ new.of = 0
        /\ new.load = 0 /\ new.status = "none"
    BY DEF NewPlayer
  <2> QED
    BY <2>3, <2>4
<1> HIDE DEF new
<1>2. players \in [Existing \cup {c} -> PlayerRecords]
  BY <1>0, <1>1 DEF HubsOf
<1>3. players[c] = new /\ \A q \in Existing : players[q] = hub.players[q]
  BY <1>0
<1> HIDE DEF players
<1>4. /\ h.players = players /\ h.executor = hub.executor /\ h.pending = hub.pending
      /\ h.next_request = hub.next_request /\ h \in HubsOf(Existing \cup {c})
  BY <1>0, <1>2 DEF HubsOf
<1> HIDE DEF h
<1>5. /\ sending' = sending /\ router' = [router EXCEPT !.players[c] = c]
      /\ thread[c] = Receiving /\ (\A s \in sending : s.by # c) /\ outbox[c] = <<>>
  BY DEF Create, Takes
<1>6. router'.players[c] = c
  BY <1>0, <1>5 DEF Typed, RouterTyped, PlayerIds
<1>7. c \notin reborn' => \A e \in Executors :
         backend[e][c] = NoElement /\ \A r \in Range(inbox[e]) : r.player # c
  BY DEF Create
<1>8. \A e \in Executors : \A i \in DOMAIN inbox[e] : inbox[e][i] \in Range(inbox[e])
  BY DEF Range
<1>9. c \notin reborn' => \A e \in Executors :
         backend[e][c] = NoElement /\ \A i \in DOMAIN inbox[e] : inbox[e][i].player # c
  BY <1>7, <1>8
<1> QED
  BY <1>0, <1>1, <1>3, <1>4, <1>5, <1>6, <1>9 DEF Creates

\* What pages ran is forgotten.
Forgets ==
    /\ sending = {}
    /\ hub' \in HubsOf(Existing) /\ hub'.executor = hub.executor
    /\ hub'.next_request = hub.next_request
    /\ hub'.pending \subseteq hub.pending
    /\ \A w \in hub.pending : w.player \in Existing /\ ~hub.players[w.player].runner =>
                                w \in hub'.pending
    /\ \A q \in Existing :
          LET new == hub'.players[q]
              old == hub.players[q]
          IN /\ ~new.runner
             /\ ~old.runner => new = old
             /\ old.runner =>
                   /\ new.source = None /\ new.version = old.version + 1 /\ new.of = 0
                   /\ new.load = 0 /\ new.request = old.request
                   /\ new.status = old.status /\ new.lost = old.lost

LEMMA Forgetting == ASSUME HubTyped, ForgetRunner PROVE Forgets
<1> DEFINE ran == {p \in Existing : hub.players[p].runner}
           Stopped(p) == [hub.players[p] EXCEPT !.runner = FALSE, !.source = None,
                                                !.version = @ + 1, !.of = 0, !.load = 0]
           stopped == [p \in Existing |-> IF p \in ran THEN Stopped(p) ELSE hub.players[p]]
           pending == {w \in hub.pending : w.player \notin ran}
           h == [hub EXCEPT !.players = stopped, !.pending = {w \in @ : w.player \notin ran}]
<1>0. /\ hub \in HubsOf(Existing) /\ sending = {} /\ hub' = h
      /\ \A p \in ran : hub.players[p].version < MaxVersion
  BY DEF HubTyped, ForgetRunner, SendFree
<1>1. \A p \in Existing : /\ hub.players[p] \in PlayerRecords
                          /\ hub.players[p].runner <=> p \in ran
  BY <1>0 DEF HubsOf
<1>2. ASSUME NEW p \in ran
      PROVE  /\ Stopped(p) \in PlayerRecords
             /\ ~Stopped(p).runner /\ Stopped(p).source = None
             /\ Stopped(p).version = hub.players[p].version + 1
             /\ Stopped(p).of = 0 /\ Stopped(p).load = 0
             /\ Stopped(p).request = hub.players[p].request
             /\ Stopped(p).status = hub.players[p].status
             /\ Stopped(p).lost = hub.players[p].lost
  <2>1. hub.players[p] \in PlayerRecords /\ hub.players[p].version + 1 \in 0 .. MaxVersion
    BY <1>0, <1>1, MediaAssumption DEF PlayerRecords
  <2> QED
    BY <2>1 DEF PlayerRecords
<1> HIDE DEF Stopped
<1>3. stopped \in [Existing -> PlayerRecords]
  BY <1>1, <1>2
<1>4. \A p \in Existing : stopped[p] = IF p \in ran THEN Stopped(p) ELSE hub.players[p]
  OBVIOUS
<1> HIDE DEF stopped
<1>5. /\ h.players = stopped /\ h.executor = hub.executor /\ h.next_request = hub.next_request
      /\ h.pending = pending /\ h \in HubsOf(Existing)
  BY <1>0, <1>3 DEF HubsOf
<1> HIDE DEF h
<1>6. \A w \in hub.pending : w.player \in Existing /\ ~hub.players[w.player].runner =>
                               w \in hub'.pending
  BY <1>0, <1>1, <1>5
<1>7. hub'.pending \subseteq hub.pending
  BY <1>0, <1>5
<1> HIDE DEF ran
<1> QED
  BY <1>0, <1>1, <1>2, <1>4, <1>5, <1>6, <1>7 DEF Forgets

\* The executor is given up.
Drops ==
    /\ sending = {}
    /\ hub' \in HubsOf(Existing) /\ hub'.executor = "none" /\ hub'.pending = {}
    /\ hub'.next_request = hub.next_request
    /\ \A q \in Existing :
          LET new == hub'.players[q]
              old == hub.players[q]
          IN /\ SamePlay(new, old) /\ new.of = old.of /\ new.request = old.request
             /\ new.status # "accepted"

LEMMA Dropping == ASSUME HubTyped, SendFree, hub' = Detached(hub) PROVE Drops
<1> DEFINE Failed(p) == [hub.players[p] EXCEPT !.status = IF @ = "accepted" THEN "answered" ELSE @,
                                               !.lost = FALSE]
           players == [p \in Existing |-> Failed(p)]
           h == [hub EXCEPT !.executor = "none", !.pending = {}, !.players = players]
<1>0. hub \in HubsOf(Existing) /\ sending = {} /\ hub' = h
  BY DEF HubTyped, SendFree, Detached, Existing
<1>1. ASSUME NEW p \in Existing
      PROVE  /\ Failed(p) \in PlayerRecords
             /\ SamePlay(Failed(p), hub.players[p]) /\ Failed(p).of = hub.players[p].of
             /\ Failed(p).request = hub.players[p].request
             /\ Failed(p).status # "accepted"
  <2>1. hub.players[p] \in PlayerRecords
    BY <1>0 DEF HubsOf
  <2> QED
    BY <2>1 DEF PlayerRecords, SamePlay
<1> HIDE DEF Failed
<1>2. players \in [Existing -> PlayerRecords] /\ \A p \in Existing : players[p] = Failed(p)
  BY <1>1
<1> HIDE DEF players
<1>3. /\ h.players = players /\ h.executor = "none" /\ h.next_request = hub.next_request
      /\ h.pending = {} /\ h \in HubsOf(Existing)
  BY <1>0, <1>2 DEF HubsOf
<1> HIDE DEF h
<1> QED
  BY <1>0, <1>1, <1>2, <1>3 DEF Drops

\* No one will answer these requests.
Unanswers(ids) ==
    /\ hub' \in HubsOf(Existing) /\ hub'.executor = hub.executor
    /\ hub'.next_request = hub.next_request /\ hub'.pending = hub.pending
    /\ \A q \in Existing :
          LET new == hub'.players[q]
              old == hub.players[q]
          IN /\ SamePlay(new, old) /\ new.of = old.of /\ new.request = old.request
             /\ new.status = old.status
             /\ old.request \in ids /\ old.status = "accepted" => new.lost
             /\ ~(old.request \in ids /\ old.status = "accepted") => new.lost = old.lost

LEMMA Unanswering ==
    ASSUME HubTyped, NEW ids, hub' = Unanswered(hub, ids)
    PROVE  Unanswers(ids)
<1> DEFINE Lost(p) == IF hub.players[p].request \in ids /\ hub.players[p].status = "accepted"
                      THEN [hub.players[p] EXCEPT !.lost = TRUE] ELSE hub.players[p]
           players == [p \in Existing |-> Lost(p)]
           h == [hub EXCEPT !.players = players]
<1>0. hub \in HubsOf(Existing) /\ hub' = h
  BY DEF HubTyped, Unanswered, Existing
<1>1. ASSUME NEW p \in Existing
      PROVE  LET new == Lost(p)
                 old == hub.players[p]
             IN /\ new \in PlayerRecords
                /\ SamePlay(new, old) /\ new.of = old.of /\ new.request = old.request
                /\ new.status = old.status
                /\ old.request \in ids /\ old.status = "accepted" => new.lost
                /\ ~(old.request \in ids /\ old.status = "accepted") => new.lost = old.lost
  <2>1. hub.players[p] \in PlayerRecords
    BY <1>0 DEF HubsOf
  <2> QED
    BY <2>1 DEF PlayerRecords, SamePlay
<1> HIDE DEF Lost
<1>2. players \in [Existing -> PlayerRecords] /\ \A p \in Existing : players[p] = Lost(p)
  BY <1>1
<1> HIDE DEF players
<1>3. /\ h.players = players /\ h.executor = hub.executor /\ h.next_request = hub.next_request
      /\ h.pending = hub.pending /\ h \in HubsOf(Existing)
  BY <1>0, <1>2 DEF HubsOf
<1> HIDE DEF h
<1> QED
  BY <1>0, <1>1, <1>2, <1>3 DEF Unanswers

\* The hub hears r, which answers a request or says what is loaded.
Hears(r) ==
    /\ hub' \in HubsOf(Existing) /\ hub'.executor = hub.executor
    /\ hub'.next_request = hub.next_request /\ hub'.pending \subseteq hub.pending
    /\ \A w \in hub.pending \ hub'.pending : r.type = "complete" /\ w.request = r.request
    /\ \A q \in Existing :
          LET new == hub'.players[q]
              old == hub.players[q]
          IN /\ SamePlay(new, old) /\ new.request = old.request /\ new.lost = old.lost
             /\ \/ new.of = old.of
                \/ /\ r.type = "observe" /\ r.player = q /\ r.version = old.version
                   /\ new.of = r.load
             /\ new.status \in {old.status, "answered"}
             /\ r.type = "complete" /\ r.request = old.request =>
                   ([request |-> old.request, player |-> q] \in hub.pending =>
                       new.status = "answered")

LEMMA Hearing == ASSUME HubTyped, NEW r \in Reports, hub' = Heard(hub, r) PROVE Hears(r)
<1>0. hub \in HubsOf(Existing) /\ \A q \in Existing : hub.players[q] \in PlayerRecords
  BY DEF HubTyped, HubsOf
<1>1. CASE r.type = "complete"
  <2> DEFINE known == {w \in hub.pending : w.request = r.request}
             shown == {w.player : w \in known}
             Shown(p) == IF p \in shown /\ hub.players[p].request = r.request
                         THEN [hub.players[p] EXCEPT !.status = "answered"]
                         ELSE hub.players[p]
             players == [p \in Existing |-> Shown(p)]
             h == [hub EXCEPT !.pending = @ \ known, !.players = players]
  <2>1. hub' = h
    BY <1>1 DEF Heard, Completed, Existing
  <2>2. ASSUME NEW p \in Existing
        PROVE  LET new == Shown(p)
                   old == hub.players[p]
               IN /\ new \in PlayerRecords /\ new.of = old.of
                  /\ SamePlay(new, old) /\ new.request = old.request /\ new.lost = old.lost
                  /\ new.status \in {old.status, "answered"}
                  /\ p \in shown /\ hub.players[p].request = r.request => new.status = "answered"
    BY <1>0 DEF PlayerRecords, SamePlay
  <2>3. \A p \in Existing :
           r.request = hub.players[p].request =>
              ([request |-> hub.players[p].request, player |-> p] \in hub.pending => p \in shown)
    <3> SUFFICES ASSUME NEW p \in Existing, r.request = hub.players[p].request,
                        [request |-> hub.players[p].request, player |-> p] \in hub.pending
                 PROVE  p \in shown
      OBVIOUS
    <3> DEFINE mine == [request |-> hub.players[p].request, player |-> p]
    <3>1. mine \in hub.pending /\ mine.request = r.request /\ mine.player = p
      OBVIOUS
    <3> HIDE DEF mine
    <3>2. mine \in known
      BY <3>1
    <3> QED
      BY <3>1, <3>2
  <2>4. known \subseteq hub.pending /\ \A w \in known : w.request = r.request
    OBVIOUS
  <2> HIDE DEF shown, known
  <2> HIDE DEF Shown
  <2>5. players \in [Existing -> PlayerRecords] /\ \A p \in Existing : players[p] = Shown(p)
    BY <2>2
  <2> HIDE DEF players
  <2>6. /\ h.players = players /\ h.executor = hub.executor /\ h.next_request = hub.next_request
        /\ h.pending = hub.pending \ known /\ h \in HubsOf(Existing)
    BY <1>0, <2>5 DEF HubsOf
  <2> HIDE DEF h
  <2> QED
    BY <1>1, <2>1, <2>2, <2>3, <2>4, <2>5, <2>6 DEF Hears
<1>2. CASE r.type # "complete"
  <2>1. /\ r.type = "observe" /\ r.player \in PlayerIds /\ r.load \in Nat
        /\ hub' = Observed(hub, r)
    BY <1>2 DEF Reports, Heard
  <2>2. CASE Current(r)
    <3> DEFINE p == r.player
               new == [hub.players[p] EXCEPT !.of = r.load]
               h == [hub EXCEPT !.players[p].of = r.load]
    <3>1. hub' = h /\ p \in Existing /\ hub.players[p].version = r.version
      BY <2>1, <2>2 DEF Observed, Current
    <3>2. /\ new \in PlayerRecords /\ SamePlay(new, hub.players[p]) /\ new.of = r.load
          /\ new.request = hub.players[p].request /\ new.lost = hub.players[p].lost
          /\ new.status = hub.players[p].status
      BY <1>0, <2>1, <3>1 DEF PlayerRecords, SamePlay
    <3>3. /\ h.executor = hub.executor /\ h.next_request = hub.next_request
          /\ h.pending = hub.pending /\ h.players = [hub.players EXCEPT ![p].of = r.load]
      BY <1>0 DEF HubsOf
    <3>4. h.players[p] = new /\ \A q \in Existing \ {p} : h.players[q] = hub.players[q]
      BY <1>0, <3>1, <3>3 DEF HubsOf
    <3> HIDE DEF new
    <3>5. h.players \in [Existing -> PlayerRecords]
      BY <1>0, <3>2, <3>3, <3>4 DEF HubsOf
    <3>6. h \in HubsOf(Existing)
      BY <1>0, <3>5 DEF HubsOf
    <3> HIDE DEF h
    <3>7. ASSUME NEW q \in Existing \ {p}
          PROVE  hub'.players[q] = hub.players[q] /\ SamePlay(hub'.players[q], hub.players[q])
      BY <3>1, <3>4 DEF SamePlay
    <3>8. hub'.players[p] = new /\ r.type # "complete"
      BY <2>1, <3>1, <3>4
    <3>9. /\ hub' \in HubsOf(Existing) /\ hub'.executor = hub.executor
          /\ hub'.next_request = hub.next_request /\ hub'.pending = hub.pending
      BY <3>1, <3>3, <3>6
    <3>10. ASSUME NEW q \in Existing
           PROVE  LET nq == hub'.players[q]
                      old == hub.players[q]
                  IN /\ SamePlay(nq, old) /\ nq.request = old.request /\ nq.lost = old.lost
                     /\ \/ nq.of = old.of
                        \/ q = p /\ r.version = old.version /\ nq.of = r.load
                     /\ nq.status = old.status
      <4>1. CASE q = p
        BY <3>1, <3>2, <3>8, <4>1
      <4>2. CASE q # p
        BY <3>7, <4>2
      <4> QED
        BY <4>1, <4>2
    <3> QED
      BY <2>1, <3>8, <3>9, <3>10 DEF Hears
  <2>3. CASE ~Current(r)
    <3>1. hub' = hub
      BY <2>1, <2>3 DEF Observed
    <3>2. \A q \in Existing : SamePlay(hub'.players[q], hub.players[q])
      BY <3>1 DEF SamePlay
    <3> QED
      BY <1>0, <2>1, <3>1, <3>2 DEF Hears
  <2> QED
    BY <2>2, <2>3
<1> QED
  BY <1>1, <1>2

-----------------------------------------------------------------------------
(* The types.                                                              *)

\* The players of a hub, before and after a step.
LEMMA PlayersOf ==
    ASSUME NEW D, hub' \in HubsOf(D)
    PROVE  /\ Existing' = D /\ hub' \in HubsOf(Existing')
           /\ hub'.next_request \in Nat /\ hub'.executor \in {"none", "device", "router"}
           /\ \A q \in D : hub'.players[q] \in PlayerRecords
BY DEF HubsOf, Existing

LEMMA PlayersAre ==
    ASSUME HubTyped
    PROVE  /\ hub.next_request \in Nat /\ hub.executor \in {"none", "device", "router"}
           /\ Existing \subseteq PlayerIds /\ Application \subseteq Existing
           /\ hub \in HubsOf(Existing)
           /\ \A q \in Existing : /\ hub.players[q] \in PlayerRecords
                                  /\ hub.players[q].version \in Nat
                                  /\ hub.players[q].request \in Nat
                                  /\ hub.players[q].load \in Nat
                                  /\ hub.players[q].of \in Nat
                                  /\ hub.players[q].runner \in BOOLEAN
                                  /\ hub.players[q].lost \in BOOLEAN
BY MediaAssumption DEF HubTyped, HubsOf, PlayerRecords

\* A call of the hub.
Calls ==
    \/ \E by, p, op : /\ Asks(by, p, op)
                      /\ hub'.players[p].runner =>
                            hub.players[p].runner \/ \E c \in Pages : IsAt(c, {"open"})
    \/ \E p : Notes(p)
    \/ \E by, e : Reloads(by, e)
    \/ \E p \in Windows : Removes(p, p)
    \/ \E c \in Pages : Creates(c)
    \/ Forgets /\ sending' = sending /\ \E c \in Pages : IsAt(c, {"forget"})
    \/ Drops /\ sending' = sending

\* A call keeps the types of the hub and of what is handed over.
LEMMA CallTypes ==
    ASSUME HubTyped, SendingTyped, Calls
    PROVE  HubTyped' /\ SendingTyped'
<1>0. /\ hub \in HubsOf(Existing) /\ Existing \subseteq PlayerIds /\ IsFiniteSet(Existing)
      /\ Application \subseteq Existing /\ hub.next_request \in Nat
      /\ \A w \in hub.pending : w.request \in 1 .. hub.next_request /\ w.player \in Existing
      /\ \A w \in hub.pending : w \in [request : Nat, player : PlayerIds]
  BY DEF HubTyped, HubsOf
<1>1. ASSUME NEW D, hub' \in HubsOf(D), Application \subseteq D, D \subseteq PlayerIds,
             IsFiniteSet(D),
             \A w \in hub'.pending : w.request \in 1 .. hub'.next_request /\ w.player \in D
      PROVE  HubTyped'
  <2>1. Existing' = D /\ hub' \in HubsOf(Existing')
    BY <1>1, PlayersOf
  <2> QED
    BY <1>1, <2>1 DEF HubTyped
<1>2. ASSUME NEW by \in Callers, NEW r, r \in Requests,
             \A t \in sending' : t = [by |-> by, requests |-> <<r>>]
      PROVE  SendingTyped'
  <2>1. <<r>> \in Seq(Requests) /\ <<r>> # <<>>
    BY <1>2
  <2>2. \A t \in sending' : /\ t \in [by : Pages \cup {"device", "caller"}, requests : Seq(Requests)]
                            /\ t.requests # <<>>
    <3> DEFINE l == <<r>>
    <3>1. \A t \in sending' : t = [by |-> by, requests |-> l]
      BY <1>2
    <3>2. l \in Seq(Requests) /\ l # <<>>
      BY <2>1
    <3> HIDE DEF l
    <3> QED
      BY <3>1, <3>2 DEF Callers
  <2> QED
    BY <1>2, <2>2 DEF SendingTyped
<1>3. ASSUME sending' = sending PROVE SendingTyped'
  BY <1>3 DEF SendingTyped
<1>4. ASSUME NEW by, NEW p, NEW op, Asks(by, p, op) PROVE HubTyped' /\ SendingTyped'
  <2> DEFINE r == [request |-> hub.next_request + 1, player |-> p,
                   version |-> hub'.players[p].version, op |-> op, to |-> RunnerOf(hub', p)]
  <2>1. /\ p \in Existing /\ hub' \in HubsOf(Existing) /\ by \in Callers
        /\ op \in {"load", "unload", "control"}
        /\ hub'.next_request = hub.next_request + 1 /\ RunnerOf(hub', p) # "none"
        /\ hub'.pending = hub.pending \cup {[request |-> hub.next_request + 1, player |-> p]}
        /\ sending' = {[by |-> by, requests |-> <<r>>]}
    BY <1>4 DEF Asks
  <2>2. RunnerOf(hub', p) \in {"device", "router"}
    BY <2>1, RunnerIs
  <2>3. hub'.players[p].version \in Nat
    BY <2>1, PlayersOf, MediaAssumption DEF PlayerRecords
  <2>4. r \in Requests
    BY <1>0, <2>1, <2>2, <2>3 DEF Requests
  <2> HIDE DEF r
  <2>5. SendingTyped'
    BY <1>2, <2>1, <2>4
  <2>6. HubTyped'
    BY <1>0, <1>1, <2>1
  <2> QED
    BY <2>5, <2>6
<1>5. ASSUME NEW p, Notes(p) PROVE HubTyped' /\ SendingTyped'
  <2>1. /\ hub' \in HubsOf(Existing) /\ hub'.next_request = hub.next_request
        /\ hub'.pending = hub.pending /\ sending = {} /\ sending' = {}
    BY <1>5 DEF Notes
  <2> QED
    BY <1>0, <1>1, <1>3, <2>1
<1>6. ASSUME NEW by, NEW e, Reloads(by, e) PROVE HubTyped' /\ SendingTyped'
  <2>1. /\ hub' \in HubsOf(Existing) /\ by \in Callers
        /\ hub.next_request <= hub'.next_request
        /\ hub'.pending = hub.pending \cup {[request |-> hub'.players[q].request, player |-> q] :
                                              q \in {q \in Existing : Unattended(q)}}
        /\ \A q \in Existing : Unattended(q) =>
              /\ hub'.players[q].request \in Nat /\ hub.next_request < hub'.players[q].request
              /\ hub'.players[q].request <= hub'.next_request
    BY <1>6 DEF Reloads
  <2>2. hub'.next_request \in Nat
    BY <2>1, PlayersOf
  <2>3. \A w \in hub'.pending : w.request \in 1 .. hub'.next_request /\ w.player \in Existing
    <3> SUFFICES ASSUME NEW w \in hub'.pending
                 PROVE  w.request \in 1 .. hub'.next_request /\ w.player \in Existing
      OBVIOUS
    <3>1. CASE w \in hub.pending
      BY <1>0, <2>1, <2>2, <3>1
    <3>2. CASE w \notin hub.pending
      <4>1. PICK q \in Existing : /\ Unattended(q)
                                  /\ w = [request |-> hub'.players[q].request, player |-> q]
        BY <2>1, <3>2
      <4> QED
        BY <1>0, <2>1, <2>2, <4>1
    <3> QED
      BY <3>1, <3>2
  <2>4. HubTyped'
    BY <1>0, <1>1, <2>1, <2>3
  <2>5. /\ \A t \in sending' : /\ t = [by |-> by, requests |-> t.requests]
                               /\ t.requests \in Seq(Requests) /\ t.requests # <<>>
        /\ \A s, t \in sending' : s = t
    BY <1>6 DEF Reloads
  <2>6. \A t \in sending' : t \in [by : Pages \cup {"device", "caller"}, requests : Seq(Requests)]
    BY <2>1, <2>5 DEF Callers
  <2> QED
    BY <2>4, <2>5, <2>6 DEF SendingTyped
<1>7. ASSUME NEW p \in Windows, Removes(p, p) PROVE HubTyped' /\ SendingTyped'
  <2> DEFINE r == [request |-> hub.next_request + 1, player |-> p, op |-> "release",
                   version |-> hub.players[p].version, to |-> RunnerOf(hub, p)]
  <2>1. /\ p \in Existing /\ hub' \in HubsOf(Existing \ {p}) /\ p \in Callers
        /\ hub'.next_request = hub.next_request + 1
        /\ hub'.pending = {w \in hub.pending : w.player # p}
        /\ \A t \in sending' : RunnerOf(hub, p) # "none" /\ t = [by |-> p, requests |-> <<r>>]
    BY <1>7 DEF Removes
  <2>2. SendingTyped'
    <3>1. CASE RunnerOf(hub, p) = "none"
      BY <2>1, <3>1 DEF SendingTyped
    <3>2. CASE RunnerOf(hub, p) # "none"
      <4>1. RunnerOf(hub, p) \in {"device", "router"}
        BY <1>0, <2>1, <3>2, RunnerIs
      <4>2. hub.players[p].version \in Nat
        BY <2>1, PlayersAre
      <4>3. r \in Requests
        BY <1>0, <2>1, <4>1, <4>2 DEF Requests
      <4> HIDE DEF r
      <4> QED
        BY <1>2, <2>1, <4>3
    <3> QED
      BY <3>1, <3>2
  <2>3. p \notin Application
    BY <1>7, MediaAssumption
  <2>4. IsFiniteSet(Existing \ {p})
    BY <1>0, FS_Subset
  <2>5. HubTyped'
    BY <1>0, <1>1, <2>1, <2>3, <2>4
  <2> QED
    BY <2>2, <2>5
<1>8. ASSUME NEW c \in Pages, Creates(c) PROVE HubTyped' /\ SendingTyped'
  <2>0. sending' = sending
    BY <1>8 DEF Creates
  <2>1. /\ c \in Windows /\ hub' \in HubsOf(Existing \cup {c})
        /\ hub'.next_request = hub.next_request /\ hub'.pending = hub.pending
    BY <1>8 DEF Creates
  <2>2. IsFiniteSet(Existing \cup {c})
    BY <1>0, FS_AddElement
  <2>3. HubTyped'
    BY <1>0, <1>1, <2>1, <2>2 DEF PlayerIds
  <2> QED
    BY <1>3, <1>8, <2>0, <2>3
<1>9. ASSUME Forgets \/ Drops, sending' = sending PROVE HubTyped' /\ SendingTyped'
  <2>1. /\ hub' \in HubsOf(Existing) /\ hub'.pending \subseteq hub.pending
        /\ hub'.next_request = hub.next_request
    BY <1>9 DEF Forgets, Drops
  <2>2. HubTyped'
    BY <1>0, <1>1, <2>1
  <2> QED
    BY <1>3, <1>9, <2>2
<1> QED
  BY <1>4, <1>5, <1>6, <1>7, <1>8, <1>9 DEF Calls

\* The thread s hands request r to e, or nobody gets it.
Hands(s, r, e) ==
    /\ sending = {s} /\ s.requests \in Seq(Requests) /\ s.requests # <<>>
    /\ r = s.requests[1] /\ r \in Requests
    /\ e = IF r.to = "device" THEN "device" ELSE Routed(r.player)
    /\ \A t \in sending' : /\ t = [by |-> s.by, requests |-> Tail(s.requests)]
                           /\ Tail(s.requests) # <<>>
    /\ Tail(s.requests) # <<>> => [by |-> s.by, requests |-> Tail(s.requests)] \in sending'
    /\ \/ /\ e \in Executors /\ (e \in Pages => Connected(e))
          /\ inbox' = [inbox EXCEPT ![e] = Append(inbox[e], r)] /\ hub' = hub
       \/ /\ e # "device" /\ (e \in Pages => ~Connected(e))
          /\ inbox' = inbox /\ Unanswers({r.request})
    /\ moved' = IF r.op = "load" THEN moved \ {r.player} ELSE moved
    /\ UNCHANGED <<router, thread, device, performing, backend, outbox, reborn, raced>>

LEMMA Handing ==
    ASSUME Typed, NEW s \in sending, Execute(s)
    PROVE  \E r, e : Hands(s, r, e)
<1> DEFINE r == Head(s.requests)
           e == IF r.to = "device" THEN "device" ELSE Routed(r.player)
           reached == e = "device" \/ e \in {c \in Pages : Connected(c)}
<1>1. /\ sending = {s} /\ s \in [by : Pages \cup {"device", "caller"}, requests : Seq(Requests)]
      /\ s.requests # <<>>
  BY DEF Typed, SendingTyped
<1>2. /\ s.requests \in Seq(Requests) /\ r \in Requests /\ r = s.requests[1]
      /\ Len(s.requests) # 1 => Tail(s.requests) # <<>>
      /\ Len(s.requests) = 1 => Tail(s.requests) = <<>>
      /\ [s EXCEPT !.requests = Tail(s.requests)] = [by |-> s.by, requests |-> Tail(s.requests)]
  <2>1. s.requests \in Seq(Requests)
    BY <1>1
  <2>2. r \in Requests /\ r = s.requests[1] /\ (Len(s.requests) # 1 => Tail(s.requests) # <<>>)
    BY <1>1, <2>1, Rest
  <2>3. ASSUME Len(s.requests) = 1 PROVE Tail(s.requests) = <<>>
    <3>1. Len(Tail(s.requests)) = 0 /\ Tail(s.requests) \in Seq(Requests)
      BY <1>1, <2>1, <2>3, HeadTailProperties
    <3> QED
      BY <3>1, EmptySeq
  <2>4. [s EXCEPT !.requests = Tail(s.requests)] = [by |-> s.by, requests |-> Tail(s.requests)]
    <3> DEFINE l == Tail(s.requests)
    <3> HIDE DEF l
    <3>1. [s EXCEPT !.requests = l] = [by |-> s.by, requests |-> l]
      BY <1>1
    <3> QED
      BY <3>1 DEF l
  <2> QED
    BY <2>1, <2>2, <2>3, <2>4
<1>3. /\ sending' = (sending \ {s}) \cup
                        (IF Len(s.requests) = 1 THEN {}
                         ELSE {[s EXCEPT !.requests = Tail(s.requests)]})
      /\ inbox' = IF reached THEN [inbox EXCEPT ![e] = Append(inbox[e], r)] ELSE inbox
      /\ hub' = IF reached THEN hub ELSE Unanswered(hub, {r.request})
      /\ moved' = IF r.op = "load" THEN moved \ {r.player} ELSE moved
      /\ UNCHANGED <<router, thread, device, performing, backend, outbox, reborn, raced>>
  BY DEF Execute
<1>4. ~reached => Unanswers({r.request})
  BY <1>3, Unanswering DEF Typed
<1>5. reached <=> e \in Executors /\ (e \in Pages => Connected(e))
  BY MediaAssumption DEF Executors
<1>6. e = IF r.to = "device" THEN "device" ELSE Routed(r.player)
  OBVIOUS
<1>7. /\ \A t \in sending' : /\ t = [by |-> s.by, requests |-> Tail(s.requests)]
                             /\ Tail(s.requests) # <<>>
      /\ Tail(s.requests) # <<>> => [by |-> s.by, requests |-> Tail(s.requests)] \in sending'
  BY <1>1, <1>2, <1>3
<1>8. \/ /\ e \in Executors /\ (e \in Pages => Connected(e))
         /\ inbox' = [inbox EXCEPT ![e] = Append(inbox[e], r)] /\ hub' = hub
      \/ /\ e # "device" /\ (e \in Pages => ~Connected(e))
         /\ inbox' = inbox /\ Unanswers({r.request})
  <2>1. CASE reached
    BY <1>3, <1>5, <2>1
  <2>2. CASE ~reached
    <3>1. e # "device" /\ (e \in Pages => ~Connected(e))
      BY <2>2
    <3> QED
      BY <1>3, <1>4, <2>2, <3>1
  <2> QED
    BY <2>1, <2>2
<1> HIDE DEF e, r, reached
<1>9. Hands(s, r, e)
  BY <1>1, <1>2, <1>3, <1>6, <1>7, <1>8 DEF Hands
<1> QED
  BY <1>9

\* Executor e says m: the device to the hub, a page to its thread.
Told(e, m) ==
    /\ m \in Reports
    /\ \/ e = "device" /\ Hears(m) /\ outbox' = outbox
       \/ e \in Pages /\ outbox' = [outbox EXCEPT ![e] = Append(outbox[e], m)] /\ hub' = hub

LEMMA Telling ==
    ASSUME Typed, NEW e \in Executors, NEW m \in Reports, Tells(e, m)
    PROVE  Told(e, m)
<1>1. CASE e = "device"
  BY <1>1, Hearing DEF Typed, Tells, Told
<1>2. CASE e # "device"
  BY <1>2 DEF Tells, Told, Executors
<1> QED
  BY <1>1, <1>2

\* Executor e performs request r.
Performs(e, r) ==
    /\ e \in Executors /\ inbox[e] # <<>> /\ r = inbox[e][1] /\ r \in Requests
    /\ inbox' = [inbox EXCEPT ![e] = Tail(inbox[e])]
    /\ \/ \E loaded \in [version : Nat, load : Nat] :
             /\ r.op # "control"
             /\ r.op = "load" => loaded.version = r.version /\ loaded.load = r.request
             /\ r.op # "load" => loaded.load = 0
             /\ backend' = [backend EXCEPT ![e][r.player] = loaded]
             /\ Told(e, Answer(r)) /\ performing' = performing
       \/ /\ r.op \in {"control", "release"} /\ Told(e, Answer(r))
          /\ UNCHANGED <<performing, backend>>
       \/ /\ r.op = "control"
          /\ performing' = [performing EXCEPT ![e] = @ \cup {r}]
          /\ UNCHANGED <<hub, backend, outbox>>
    /\ UNCHANGED <<sending, router, thread, device, histories>>

LEMMA Performing ==
    ASSUME Typed, NEW e \in Executors, Perform(e)
    PROVE  \E r : Performs(e, r)
<1> DEFINE r == Head(inbox[e])
           With(version, load) == [version |-> version, load |-> load]
<1>1. inbox[e] \in Seq(Requests) /\ inbox[e] # <<>>
  BY DEF Typed, ExecutorsTyped, Perform
<1>2. r \in Requests /\ r = inbox[e][1]
  BY <1>1, Rest
<1>3. /\ inbox' = [inbox EXCEPT ![e] = Tail(inbox[e])]
      /\ UNCHANGED <<sending, router, thread, device, histories>>
  BY DEF Perform
<1>4. /\ r.request \in Nat /\ r.version \in Nat
      /\ r.op \in {"load", "unload", "control", "release"}
  BY <1>2 DEF Requests
<1>5. Answer(r) \in Reports
  BY <1>4 DEF Answer, Reports
<1>6. \/ /\ r.op = "load" /\ backend' = [backend EXCEPT ![e][r.player] = With(r.version, r.request)]
         /\ Tells(e, Answer(r)) /\ UNCHANGED performing
      \/ /\ r.op = "unload" /\ backend' = [backend EXCEPT ![e][r.player] = With(r.version, 0)]
         /\ Tells(e, Answer(r)) /\ UNCHANGED performing
      \/ /\ r.op = "release" /\ backend' = [backend EXCEPT ![e][r.player] = With(0, 0)]
         /\ Tells(e, Answer(r)) /\ UNCHANGED performing
      \/ /\ r.op \in {"control", "release"}
         /\ Tells(e, Answer(r)) /\ UNCHANGED <<performing, backend>>
      \/ /\ r.op = "control" /\ performing' = [performing EXCEPT ![e] = @ \cup {r}]
         /\ UNCHANGED <<hub, backend, outbox>>
  BY DEF Perform
<1>7. \A version, load \in Nat : /\ With(version, load) \in [version : Nat, load : Nat]
                                 /\ With(version, load).version = version
                                 /\ With(version, load).load = load
  OBVIOUS
<1>8. Tells(e, Answer(r)) => Told(e, Answer(r))
  BY <1>5, Telling
<1> HIDE DEF r, With
<1>9. \/ \E loaded \in [version : Nat, load : Nat] :
            /\ r.op # "control"
            /\ r.op = "load" => loaded.version = r.version /\ loaded.load = r.request
            /\ r.op # "load" => loaded.load = 0
            /\ backend' = [backend EXCEPT ![e][r.player] = loaded]
            /\ Told(e, Answer(r)) /\ performing' = performing
      \/ /\ r.op \in {"control", "release"} /\ Told(e, Answer(r))
         /\ UNCHANGED <<performing, backend>>
      \/ /\ r.op = "control"
         /\ performing' = [performing EXCEPT ![e] = @ \cup {r}]
         /\ UNCHANGED <<hub, backend, outbox>>
  <2>1. CASE r.op = "load"
    BY <1>4, <1>6, <1>7, <1>8, <2>1
  <2>2. CASE r.op = "unload"
    BY <1>4, <1>6, <1>7, <1>8, <2>2
  <2>3. CASE r.op = "release"
    BY <1>4, <1>6, <1>7, <1>8, <2>3
  <2>4. CASE r.op = "control"
    BY <1>6, <1>8, <2>4
  <2> QED
    BY <1>4, <2>1, <2>2, <2>3, <2>4
<1>10. Performs(e, r)
  BY <1>1, <1>2, <1>3, <1>9 DEF Performs
<1> QED
  BY <1>10

\* Nothing of the executors changes.
ExecutorsStay == UNCHANGED executorVars

\* Where the page of a player can be.
Housed(c) == IsAt(c, {"receive", "open", "control", "release"})

\* What a call leaves alone.
Keeps ==
    /\ router'.executors = router.executors
    /\ \A q \in PlayerIds : ~(q \in Existing' /\ q \notin Existing) =>
                               router'.players[q] = router.players[q]
    /\ \A c \in Pages : (Listed(c)' <=> Listed(c)) /\ (Connected(c)' <=> Connected(c))
    /\ \A c \in Pages : Housed(c) /\ c \in Existing' => Housed(c)'
    /\ \A q \in Existing' : (q \in moved => q \in moved') /\ (q \in reborn => q \in reborn')
    /\ raced => raced'

\* A call of the hub, with who makes it left out.
CallStep == Calls /\ ExecutorsStay /\ Keeps

\* Page c claims player p.
Claiming(c, p) ==
    /\ thread[c] = Receiving /\ Claims(c, p)
    /\ \/ thread' = thread
       \/ \E to \in Steps : to[1] \in {"control", "open"} /\ thread' = [thread EXCEPT ![c] = to]
    /\ UNCHANGED <<reborn, raced>>

\* A step of the router, or of a thread alone.
QuietStep ==
    /\ UNCHANGED <<hub, sending>> /\ ExecutorsStay
    /\ \/ Keeps
       \/ \E c \in Pages : \/ Attach(c) \/ Detach(c) \/ Unclaim(c)
                           \/ \E p \in Application : Claiming(c, p)

\* Page c leaves.
Leaves(c) ==
    /\ c \in Pages /\ thread[c] = Receiving /\ thread' = [thread EXCEPT ![c] = <<"release">>]
    /\ \A s \in sending : s.by # c
    /\ \E ids : /\ Unanswers(ids)
                /\ \A r \in Handed(c) : r.request \in ids
    /\ inbox' = [inbox EXCEPT ![c] = <<>>]
    /\ performing' = [performing EXCEPT ![c] = {}]
    /\ backend' = [backend EXCEPT ![c] = [p \in PlayerIds |-> NoElement]]
    /\ outbox' = [outbox EXCEPT ![c] = <<>>]
    /\ UNCHANGED <<sending, router, device, moved, reborn, raced>>

\* Executor e answers what it performed, or says what it has loaded.
Says(e) ==
    /\ e \in Executors
    /\ \/ \E r \in performing[e] : /\ performing' = [performing EXCEPT ![e] = @ \ {r}]
                                   /\ Told(e, Answer(r))
       \/ /\ performing' = performing
          /\ \E p \in PlayerIds :
                /\ backend[e][p].load # 0
                /\ Told(e, [type |-> "observe", player |-> p, version |-> backend[e][p].version,
                            load |-> backend[e][p].load])
    /\ UNCHANGED <<sending, router, thread, device, inbox, backend, histories>>

\* The thread of page c passes on a report.
Passes(c) ==
    /\ c \in Pages /\ thread[c] = Receiving
    /\ outbox[c] # <<>> /\ outbox' = [outbox EXCEPT ![c] = Tail(outbox[c])]
    /\ outbox[c][1] \in Reports /\ Hears(outbox[c][1])
    /\ UNCHANGED <<sending, router, thread, device, inbox, performing, backend, histories>>

LEMMA Leaving == ASSUME Typed, NEW c \in Pages, LeavePage(c) PROVE Leaves(c)
<1> DEFINE ids == {r.request : r \in Range(inbox[c]) \cup performing[c] \cup Completes(c)}
<1>1. Unanswers(ids)
  BY Unanswering DEF Typed, LeavePage
<1>2. \A r \in Handed(c) : r.request \in ids
  BY MediaAssumption DEF Handed
<1> HIDE DEF ids
<1> QED
  BY <1>1, <1>2 DEF LeavePage, Leaves, Goes

LEMMA Settling ==
    ASSUME Typed, NEW e \in Executors, NEW r \in performing[e], Settle(e, r)
    PROVE  Says(e)
<1>1. r \in Requests
  BY DEF Typed, ExecutorsTyped
<1>2. Answer(r) \in Reports
  BY <1>1 DEF Requests, Answer, Reports
<1>3. Told(e, Answer(r))
  BY <1>2, Telling DEF Settle
<1> QED
  BY <1>3 DEF Settle, Says

LEMMA Reporting ==
    ASSUME Typed, NEW e \in Executors, NEW p \in PlayerIds, Report(e, p)
    PROVE  Says(e)
<1> DEFINE m == [type |-> "observe", player |-> p, version |-> backend[e][p].version,
                 load |-> backend[e][p].load]
<1>1. backend[e][p].version \in Nat /\ backend[e][p].load \in Nat
  BY DEF Typed, ExecutorsTyped
<1>2. m \in Reports
  BY <1>1 DEF Reports
<1>3. Told(e, m)
  BY <1>2, Telling DEF Report
<1> QED
  BY <1>3 DEF Report, Says

LEMMA Passing == ASSUME Typed, NEW c \in Pages, Hear(c) PROVE Passes(c)
<1>1. outbox[c] \in Seq(Reports) /\ outbox[c] # <<>>
  BY DEF Typed, ExecutorsTyped, Hear
<1>2. Head(outbox[c]) = outbox[c][1] /\ outbox[c][1] \in Reports
  BY <1>1, Rest
<1>3. Hears(outbox[c][1])
  BY <1>2, Hearing DEF Typed, Hear
<1> QED
  BY <1>1, <1>2, <1>3 DEF Hear, Passes

\* Where a thread can be.
LEMMA StepIs ==
    ASSUME NEW s \in Steps
    PROVE  /\ s[1] \in At \cup {"control", "open"}
           /\ s[1] = "control" => s[2] \in Application
           /\ s[1] = "open" => s[2] \in Application /\ s[3] \in Urls
BY DEF Steps, At

\* The steps that are made.
LEMMA StepsMade ==
    /\ \A at \in At : <<at>> \in Steps /\ <<at>>[1] = at
    /\ \A p \in Application : /\ <<"control", p>> \in Steps /\ <<"control", p>>[1] = "control"
                              /\ \A url \in Urls : /\ <<"open", p, url>> \in Steps
                                                   /\ <<"open", p, url>>[1] = "open"
BY DEF Steps

\* The steps of a thread that leave the router alone.
LEMMA Keeping ==
    ASSUME Typed, NEW c \in Pages, NEW to \in Steps, thread' = [thread EXCEPT ![c] = to],
           UNCHANGED router, raced => raced',
           \/ UNCHANGED <<moved, reborn>>
           \/ moved' = moved \ {c} /\ reborn' = reborn \ {c} /\ c \notin Existing',
           \/ /\ IsAt(c, {"check", "attach", "receive", "unclaim", "open", "control"})
              /\ to[1] \in {"check", "attach", "receive", "open", "control"}
           \/ IsAt(c, {"receive"}) /\ to[1] = "unclaim" /\ c \notin Existing'
           \/ IsAt(c, {"release"}) /\ to[1] = "detach" /\ c \notin Existing'
           \/ IsAt(c, {"forget", "compare", "drop"}) /\ to[1] \in {"compare", "drop", "gone"},
           IsAt(c, {"receive", "open", "control"}) =>
               to[1] \in {"receive", "open", "control", "unclaim"}
    PROVE  Keeps
<1>1. /\ thread \in [Pages -> Steps] /\ thread'[c] = to
      /\ \A d \in Pages \ {c} : thread'[d] = thread[d]
  BY DEF Typed, RouterTyped
<1>2. \A d \in Pages : (Listed(d)' <=> Listed(d)) /\ (Connected(d)' <=> Connected(d))
  BY <1>1 DEF Listed, IsAt, Connected
<1>3. \A d \in Pages : Housed(d) /\ d \in Existing' => Housed(d)'
  BY <1>1 DEF Housed, IsAt
<1> QED
  BY <1>2, <1>3 DEF Keeps

\* A command of page c is routed, or refused.
LEMMA Routing ==
    ASSUME Typed, NEW c \in Pages, RouteCommand(c)
    PROVE  \/ UNCHANGED <<hub, sending>> /\ ExecutorsStay
           \/ /\ \E p \in Application, op \in {"load", "control"} :
                    Asks(c, p, op) /\ (hub'.players[p].runner => hub.players[p].runner
                                                                 \/ IsAt(c, {"open"}))
              /\ ExecutorsStay
<1>1. thread[c] \in Steps /\ c \in Callers /\ HubTyped /\ ExecutorsStay
  BY DEF Typed, RouterTyped, Callers, RouteCommand, ExecutorsStay
<1>2. CASE thread[c][1] = "open" /\ Open(c, TRUE, thread[c][2], thread[c][3])
  <2>1. thread[c][2] \in Application /\ thread[c][3] \in Urls
    BY <1>1, <1>2, StepIs
  <2>2. Asks(c, thread[c][2], "load")
    BY <1>1, <1>2, <2>1, Opening
  <2> QED
    BY <1>1, <1>2, <2>1, <2>2 DEF IsAt
<1>3. CASE thread[c][1] = "control" /\ Control(c, thread[c][2])
  <2>1. thread[c][2] \in Application
    BY <1>1, <1>3, StepIs
  <2>2. /\ Asks(c, thread[c][2], "control")
        /\ hub'.players[thread[c][2]].runner = hub.players[thread[c][2]].runner
    BY <1>1, <1>3, <2>1, Controlling
  <2> QED
    BY <1>1, <1>3, <2>1, <2>2
<1>4. CASE Refused(thread[c][2])
  BY <1>1, <1>4 DEF Refused
<1> QED
  BY <1>2, <1>3, <1>4 DEF RouteCommand

\* Page c gives its player a source.
LEMMA BindingIt ==
    ASSUME Typed, NEW c \in Pages, BindSource(c)
    PROVE  /\ c \in Existing /\ ExecutorsStay
           /\ \/ /\ Asks(c, c, "load") \/ Asks(c, c, "unload")
                 /\ hub'.players[c].runner = hub.players[c].runner
                 /\ RunnerOf(hub, c) # "none"
              \/ Notes(c)
<1>1. c \in Existing /\ HubTyped /\ c \in Callers /\ ExecutorsStay
  BY DEF BindSource, Typed, Callers, ExecutorsStay
<1>2. PICK url \in Urls \cup {None} : Bind(c, c, url)
  BY DEF BindSource
<1> QED
  BY <1>1, <1>2, Binding

\* Another caller makes a request.
LEMMA Calling ==
    ASSUME Typed, Call
    PROVE  /\ ExecutorsStay
           /\ \E p \in PlayerIds, op \in {"load", "control"} :
                 /\ Asks("caller", p, op)
                 /\ hub'.players[p].runner => hub.players[p].runner
                 /\ op = "load" => hub.executor # "none"
                 /\ op = "control" => RunnerOf(hub, p) # "none"
<1>1. HubTyped /\ "caller" \in Callers /\ ExecutorsStay
  BY DEF Call, Typed, Callers, ExecutorsStay
<1>2. PICK p \in PlayerIds : \/ p \in Application /\ \E url \in Urls : Open("caller", FALSE, p, url)
                             \/ Control("caller", p)
  BY DEF Call
<1>3. CASE \E url \in Urls : Open("caller", FALSE, p, url)
  <2>1. PICK url \in Urls : Open("caller", FALSE, p, url)
    BY <1>3
  <2>2. /\ Asks("caller", p, "load") /\ hub'.players[p].runner = FALSE
        /\ hub.executor # "none"
    BY <1>1, <2>1, Opening
  <2> QED
    BY <1>1, <2>2
<1>4. CASE Control("caller", p)
  <2>1. /\ Asks("caller", p, "control") /\ RunnerOf(hub, p) # "none"
        /\ hub'.players[p].runner = hub.players[p].runner
    BY <1>1, <1>4, Controlling
  <2> QED
    BY <1>1, <2>1
<1> QED
  BY <1>2, <1>3, <1>4

\* The player of page c is released, if it has one.
LEMMA ReleasingIt ==
    ASSUME Typed, NEW c \in Pages, Release(c, c)
    PROVE  /\ sending = {}
           /\ c \in Existing => Removes(c, c) /\ c \in Windows
           /\ c \notin Existing => UNCHANGED <<hub, sending>>
<1>1. HubTyped /\ c \in Callers
  BY DEF Typed, Callers
<1>2. c \in Existing => c \in Windows
  BY <1>1, MediaAssumption DEF HubTyped, PlayerIds
<1> QED
  BY <1>1, <1>2, Releasing

\* The kinds of steps.
LEMMA Kinds ==
    ASSUME Typed, Next
    PROVE  \/ QuietStep
           \/ CallStep
           \/ \E c \in Pages : Leaves(c)
           \/ \E s, r, e : Hands(s, r, e)
           \/ \E e, r : Performs(e, r)
           \/ \E e : Says(e)
           \/ \E c \in Pages : Passes(c)
<1>0. /\ \A at \in At : <<at>> \in Steps /\ <<at>>[1] = at
      /\ \A p \in Application : /\ <<"control", p>> \in Steps /\ <<"control", p>>[1] = "control"
                                /\ \A url \in Urls : /\ <<"open", p, url>> \in Steps
                                                     /\ <<"open", p, url>>[1] = "open"
      /\ Receiving \in Steps /\ Receiving[1] = "receive"
  BY StepsMade DEF Receiving, At
<1>1. ASSUME NEW c \in Pages, Attach(c) \/ Detach(c) \/ Unclaim(c) PROVE QuietStep
  BY <1>1 DEF Attach, Unclaim, Detach, QuietStep, ExecutorsStay
<1>2. ASSUME NEW c \in Pages, NEW p \in Application, View(c, p) PROVE QuietStep
  BY <1>2 DEF View, Takes, QuietStep, ExecutorsStay, Claiming
<1>3. ASSUME NEW c \in Pages, Command(c) PROVE QuietStep
  <2>1. PICK p \in Application :
           /\ Claims(c, p)
           /\ \/ Goes(c, <<"control", p>>)
              \/ \E url \in Urls : Goes(c, <<"open", p, url>>)
    BY <1>3 DEF Command
  <2>2. \E to \in Steps : to[1] \in {"control", "open"} /\ thread' = [thread EXCEPT ![c] = to]
    BY <1>0, <2>1 DEF Goes
  <2>3. Claiming(c, p)
    BY <1>3, <2>1, <2>2 DEF Command, Takes, Claiming
  <2> QED
    BY <1>3, <2>3 DEF Command, QuietStep, ExecutorsStay
<1>4. ASSUME NEW c \in Pages, Check(c) \/ Compare(c) PROVE QuietStep
  <2>1. PICK to \in Steps : /\ thread' = [thread EXCEPT ![c] = to]
                            /\ \/ IsAt(c, {"check"}) /\ to[1] \in {"attach", "receive"}
                               \/ IsAt(c, {"compare"}) /\ to[1] \in {"drop", "gone"}
    BY <1>0, <1>4 DEF Check, Compare, Goes, At, IsAt
  <2>2. UNCHANGED <<router, raced, moved, reborn>>
    BY <1>4 DEF Check, Compare, histories
  <2>3. Keeps
    BY <2>1, <2>2, Keeping DEF IsAt
  <2> QED
    BY <1>4, <2>3 DEF Check, Compare, QuietStep, ExecutorsStay
<1>5. ASSUME NEW c \in Pages, AttachRouter(c) PROVE CallStep
  <2>1. Reloads(c, "router")
    BY <1>5, Attaching DEF Typed, Callers, AttachRouter
  <2>2. IsAt(c, {"attach"}) /\ thread' = [thread EXCEPT ![c] = Receiving]
    BY <1>5 DEF AttachRouter, Goes, IsAt
  <2>3. Keeps
    BY <1>0, <1>5, <2>2, Keeping DEF AttachRouter, IsAt, histories
  <2> QED
    BY <1>5, <2>1, <2>3 DEF Calls, AttachRouter, CallStep, ExecutorsStay
<1>6. ASSUME NEW c \in Pages, Create(c) PROVE CallStep
  <2>1. Creates(c)
    BY <1>6, Creating
  <2>2. /\ router' = [router EXCEPT !.players[c] = c] /\ UNCHANGED <<thread, moved, raced>>
        /\ reborn \subseteq reborn'
    BY <1>6 DEF Create
  <2>3. c \in Existing' /\ c \notin Existing
    BY <2>1, PlayersOf DEF Creates
  <2>4. /\ router'.executors = router.executors
        /\ \A q \in PlayerIds \ {c} : router'.players[q] = router.players[q]
    BY <2>2 DEF Typed, RouterTyped
  <2>5. Keeps
    BY <2>2, <2>3, <2>4 DEF Keeps, Listed, Connected, Housed, IsAt
  <2> QED
    BY <1>6, <2>1, <2>5 DEF Create, CallStep, Calls, ExecutorsStay
<1>7. ASSUME UNCHANGED <<router, thread, moved, reborn>>, raced => raced' PROVE Keeps
  BY <1>7 DEF Keeps, Listed, Connected, Housed, IsAt
<1>8. ASSUME NEW c \in Pages, BindSource(c) PROVE CallStep
  <2>1. Keeps
    BY <1>7, <1>8 DEF BindSource, histories
  <2> QED
    BY <1>8, <2>1, BindingIt DEF Calls, CallStep
<1>9. ASSUME NEW c \in Pages, ReleaseSource(c) PROVE CallStep
  <2>1. Removes(c, c) /\ c \in Windows
    BY <1>9, ReleasingIt DEF ReleaseSource
  <2>2. c \notin Existing'
    BY <2>1, PlayersOf DEF Removes
  <2>3. IsAt(c, {"receive"}) /\ thread' = [thread EXCEPT ![c] = <<"unclaim">>]
    BY <1>9 DEF ReleaseSource, Takes, Receiving, Goes, IsAt
  <2>4. Keeps
    BY <1>0, <1>9, <2>2, <2>3, Keeping DEF ReleaseSource, IsAt, At
  <2> QED
    BY <1>9, <2>1, <2>4 DEF Calls, ReleaseSource, CallStep, ExecutorsStay
<1>10. ASSUME NEW c \in Pages, RouteCommand(c) PROVE QuietStep \/ CallStep
  <2>1. IsAt(c, {"open", "control"}) /\ thread' = [thread EXCEPT ![c] = Receiving]
    BY <1>10 DEF RouteCommand, Goes, IsAt
  <2>2. Keeps
    BY <1>0, <1>10, <2>1, Keeping DEF RouteCommand, IsAt, histories
  <2> QED
    BY <1>10, <2>2, Routing DEF Calls, CallStep, QuietStep
<1>11. ASSUME NEW c \in Pages, ReleaseWindow(c) PROVE QuietStep \/ CallStep
  <2>1. IsAt(c, {"release"}) /\ thread' = [thread EXCEPT ![c] = <<"detach">>]
    BY <1>11 DEF ReleaseWindow, Goes, IsAt
  <2>2. c \notin Existing'
    <3>1. CASE c \in Existing
      <4>1. Removes(c, c)
        BY <1>11, <3>1, ReleasingIt DEF ReleaseWindow
      <4> QED
        BY <4>1, PlayersOf DEF Removes
    <3>2. CASE c \notin Existing
      BY <1>11, <3>2, ReleasingIt DEF ReleaseWindow, Existing
    <3> QED
      BY <3>1, <3>2
  <2>3. Keeps
    BY <1>0, <1>11, <2>1, <2>2, Keeping DEF ReleaseWindow, IsAt, At, histories
  <2> QED
    BY <1>11, <2>3, ReleasingIt DEF Calls, ReleaseWindow, CallStep, QuietStep, ExecutorsStay
<1>12. ASSUME NEW c \in Pages, Forget(c) \/ Drop(c) PROVE CallStep
  <2>1. PICK to \in Steps : /\ thread' = [thread EXCEPT ![c] = to]
                            /\ \/ IsAt(c, {"forget"}) /\ to[1] = "compare"
                               \/ IsAt(c, {"drop"}) /\ to[1] = "gone"
    BY <1>0, <1>12 DEF Forget, Drop, Goes, At, IsAt
  <2>0. UNCHANGED <<router, raced, moved, reborn>>
    BY <1>12 DEF Forget, Drop, histories
  <2>2. Keeps
    BY <2>0, <2>1, Keeping DEF IsAt
  <2>3. CASE Forget(c)
    <3>1. Forgets /\ IsAt(c, {"forget"}) /\ sending' = sending /\ ExecutorsStay
      BY <2>3, Forgetting DEF Typed, Forget, IsAt, ExecutorsStay
    <3> QED
      BY <2>2, <3>1 DEF Calls, CallStep
  <2>4. CASE Drop(c)
    <3>1. Drops /\ sending' = sending /\ ExecutorsStay
      BY <2>4, Dropping DEF Typed, Drop, ExecutorsStay
    <3> QED
      BY <2>2, <3>1 DEF Calls, CallStep
  <2> QED
    BY <1>12, <2>3, <2>4
<1>13. ASSUME AttachDevice PROVE CallStep
  <2>1. Reloads("device", "device")
    BY <1>13, Attaching DEF Typed, Callers, AttachDevice
  <2>2. Keeps
    BY <1>7, <1>13 DEF AttachDevice
  <2> QED
    BY <1>13, <2>1, <2>2 DEF Calls, AttachDevice, CallStep, ExecutorsStay
<1>14. ASSUME Call PROVE CallStep
  <2>1. Keeps
    BY <1>7, <1>14 DEF Call, histories
  <2> QED
    BY <1>14, <2>1, Calling DEF Calls, CallStep
<1>15. ASSUME NEW c \in Pages, Connection(c)
       PROVE  QuietStep \/ CallStep \/ Leaves(c)
  BY <1>1, <1>2, <1>3, <1>4, <1>5, <1>6, <1>8, <1>9, <1>10, <1>11, <1>12, <1>15, Leaving
     DEF Connection
<1> QED
  BY <1>13, <1>14, <1>15, Handing, Performing, Settling, Reporting, Passing DEF Next

\* The hub and what is handed over keep their types.
LEMMA HubStaysTyped ==
    ASSUME Typed, Next
    PROVE  HubTyped' /\ SendingTyped'
<1>0. /\ HubTyped /\ SendingTyped /\ hub \in HubsOf(Existing)
      /\ Existing \subseteq PlayerIds /\ IsFiniteSet(Existing) /\ Application \subseteq Existing
      /\ \A w \in hub.pending : w.request \in 1 .. hub.next_request /\ w.player \in Existing
  BY DEF Typed, HubTyped
<1>1. ASSUME hub' = hub PROVE HubTyped'
  BY <1>0, <1>1 DEF HubTyped, Existing
<1>2. ASSUME sending' = sending PROVE SendingTyped'
  BY <1>0, <1>2 DEF SendingTyped
<1>3. ASSUME hub' \in HubsOf(Existing), hub'.pending \subseteq hub.pending,
             hub'.next_request = hub.next_request
      PROVE  HubTyped'
  <2>1. Existing' = Existing
    BY <1>3, PlayersOf
  <2> QED
    BY <1>0, <1>3, <2>1 DEF HubTyped
<1>4. CASE QuietStep
  BY <1>1, <1>2, <1>4 DEF QuietStep
<1>5. CASE CallStep
  BY <1>0, <1>5, CallTypes DEF CallStep
<1>6. CASE \E c \in Pages : Leaves(c)
  BY <1>2, <1>3, <1>6 DEF Leaves, Unanswers
<1>7. ASSUME NEW s, NEW r, NEW e, Hands(s, r, e) PROVE HubTyped' /\ SendingTyped'
  <2>1. s \in [by : Pages \cup {"device", "caller"}, requests : Seq(Requests)]
    BY <1>0, <1>7 DEF Hands, SendingTyped
  <2>2. Tail(s.requests) \in Seq(Requests)
    BY <1>7, Rest DEF Hands
  <2> DEFINE l == Tail(s.requests)
  <2>3. \A t \in sending' : t = [by |-> s.by, requests |-> l] /\ l # <<>>
    BY <1>7 DEF Hands
  <2>4. l \in Seq(Requests)
    BY <2>2
  <2> HIDE DEF l
  <2>5. s.by \in Pages \cup {"device", "caller"}
    BY <2>1
  <2>6. SendingTyped'
    BY <2>3, <2>4, <2>5 DEF SendingTyped
  <2>7. HubTyped'
    BY <1>1, <1>3, <1>7 DEF Hands, Unanswers
  <2> QED
    BY <2>6, <2>7
<1>8. ASSUME NEW e, NEW m, Told(e, m) PROVE HubTyped'
  BY <1>1, <1>3, <1>8 DEF Told, Hears
<1>9. ASSUME NEW e, NEW r, Performs(e, r) PROVE HubTyped' /\ SendingTyped'
  BY <1>1, <1>2, <1>8, <1>9 DEF Performs
<1>10. ASSUME NEW e, Says(e) PROVE HubTyped' /\ SendingTyped'
  BY <1>2, <1>8, <1>10 DEF Says
<1>11. CASE \E c \in Pages : Passes(c)
  BY <1>2, <1>3, <1>11 DEF Passes, Hears
<1> QED
  BY <1>4, <1>5, <1>6, <1>7, <1>9, <1>10, <1>11, Kinds

\* So do the executors.
LEMMA ExecutorsStayTyped ==
    ASSUME Typed, Next
    PROVE  ExecutorsTyped'
<1>0. /\ inbox \in [Executors -> Seq(Requests)]
      /\ performing \in [Executors -> SUBSET Requests]
      /\ backend \in [Executors -> [PlayerIds -> [version : Nat, load : Nat]]]
      /\ outbox \in [Pages -> Seq(Reports)]
  BY DEF Typed, ExecutorsTyped
<1>1. Pages \subseteq Executors
  BY DEF Executors
<1>2. ASSUME NEW e, NEW m, Told(e, m) PROVE outbox' \in [Pages -> Seq(Reports)]
  <2>1. CASE outbox' = outbox
    BY <1>0, <2>1
  <2>2. CASE e \in Pages /\ outbox' = [outbox EXCEPT ![e] = Append(outbox[e], m)]
    <3>1. Append(outbox[e], m) \in Seq(Reports)
      BY <1>0, <1>2, <2>2, More DEF Told
    <3> QED
      BY <1>0, <2>2, <3>1
  <2> QED
    BY <1>2, <2>1, <2>2 DEF Told
<1>3. CASE ExecutorsStay
  BY <1>0, <1>3 DEF ExecutorsStay, executorVars, ExecutorsTyped
<1>4. ASSUME NEW c \in Pages, Leaves(c) PROVE ExecutorsTyped'
  <2>1. /\ <<>> \in Seq(Requests) /\ <<>> \in Seq(Reports)
        /\ [p \in PlayerIds |-> NoElement] \in [PlayerIds -> [version : Nat, load : Nat]]
    BY DEF NoElement
  <2> QED
    BY <1>0, <1>1, <1>4, <2>1 DEF Leaves, ExecutorsTyped
<1>5. ASSUME NEW s, NEW r, NEW e, Hands(s, r, e) PROVE ExecutorsTyped'
  <2>1. CASE inbox' = inbox
    BY <1>0, <1>5, <2>1 DEF Hands, ExecutorsTyped
  <2>2. CASE e \in Executors /\ inbox' = [inbox EXCEPT ![e] = Append(inbox[e], r)]
    <3>1. Append(inbox[e], r) \in Seq(Requests)
      BY <1>0, <1>5, <2>2, More DEF Hands
    <3>2. inbox' \in [Executors -> Seq(Requests)]
      BY <1>0, <2>2, <3>1
    <3> QED
      BY <1>0, <1>5, <3>2 DEF Hands, ExecutorsTyped
  <2> QED
    BY <1>5, <2>1, <2>2 DEF Hands
<1>6. ASSUME NEW e, NEW r, Performs(e, r) PROVE ExecutorsTyped'
  <2>1. e \in Executors /\ inbox[e] # <<>> /\ inbox' = [inbox EXCEPT ![e] = Tail(inbox[e])]
        /\ r \in Requests
    BY <1>6 DEF Performs
  <2>2. Tail(inbox[e]) \in Seq(Requests)
    BY <1>0, <2>1, Rest
  <2>3. inbox' \in [Executors -> Seq(Requests)]
    BY <1>0, <2>1, <2>2
  <2>4. outbox' \in [Pages -> Seq(Reports)]
    BY <1>0, <1>2, <1>6 DEF Performs
  <2>5. performing' \in [Executors -> SUBSET Requests]
    <3>1. CASE performing' = performing
      BY <1>0, <3>1
    <3>2. CASE performing' = [performing EXCEPT ![e] = @ \cup {r}]
      <4>1. performing[e] \cup {r} \in SUBSET Requests
        BY <1>0, <2>1
      <4> QED
        BY <1>0, <2>1, <3>2, <4>1
    <3> QED
      BY <1>6, <3>1, <3>2 DEF Performs
  <2>6. backend' \in [Executors -> [PlayerIds -> [version : Nat, load : Nat]]]
    <3>1. CASE backend' = backend
      BY <1>0, <3>1
    <3>2. ASSUME NEW loaded \in [version : Nat, load : Nat],
                 backend' = [backend EXCEPT ![e][r.player] = loaded]
          PROVE  backend' \in [Executors -> [PlayerIds -> [version : Nat, load : Nat]]]
      <4>1. r.player \in PlayerIds
        BY <2>1 DEF Requests
      <4>2. [backend[e] EXCEPT ![r.player] = loaded] \in [PlayerIds -> [version : Nat, load : Nat]]
        BY <1>0, <2>1, <4>1
      <4> QED
        BY <1>0, <2>1, <3>2, <4>2
    <3> QED
      BY <1>6, <3>1, <3>2 DEF Performs
  <2> QED
    BY <2>3, <2>4, <2>5, <2>6 DEF ExecutorsTyped
<1>7. ASSUME NEW e, Says(e) PROVE ExecutorsTyped'
  <2>1. outbox' \in [Pages -> Seq(Reports)]
    BY <1>2, <1>7 DEF Says
  <2>2. performing' \in [Executors -> SUBSET Requests]
    BY <1>0, <1>7 DEF Says
  <2> QED
    BY <1>0, <1>7, <2>1, <2>2 DEF Says, ExecutorsTyped
<1>8. ASSUME NEW c \in Pages, Passes(c) PROVE ExecutorsTyped'
  <2>1. Tail(outbox[c]) \in Seq(Reports)
    BY <1>0, <1>8, Rest DEF Passes
  <2> QED
    BY <1>0, <1>8, <2>1 DEF Passes, ExecutorsTyped
<1> QED
  BY <1>3, <1>4, <1>5, <1>6, <1>7, <1>8, Kinds DEF QuietStep, CallStep

\* So do the router and the threads.
LEMMA RouterStaysTyped ==
    ASSUME Typed, Members, Next
    PROVE  RouterTyped'
<1>0. /\ router.executors \in Seq(Pages) /\ router.players \in [PlayerIds -> Pages \cup {None}]
      /\ router \in [executors : Seq(Pages), players : [PlayerIds -> Pages \cup {None}]]
      /\ thread \in [Pages -> Steps] /\ device \in BOOLEAN /\ raced \in BOOLEAN
  BY DEF Typed, RouterTyped
<1>1. ASSUME NEW c \in Pages, NEW to \in Steps, thread' = [thread EXCEPT ![c] = to]
      PROVE  thread' \in [Pages -> Steps]
  BY <1>0, <1>1
<1>2. /\ \A at \in At : <<at>> \in Steps
      /\ \A p \in Application : /\ <<"control", p>> \in Steps
                                /\ \A url \in Urls : <<"open", p, url>> \in Steps
      /\ Receiving \in Steps
  BY StepsMade DEF Receiving, At
<1>3. ASSUME NEW c \in Pages, NEW p \in PlayerIds,
             \/ router' = [router EXCEPT !.players[p] = c]
             \/ router' = [router EXCEPT !.players[p] = None]
      PROVE  router' \in [executors : Seq(Pages), players : [PlayerIds -> Pages \cup {None}]]
  BY <1>0, <1>3
<1>4. ASSUME NEW c \in Pages, Attach(c) PROVE RouterTyped'
  <2>1. /\ thread' = [thread EXCEPT ![c] = IF router.executors = <<>> THEN <<"check">> ELSE Receiving]
        /\ router' = [router EXCEPT !.executors = Append(router.executors, c)]
        /\ raced' = (raced \/ GivingUp # {}) /\ device' = device
    BY <1>4 DEF Attach, Goes
  <2>2. thread' \in [Pages -> Steps]
    BY <1>1, <1>2, <2>1 DEF At
  <2>3. Append(router.executors, c) \in Seq(Pages)
    BY <1>0, More
  <2> QED
    BY <1>0, <2>1, <2>2, <2>3 DEF RouterTyped
<1>5. ASSUME NEW c \in Pages, Check(c) \/ Compare(c) \/ Drop(c) \/ Forget(c) \/ AttachRouter(c)
      PROVE  RouterTyped'
  <2>1. \E to \in Steps : thread' = [thread EXCEPT ![c] = to]
    BY <1>2, <1>5 DEF Check, Compare, Drop, Forget, AttachRouter, Goes, At
  <2>2. UNCHANGED <<router, device, raced>>
    BY <1>5 DEF Check, Compare, Drop, Forget, AttachRouter, histories
  <2> QED
    BY <1>0, <1>1, <2>1, <2>2 DEF RouterTyped
<1>6. ASSUME NEW c \in Pages, Create(c) PROVE RouterTyped'
  <2>1. c \in PlayerIds
    BY <1>6 DEF Create, PlayerIds
  <2>2. router' = [router EXCEPT !.players[c] = c] /\ UNCHANGED <<thread, device, raced>>
    BY <1>6 DEF Create
  <2> QED
    BY <1>0, <1>3, <2>1, <2>2 DEF RouterTyped
<1>7. ASSUME NEW c \in Pages, BindSource(c) PROVE RouterTyped'
  BY <1>0, <1>7 DEF BindSource, RouterTyped, histories
<1>8. ASSUME NEW c \in Pages, ReleaseSource(c) \/ ReleaseWindow(c) \/ RouteCommand(c)
      PROVE  RouterTyped'
  <2>1. \E to \in Steps : thread' = [thread EXCEPT ![c] = to]
    BY <1>2, <1>8 DEF ReleaseSource, ReleaseWindow, RouteCommand, Goes, At
  <2>2. UNCHANGED <<router, device, raced>>
    BY <1>8 DEF ReleaseSource, ReleaseWindow, RouteCommand, histories
  <2> QED
    BY <1>0, <1>1, <2>1, <2>2 DEF RouterTyped
<1>9. ASSUME NEW c \in Pages, Unclaim(c) PROVE RouterTyped'
  <2>1. /\ router' = [router EXCEPT !.players[c] = None] /\ thread' = [thread EXCEPT ![c] = Receiving]
        /\ UNCHANGED <<device, raced>>
    BY <1>9 DEF Unclaim, Goes, histories
  <2>2. router' \in [executors : Seq(Pages), players : [PlayerIds -> Pages \cup {None}]]
    BY <1>0, <2>1
  <2> QED
    BY <1>0, <1>1, <1>2, <2>1, <2>2 DEF RouterTyped
<1>10. ASSUME NEW c \in Pages, NEW p \in Application, View(c, p) PROVE RouterTyped'
  BY <1>0, <1>3, <1>10 DEF View, Claims, RouterTyped, PlayerIds
<1>11. ASSUME NEW c \in Pages, Command(c) PROVE RouterTyped'
  <2>1. PICK p \in Application :
          /\ Claims(c, p)
          /\ \/ Goes(c, <<"control", p>>)
             \/ \E url \in Urls : Goes(c, <<"open", p, url>>)
    BY <1>11 DEF Command
  <2>2. \E to \in Steps : thread' = [thread EXCEPT ![c] = to]
    BY <1>2, <2>1 DEF Goes
  <2>3. router' = [router EXCEPT !.players[p] = c] /\ p \in PlayerIds
    BY <2>1 DEF Claims, PlayerIds
  <2> QED
    BY <1>0, <1>1, <1>3, <1>11, <2>2, <2>3 DEF RouterTyped, Command
<1>12. ASSUME NEW c \in Pages, Leaves(c) PROVE RouterTyped'
  BY <1>0, <1>1, <1>2, <1>12 DEF Leaves, RouterTyped, At
<1>13. ASSUME NEW c \in Pages, Detach(c), c \in Range(router.executors) PROVE RouterTyped'
  <2> DEFINE at == CHOOSE i \in DOMAIN router.executors : router.executors[i] = c
             left == RemoveAt(router.executors, at)
             players == [p \in PlayerIds |-> IF router.players[p] = c THEN None ELSE router.players[p]]
  <2>1. at \in DOMAIN router.executors
    BY <1>13 DEF Range
  <2> HIDE DEF at
  <2>2. left \in Seq(Pages)
    BY <1>0, <2>1, Without
  <2>3. players \in [PlayerIds -> Pages \cup {None}]
    BY <1>0
  <2>4. /\ router' = [executors |-> left, players |-> players]
        /\ thread' = [thread EXCEPT ![c] = IF left = <<>> THEN <<"forget">> ELSE <<"gone">>]
        /\ UNCHANGED <<device, raced>>
    BY <1>13 DEF Detach, Goes, at
  <2> HIDE DEF left, players
  <2>5. thread' \in [Pages -> Steps]
    BY <1>1, <1>2, <2>4 DEF At
  <2> QED
    BY <1>0, <2>2, <2>3, <2>4, <2>5 DEF RouterTyped
<1>14. ASSUME NEW c \in Pages, Detach(c) PROVE c \in Range(router.executors)
  <2>1. thread[c] = <<"detach">>
    BY <1>14 DEF Detach
  <2>2. Listed(c)
    BY <2>1 DEF Listed, IsAt
  <2> QED
    BY <2>2 DEF Members
<1>15. CASE AttachDevice
  BY <1>0, <1>15 DEF AttachDevice, RouterTyped
<1>16. CASE UNCHANGED <<router, thread, device, raced>>
  BY <1>0, <1>16 DEF RouterTyped
<1>17. ASSUME NEW c \in Pages, Connection(c) PROVE RouterTyped'
  BY <1>4, <1>5, <1>6, <1>7, <1>8, <1>9, <1>10, <1>11, <1>12, <1>13, <1>14, <1>17, Leaving
     DEF Connection
<1>18. ASSUME NEW c \in Pages, Hear(c) PROVE UNCHANGED <<router, thread, device, raced>>
  BY <1>18 DEF Hear, histories
<1>19. ASSUME NEW e \in Executors,
              \/ Perform(e)
              \/ \E r \in performing[e] : Settle(e, r)
              \/ \E p \in PlayerIds : Report(e, p)
       PROVE  UNCHANGED <<router, thread, device, raced>>
  BY <1>19 DEF Perform, Settle, Report, histories
<1>20. ASSUME NEW s \in sending, Execute(s) PROVE UNCHANGED <<router, thread, device, raced>>
  BY <1>20 DEF Execute
<1>21. ASSUME Call PROVE UNCHANGED <<router, thread, device, raced>>
  BY <1>21 DEF Call, histories
<1> QED
  BY <1>15, <1>16, <1>17, <1>18, <1>19, <1>20, <1>21 DEF Next

-----------------------------------------------------------------------------
(* The router and who runs the players.                                    *)

\* Where a connection can be between its arrival and its end.
Ordinary == {"receive", "unclaim", "open", "control", "release", "detach"}

\* A step that has no part in who runs the players.
Elsewhere ==
    /\ router'.executors = router.executors /\ UNCHANGED <<device, raced>>
    /\ hub'.executor = hub.executor
    /\ \A c \in Pages : thread'[c] # thread[c] =>
                           thread[c][1] \in Ordinary /\ thread'[c][1] \in Ordinary

LEMMA Roles ==
    ASSUME Typed, Next
    PROVE  \/ \E c \in Pages : \/ Attach(c) \/ Check(c) \/ AttachRouter(c) \/ Detach(c)
                               \/ Forget(c) \/ Compare(c) \/ Drop(c)
           \/ AttachDevice
           \/ Elsewhere
<1>0. /\ thread \in [Pages -> Steps]
      /\ router \in [executors : Seq(Pages), players : [PlayerIds -> Pages \cup {None}]]
  BY DEF Typed, RouterTyped
<1>1. /\ \A at \in At : <<at>>[1] = at
      /\ \A p \in Application : /\ <<"control", p>>[1] = "control"
                                /\ \A url \in Urls : <<"open", p, url>>[1] = "open"
      /\ Receiving[1] = "receive"
  BY DEF Receiving
<1>2. ASSUME NEW c \in Pages, NEW to, thread' = [thread EXCEPT ![c] = to],
             thread[c][1] \in Ordinary, to[1] \in Ordinary
      PROVE  \A d \in Pages : thread'[d] # thread[d] =>
                                  thread[d][1] \in Ordinary /\ thread'[d][1] \in Ordinary
  BY <1>0, <1>2
<1>3. ASSUME NEW c \in Pages, Create(c) PROVE Elsewhere
  <2>1. Creates(c)
    BY <1>3, Creating
  <2>2. router'.executors = router.executors /\ UNCHANGED <<thread, device, raced>>
    BY <1>0, <1>3 DEF Create
  <2> QED
    BY <2>1, <2>2 DEF Creates, Elsewhere
<1>4. ASSUME NEW c \in Pages, BindSource(c) PROVE Elsewhere
  <2>1. hub'.executor = hub.executor
    BY <1>4, BindingIt DEF Asks, Notes
  <2> QED
    BY <1>4, <2>1 DEF BindSource, Elsewhere, histories
<1>5. ASSUME NEW c \in Pages, ReleaseSource(c) PROVE Elsewhere
  <2>1. Removes(c, c)
    BY <1>5, ReleasingIt DEF ReleaseSource
  <2>2. thread[c][1] \in Ordinary /\ thread' = [thread EXCEPT ![c] = <<"unclaim">>]
    BY <1>1, <1>5 DEF ReleaseSource, Takes, Goes, Ordinary
  <2>3. <<"unclaim">>[1] \in Ordinary
    BY DEF Ordinary
  <2>4. UNCHANGED <<router, device, raced>>
    BY <1>5 DEF ReleaseSource
  <2> QED
    BY <1>2, <2>1, <2>2, <2>3, <2>4 DEF Removes, Elsewhere
<1>6. ASSUME NEW c \in Pages, Unclaim(c) PROVE Elsewhere
  <2>1. /\ thread[c][1] \in Ordinary /\ thread' = [thread EXCEPT ![c] = Receiving]
        /\ Receiving[1] \in Ordinary
    BY <1>1, <1>6 DEF Unclaim, Goes, Ordinary
  <2>2. router'.executors = router.executors /\ UNCHANGED <<hub, device, raced>>
    BY <1>0, <1>6 DEF Unclaim, histories
  <2> QED
    BY <1>2, <2>1, <2>2 DEF Elsewhere
<1>7. ASSUME NEW c \in Pages, NEW p \in Application, View(c, p) PROVE Elsewhere
  BY <1>0, <1>7 DEF View, Claims, Elsewhere
<1>8. ASSUME NEW c \in Pages, Command(c) PROVE Elsewhere
  <2>1. PICK p \in Application : /\ Claims(c, p)
                                 /\ \/ Goes(c, <<"control", p>>)
                                    \/ \E url \in Urls : Goes(c, <<"open", p, url>>)
    BY <1>8 DEF Command
  <2>2. thread[c][1] \in Ordinary
    BY <1>1, <1>8 DEF Command, Takes, Ordinary
  <2>3. PICK to : thread' = [thread EXCEPT ![c] = to] /\ to[1] \in Ordinary
    BY <1>1, <2>1 DEF Goes, Ordinary
  <2>4. router'.executors = router.executors /\ UNCHANGED <<hub, device, raced>>
    BY <1>0, <1>8, <2>1 DEF Command, Claims
  <2> QED
    BY <1>2, <2>2, <2>3, <2>4 DEF Elsewhere
<1>9. ASSUME NEW c \in Pages, RouteCommand(c) PROVE Elsewhere
  <2>1. /\ thread[c][1] \in Ordinary /\ thread' = [thread EXCEPT ![c] = Receiving]
        /\ Receiving[1] \in Ordinary /\ UNCHANGED <<router, device, raced>>
    BY <1>1, <1>9 DEF RouteCommand, Goes, Ordinary, histories
  <2>2. hub'.executor = hub.executor
    BY <1>9, Routing DEF Asks
  <2> QED
    BY <1>2, <2>1, <2>2 DEF Elsewhere
<1>10. ASSUME NEW c \in Pages, Leaves(c) PROVE Elsewhere
  <2>1. thread[c][1] \in Ordinary /\ <<"release">>[1] \in Ordinary
    BY <1>1, <1>10 DEF Leaves, Ordinary
  <2> QED
    BY <1>2, <1>10, <2>1 DEF Leaves, Unanswers, Elsewhere
<1>11. ASSUME NEW c \in Pages, ReleaseWindow(c) PROVE Elsewhere
  <2>1. /\ thread[c][1] \in Ordinary /\ thread' = [thread EXCEPT ![c] = <<"detach">>]
        /\ <<"detach">>[1] \in Ordinary /\ UNCHANGED <<router, device, raced>>
    BY <1>11 DEF ReleaseWindow, Goes, Ordinary, histories
  <2>2. hub'.executor = hub.executor
    BY <1>11, ReleasingIt DEF ReleaseWindow, Removes
  <2> QED
    BY <1>2, <2>1, <2>2 DEF Elsewhere
<1>12. ASSUME Call PROVE Elsewhere
  <2>1. hub'.executor = hub.executor
    BY <1>12, Calling DEF Asks
  <2> QED
    BY <1>12, <2>1 DEF Call, Elsewhere, histories
<1>13. ASSUME NEW s, NEW r, NEW e, Hands(s, r, e) PROVE Elsewhere
  BY <1>13 DEF Hands, Unanswers, Elsewhere
<1>14. ASSUME NEW e, NEW m, Told(e, m) PROVE hub'.executor = hub.executor
  BY <1>14 DEF Told, Hears
<1>15. ASSUME NEW e, NEW r, Performs(e, r) PROVE Elsewhere
  BY <1>14, <1>15 DEF Performs, Elsewhere, histories
<1>16. ASSUME NEW e, Says(e) PROVE Elsewhere
  BY <1>14, <1>16 DEF Says, Elsewhere, histories
<1>17. ASSUME NEW c \in Pages, Passes(c) PROVE Elsewhere
  BY <1>17 DEF Passes, Hears, Elsewhere, histories
<1>18. ASSUME NEW c \in Pages, Connection(c)
       PROVE  \/ Attach(c) \/ Check(c) \/ AttachRouter(c) \/ Detach(c)
              \/ Forget(c) \/ Compare(c) \/ Drop(c)
              \/ Elsewhere
  BY <1>3, <1>4, <1>5, <1>6, <1>7, <1>8, <1>9, <1>10, <1>11, <1>18, Leaving DEF Connection
<1> QED
  BY <1>12, <1>13, <1>15, <1>16, <1>17, <1>18, Handing, Performing, Settling, Reporting, Passing
     DEF Next

\* The elements of a sequence.
LEMMA Elements ==
    ASSUME NEW S, NEW s \in Seq(S)
    PROVE  /\ s # <<>> <=> Range(s) # {}
           /\ Range(s) \subseteq S
           /\ s # <<>> => Last(s) \in Range(s)
           /\ \A i \in DOMAIN s : s[i] \in Range(s)
<1>1. Len(s) \in Nat /\ DOMAIN s = 1 .. Len(s) /\ \A i \in DOMAIN s : s[i] \in S
  BY LenProperties, ElementOfSeq
<1>2. s = <<>> <=> Len(s) = 0
  BY EmptySeq
<1>3. s # <<>> => 1 \in DOMAIN s /\ Len(s) \in DOMAIN s
  BY <1>1, <1>2
<1>4. s = <<>> => DOMAIN s = {}
  BY <1>1, <1>2
<1> QED
  BY <1>1, <1>3, <1>4 DEF Range, Last

\* Page c joins the router.
LEMMA Coming ==
    ASSUME Typed, Members, NEW c \in Pages, Attach(c)
    PROVE  /\ c \notin Range(router.executors)
           /\ router'.executors \in Seq(Pages) /\ router'.players = router.players
           /\ Range(router'.executors) = Range(router.executors) \cup {c}
           /\ \A i, j \in DOMAIN router'.executors :
                 router'.executors[i] = router'.executors[j] => i = j
           /\ Last(router'.executors) = c /\ router'.executors # <<>>
           /\ thread'[c] = (IF router.executors = <<>> THEN <<"check">> ELSE Receiving)
           /\ \A d \in Pages \ {c} : thread'[d] = thread[d]
<1> DEFINE old == router.executors
           new == Append(old, c)
<1>0. /\ old \in Seq(Pages) /\ thread \in [Pages -> Steps]
      /\ router \in [executors : Seq(Pages), players : [PlayerIds -> Pages \cup {None}]]
  BY DEF Typed, RouterTyped
<1>1. thread[c] = <<"new">> /\ router' = [router EXCEPT !.executors = new]
  BY DEF Attach
<1>2. router'.executors = new /\ router'.players = router.players
  BY <1>0, <1>1
<1>3. c \notin Range(old)
  BY <1>1 DEF Members, Listed, IsAt
<1>4. /\ new \in Seq(Pages) /\ DOMAIN new = DOMAIN old \cup {Len(old) + 1}
      /\ new[Len(old) + 1] = c /\ Len(old) \in Nat
      /\ \A i \in DOMAIN old : new[i] = old[i] /\ i < Len(old) + 1
  BY <1>0, More
<1>5. new # <<>> /\ Last(new) = c
  <2>1. Len(new) = Len(old) + 1 /\ Len(new) # 0
    BY <1>0, <1>4, AppendProperties
  <2> QED
    BY <1>4, <2>1, EmptySeq DEF Last
<1>6. Range(new) = Range(old) \cup {c}
  BY <1>4 DEF Range
<1>7. \A i, j \in DOMAIN old : old[i] = old[j] => i = j
  BY DEF Members
<1>8. \A i \in DOMAIN old : old[i] # c
  BY <1>3 DEF Range
<1>9. \A i, j \in DOMAIN new : new[i] = new[j] => i = j
  BY <1>4, <1>7, <1>8
<1>10. thread'[c] = (IF old = <<>> THEN <<"check">> ELSE Receiving)
       /\ \A d \in Pages \ {c} : thread'[d] = thread[d]
  BY <1>0 DEF Attach, Goes
<1> QED
  BY <1>2, <1>3, <1>4, <1>5, <1>6, <1>9, <1>10

\* Page c leaves the router.
LEMMA Detaching ==
    ASSUME Typed, Members, NEW c \in Pages, Detach(c)
    PROVE  /\ c \in Range(router.executors) /\ router.executors # <<>>
           /\ router'.executors \in Seq(Pages)
           /\ Range(router'.executors) = Range(router.executors) \ {c}
           /\ \A i, j \in DOMAIN router'.executors :
                 router'.executors[i] = router'.executors[j] => i = j
           /\ \A p \in PlayerIds :
                 router'.players[p] = IF router.players[p] = c THEN None ELSE router.players[p]
           /\ thread'[c] = (IF router'.executors = <<>> THEN <<"forget">> ELSE <<"gone">>)
           /\ \A d \in Pages \ {c} : thread'[d] = thread[d]
<1> DEFINE old == router.executors
           at == CHOOSE i \in DOMAIN old : old[i] = c
           new == RemoveAt(old, at)
           players == [p \in PlayerIds |-> IF router.players[p] = c THEN None ELSE router.players[p]]
<1>0. old \in Seq(Pages) /\ thread \in [Pages -> Steps]
  BY DEF Typed, RouterTyped
<1>1. /\ thread[c] = <<"detach">> /\ router' = [executors |-> new, players |-> players]
      /\ thread' = [thread EXCEPT ![c] = IF new = <<>> THEN <<"forget">> ELSE <<"gone">>]
  BY DEF Detach, Goes
<1>2. c \in Range(old)
  BY <1>1 DEF Members, Listed, IsAt
<1>3. at \in DOMAIN old /\ old[at] = c
  BY <1>2 DEF Range
<1>4. old # <<>>
  BY <1>0, <1>2, Elements
<1>5. \A p \in PlayerIds : players[p] = IF router.players[p] = c THEN None ELSE router.players[p]
  OBVIOUS
<1>6. \A i, j \in DOMAIN old : old[i] = old[j] => i = j
  BY DEF Members
<1> HIDE DEF at, players
<1>7. /\ new \in Seq(Pages)
      /\ \A j \in DOMAIN new : new[j] = IF j < at THEN old[j] ELSE old[j + 1]
      /\ Len(old) \in Nat /\ DOMAIN old = 1 .. Len(old) /\ DOMAIN new = 1 .. (Len(old) - 1)
  BY <1>0, <1>3, Without
<1> HIDE DEF new
<1>8. ASSUME NEW i \in DOMAIN new
      PROVE  \E k \in DOMAIN old : /\ k # at /\ new[i] = old[k]
                                   /\ k = IF i < at THEN i ELSE i + 1
  BY <1>3, <1>7
<1>9. ASSUME NEW k \in DOMAIN old, k # at
      PROVE  \E i \in DOMAIN new : new[i] = old[k]
  <2>1. CASE k < at
    <3>1. k \in DOMAIN new
      BY <1>3, <1>7, <2>1
    <3> QED
      BY <1>7, <2>1, <3>1
  <2>2. CASE ~(k < at)
    <3>1. k - 1 \in DOMAIN new /\ ~(k - 1 < at) /\ (k - 1) + 1 = k
      BY <1>3, <1>7, <1>9, <2>2
    <3> QED
      BY <1>7, <3>1
  <2> QED
    BY <2>1, <2>2
<1>10. Range(new) = Range(old) \ {c}
  <2>1. \A x \in Range(new) : x \in Range(old) \ {c}
    BY <1>3, <1>6, <1>8 DEF Range
  <2>2. \A x \in Range(old) \ {c} : x \in Range(new)
    <3> SUFFICES ASSUME NEW x \in Range(old), x # c PROVE x \in Range(new)
      OBVIOUS
    <3>1. PICK k \in DOMAIN old : old[k] = x
      BY DEF Range
    <3>2. k # at
      BY <1>3, <3>1
    <3> QED
      BY <1>9, <3>1, <3>2 DEF Range
  <2> QED
    BY <2>1, <2>2
<1>11. \A i, j \in DOMAIN new : new[i] = new[j] => i = j
  <2> SUFFICES ASSUME NEW i \in DOMAIN new, NEW j \in DOMAIN new, new[i] = new[j] PROVE i = j
    OBVIOUS
  <2>1. PICK k \in DOMAIN old : new[i] = old[k] /\ k = IF i < at THEN i ELSE i + 1
    BY <1>8
  <2>2. PICK l \in DOMAIN old : new[j] = old[l] /\ l = IF j < at THEN j ELSE j + 1
    BY <1>8
  <2>3. k = l
    BY <1>6, <2>1, <2>2
  <2> QED
    BY <1>3, <1>7, <2>1, <2>2, <2>3
<1>12. /\ thread'[c] = (IF new = <<>> THEN <<"forget">> ELSE <<"gone">>)
       /\ \A d \in Pages \ {c} : thread'[d] = thread[d]
  BY <1>0, <1>1
<1>13. router'.executors = new /\ router'.players = players
  BY <1>1
<1> QED
  BY <1>2, <1>4, <1>5, <1>7, <1>10, <1>11, <1>12, <1>13

\* The thread of c moves on, and nothing of the router changes.
LEMMA MovingOn ==
    ASSUME Typed, NEW c \in Pages,
           Check(c) \/ AttachRouter(c) \/ Forget(c) \/ Compare(c) \/ Drop(c)
    PROVE  /\ UNCHANGED <<router, device, raced>>
           /\ \A d \in Pages \ {c} : thread'[d] = thread[d]
           /\ \/ Check(c) /\ IsAt(c, {"check"})
                 /\ thread'[c] = (IF hub.executor = "none" THEN <<"attach">> ELSE Receiving)
                 /\ hub' = hub
              \/ AttachRouter(c) /\ IsAt(c, {"attach"}) /\ thread'[c] = Receiving
                 /\ Reloads(c, "router")
              \/ Forget(c) /\ IsAt(c, {"forget"}) /\ thread'[c] = <<"compare">> /\ Forgets
              \/ Compare(c) /\ IsAt(c, {"compare"})
                 /\ thread'[c] = (IF hub.executor = "router" THEN <<"drop">> ELSE <<"gone">>)
                 /\ hub' = hub
              \/ Drop(c) /\ IsAt(c, {"drop"}) /\ thread'[c] = <<"gone">> /\ Drops
<1>0. thread \in [Pages -> Steps] /\ HubTyped /\ c \in Callers
  BY DEF Typed, RouterTyped, Callers
<1>1. CASE Check(c)
  BY <1>0, <1>1 DEF Check, Goes, Lacking, IsAt, histories
<1>2. CASE AttachRouter(c)
  BY <1>0, <1>2, Attaching DEF AttachRouter, Goes, IsAt, histories
<1>3. CASE Forget(c)
  BY <1>0, <1>3, Forgetting DEF Forget, Goes, IsAt, histories
<1>4. CASE Compare(c)
  BY <1>0, <1>4 DEF Compare, Goes, IsAt, histories
<1>5. CASE Drop(c)
  BY <1>0, <1>5, Dropping DEF Drop, Goes, IsAt, histories
<1> QED
  BY <1>1, <1>2, <1>3, <1>4, <1>5

LEMMA MembersStay ==
    ASSUME Typed, Members, Next
    PROVE  Members'
<1>0. \A c \in Pages : Listed(c) <=> c \in Range(router.executors)
  BY DEF Members
<1>1. ASSUME NEW c \in Pages, Attach(c) PROVE Members'
  BY <1>0, <1>1, Coming DEF Members, Listed, IsAt, Receiving
<1>2. ASSUME NEW c \in Pages, Detach(c) PROVE Members'
  BY <1>0, <1>2, Detaching DEF Members, Listed, IsAt
<1>3. ASSUME NEW c \in Pages,
             Check(c) \/ AttachRouter(c) \/ Forget(c) \/ Compare(c) \/ Drop(c)
      PROVE  Members'
  <2>1. \A d \in Pages : Listed(d)' <=> Listed(d)
    BY <1>3, MovingOn DEF Listed, IsAt, Receiving
  <2>2. router' = router
    BY <1>3, MovingOn
  <2> QED
    BY <2>1, <2>2 DEF Members
<1>4. CASE AttachDevice
  BY <1>4 DEF AttachDevice, Members, Listed, IsAt
<1>5. CASE Elsewhere
  <2>1. \A d \in Pages : Listed(d)' <=> Listed(d)
    BY <1>5 DEF Elsewhere, Ordinary, Listed, IsAt
  <2> QED
    BY <1>5, <2>1 DEF Elsewhere, Members
<1> QED
  BY <1>1, <1>2, <1>3, <1>4, <1>5, Roles

\* Where the other threads are does not change.
LEMMA Outside ==
    ASSUME Elsewhere
    PROVE  /\ \A c \in Pages : IsAt(c, {"check", "attach"})' <=> IsAt(c, {"check", "attach"})
           /\ \A c \in Pages : IsAt(c, {"attach", "drop"})' <=> IsAt(c, {"attach", "drop"})
           /\ \A c \in Pages : IsAt(c, {"forget"})' <=> IsAt(c, {"forget"})
           /\ GivingUp' = GivingUp
BY DEF Elsewhere, Ordinary, IsAt, GivingUp

\* Those who give up are at these steps.
LEMMA GivingUpIs == \A c \in Pages : c \in GivingUp <=> IsAt(c, {"forget", "compare", "drop"})
BY DEF GivingUp, IsAt

\* With pages in the router, no one gives up.
LEMMA TakenOverStays ==
    ASSUME Typed, Members, TakenOver, Next
    PROVE  TakenOver'
<1> SUFFICES ASSUME ~raced'
             PROVE  /\ hub'.executor = "none" /\ router'.executors # <<>> =>
                          \E c \in Pages : IsAt(c, {"check", "attach"})'
                    /\ hub'.executor = "router" /\ router'.executors = <<>> => GivingUp' # {}
                    /\ GivingUp' # {} => router'.executors = <<>>
                    /\ \A c, d \in GivingUp' : c = d
                    /\ device' => /\ hub'.executor = "device"
                                  /\ \A c \in Pages : ~IsAt(c, {"attach", "drop"})'
  BY DEF TakenOver
<1> DEFINE Early(c) == IsAt(c, {"check", "attach"})
           Acting(c) == IsAt(c, {"attach", "drop"})
<1>0. ASSUME ~raced
      PROVE  /\ hub.executor = "none" /\ router.executors # <<>> => \E c \in Pages : Early(c)
             /\ hub.executor = "router" /\ router.executors = <<>> => GivingUp # {}
             /\ GivingUp # {} => router.executors = <<>>
             /\ \A c, d \in GivingUp : c = d
             /\ device => hub.executor = "device" /\ \A c \in Pages : ~Acting(c)
  BY <1>0 DEF TakenOver
<1>1. ASSUME NEW c \in Pages, Attach(c) PROVE TakenOver'
  <2>0. raced' = (raced \/ GivingUp # {})
    BY <1>1 DEF Attach
  <2>1. ~raced /\ GivingUp = {} /\ UNCHANGED <<hub, device>> /\ IsAt(c, {"new"})
    <3>1. UNCHANGED <<hub, device>> /\ IsAt(c, {"new"})
      BY <1>1 DEF Attach, IsAt
    <3> QED
      BY <2>0, <3>1
  <2>2. /\ thread'[c] = (IF router.executors = <<>> THEN <<"check">> ELSE Receiving)
        /\ \A d \in Pages \ {c} : thread'[d] = thread[d]
        /\ router'.executors # <<>>
    BY <1>1, Coming
  <2>3. GivingUp' = {}
    BY <2>1, <2>2 DEF GivingUp, Receiving
  <2>4. \A d \in Pages : Early(d) => Early(d)'
    BY <2>1, <2>2 DEF IsAt
  <2>5. router.executors = <<>> => Early(c)'
    BY <2>2 DEF IsAt
  <2>6. \A d \in Pages : Acting(d)' => Acting(d)
    BY <2>2 DEF IsAt, Receiving
  <2> HIDE DEF Early, Acting
  <2>7. hub'.executor = "none" => \E d \in Pages : Early(d)'
    BY <1>0, <2>1, <2>4, <2>5
  <2>8. device' => hub'.executor = "device" /\ \A d \in Pages : ~Acting(d)'
    BY <1>0, <2>1, <2>6
  <2> QED
    BY <2>2, <2>3, <2>7, <2>8 DEF TakenOver, Early, Acting
<1>2. ASSUME NEW c \in Pages, Detach(c) PROVE TakenOver'
  <2>1. ~raced /\ UNCHANGED <<hub, device>> /\ IsAt(c, {"detach"})
    BY <1>2 DEF Detach, IsAt
  <2>2. /\ thread'[c] = (IF router'.executors = <<>> THEN <<"forget">> ELSE <<"gone">>)
        /\ \A d \in Pages \ {c} : thread'[d] = thread[d]
        /\ router.executors # <<>>
    BY <1>2, Detaching
  <2>3. /\ GivingUp = {}
        /\ \A d \in GivingUp' : d = c
        /\ router'.executors # <<>> => GivingUp' = {}
        /\ router'.executors = <<>> => c \in GivingUp'
    BY <1>0, <2>1, <2>2 DEF GivingUp
  <2>4. \A d \in Pages : Early(d) => Early(d)'
    BY <2>1, <2>2 DEF IsAt
  <2>5. \A d \in Pages : Acting(d)' => Acting(d)
    BY <2>2 DEF IsAt
  <2> HIDE DEF Early, Acting
  <2>6. hub'.executor = "none" => \E d \in Pages : Early(d)'
    BY <1>0, <2>1, <2>2, <2>4
  <2>7. device' => hub'.executor = "device" /\ \A d \in Pages : ~Acting(d)'
    BY <1>0, <2>1, <2>5
  <2> QED
    BY <2>3, <2>6, <2>7 DEF TakenOver, Early, Acting
<1>3. ASSUME NEW c \in Pages, Check(c) PROVE TakenOver'
  <2>1. /\ IsAt(c, {"check"}) /\ UNCHANGED <<hub, router, device, raced>>
        /\ thread'[c] = (IF hub.executor = "none" THEN <<"attach">> ELSE Receiving)
        /\ \A d \in Pages \ {c} : thread'[d] = thread[d]
    <3>1. IsAt(c, {"check"}) /\ hub' = hub
      BY <1>3 DEF Check, IsAt
    <3>2. thread[c] = <<"check">> /\ thread \in [Pages -> Steps]
      BY <1>3 DEF Check, Typed, RouterTyped
    <3>3. thread'[c] = (IF hub.executor = "none" THEN <<"attach">> ELSE Receiving)
      BY <1>3, <3>2 DEF Check, Goes, Lacking
    <3>4. UNCHANGED <<router, device, raced>> /\ \A d \in Pages \ {c} : thread'[d] = thread[d]
      BY <1>3, MovingOn
    <3> QED
      BY <3>1, <3>3, <3>4
  <2>2. GivingUp' = GivingUp
    BY <2>1 DEF GivingUp, IsAt, Receiving
  <2>3. hub.executor = "none" => Early(c)'
    BY <2>1 DEF IsAt
  <2>4. \A d \in Pages : Acting(d)' => Acting(d) \/ hub.executor = "none"
    BY <2>1 DEF IsAt, Receiving
  <2> HIDE DEF Early, Acting
  <2> QED
    BY <1>0, <2>1, <2>2, <2>3, <2>4 DEF TakenOver, Early, Acting
<1>4. ASSUME NEW c \in Pages, AttachRouter(c) PROVE TakenOver'
  <2>1. /\ IsAt(c, {"attach"}) /\ UNCHANGED <<router, device, raced>>
        /\ thread'[c] = Receiving /\ hub'.executor = "router"
        /\ \A d \in Pages \ {c} : thread'[d] = thread[d]
    BY <1>4, MovingOn DEF AttachRouter, IsAt, Reloads
  <2>2. GivingUp' = GivingUp
    BY <2>1 DEF GivingUp, IsAt, Receiving
  <2>3. router.executors # <<>>
    <3>1. c \in Range(router.executors)
      BY <2>1 DEF Members, Listed, IsAt
    <3> QED
      BY <3>1, Elements DEF Typed, RouterTyped
  <2>4. ~device
    BY <1>0, <2>1 DEF IsAt
  <2> QED
    BY <1>0, <2>1, <2>2, <2>3, <2>4 DEF TakenOver
<1>5. ASSUME NEW c \in Pages, Forget(c) PROVE TakenOver'
  <2>1. /\ IsAt(c, {"forget"}) /\ UNCHANGED <<router, device, raced>>
        /\ thread'[c] = <<"compare">> /\ hub'.executor = hub.executor
        /\ \A d \in Pages \ {c} : thread'[d] = thread[d]
    BY <1>5, MovingOn DEF Forget, IsAt, Forgets
  <2>2. GivingUp' = GivingUp
    BY <2>1 DEF GivingUp, IsAt
  <2>3. \A d \in Pages : Early(d)' <=> Early(d)
    BY <2>1 DEF IsAt
  <2>4. \A d \in Pages : Acting(d)' => Acting(d)
    BY <2>1 DEF IsAt
  <2> HIDE DEF Early, Acting
  <2> QED
    BY <1>0, <2>1, <2>2, <2>3, <2>4 DEF TakenOver, Early, Acting
<1>6. ASSUME NEW c \in Pages, Compare(c) PROVE TakenOver'
  <2>1. /\ IsAt(c, {"compare"}) /\ UNCHANGED <<hub, router, device, raced>>
        /\ thread'[c] = (IF hub.executor = "router" THEN <<"drop">> ELSE <<"gone">>)
        /\ \A d \in Pages \ {c} : thread'[d] = thread[d]
    BY <1>6, MovingOn DEF Compare, IsAt
  <2>2. /\ GivingUp' \subseteq GivingUp
        /\ hub.executor = "router" => GivingUp' = GivingUp
    BY <2>1 DEF GivingUp, IsAt
  <2>3. \A d \in Pages : Early(d)' <=> Early(d)
    BY <2>1 DEF IsAt
  <2>4. \A d \in Pages : Acting(d)' => Acting(d) \/ hub.executor = "router"
    BY <2>1 DEF IsAt
  <2> HIDE DEF Early, Acting
  <2> QED
    BY <1>0, <2>1, <2>2, <2>3, <2>4 DEF TakenOver, Early, Acting
<1>7. ASSUME NEW c \in Pages, Drop(c) PROVE TakenOver'
  <2>1. /\ IsAt(c, {"drop"}) /\ UNCHANGED <<router, device, raced>>
        /\ thread'[c] = <<"gone">> /\ hub'.executor = "none"
        /\ \A d \in Pages \ {c} : thread'[d] = thread[d]
    BY <1>7, MovingOn DEF Drop, IsAt, Drops
  <2>2. GivingUp' \subseteq GivingUp /\ c \in GivingUp
    BY <2>1 DEF GivingUp, IsAt
  <2>3. ~device /\ router.executors = <<>>
    BY <1>0, <2>1, <2>2 DEF IsAt
  <2> QED
    BY <1>0, <2>1, <2>2, <2>3 DEF TakenOver
<1>8. CASE AttachDevice
  <2>1. /\ ~raced /\ hub'.executor = "device" /\ UNCHANGED <<router, thread>>
        /\ \A c \in Pages : ~Acting(c)
    BY <1>8, Attaching DEF AttachDevice, Callers, Reloads, Typed, IsAt
  <2>2. GivingUp' = GivingUp
    BY <2>1 DEF GivingUp
  <2>3. \A d \in Pages : Acting(d)' => Acting(d)
    BY <2>1 DEF IsAt
  <2> HIDE DEF Acting
  <2> QED
    BY <1>0, <2>1, <2>2, <2>3 DEF TakenOver, Acting
<1>9. CASE Elsewhere
  <2>1. /\ \A c \in Pages : (Early(c)' <=> Early(c)) /\ (Acting(c)' <=> Acting(c))
        /\ GivingUp' = GivingUp
    BY <1>9, Outside
  <2>2. /\ router'.executors = router.executors /\ UNCHANGED <<device, raced>>
        /\ hub'.executor = hub.executor
    BY <1>9 DEF Elsewhere
  <2> HIDE DEF Early, Acting
  <2> QED
    BY <1>0, <2>1, <2>2 DEF TakenOver, Early, Acting
<1> QED
  BY <1>1, <1>2, <1>3, <1>4, <1>5, <1>6, <1>7, <1>8, <1>9, Roles DEF TakenOver

\* Without pages in the router, no page starts to run a player, and what runs
\* nowhere is not accepted.
LEMMA Unattained ==
    ASSUME Typed, Members, Next, router.executors = <<>>, NEW p \in Existing'
    PROVE  /\ p \in Existing
           /\ hub'.players[p].runner => hub.players[p].runner
           /\ hub'.players[p].status = "accepted" =>
                 hub.players[p].status = "accepted" \/ RunnerOf(hub', p) # "none"
<1> DEFINE Stays == /\ p \in Existing
                    /\ hub'.players[p].runner => hub.players[p].runner
                    /\ hub'.players[p].status = "accepted" =>
                          hub.players[p].status = "accepted" \/ RunnerOf(hub', p) # "none"
<1>0. \A c \in Pages : ~Listed(c)
  BY Elements DEF Typed, RouterTyped, Members
<1>1. CASE hub' = hub
  BY <1>1 DEF Existing
<1>2. ASSUME NEW m, Hears(m) PROVE Stays
  <2>1. Existing' = Existing
    BY <1>2, PlayersOf DEF Hears
  <2>2. /\ hub'.players[p].runner = hub.players[p].runner
        /\ hub'.players[p].status \in {hub.players[p].status, "answered"}
    BY <1>2, <2>1 DEF Hears, SamePlay
  <2> QED
    BY <2>1, <2>2
<1>3. ASSUME NEW ids, Unanswers(ids) PROVE Stays
  BY <1>3, PlayersOf DEF Unanswers, SamePlay
<1>4. ASSUME NEW e, NEW m, Told(e, m) PROVE Stays
  BY <1>1, <1>2, <1>4 DEF Told
<1>5. ASSUME NEW by, NEW q, NEW op, Asks(by, q, op),
             hub'.players[q].runner => hub.players[q].runner \/ \E c \in Pages : IsAt(c, {"open"})
      PROVE  Stays
  <2>1. Existing' = Existing
    BY <1>5, PlayersOf DEF Asks
  <2>2. \A c \in Pages : ~IsAt(c, {"open"})
    BY <1>0 DEF Listed, IsAt
  <2> QED
    BY <1>5, <2>1, <2>2 DEF Asks, OthersStay
<1>6. ASSUME NEW q, Notes(q) PROVE Stays
  <2>1. Existing' = Existing
    BY <1>6, PlayersOf DEF Notes
  <2> QED
    BY <1>6, <2>1 DEF Notes, OthersStay
<1>7. ASSUME NEW by, NEW e, Reloads(by, e) PROVE Stays
  <2>1. Existing' = Existing /\ hub' \in HubsOf(Existing)
    BY <1>7, PlayersOf DEF Reloads
  <2>2. hub'.executor \in {"device", "router"}
    BY <1>7 DEF Reloads
  <2>3. RunnerOf(hub', p) # "none"
    BY <2>1, <2>2, RunnerIs
  <2>4. hub'.players[p].runner => hub.players[p].runner
    BY <1>7, <2>1 DEF Reloads, SamePlay
  <2> QED
    BY <2>1, <2>3, <2>4
<1>8. ASSUME NEW q \in Windows, Removes(q, q) PROVE Stays
  <2>1. Existing' = Existing \ {q}
    BY <1>8, PlayersOf DEF Removes
  <2> QED
    BY <1>8, <2>1 DEF Removes, OthersStay
<1>9. ASSUME NEW c \in Pages, Creates(c) PROVE FALSE
  BY <1>0, <1>9 DEF Creates, Listed, IsAt, Receiving
<1>10. ASSUME Forgets \/ Drops PROVE Stays
  <2>1. Existing' = Existing
    BY <1>10, PlayersOf DEF Forgets, Drops
  <2> QED
    BY <1>10, <2>1 DEF Forgets, Drops, SamePlay
<1>11. ASSUME CallStep PROVE Stays
  BY <1>5, <1>6, <1>7, <1>8, <1>9, <1>10, <1>11 DEF CallStep, Calls
<1>12. ASSUME QuietStep PROVE Stays
  BY <1>1, <1>12 DEF QuietStep
<1>13. ASSUME NEW s, NEW r, NEW e, Hands(s, r, e) PROVE Stays
  BY <1>1, <1>3, <1>13 DEF Hands
<1>14. ASSUME NEW e, NEW r, Performs(e, r) PROVE Stays
  BY <1>1, <1>4, <1>14 DEF Performs
<1>15. ASSUME NEW e, Says(e) PROVE Stays
  BY <1>4, <1>15 DEF Says
<1>16. ASSUME NEW c \in Pages, Leaves(c) \/ Passes(c) PROVE Stays
  BY <1>2, <1>3, <1>16 DEF Leaves, Passes
<1> QED
  BY <1>11, <1>12, <1>13, <1>14, <1>15, <1>16, Kinds

LEMMA UnrunStays ==
    ASSUME Typed, Members, TakenOver, Unrun, Next
    PROVE  Unrun'
<1> SUFFICES ASSUME ~raced', router'.executors = <<>>
             PROVE  /\ \A p \in Existing' : hub'.players[p].runner =>
                           \E c \in Pages : IsAt(c, {"forget"})'
                    /\ hub'.executor = "none" =>
                          /\ \A c \in Pages : ~IsAt(c, {"forget"})'
                          /\ \A p \in Existing' : hub'.players[p].status # "accepted"
  BY DEF Unrun
<1> DEFINE Forgetful(c) == IsAt(c, {"forget"})
<1>0. ASSUME ~raced, router.executors = <<>>
      PROVE  /\ \A p \in Existing : hub.players[p].runner => \E c \in Pages : Forgetful(c)
             /\ hub.executor = "none" => /\ \A c \in Pages : ~Forgetful(c)
                                         /\ \A p \in Existing : hub.players[p].status # "accepted"
             /\ \A c, d \in GivingUp : c = d
  BY <1>0 DEF Unrun, TakenOver
<1>1. ASSUME NEW c \in Pages, Listed(c) PROVE router.executors # <<>>
  BY <1>1, Elements DEF Typed, RouterTyped, Members
<1>2. ASSUME NEW c \in Pages, Attach(c) PROVE FALSE
  BY <1>2, Coming
<1>3. ASSUME NEW c \in Pages, Check(c) \/ AttachRouter(c) PROVE FALSE
  <2>1. Listed(c)
    BY <1>3 DEF Check, AttachRouter, Listed, IsAt
  <2>2. router'.executors = router.executors
    BY <1>3 DEF Check, AttachRouter
  <2> QED
    BY <1>1, <2>1, <2>2
<1>4. ASSUME NEW c \in Pages, Detach(c) PROVE Unrun'
  <2>1. /\ thread'[c] = <<"forget">> /\ router.executors # <<>>
        /\ Range(router'.executors) = Range(router.executors) \ {c}
    BY <1>4, Detaching
  <2>2. ~raced /\ hub' = hub /\ ~IsAt(c, {"check", "attach"})
    BY <1>4 DEF Detach, IsAt
  <2>3. hub.executor # "none"
    <3>1. SUFFICES ASSUME hub.executor = "none" PROVE FALSE
      OBVIOUS
    <3>2. PICK d \in Pages : IsAt(d, {"check", "attach"})
      BY <2>1, <2>2, <3>1 DEF TakenOver
    <3>3. d \in Range(router.executors) /\ d # c
      BY <2>2, <3>2 DEF Members, Listed, IsAt
    <3>4. Range(router'.executors) # {}
      BY <2>1, <3>3
    <3>5. router'.executors \in Seq(Pages)
      BY <1>4, Detaching
    <3> QED
      BY <3>4, <3>5, Elements
  <2>4. Forgetful(c)'
    BY <2>1 DEF IsAt
  <2> QED
    BY <2>2, <2>3, <2>4 DEF Unrun
<1>5. ASSUME NEW c \in Pages, Forget(c) PROVE Unrun'
  <2>1. /\ Forgetful(c) /\ UNCHANGED <<router, raced>> /\ Forgets
    BY <1>5, MovingOn DEF Forget, IsAt
  <2>2. hub.executor # "none" /\ hub'.executor = hub.executor
    BY <1>0, <2>1 DEF Forgets
  <2>3. \A p \in Existing' : ~hub'.players[p].runner
    BY <2>1, PlayersOf DEF Forgets
  <2> QED
    BY <2>2, <2>3 DEF Unrun
<1>6. ASSUME NEW c \in Pages, Compare(c) PROVE Unrun'
  <2>1. /\ UNCHANGED <<router, raced, hub>> /\ IsAt(c, {"compare"})
        /\ \A d \in Pages \ {c} : thread'[d] = thread[d]
    BY <1>6, MovingOn DEF Compare, IsAt
  <2>2. thread'[c] = (IF hub.executor = "router" THEN <<"drop">> ELSE <<"gone">>)
    BY <1>6 DEF Compare, Goes, Typed, RouterTyped
  <2>3. \A d \in Pages : Forgetful(d)' <=> Forgetful(d)
    BY <2>1, <2>2 DEF IsAt
  <2> HIDE DEF Forgetful
  <2> QED
    BY <1>0, <2>1, <2>3 DEF Unrun, Forgetful, Existing
<1>7. ASSUME NEW c \in Pages, Drop(c) PROVE Unrun'
  <2>1. /\ UNCHANGED <<router, raced>> /\ IsAt(c, {"drop"}) /\ Drops
        /\ \A d \in Pages \ {c} : thread'[d] = thread[d]
        /\ thread'[c] = <<"gone">>
    BY <1>7, MovingOn DEF Drop, IsAt
  <2>2. \A d \in Pages : ~Forgetful(d) /\ ~Forgetful(d)'
    <3>1. c \in GivingUp /\ ~Forgetful(c) /\ ~Forgetful(c)'
      BY <2>1 DEF GivingUp, IsAt
    <3>2. \A d \in Pages : Forgetful(d) => d \in GivingUp
      BY DEF GivingUp, IsAt
    <3>3. \A d \in Pages : ~Forgetful(d)
      BY <1>0, <2>1, <3>1, <3>2
    <3> QED
      BY <2>1, <3>1, <3>3 DEF IsAt
  <2>3. \A p \in Existing' : ~hub'.players[p].runner /\ hub'.players[p].status # "accepted"
    BY <1>0, <2>1, <2>2, PlayersOf DEF Drops, SamePlay
  <2> HIDE DEF Forgetful
  <2> QED
    BY <2>2, <2>3 DEF Unrun, Forgetful
<1>8. CASE AttachDevice
  <2>1. /\ ~raced /\ UNCHANGED <<router, thread>> /\ Reloads("device", "device")
    BY <1>8, Attaching DEF AttachDevice, Callers, Typed
  <2>2. Existing' = Existing /\ hub'.executor = "device"
    BY <2>1, PlayersOf DEF Reloads
  <2>3. \A p \in Existing' : hub'.players[p].runner => hub.players[p].runner
    BY <2>1, <2>2 DEF Reloads, SamePlay
  <2>4. \A d \in Pages : Forgetful(d) => Forgetful(d)'
    BY <2>1 DEF IsAt
  <2> HIDE DEF Forgetful
  <2> QED
    BY <1>0, <2>1, <2>2, <2>3, <2>4 DEF Unrun, Forgetful
<1>9. CASE Elsewhere
  <2>1. \A c \in Pages : Forgetful(c)' <=> Forgetful(c)
    BY <1>9, Outside
  <2>2. ~raced /\ router.executors = <<>> /\ hub'.executor = hub.executor
    BY <1>9 DEF Elsewhere
  <2>3. \A p \in Existing' : /\ p \in Existing
                             /\ hub'.players[p].runner => hub.players[p].runner
                             /\ hub'.players[p].status = "accepted" =>
                                   hub.players[p].status = "accepted" \/ RunnerOf(hub', p) # "none"
    BY <2>2, Unattained
  <2>4. \A p \in Existing' : hub'.players[p].runner => \E c \in Pages : Forgetful(c)'
    BY <1>0, <2>1, <2>2, <2>3
  <2>5. ASSUME hub'.executor = "none", NEW p \in Existing' PROVE hub'.players[p].status # "accepted"
    <3>1. ~hub'.players[p].runner
      BY <1>0, <2>2, <2>3, <2>5
    <3>2. RunnerOf(hub', p) = "none"
      BY <2>5, <3>1 DEF RunnerOf
    <3> QED
      BY <1>0, <2>2, <2>3, <2>5, <3>2
  <2> HIDE DEF Forgetful
  <2> QED
    BY <1>0, <2>1, <2>2, <2>4, <2>5 DEF Unrun, Forgetful
<1> QED
  BY <1>2, <1>3, <1>4, <1>5, <1>6, <1>7, <1>8, <1>9, Roles DEF Unrun

\* A page that leaves has nothing any more, and nothing reaches it.
LEMMA EmptiedStays ==
    ASSUME Typed, Members, Emptied, Next
    PROVE  Emptied'
<1> DEFINE Nothing(c) == /\ inbox[c] = <<>> /\ performing[c] = {} /\ outbox[c] = <<>>
                         /\ backend[c] = [p \in PlayerIds |-> NoElement]
<1>0. \A c \in Pages : ~Connected(c) => Nothing(c)
  BY DEF Emptied
<1>1. /\ inbox \in [Executors -> Seq(Requests)]
      /\ performing \in [Executors -> SUBSET Requests]
      /\ backend \in [Executors -> [PlayerIds -> [version : Nat, load : Nat]]]
      /\ outbox \in [Pages -> Seq(Reports)]
      /\ thread \in [Pages -> Steps]
      /\ Pages \subseteq Executors
  BY DEF Typed, ExecutorsTyped, RouterTyped, Executors
<1>2. SUFFICES ASSUME NEW c \in Pages, ~Connected(c)' PROVE Nothing(c)'
  BY DEF Emptied
<1>3. ASSUME ExecutorsStay, Connected(c) => Connected(c)' PROVE Nothing(c)'
  BY <1>0, <1>2, <1>3 DEF ExecutorsStay, executorVars
<1>4. CASE CallStep
  BY <1>3, <1>4 DEF CallStep, Keeps
<1>5. CASE QuietStep
  <2>1. CASE Keeps
    BY <1>3, <1>5, <2>1 DEF QuietStep, Keeps
  <2>2. ASSUME NEW d \in Pages, Attach(d) PROVE Connected(c) => Connected(c)'
    BY <1>1, <2>2 DEF Attach, Goes, Connected, Receiving
  <2>3. ASSUME NEW d \in Pages, Detach(d) PROVE Connected(c) => Connected(c)'
    <3>1. thread[d] = <<"detach">> /\ \A b \in Pages \ {d} : thread'[b] = thread[b]
      BY <2>3, Detaching DEF Detach
    <3> QED
      BY <3>1 DEF Connected
  <2>4. ASSUME NEW d \in Pages, Unclaim(d) PROVE Connected(c) => Connected(c)'
    BY <1>1, <2>4 DEF Unclaim, Goes, Connected, Receiving
  <2>5. ASSUME NEW d \in Pages, NEW p \in Application, Claiming(d, p)
        PROVE  Connected(c) => Connected(c)'
    BY <1>1, <2>5 DEF Claiming, Connected
  <2> QED
    BY <1>3, <1>5, <2>1, <2>2, <2>3, <2>4, <2>5 DEF QuietStep
<1>6. ASSUME NEW d \in Pages, Leaves(d) PROVE Nothing(c)'
  <2>1. CASE c = d
    BY <1>1, <1>6, <2>1 DEF Leaves
  <2>2. CASE c # d
    <3>1. thread'[c] = thread[c]
      BY <1>1, <1>6, <2>2 DEF Leaves
    <3>2. Nothing(c)
      BY <1>0, <1>2, <3>1 DEF Connected
    <3>3. inbox'[c] = inbox[c] /\ performing'[c] = performing[c] /\ outbox'[c] = outbox[c]
          /\ backend'[c] = backend[c]
      BY <1>1, <1>6, <2>2 DEF Leaves
    <3> QED
      BY <3>2, <3>3
  <2> QED
    BY <2>1, <2>2
<1>7. ASSUME thread' = thread
      PROVE  ~Connected(c) /\ Nothing(c)
  BY <1>0, <1>2, <1>7 DEF Connected
<1>8. ASSUME NEW s, NEW r, NEW e, Hands(s, r, e) PROVE Nothing(c)'
  <2>1. ~Connected(c) /\ Nothing(c)
    BY <1>7, <1>8 DEF Hands
  <2>2. inbox'[c] = inbox[c]
    BY <1>1, <1>8, <2>1 DEF Hands
  <2> QED
    BY <1>8, <2>1, <2>2 DEF Hands
<1>9. ASSUME NEW e \in Executors, e # c, NEW m, Told(e, m) PROVE outbox'[c] = outbox[c]
  BY <1>1, <1>9 DEF Told
<1>10. ASSUME NEW e, NEW r, Performs(e, r) PROVE Nothing(c)'
  <2>1. ~Connected(c) /\ Nothing(c)
    BY <1>7, <1>10 DEF Performs
  <2>2. e # c /\ e \in Executors
    BY <1>10, <2>1 DEF Performs
  <2>3. outbox'[c] = outbox[c]
    BY <1>9, <1>10, <2>2 DEF Performs
  <2>4. inbox'[c] = inbox[c] /\ performing'[c] = performing[c] /\ backend'[c] = backend[c]
    BY <1>1, <1>10, <2>2 DEF Performs
  <2> QED
    BY <2>1, <2>3, <2>4
<1>11. ASSUME NEW e, Says(e) PROVE Nothing(c)'
  <2>1. ~Connected(c) /\ Nothing(c)
    BY <1>7, <1>11 DEF Says
  <2>2. e \in Executors /\ e # c
    <3>1. \A p \in PlayerIds : backend[c][p].load = 0
      BY <2>1 DEF NoElement
    <3> QED
      BY <1>11, <2>1, <3>1 DEF Says
  <2>3. outbox'[c] = outbox[c] /\ performing'[c] = performing[c]
    BY <1>1, <1>9, <1>11, <2>2 DEF Says
  <2> QED
    BY <1>11, <2>1, <2>3 DEF Says
<1>12. ASSUME NEW d \in Pages, Passes(d) PROVE Nothing(c)'
  <2>1. ~Connected(c) /\ Nothing(c)
    BY <1>7, <1>12 DEF Passes
  <2>2. d # c
    BY <1>12, <2>1 DEF Passes
  <2> QED
    BY <1>1, <1>12, <2>1, <2>2 DEF Passes
<1> QED
  BY <1>4, <1>5, <1>6, <1>8, <1>10, <1>11, <1>12, Kinds

-----------------------------------------------------------------------------
(* Requests are numbered.                                                  *)

\* A call numbers its requests after all others.
LEMMA CallNumbers ==
    ASSUME Typed, Calls, \A p \in Existing : hub.players[p].load <= hub.next_request
    PROVE  /\ hub.next_request <= hub'.next_request
           /\ \A p \in Existing' : hub'.players[p].load <= hub'.next_request
           /\ \A s \in sending' : \/ s \in sending
                                  \/ /\ Rising(s.requests)
                                     /\ UpTo(s.requests, hub'.next_request)
                                     /\ From(s.requests, hub.next_request)
<1> DEFINE Goal == /\ hub.next_request <= hub'.next_request
                   /\ \A p \in Existing' : hub'.players[p].load <= hub'.next_request
                   /\ \A s \in sending' : \/ s \in sending
                                          \/ /\ Rising(s.requests)
                                             /\ UpTo(s.requests, hub'.next_request)
                                             /\ From(s.requests, hub.next_request)
<1>0. /\ hub.next_request \in Nat
      /\ \A p \in Existing : hub.players[p].load \in Nat /\ hub.players[p].load <= hub.next_request
  BY PlayersAre DEF Typed
<1>1. ASSUME NEW by, NEW r, r.request = hub.next_request + 1, hub'.next_request = hub.next_request + 1,
             \A s \in sending' : s = [by |-> by, requests |-> <<r>>]
      PROVE  \A s \in sending' : /\ Rising(s.requests)
                                 /\ UpTo(s.requests, hub'.next_request)
                                 /\ From(s.requests, hub.next_request)
  <2> DEFINE l == <<r>>
  <2>1. DOMAIN l = {1} /\ l[1] = r
    OBVIOUS
  <2>2. \A s \in sending' : s.requests = l
    BY <1>1
  <2> HIDE DEF l
  <2> QED
    BY <1>0, <1>1, <2>1, <2>2 DEF Rising, UpTo, From
<1>2. ASSUME NEW by, NEW p, NEW op, Asks(by, p, op) PROVE Goal
  <2> DEFINE r == [request |-> hub.next_request + 1, player |-> p,
                   version |-> hub'.players[p].version, op |-> op, to |-> RunnerOf(hub', p)]
  <2>1. /\ Existing' = Existing /\ hub'.next_request = hub.next_request + 1 /\ OthersStay(p)
        /\ p \in Existing
    BY <1>2, PlayersOf DEF Asks
  <2>2. hub'.players[p].load \in {0, hub.next_request + 1, hub.players[p].load}
    BY <1>2 DEF Asks, SamePlay
  <2>3. \A s \in sending' : s = [by |-> by, requests |-> <<r>>]
    BY <1>2 DEF Asks
  <2>4. r.request = hub.next_request + 1
    OBVIOUS
  <2> HIDE DEF r
  <2>5. \A s \in sending' : /\ Rising(s.requests)
                            /\ UpTo(s.requests, hub'.next_request)
                            /\ From(s.requests, hub.next_request)
    BY <1>1, <2>1, <2>3, <2>4
  <2>6. \A q \in Existing' : hub'.players[q].load <= hub'.next_request
    BY <1>0, <2>1, <2>2 DEF OthersStay
  <2> QED
    BY <1>0, <2>1, <2>5, <2>6
<1>3. ASSUME NEW p, Notes(p) PROVE Goal
  BY <1>0, <1>3, PlayersOf DEF Notes, OthersStay
<1>4. ASSUME NEW by, NEW e, Reloads(by, e) PROVE Goal
  <2>1. Existing' = Existing /\ hub.next_request <= hub'.next_request /\ hub'.next_request \in Nat
    BY <1>4, PlayersOf DEF Reloads
  <2>2. \A q \in Existing :
           /\ ~Unattended(q) => hub'.players[q].load = hub.players[q].load
           /\ Unattended(q) => /\ hub'.players[q].load = hub'.players[q].request
                               /\ hub'.players[q].request <= hub'.next_request
    <3> SUFFICES ASSUME NEW q \in Existing
                 PROVE  /\ ~Unattended(q) => hub'.players[q].load = hub.players[q].load
                        /\ Unattended(q) => /\ hub'.players[q].load = hub'.players[q].request
                                            /\ hub'.players[q].request <= hub'.next_request
      OBVIOUS
    <3>1. /\ ~Unattended(q) => SamePlay(hub'.players[q], hub.players[q])
          /\ Unattended(q) => /\ hub'.players[q].load = hub'.players[q].request
                              /\ hub'.players[q].request <= hub'.next_request
      BY <1>4 DEF Reloads
    <3> QED
      BY <3>1 DEF SamePlay
  <2>3. \A q \in Existing' : hub'.players[q].load <= hub'.next_request
    BY <1>0, <2>1, <2>2
  <2>4. ASSUME NEW s \in sending'
        PROVE  /\ Rising(s.requests) /\ UpTo(s.requests, hub'.next_request)
               /\ From(s.requests, hub.next_request)
    <3>1. /\ s.requests \in Seq(Requests)
          /\ \A i \in DOMAIN s.requests : s.requests[i].request = hub.next_request + i
          /\ \A i \in DOMAIN s.requests : \E q \in Existing :
                Unattended(q) /\ s.requests[i] = LoadOf(q, e)
      BY <1>4 DEF Reloads
    <3>2. \A i \in DOMAIN s.requests : i \in Nat \ {0}
      BY <3>1, LenProperties
    <3>3. Rising(s.requests) /\ From(s.requests, hub.next_request)
      BY <1>0, <3>1, <3>2 DEF Rising, From
    <3>4. UpTo(s.requests, hub'.next_request)
      <4>1. ASSUME NEW i \in DOMAIN s.requests
            PROVE  s.requests[i].request <= hub'.next_request
        <5>1. PICK q \in Existing : Unattended(q) /\ s.requests[i] = LoadOf(q, e)
          BY <3>1
        <5>2. s.requests[i].request = hub'.players[q].request
          BY <5>1 DEF LoadOf
        <5> QED
          BY <2>2, <5>1, <5>2
      <4> QED
        BY <4>1 DEF UpTo
    <3> QED
      BY <3>3, <3>4
  <2> QED
    BY <2>1, <2>3, <2>4
<1>5. ASSUME NEW p \in Windows, Removes(p, p) PROVE Goal
  <2> DEFINE r == [request |-> hub.next_request + 1, player |-> p, op |-> "release",
                   version |-> hub.players[p].version, to |-> RunnerOf(hub, p)]
  <2>1. /\ Existing' = Existing \ {p} /\ hub'.next_request = hub.next_request + 1 /\ OthersStay(p)
    BY <1>5, PlayersOf DEF Removes
  <2>2. \A s \in sending' : s = [by |-> p, requests |-> <<r>>]
    BY <1>5 DEF Removes
  <2>3. r.request = hub.next_request + 1
    OBVIOUS
  <2> HIDE DEF r
  <2>4. \A s \in sending' : /\ Rising(s.requests)
                            /\ UpTo(s.requests, hub'.next_request)
                            /\ From(s.requests, hub.next_request)
    BY <1>1, <2>1, <2>2, <2>3
  <2> QED
    BY <1>0, <2>1, <2>4 DEF OthersStay
<1>6. ASSUME NEW c \in Pages, Creates(c) PROVE Goal
  <2>1. Existing' = Existing \cup {c}
    BY <1>6, PlayersOf DEF Creates
  <2> QED
    BY <1>0, <1>6, <2>1 DEF Creates
<1>7. ASSUME Forgets \/ Drops, sending' = sending PROVE Goal
  <2>1. Existing' = Existing /\ hub'.next_request = hub.next_request
    BY <1>7, PlayersOf DEF Forgets, Drops
  <2>2. \A q \in Existing : hub'.players[q].load \in {0, hub.players[q].load}
    BY <1>7 DEF Forgets, Drops, SamePlay
  <2> QED
    BY <1>0, <1>7, <2>1, <2>2
<1> QED
  BY <1>2, <1>3, <1>4, <1>5, <1>6, <1>7 DEF Calls

\* The hub's numbers stay when it only hears.
LEMMA HearNumbers ==
    ASSUME Typed, \/ hub' = hub
                  \/ \E m : Hears(m)
                  \/ \E ids : Unanswers(ids)
    PROVE  /\ hub'.next_request = hub.next_request /\ hub'.executor = hub.executor
           /\ Existing' = Existing
           /\ \A p \in Existing : SamePlay(hub'.players[p], hub.players[p])
           /\ \A p \in Existing : hub'.players[p].request = hub.players[p].request
<1>1. CASE hub' = hub
  BY <1>1 DEF Existing, SamePlay
<1>2. ASSUME NEW m, Hears(m)
      PROVE  /\ hub'.next_request = hub.next_request /\ hub'.executor = hub.executor
             /\ Existing' = Existing
             /\ \A p \in Existing : SamePlay(hub'.players[p], hub.players[p])
             /\ \A p \in Existing : hub'.players[p].request = hub.players[p].request
  BY <1>2, PlayersOf DEF Hears
<1>3. ASSUME NEW ids, Unanswers(ids)
      PROVE  /\ hub'.next_request = hub.next_request /\ hub'.executor = hub.executor
             /\ Existing' = Existing
             /\ \A p \in Existing : SamePlay(hub'.players[p], hub.players[p])
             /\ \A p \in Existing : hub'.players[p].request = hub.players[p].request
  BY <1>3, PlayersOf DEF Unanswers
<1> QED
  BY <1>1, <1>2, <1>3

\* The numbers of the elements, after the first.
LEMMA RestNumbers ==
    ASSUME NEW s \in Seq(Requests), s # <<>>, Rising(s), NEW n
    PROVE  /\ Rising(Tail(s)) /\ From(Tail(s), s[1].request)
           /\ UpTo(s, n) => UpTo(Tail(s), n) /\ s[1].request <= n
           /\ From(s, n) => From(Tail(s), n) /\ n < s[1].request
<1> DEFINE t == Tail(s)
<1>1. /\ 1 \in DOMAIN s
      /\ \A i \in DOMAIN t : i + 1 \in DOMAIN s /\ t[i] = s[i + 1] /\ i \in Nat \ {0}
      /\ DOMAIN s \subseteq Nat \ {0}
  BY Rest
<1> HIDE DEF t
<1>2. Rising(t)
  <2> SUFFICES ASSUME NEW i \in DOMAIN t, NEW j \in DOMAIN t, i < j
               PROVE  t[i].request < t[j].request
    BY DEF Rising
  <2>1. i + 1 < j + 1
    BY <1>1
  <2> QED
    BY <1>1, <2>1 DEF Rising
<1>3. From(t, s[1].request)
  <2> SUFFICES ASSUME NEW i \in DOMAIN t PROVE s[1].request < t[i].request
    BY DEF From
  <2>1. 1 < i + 1
    BY <1>1
  <2> QED
    BY <1>1, <2>1 DEF Rising
<1>4. UpTo(s, n) => UpTo(t, n) /\ s[1].request <= n
  BY <1>1 DEF UpTo
<1>5. From(s, n) => From(t, n) /\ n < s[1].request
  BY <1>1 DEF From
<1> QED
  BY <1>2, <1>3, <1>4, <1>5 DEF t

\* The numbers of the elements, with one more.
LEMMA MoreNumbers ==
    ASSUME NEW s \in Seq(Requests), NEW r \in Requests, NEW n,
           Rising(s), \A i \in DOMAIN s : s[i].request < r.request
    PROVE  /\ Rising(Append(s, r))
           /\ UpTo(s, n) /\ r.request <= n => UpTo(Append(s, r), n)
           /\ From(s, n) /\ n < r.request => From(Append(s, r), n)
<1> DEFINE t == Append(s, r)
<1>1. /\ DOMAIN t = DOMAIN s \cup {Len(s) + 1} /\ t[Len(s) + 1] = r
      /\ \A i \in DOMAIN s : t[i] = s[i] /\ i \in Nat /\ i < Len(s) + 1
      /\ Len(s) \in Nat
  BY More
<1> HIDE DEF t
<1>2. Rising(t)
  <2> SUFFICES ASSUME NEW i \in DOMAIN t, NEW j \in DOMAIN t, i < j
               PROVE  t[i].request < t[j].request
    BY DEF Rising
  <2>1. i \in DOMAIN s
    BY <1>1
  <2> QED
    BY <1>1, <2>1 DEF Rising
<1>3. UpTo(s, n) /\ r.request <= n => UpTo(t, n)
  BY <1>1 DEF UpTo
<1>4. From(s, n) /\ n < r.request => From(t, n)
  BY <1>1 DEF From
<1> QED
  BY <1>2, <1>3, <1>4 DEF t

\* The parts of Numbered.
LoadsUpTo == \A p \in Existing : hub.players[p].load <= hub.next_request
SendingRises == \A s \in sending : Rising(s.requests) /\ UpTo(s.requests, hub.next_request)
InboxRises(e) ==
    /\ Rising(inbox[e]) /\ UpTo(inbox[e], hub.next_request)
    /\ \A s \in sending : \A i \in DOMAIN inbox[e] : From(s.requests, inbox[e][i].request)
BackendUpTo(e, p) ==
    /\ backend[e][p].load <= hub.next_request
    /\ From(inbox[e], backend[e][p].load)
    /\ \A s \in sending : From(s.requests, backend[e][p].load)

LEMMA NumberedIs ==
    Numbered <=> /\ LoadsUpTo /\ SendingRises
                 /\ \A e \in Executors : InboxRises(e) /\ \A p \in PlayerIds : BackendUpTo(e, p)
BY DEF Numbered, LoadsUpTo, SendingRises, InboxRises, BackendUpTo

LEMMA NumberedStays ==
    ASSUME Typed, Numbered, Next
    PROVE  Numbered'
<1>0. /\ inbox \in [Executors -> Seq(Requests)]
      /\ backend \in [Executors -> [PlayerIds -> [version : Nat, load : Nat]]]
      /\ hub.next_request \in Nat
      /\ \A s \in sending : s.requests \in Seq(Requests)
      /\ \A p \in Existing : hub.players[p].load \in Nat
      /\ Pages \subseteq Executors
      /\ \A e \in Executors, p \in PlayerIds : backend[e][p].load \in Nat
  BY PlayersAre DEF Typed, ExecutorsTyped, SendingTyped, Executors
<1>1. /\ LoadsUpTo /\ SendingRises
      /\ \A e \in Executors : InboxRises(e) /\ \A p \in PlayerIds : BackendUpTo(e, p)
  BY NumberedIs
<1>2. \A r \in Requests : r.request \in Nat
  BY DEF Requests
<1>3. \A e \in Executors : \A i \in DOMAIN inbox[e] : inbox[e][i].request \in Nat
  BY <1>0, <1>2, ElementOfSeq, LenProperties
<1>4. ASSUME hub' = hub, sending' = sending, UNCHANGED <<inbox, backend>> PROVE Numbered'
  BY <1>4 DEF Numbered, Existing
<1>5. ASSUME hub'.next_request = hub.next_request, Existing' = Existing,
             \A p \in Existing : SamePlay(hub'.players[p], hub.players[p])
      PROVE  LoadsUpTo'
  BY <1>1, <1>5 DEF LoadsUpTo, SamePlay
<1>6. ASSUME NEW s \in sending, NEW n \in Nat, n <= hub.next_request,
             NEW i \in DOMAIN s.requests
      PROVE  s.requests[i].request \in Nat
  BY <1>0, <1>2, ElementOfSeq, LenProperties
<1>7. CASE CallStep
  <2>1. /\ hub.next_request <= hub'.next_request /\ LoadsUpTo'
        /\ \A s \in sending' : \/ s \in sending
                               \/ /\ Rising(s.requests) /\ UpTo(s.requests, hub'.next_request)
                                  /\ From(s.requests, hub.next_request)
    BY <1>1, <1>7, CallNumbers DEF CallStep, LoadsUpTo
  <2>2. hub'.next_request \in Nat /\ \A s \in sending' : s.requests \in Seq(Requests)
    BY HubStaysTyped DEF HubTyped, HubsOf, SendingTyped
  <2>3. UNCHANGED <<inbox, backend>>
    BY <1>7 DEF CallStep, ExecutorsStay, executorVars
  <2>4. \A s \in sending' : \A i \in DOMAIN s.requests : s.requests[i].request \in Nat
    BY <1>2, <2>2, ElementOfSeq, LenProperties
  <2>5. SendingRises'
    BY <1>0, <1>1, <2>1, <2>2, <2>4 DEF SendingRises, UpTo
  <2>6. ASSUME NEW n \in Nat, n <= hub.next_request,
               \A s \in sending : From(s.requests, n)
        PROVE  \A s \in sending' : From(s.requests, n)
    BY <1>0, <2>1, <2>4, <2>6 DEF From
  <2>7. ASSUME NEW e \in Executors PROVE InboxRises(e)'
    <3>1. Rising(inbox[e]) /\ UpTo(inbox[e], hub'.next_request)
      BY <1>0, <1>1, <1>3, <2>1, <2>2 DEF InboxRises, UpTo
    <3>2. \A i \in DOMAIN inbox[e] : inbox[e][i].request <= hub.next_request
      BY <1>1 DEF InboxRises, UpTo
    <3>3. \A i \in DOMAIN inbox[e] : \A s \in sending' : From(s.requests, inbox[e][i].request)
      BY <1>1, <1>3, <2>6, <3>2 DEF InboxRises
    <3> QED
      BY <2>3, <3>1, <3>3 DEF InboxRises
  <2>8. ASSUME NEW e \in Executors, NEW p \in PlayerIds PROVE BackendUpTo(e, p)'
    <3>1. \A s \in sending' : From(s.requests, backend[e][p].load)
      BY <1>0, <1>1, <2>6 DEF BackendUpTo
    <3> QED
      BY <1>0, <1>1, <2>1, <2>2, <2>3, <3>1 DEF BackendUpTo
  <2> QED
    BY <2>1, <2>5, <2>7, <2>8 DEF Numbered, LoadsUpTo, SendingRises, InboxRises, BackendUpTo
<1>8. CASE QuietStep
  BY <1>4, <1>8 DEF QuietStep, ExecutorsStay, executorVars
<1>9. ASSUME LoadsUpTo', sending' = sending, hub'.next_request = hub.next_request,
             \A e \in Executors : /\ inbox'[e] = inbox[e] \/ inbox'[e] = <<>>
                                  /\ \A p \in PlayerIds :
                                        \/ backend'[e][p].load = backend[e][p].load
                                        \/ backend'[e][p].load = 0
      PROVE  Numbered'
  <2>1. SendingRises'
    BY <1>1, <1>9 DEF SendingRises
  <2>2. ASSUME NEW e \in Executors PROVE InboxRises(e)'
    BY <1>1, <1>9 DEF InboxRises, Rising, UpTo
  <2>3. ASSUME NEW e \in Executors, NEW p \in PlayerIds PROVE BackendUpTo(e, p)'
    <3>1. /\ backend[e][p].load <= hub.next_request
          /\ From(inbox[e], backend[e][p].load)
          /\ \A s \in sending : From(s.requests, backend[e][p].load)
      BY <1>1 DEF BackendUpTo
    <3>2. /\ From(inbox[e], 0) /\ \A s \in sending : From(s.requests, 0)
      BY <1>0, <1>3, <1>6, <3>1 DEF From
    <3>3. From(<<>>, 0) /\ From(<<>>, backend[e][p].load)
      BY DEF From
    <3>4. \E n \in {0, backend[e][p].load} :
             /\ backend'[e][p].load = n /\ n <= hub.next_request
             /\ From(inbox[e], n) /\ From(<<>>, n) /\ \A s \in sending : From(s.requests, n)
      BY <1>0, <1>9, <3>1, <3>2, <3>3
    <3>5. inbox'[e] = inbox[e] \/ inbox'[e] = <<>>
      BY <1>9
    <3> QED
      BY <1>9, <3>4, <3>5 DEF BackendUpTo
  <2> QED
    BY <1>9, <2>1, <2>2, <2>3 DEF Numbered, LoadsUpTo, SendingRises, InboxRises, BackendUpTo
<1>10. ASSUME NEW c \in Pages, Leaves(c) PROVE Numbered'
  <2>1. LoadsUpTo' /\ hub'.next_request = hub.next_request
    BY <1>5, <1>10, HearNumbers DEF Leaves
  <2>2. \A p \in PlayerIds : [q \in PlayerIds |-> NoElement][p].load = 0
    BY DEF NoElement
  <2>3. \A e \in Executors : /\ inbox'[e] = inbox[e] \/ inbox'[e] = <<>>
                             /\ \A p \in PlayerIds :
                                   \/ backend'[e][p].load = backend[e][p].load
                                   \/ backend'[e][p].load = 0
    BY <1>0, <1>10, <2>2 DEF Leaves
  <2> QED
    BY <1>9, <1>10, <2>1, <2>3 DEF Leaves
<1>11. ASSUME NEW s, NEW r, NEW e, Hands(s, r, e) PROVE Numbered'
  <2>1. /\ sending = {s} /\ s.requests \in Seq(Requests) /\ s.requests # <<>>
        /\ r = s.requests[1] /\ r \in Requests
        /\ \A t \in sending' : t = [by |-> s.by, requests |-> Tail(s.requests)]
        /\ backend' = backend
    BY <1>11 DEF Hands
  <2>2. LoadsUpTo' /\ hub'.next_request = hub.next_request
    BY <1>5, <1>11, HearNumbers DEF Hands
  <2> DEFINE l == Tail(s.requests)
  <2>3. \A t \in sending' : t.requests = l
    <3>1. \A t \in sending' : t = [by |-> s.by, requests |-> l]
      BY <2>1
    <3> HIDE DEF l
    <3> QED
      BY <3>1
  <2>4. Rising(s.requests) /\ UpTo(s.requests, hub.next_request)
    BY <1>1, <2>1 DEF SendingRises
  <2>5. /\ Rising(l) /\ From(l, r.request) /\ UpTo(l, hub.next_request)
        /\ r.request <= hub.next_request
        /\ \A n : From(s.requests, n) => From(l, n) /\ n < r.request
    BY <2>1, <2>4, RestNumbers
  <2> HIDE DEF l
  <2>6. SendingRises'
    BY <2>2, <2>3, <2>5 DEF SendingRises
  <2>7. ASSUME NEW d \in Executors
        PROVE  /\ \A i \in DOMAIN inbox[d] : inbox[d][i].request < r.request
               /\ \A p \in PlayerIds : backend[d][p].load < r.request
               /\ \A i \in DOMAIN inbox[d] : From(l, inbox[d][i].request)
               /\ \A p \in PlayerIds : From(l, backend[d][p].load)
    BY <1>1, <2>1, <2>5 DEF InboxRises, BackendUpTo
  <2>8. ASSUME NEW d \in Executors, inbox'[d] = inbox[d]
        PROVE  InboxRises(d)' /\ \A p \in PlayerIds : BackendUpTo(d, p)'
    BY <1>1, <2>1, <2>2, <2>3, <2>7, <2>8 DEF InboxRises, BackendUpTo
  <2>9. ASSUME e \in Executors, inbox'[e] = Append(inbox[e], r)
        PROVE  InboxRises(e)' /\ \A p \in PlayerIds : BackendUpTo(e, p)'
    <3>1. inbox[e] \in Seq(Requests) /\ Rising(inbox[e]) /\ UpTo(inbox[e], hub.next_request)
      BY <1>0, <1>1, <2>9 DEF InboxRises
    <3> DEFINE m == Append(inbox[e], r)
    <3>2. /\ Rising(m) /\ UpTo(m, hub.next_request)
          /\ \A n : From(inbox[e], n) /\ n < r.request => From(m, n)
      BY <2>1, <2>5, <2>7, <2>9, <3>1, MoreNumbers
    <3>3. \A i \in DOMAIN m : m[i] = r \/ \E j \in DOMAIN inbox[e] : m[i] = inbox[e][j]
      BY <2>1, <3>1, More
    <3> HIDE DEF m
    <3>4. \A i \in DOMAIN m : From(l, m[i].request)
      BY <2>5, <2>7, <2>9, <3>3
    <3>5. inbox'[e] = m
      BY <2>9 DEF m
    <3>6. InboxRises(e)'
      BY <2>2, <2>3, <3>2, <3>4, <3>5 DEF InboxRises
    <3>7. ASSUME NEW p \in PlayerIds PROVE BackendUpTo(e, p)'
      <4>1. /\ backend[e][p].load <= hub.next_request /\ From(inbox[e], backend[e][p].load)
            /\ backend[e][p].load < r.request /\ From(l, backend[e][p].load)
        BY <1>1, <2>7, <2>9 DEF BackendUpTo
      <4> QED
        BY <2>1, <2>2, <2>3, <3>2, <3>5, <4>1 DEF BackendUpTo
    <3> QED
      BY <3>6, <3>7
  <2>10. \A d \in Executors : \/ inbox'[d] = inbox[d]
                              \/ d = e /\ inbox'[d] = Append(inbox[e], r)
    BY <1>0, <1>11 DEF Hands
  <2> QED
    BY <2>2, <2>6, <2>8, <2>9, <2>10 DEF Numbered, LoadsUpTo, SendingRises, InboxRises, BackendUpTo
<1>12. ASSUME NEW e, NEW m, Told(e, m)
       PROVE  LoadsUpTo' /\ hub'.next_request = hub.next_request
  BY <1>5, <1>12, HearNumbers DEF Told
<1>13. ASSUME NEW e, NEW r, Performs(e, r) PROVE Numbered'
  <2>1. /\ e \in Executors /\ inbox[e] # <<>> /\ r = inbox[e][1] /\ r \in Requests
        /\ inbox' = [inbox EXCEPT ![e] = Tail(inbox[e])] /\ sending' = sending
        /\ inbox[e] \in Seq(Requests)
    BY <1>0, <1>13 DEF Performs
  <2>2. LoadsUpTo' /\ hub'.next_request = hub.next_request
    BY <1>5, <1>12, <1>13, HearNumbers DEF Performs
  <2> DEFINE l == Tail(inbox[e])
  <2>3. Rising(inbox[e]) /\ UpTo(inbox[e], hub.next_request)
    BY <1>1, <2>1 DEF InboxRises
  <2>4. /\ Rising(l) /\ From(l, r.request) /\ UpTo(l, hub.next_request)
        /\ r.request <= hub.next_request
        /\ \A n : From(inbox[e], n) => From(l, n)
    BY <2>1, <2>3, RestNumbers
  <2>5. /\ \A i \in DOMAIN l : \E j \in DOMAIN inbox[e] : l[i] = inbox[e][j]
        /\ \E j \in DOMAIN inbox[e] : r = inbox[e][j]
    BY <2>1, Rest
  <2> HIDE DEF l
  <2>6. inbox'[e] = l /\ \A d \in Executors \ {e} : inbox'[d] = inbox[d]
    BY <1>0, <2>1 DEF l
  <2>7. ASSUME NEW d \in Executors PROVE InboxRises(d)'
    <3>1. CASE d # e
      BY <1>1, <2>1, <2>2, <2>6, <3>1 DEF InboxRises
    <3>2. CASE d = e
      <4>1. \A s \in sending : \A i \in DOMAIN l : From(s.requests, l[i].request)
        BY <1>1, <2>1, <2>5 DEF InboxRises
      <4> QED
        BY <2>1, <2>2, <2>4, <2>6, <3>2, <4>1 DEF InboxRises
    <3> QED
      BY <3>1, <3>2
  <2>8. \A d \in Executors, p \in PlayerIds :
           \/ backend'[d][p].load = backend[d][p].load
           \/ d = e /\ backend'[d][p].load \in {0, r.request}
    <3>1. CASE backend' = backend
      BY <3>1
    <3>2. ASSUME NEW loaded, loaded.load \in {0, r.request},
                 backend' = [backend EXCEPT ![e][r.player] = loaded]
          PROVE  \A d \in Executors, p \in PlayerIds :
                    \/ backend'[d][p].load = backend[d][p].load
                    \/ d = e /\ backend'[d][p].load \in {0, r.request}
      BY <1>0, <3>2
    <3> QED
      BY <1>13, <3>1, <3>2 DEF Performs
  <2>9. \A s \in sending : From(s.requests, r.request)
    BY <1>1, <2>1, <2>5 DEF InboxRises
  <2>10. ASSUME NEW d \in Executors, NEW p \in PlayerIds PROVE BackendUpTo(d, p)'
    <3>1. /\ backend[d][p].load <= hub.next_request /\ From(inbox[d], backend[d][p].load)
          /\ \A s \in sending : From(s.requests, backend[d][p].load)
      BY <1>1 DEF BackendUpTo
    <3>2. CASE backend'[d][p].load = backend[d][p].load
      BY <2>1, <2>2, <2>4, <2>6, <3>1, <3>2 DEF BackendUpTo
    <3>3. CASE d = e /\ backend'[d][p].load = r.request
      BY <2>1, <2>2, <2>4, <2>6, <2>9, <3>3 DEF BackendUpTo
    <3>4. CASE d = e /\ backend'[d][p].load = 0
      <4>1. From(inbox[e], 0) /\ \A s \in sending : From(s.requests, 0)
        BY <1>0, <1>3, <1>6, <3>1, <3>4 DEF From
      <4>2. /\ From(l, 0) /\ 0 <= hub.next_request
            /\ backend'[d][p].load = 0 /\ inbox'[d] = l
        BY <1>0, <2>4, <2>6, <3>4, <4>1
      <4> QED
        BY <2>1, <2>2, <4>1, <4>2 DEF BackendUpTo
    <3> QED
      BY <2>8, <3>2, <3>3, <3>4
  <2>11. SendingRises'
    BY <1>1, <2>1, <2>2 DEF SendingRises
  <2> QED
    BY <2>2, <2>7, <2>10, <2>11 DEF Numbered, LoadsUpTo, SendingRises, InboxRises, BackendUpTo
<1>14. ASSUME NEW e, Says(e) PROVE Numbered'
  BY <1>9, <1>12, <1>14 DEF Says
<1>15. ASSUME NEW c \in Pages, Passes(c) PROVE Numbered'
  <2>1. LoadsUpTo' /\ hub'.next_request = hub.next_request
    BY <1>5, <1>15, HearNumbers DEF Passes
  <2> QED
    BY <1>9, <1>15, <2>1 DEF Passes
<1> QED
  BY <1>7, <1>8, <1>10, <1>11, <1>13, <1>14, <1>15, Kinds

-----------------------------------------------------------------------------
(* Who gets the requests about a player.                                   *)

\* Request r, handed over by the thread `by`, is about a player as it is.
Fits(r, by) ==
    LET player == hub.players[r.player]
    IN IF r.player \in Existing
       THEN /\ r.to = RunnerOf(hub, r.player)
            /\ r.op = "load" => r.request = player.load /\ r.version = player.version
            /\ r.op = "unload" => player.source = None
            /\ r.op # "release"
       ELSE by = r.player

LEMMA AddressedIs == Addressed <=> \A s \in sending : \A i \in DOMAIN s.requests : Fits(s.requests[i], s.by)
BY DEF Addressed, Fits

LEMMA AddressedStays ==
    ASSUME Typed, Addressed, Next
    PROVE  Addressed'
<1>0. /\ \A s \in sending : \A i \in DOMAIN s.requests : Fits(s.requests[i], s.by)
      /\ \A s \in sending : s.requests \in Seq(Requests)
  BY AddressedIs DEF Typed, SendingTyped
<1>1. ASSUME hub'.executor = hub.executor, Existing' = Existing,
             \A p \in Existing : SamePlay(hub'.players[p], hub.players[p]),
             NEW r, NEW by, Fits(r, by)
      PROVE  Fits(r, by)'
  BY <1>1 DEF Fits, SamePlay, RunnerOf
<1>2. ASSUME hub' = hub, NEW r, NEW by, Fits(r, by) PROVE Fits(r, by)'
  BY <1>2 DEF Fits, Existing
<1>3. ASSUME sending' = sending,
             \/ hub' = hub
             \/ \E m : Hears(m)
             \/ \E ids : Unanswers(ids)
      PROVE  Addressed'
  BY <1>0, <1>1, <1>2, <1>3, HearNumbers DEF Addressed, Fits
<1>4. ASSUME NEW e, NEW m, Told(e, m), sending' = sending PROVE Addressed'
  BY <1>3, <1>4 DEF Told
<1>5. ASSUME NEW by, NEW r, Fits(r, by)',
             \A s \in sending' : s = [by |-> by, requests |-> <<r>>]
      PROVE  Addressed'
  <2> DEFINE l == <<r>>
  <2>1. DOMAIN l = {1} /\ l[1] = r
    OBVIOUS
  <2>2. \A s \in sending' : s = [by |-> by, requests |-> l]
    BY <1>5
  <2> HIDE DEF l
  <2>3. \A s \in sending' : s.by = by /\ s.requests = l
    BY <2>2
  <2>4. \A s \in sending' : \A i \in DOMAIN s.requests : Fits(s.requests[i], s.by)'
    BY <1>5, <2>1, <2>3
  <2> QED
    BY <2>4 DEF Addressed, Fits
<1>6. ASSUME NEW by, NEW p, NEW op, Asks(by, p, op) PROVE Addressed'
  <2> DEFINE r == [request |-> hub.next_request + 1, player |-> p,
                   version |-> hub'.players[p].version, op |-> op, to |-> RunnerOf(hub', p)]
  <2>1. /\ Existing' = Existing /\ p \in Existing /\ op \in {"load", "unload", "control"}
        /\ op = "load" => hub'.players[p].load = hub.next_request + 1
        /\ op = "unload" => hub'.players[p].source = None
        /\ sending' = {[by |-> by, requests |-> <<r>>]}
    BY <1>6, PlayersOf DEF Asks
  <2>2. /\ r.player = p /\ r.op = op /\ r.to = RunnerOf(hub', p)
        /\ r.request = hub.next_request + 1 /\ r.version = hub'.players[p].version
    OBVIOUS
  <2>3. PICK a : a = r
    OBVIOUS
  <2> HIDE DEF r
  <2>4. \A s \in sending' : s = [by |-> by, requests |-> <<a>>]
    BY <2>1, <2>3
  <2>5. Fits(a, by)'
    BY <2>1, <2>2, <2>3 DEF Fits
  <2> QED
    BY <1>5, <2>4, <2>5
<1>7. ASSUME NEW p, Notes(p) PROVE Addressed'
  BY <1>7 DEF Notes, Addressed
<1>8. ASSUME NEW by, NEW e, Reloads(by, e) PROVE Addressed'
  <2>1. Existing' = Existing /\ hub' \in HubsOf(Existing) /\ hub'.executor = e
    BY <1>8, PlayersOf DEF Reloads
  <2>2. ASSUME NEW s \in sending', NEW i \in DOMAIN s.requests
        PROVE  Fits(s.requests[i], s.by)'
    <3>1. PICK q \in Existing : Unattended(q) /\ s.requests[i] = LoadOf(q, e)
      BY <1>8 DEF Reloads
    <3> DEFINE r == s.requests[i]
    <3>2. /\ r.player = q /\ r.op = "load" /\ r.to = e
          /\ r.request = hub'.players[q].request /\ r.version = hub'.players[q].version
      BY <3>1 DEF LoadOf
    <3>3. hub'.players[q].load = hub'.players[q].request /\ ~hub'.players[q].runner
      BY <1>8, <3>1 DEF Reloads
    <3>4. RunnerOf(hub', q) = e
      BY <2>1, <3>3 DEF RunnerOf
    <3> HIDE DEF r
    <3>5. Fits(r, s.by)'
      BY <2>1, <3>1, <3>2, <3>3, <3>4 DEF Fits
    <3> QED
      BY <3>5 DEF r
  <2> QED
    BY <2>2 DEF Addressed, Fits
<1>9. ASSUME NEW p \in Windows, Removes(p, p) PROVE Addressed'
  <2> DEFINE r == [request |-> hub.next_request + 1, player |-> p, op |-> "release",
                   version |-> hub.players[p].version, to |-> RunnerOf(hub, p)]
  <2>1. p \notin Existing' /\ \A s \in sending' : s = [by |-> p, requests |-> <<r>>]
    BY <1>9, PlayersOf DEF Removes
  <2>2. r.player = p
    OBVIOUS
  <2>3. PICK a : a = r
    OBVIOUS
  <2> HIDE DEF r
  <2>4. \A s \in sending' : s = [by |-> p, requests |-> <<a>>]
    BY <2>1, <2>3
  <2>5. Fits(a, p)'
    BY <2>1, <2>2, <2>3 DEF Fits
  <2> QED
    BY <1>5, <2>4, <2>5
<1>10. ASSUME NEW c \in Pages, Creates(c) PROVE Addressed'
  <2>1. /\ Existing' = Existing \cup {c} /\ sending' = sending /\ c \notin Existing
        /\ \A s \in sending : s.by # c
        /\ \A q \in Existing : hub'.players[q] = hub.players[q]
        /\ hub'.executor = hub.executor
    BY <1>10, PlayersOf DEF Creates
  <2>2. ASSUME NEW r, NEW by, Fits(r, by), by # c PROVE Fits(r, by)'
    BY <2>1, <2>2 DEF Fits, RunnerOf
  <2> QED
    BY <1>0, <2>1, <2>2 DEF Addressed, Fits
<1>11. ASSUME Forgets \/ Drops, sending' = sending PROVE Addressed'
  BY <1>11 DEF Forgets, Drops, Addressed
<1>12. CASE CallStep
  BY <1>6, <1>7, <1>8, <1>9, <1>10, <1>11, <1>12 DEF CallStep, Calls
<1>13. CASE QuietStep
  BY <1>3, <1>13 DEF QuietStep
<1>14. ASSUME NEW s, NEW r, NEW e, Hands(s, r, e) PROVE Addressed'
  <2>1. /\ s \in sending /\ s.requests \in Seq(Requests) /\ s.requests # <<>>
        /\ \A t \in sending' : t = [by |-> s.by, requests |-> Tail(s.requests)]
    BY <1>14 DEF Hands
  <2> DEFINE l == Tail(s.requests)
  <2>2. \A t \in sending' : t = [by |-> s.by, requests |-> l]
    BY <2>1
  <2>3. \A i \in DOMAIN l : \E j \in DOMAIN s.requests : l[i] = s.requests[j]
    BY <2>1, Rest
  <2> HIDE DEF l
  <2>4. \A t \in sending' : t.by = s.by /\ t.requests = l
    BY <2>2
  <2>5. \A i \in DOMAIN l : Fits(l[i], s.by)
    BY <1>0, <2>1, <2>3
  <2>6. hub' = hub \/ \E ids : Unanswers(ids)
    BY <1>14 DEF Hands
  <2>7. \A i \in DOMAIN l : Fits(l[i], s.by)'
    BY <1>1, <1>2, <2>5, <2>6, HearNumbers
  <2>8. \A t \in sending' : \A i \in DOMAIN t.requests : Fits(t.requests[i], t.by)'
    BY <2>4, <2>7
  <2> QED
    BY <2>8 DEF Addressed, Fits
<1>15. ASSUME NEW e, NEW r, Performs(e, r) PROVE Addressed'
  BY <1>3, <1>4, <1>15 DEF Performs
<1>16. ASSUME NEW e, Says(e) PROVE Addressed'
  BY <1>4, <1>16 DEF Says
<1>17. ASSUME NEW c \in Pages, Leaves(c) \/ Passes(c) PROVE Addressed'
  BY <1>3, <1>17 DEF Leaves, Passes
<1> QED
  BY <1>12, <1>13, <1>14, <1>15, <1>16, <1>17, Kinds

\* Something about p is handed over.
Spoken(p) == \E s \in sending : \E i \in DOMAIN s.requests : About(s, i, p)

\* Executor e has nothing of p.
Clean(e, p) ==
    /\ \A i \in DOMAIN inbox[e] : inbox[e][i].player # p
    /\ backend[e][p] = NoElement
    /\ \A i \in DOMAIN outbox[e] : outbox[e][i].type = "observe" => outbox[e][i].player # p

\* The player of window p is with its page.
OwnedBy(p) ==
    /\ router.players[p] \in {p, None}
    /\ p \in Existing => Housed(p)
    /\ p \in Existing \/ Spoken(p) => router.players[p] = p /\ Listed(p)

LEMMA OwnedIs == Owned <=> \A p \in Windows : OwnedBy(p) /\ \A e \in Pages \ {p} : Clean(e, p)
BY DEF Owned, OwnedBy, Spoken, Clean, Housed

\* A call speaks of players that exist, or did.
LEMMA CallsSpeak ==
    ASSUME Typed, Calls, NEW p, p \in Existing' \/ Spoken(p)'
    PROVE  \/ p \in Existing \/ Spoken(p)
           \/ p \in Pages /\ Creates(p) /\ p \in Existing'
<1> DEFINE Goal == \/ p \in Existing \/ Spoken(p)
                   \/ p \in Pages /\ Creates(p) /\ p \in Existing'
<1>1. ASSUME NEW by, NEW r, \A s \in sending' : s = [by |-> by, requests |-> <<r>>], Spoken(p)'
      PROVE  p = r.player
  <2> DEFINE l == <<r>>
  <2>1. DOMAIN l = {1} /\ l[1] = r
    OBVIOUS
  <2>2. \A s \in sending' : s = [by |-> by, requests |-> l]
    BY <1>1
  <2> HIDE DEF l
  <2>3. \A s \in sending' : s.requests = l
    BY <2>2
  <2> QED
    BY <1>1, <2>1, <2>3 DEF Spoken, About
<1>2. ASSUME NEW by, NEW q, NEW op, Asks(by, q, op) PROVE Goal
  <2> DEFINE r == [request |-> hub.next_request + 1, player |-> q,
                   version |-> hub'.players[q].version, op |-> op, to |-> RunnerOf(hub', q)]
  <2>1. Existing' = Existing /\ q \in Existing /\ sending' = {[by |-> by, requests |-> <<r>>]}
    BY <1>2, PlayersOf DEF Asks
  <2>2. r.player = q
    OBVIOUS
  <2> HIDE DEF r
  <2>3. Spoken(p)' => p = q
    BY <1>1, <2>1, <2>2
  <2> QED
    BY <2>1, <2>3
<1>3. ASSUME NEW q, Notes(q) PROVE Goal
  BY <1>3, PlayersOf DEF Notes, Spoken
<1>4. ASSUME NEW by, NEW e, Reloads(by, e) PROVE Goal
  <2>1. Existing' = Existing
    BY <1>4, PlayersOf DEF Reloads
  <2>2. ASSUME Spoken(p)' PROVE p \in Existing
    <3>1. PICK s \in sending' : \E i \in DOMAIN s.requests : s.requests[i].player = p
      BY <2>2 DEF Spoken, About
    <3>2. PICK i \in DOMAIN s.requests : s.requests[i].player = p
      BY <3>1
    <3>3. PICK q \in Existing : s.requests[i] = LoadOf(q, e)
      BY <1>4 DEF Reloads
    <3> QED
      BY <3>2, <3>3 DEF LoadOf
  <2> QED
    BY <2>1, <2>2
<1>5. ASSUME NEW q \in Windows, Removes(q, q) PROVE Goal
  <2> DEFINE r == [request |-> hub.next_request + 1, player |-> q, op |-> "release",
                   version |-> hub.players[q].version, to |-> RunnerOf(hub, q)]
  <2>1. /\ Existing' = Existing \ {q} /\ q \in Existing
        /\ \A s \in sending' : s = [by |-> q, requests |-> <<r>>]
    BY <1>5, PlayersOf DEF Removes
  <2>2. r.player = q
    OBVIOUS
  <2> HIDE DEF r
  <2>3. Spoken(p)' => p = q
    BY <1>1, <2>1, <2>2
  <2> QED
    BY <2>1, <2>3
<1>6. ASSUME NEW c \in Pages, Creates(c) PROVE Goal
  <2>1. Existing' = Existing \cup {c} /\ sending' = sending
    BY <1>6, PlayersOf DEF Creates
  <2>2. Spoken(p)' => Spoken(p)
    BY <2>1 DEF Spoken, About
  <2> QED
    BY <1>6, <2>1, <2>2
<1>7. ASSUME Forgets \/ Drops, sending' = sending PROVE Goal
  <2>1. Existing' = Existing
    BY <1>7, PlayersOf DEF Forgets, Drops
  <2>2. Spoken(p)' => Spoken(p)
    BY <1>7 DEF Spoken, About
  <2> QED
    BY <2>1, <2>2
<1> QED
  BY <1>2, <1>3, <1>4, <1>5, <1>6, <1>7 DEF Calls

\* What is handed over about a player that is gone is handed over by its page.
LEMMA GoneSpeaks ==
    ASSUME Addressed, NEW c, c \notin Existing, \A s \in sending : s.by # c
    PROVE  ~Spoken(c)
BY DEF Addressed, Spoken, About

\* The router sends what is about a window to its page.
LEMMA WindowRouted ==
    ASSUME Members, NEW p \in Pages, router.players[p] = p, Listed(p)
    PROVE  Routed(p) = p
BY DEF Members, Routed

LEMMA OwnedStays ==
    ASSUME Typed, Members, Addressed, Owned, Next
    PROVE  Owned'
<1>0. /\ inbox \in [Executors -> Seq(Requests)]
      /\ backend \in [Executors -> [PlayerIds -> [version : Nat, load : Nat]]]
      /\ outbox \in [Pages -> Seq(Reports)]
      /\ thread \in [Pages -> Steps]
      /\ router \in [executors : Seq(Pages), players : [PlayerIds -> Pages \cup {None}]]
      /\ Pages \subseteq Executors /\ "device" \notin Pages
  BY MediaAssumption DEF Typed, ExecutorsTyped, RouterTyped, Executors
<1>1. SUFFICES ASSUME NEW p \in Windows
               PROVE  OwnedBy(p)' /\ \A e \in Pages \ {p} : Clean(e, p)'
  BY DEF Owned, OwnedBy, Spoken, Clean, Housed
<1>2. /\ OwnedBy(p) /\ \A e \in Pages \ {p} : Clean(e, p)
      /\ p \in Pages /\ p \in PlayerIds /\ p \notin Application /\ p # None
  BY OwnedIs, MediaAssumption DEF PlayerIds
<1>3. ASSUME ExecutorsStay, NEW e \in Pages \ {p} PROVE Clean(e, p)'
  BY <1>2, <1>3 DEF ExecutorsStay, executorVars, Clean
<1>4. ASSUME hub' = hub, sending' = sending
      PROVE  (Existing' = Existing) /\ (Spoken(p)' <=> Spoken(p))
  BY <1>4 DEF Existing, Spoken, About
<1>5. CASE CallStep
  <2>1. ExecutorsStay /\ Keeps /\ Calls
    BY <1>5 DEF CallStep
  <2>2. CASE p \in Existing' /\ p \notin Existing /\ Creates(p)
    <3>1. router'.players[p] = p /\ thread[p] = Receiving
      BY <2>2 DEF Creates
    <3>2. Housed(p) /\ Listed(p)
      BY <3>1 DEF Housed, Listed, IsAt, Receiving
    <3>3. OwnedBy(p)'
      BY <1>2, <2>1, <2>2, <3>1, <3>2 DEF OwnedBy, Keeps
    <3> QED
      BY <1>3, <2>1, <3>3
  <2>3. CASE ~(p \in Existing' /\ p \notin Existing)
    <3>1. /\ router'.players[p] = router.players[p] /\ (Listed(p)' <=> Listed(p))
          /\ Housed(p) /\ p \in Existing' => Housed(p)'
      BY <1>2, <2>1, <2>3 DEF Keeps
    <3>2. p \in Existing' \/ Spoken(p)' => p \in Existing \/ Spoken(p)
      BY <2>1, <2>3, CallsSpeak DEF Creates
    <3>3. OwnedBy(p)'
      BY <1>2, <2>3, <3>1, <3>2 DEF OwnedBy
    <3> QED
      BY <1>3, <2>1, <3>3
  <2>4. p \in Existing' /\ p \notin Existing => Creates(p)
    <3> SUFFICES ASSUME p \in Existing', p \notin Existing PROVE Creates(p)
      OBVIOUS
    <3>1. CASE \E c \in Pages : Creates(c)
      <4>1. PICK c \in Pages : Creates(c)
        BY <3>1
      <4>2. Existing' = Existing \cup {c}
        BY <4>1, PlayersOf DEF Creates
      <4> QED
        BY <4>1, <4>2
    <3>2. CASE \E by, q, op : Asks(by, q, op)
      BY <3>2, PlayersOf DEF Asks
    <3>3. CASE \E q : Notes(q)
      BY <3>3, PlayersOf DEF Notes
    <3>4. CASE \E by, e : Reloads(by, e)
      BY <3>4, PlayersOf DEF Reloads
    <3>5. CASE \E q \in Windows : Removes(q, q)
      BY <3>5, PlayersOf DEF Removes
    <3>6. CASE Forgets \/ Drops
      BY <3>6, PlayersOf DEF Forgets, Drops
    <3> QED
      BY <2>1, <3>1, <3>2, <3>3, <3>4, <3>5, <3>6 DEF Calls
  <2> QED
    BY <2>2, <2>3, <2>4
<1>6. CASE QuietStep
  <2>1. ExecutorsStay /\ (Existing' = Existing) /\ (Spoken(p)' <=> Spoken(p))
    BY <1>4, <1>6 DEF QuietStep
  <2>2. ASSUME Keeps PROVE OwnedBy(p)'
    <3>1. /\ router'.players[p] = router.players[p] /\ (Listed(p)' <=> Listed(p))
          /\ Housed(p) /\ p \in Existing' => Housed(p)'
      BY <1>2, <2>1, <2>2 DEF Keeps
    <3> QED
      BY <1>2, <2>1, <3>1 DEF OwnedBy
  <2>3. ASSUME NEW c \in Pages, Attach(c) PROVE OwnedBy(p)'
    <3>1. router'.players = router.players /\ thread[c] = <<"new">>
      BY <2>3, Coming DEF Attach
    <3>2. (Listed(p) => Listed(p)') /\ (Housed(p) => Housed(p)')
      <4>1. p # c => thread'[p] = thread[p]
        BY <1>2, <2>3, Coming
      <4> QED
        BY <3>1, <4>1 DEF Listed, Housed, IsAt
    <3> QED
      BY <1>2, <2>1, <3>1, <3>2 DEF OwnedBy
  <2>4. ASSUME NEW c \in Pages, thread[c][1] \in {"detach", "unclaim"}, \A s \in sending : s.by # c,
               p = c
        PROVE  p \notin Existing /\ ~Spoken(p)
    BY <1>2, <2>4, GoneSpeaks DEF OwnedBy, Housed, IsAt
  <2>5. ASSUME NEW c \in Pages, Detach(c) PROVE OwnedBy(p)'
    <3>1. /\ router'.players[p] = IF router.players[p] = c THEN None ELSE router.players[p]
          /\ \A d \in Pages \ {c} : thread'[d] = thread[d]
      BY <1>2, <2>5, Detaching
    <3>2. thread[c][1] = "detach" /\ \A s \in sending : s.by # c
      BY <2>5 DEF Detach
    <3>3. CASE p = c
      BY <1>2, <2>1, <2>4, <3>1, <3>2, <3>3 DEF OwnedBy
    <3>4. CASE p # c
      BY <1>2, <2>1, <3>1, <3>4 DEF OwnedBy, Housed, Listed, IsAt
    <3> QED
      BY <3>3, <3>4
  <2>6. ASSUME NEW c \in Pages, Unclaim(c) PROVE OwnedBy(p)'
    <3>1. /\ thread[c][1] = "unclaim" /\ (\A s \in sending : s.by # c)
          /\ router' = [router EXCEPT !.players[c] = None] /\ thread' = [thread EXCEPT ![c] = Receiving]
      BY <2>6 DEF Unclaim, Goes
    <3>2. /\ p = c => router'.players[p] = None
          /\ p # c => router'.players[p] = router.players[p] /\ thread'[p] = thread[p]
      BY <1>0, <1>2, <3>1
    <3>3. CASE p = c
      BY <1>2, <2>1, <2>4, <3>1, <3>2, <3>3 DEF OwnedBy
    <3>4. CASE p # c
      BY <1>2, <2>1, <3>2, <3>4 DEF OwnedBy, Housed, Listed, IsAt
    <3> QED
      BY <3>3, <3>4
  <2>7. ASSUME NEW c \in Pages, NEW q \in Application, Claiming(c, q) PROVE OwnedBy(p)'
    <3>1. router'.players[p] = router.players[p]
      BY <1>0, <1>2, <2>7 DEF Claiming, Claims
    <3>2. (Listed(p) => Listed(p)') /\ (Housed(p) => Housed(p)')
      BY <1>0, <1>2, <2>7 DEF Claiming, Listed, Housed, IsAt
    <3> QED
      BY <1>2, <2>1, <3>1, <3>2 DEF OwnedBy
  <2> QED
    BY <1>3, <1>6, <2>1, <2>2, <2>3, <2>5, <2>6, <2>7 DEF QuietStep
<1>7. ASSUME sending' = sending, Existing' = Existing, UNCHANGED <<router, thread>>
      PROVE  OwnedBy(p)'
  BY <1>2, <1>7 DEF OwnedBy, Spoken, About, Housed, Listed, IsAt
<1>8. ASSUME NEW c \in Pages, Leaves(c) PROVE OwnedBy(p)' /\ \A e \in Pages \ {p} : Clean(e, p)'
  <2>1. Existing' = Existing /\ UNCHANGED <<sending, router>>
    BY <1>8, HearNumbers DEF Leaves
  <2>2. (Listed(p) => Listed(p)') /\ (Housed(p) => Housed(p)')
    BY <1>0, <1>2, <1>8 DEF Leaves, Listed, Housed, IsAt
  <2>3. OwnedBy(p)'
    BY <1>2, <2>1, <2>2 DEF OwnedBy, Spoken, About
  <2>4. ASSUME NEW e \in Pages \ {p} PROVE Clean(e, p)'
    BY <1>0, <1>2, <1>8 DEF Leaves, Clean
  <2> QED
    BY <2>3, <2>4
<1>9. ASSUME NEW s, NEW r, NEW e, Hands(s, r, e)
      PROVE  OwnedBy(p)' /\ \A d \in Pages \ {p} : Clean(d, p)'
  <2>1. /\ s \in sending /\ s.requests \in Seq(Requests) /\ s.requests # <<>>
        /\ r = s.requests[1] /\ r \in Requests
        /\ \A t \in sending' : t = [by |-> s.by, requests |-> Tail(s.requests)]
        /\ UNCHANGED <<router, thread, backend, outbox>>
        /\ e = IF r.to = "device" THEN "device" ELSE Routed(r.player)
    BY <1>9 DEF Hands
  <2>2. Existing' = Existing
    BY <1>9, HearNumbers DEF Hands
  <2> DEFINE l == Tail(s.requests)
  <2>3. \A t \in sending' : t = [by |-> s.by, requests |-> l]
    BY <2>1
  <2>4. /\ \A i \in DOMAIN l : \E j \in DOMAIN s.requests : l[i] = s.requests[j]
        /\ 1 \in DOMAIN s.requests
    BY <2>1, Rest
  <2> HIDE DEF l
  <2>5. Spoken(p)' => Spoken(p)
    <3>1. \A t \in sending' : t.requests = l
      BY <2>3
    <3> QED
      BY <2>1, <2>4, <3>1 DEF Spoken, About
  <2>6. OwnedBy(p)'
    BY <1>2, <2>1, <2>2, <2>5 DEF OwnedBy, Housed, Listed, IsAt
  <2>7. r.player = p => e \in {"device", p}
    <3>1. r.player = p => Spoken(p)
      BY <2>1, <2>4 DEF Spoken, About
    <3> QED
      BY <1>2, <2>1, <3>1, WindowRouted DEF OwnedBy
  <2>8. ASSUME NEW d \in Pages \ {p} PROVE Clean(d, p)'
    <3>1. CASE inbox'[d] = inbox[d]
      BY <1>2, <2>1, <3>1 DEF Clean
    <3>2. CASE d = e /\ inbox'[d] = Append(inbox[d], r)
      <4>1. r.player # p
        BY <1>0, <2>7, <3>2
      <4>2. \A i \in DOMAIN Append(inbox[d], r) :
               Append(inbox[d], r)[i] = r \/ \E j \in DOMAIN inbox[d] : Append(inbox[d], r)[i] = inbox[d][j]
        BY <1>0, <2>1, More
      <4>3. \A i \in DOMAIN inbox[d] : inbox[d][i].player # p
        BY <1>2 DEF Clean
      <4>4. \A i \in DOMAIN inbox'[d] : inbox'[d][i].player # p
        BY <3>2, <4>1, <4>2, <4>3
      <4> QED
        BY <1>2, <2>1, <4>4 DEF Clean
    <3> QED
      BY <1>0, <1>9, <3>1, <3>2 DEF Hands
  <2> QED
    BY <2>6, <2>8
<1>10. ASSUME NEW e, NEW m, Told(e, m), m.type = "observe" /\ e \in Pages \ {p} => m.player # p
       PROVE  \A d \in Pages \ {p} : \A i \in DOMAIN outbox'[d] :
                 outbox'[d][i].type = "observe" => outbox'[d][i].player # p
  <2> SUFFICES ASSUME NEW d \in Pages \ {p}
               PROVE  \A i \in DOMAIN outbox'[d] :
                         outbox'[d][i].type = "observe" => outbox'[d][i].player # p
    OBVIOUS
  <2>1. \A i \in DOMAIN outbox[d] : outbox[d][i].type = "observe" => outbox[d][i].player # p
    BY <1>2 DEF Clean
  <2>2. CASE outbox'[d] = outbox[d]
    BY <2>1, <2>2
  <2>3. CASE d = e /\ outbox'[d] = Append(outbox[d], m)
    <3>1. outbox[d] \in Seq(Reports) /\ m \in Reports
      BY <1>0, <1>10 DEF Told
    <3>2. \A i \in DOMAIN Append(outbox[d], m) :
             Append(outbox[d], m)[i] = m \/ \E j \in DOMAIN outbox[d] : Append(outbox[d], m)[i] = outbox[d][j]
      BY <3>1, More
    <3> QED
      BY <1>10, <2>1, <2>3, <3>2
  <2> QED
    BY <1>0, <1>10, <2>2, <2>3 DEF Told
<1>11. ASSUME NEW e, NEW m, Told(e, m) PROVE Existing' = Existing
  BY <1>11, HearNumbers DEF Told
<1>12. ASSUME NEW e, NEW r, Performs(e, r)
       PROVE  OwnedBy(p)' /\ \A d \in Pages \ {p} : Clean(d, p)'
  <2>1. /\ e \in Executors /\ inbox[e] \in Seq(Requests) /\ inbox[e] # <<>> /\ r = inbox[e][1]
        /\ inbox' = [inbox EXCEPT ![e] = Tail(inbox[e])] /\ UNCHANGED <<sending, router, thread>>
    BY <1>0, <1>12 DEF Performs
  <2>2. Existing' = Existing
    BY <1>11, <1>12 DEF Performs, Existing
  <2>3. /\ \A i \in DOMAIN Tail(inbox[e]) : \E j \in DOMAIN inbox[e] : Tail(inbox[e])[i] = inbox[e][j]
        /\ 1 \in DOMAIN inbox[e]
    BY <2>1, Rest
  <2>4. e \in Pages \ {p} => r.player # p
    BY <1>2, <2>1, <2>3 DEF Clean
  <2>5. Answer(r).type # "observe"
    BY DEF Answer
  <2>6. \A d \in Pages \ {p} : \A i \in DOMAIN outbox'[d] :
           outbox'[d][i].type = "observe" => outbox'[d][i].player # p
    BY <1>2, <1>10, <1>12, <2>5 DEF Performs, Clean
  <2>7. \A d \in Pages \ {p} : backend'[d][p] = NoElement
    <3>1. CASE backend' = backend
      BY <1>2, <3>1 DEF Clean
    <3>2. ASSUME NEW loaded, backend' = [backend EXCEPT ![e][r.player] = loaded]
          PROVE  \A d \in Pages \ {p} : backend'[d][p] = NoElement
      BY <1>0, <1>2, <2>4, <3>2 DEF Clean
    <3> QED
      BY <1>12, <3>1, <3>2 DEF Performs
  <2>8. \A d \in Pages \ {p} : \A i \in DOMAIN inbox'[d] : inbox'[d][i].player # p
    BY <1>0, <1>2, <2>1, <2>3 DEF Clean
  <2> QED
    BY <1>7, <2>1, <2>2, <2>6, <2>7, <2>8 DEF Clean
<1>13. ASSUME NEW e, Says(e) PROVE OwnedBy(p)' /\ \A d \in Pages \ {p} : Clean(d, p)'
  <2>1. UNCHANGED <<sending, router, thread, inbox, backend>> /\ Existing' = Existing
    BY <1>11, <1>13 DEF Says
  <2>2. \A d \in Pages \ {p} : \A i \in DOMAIN outbox'[d] :
           outbox'[d][i].type = "observe" => outbox'[d][i].player # p
    <3>1. ASSUME NEW r, Told(e, Answer(r))
          PROVE  \A d \in Pages \ {p} : \A i \in DOMAIN outbox'[d] :
                    outbox'[d][i].type = "observe" => outbox'[d][i].player # p
      <4>1. Answer(r).type # "observe"
        BY DEF Answer
      <4> QED
        BY <1>10, <3>1, <4>1
    <3>2. ASSUME NEW q \in PlayerIds, backend[e][q].load # 0, NEW m, Told(e, m),
                 m = [type |-> "observe", player |-> q, version |-> backend[e][q].version,
                      load |-> backend[e][q].load]
          PROVE  \A d \in Pages \ {p} : \A i \in DOMAIN outbox'[d] :
                    outbox'[d][i].type = "observe" => outbox'[d][i].player # p
      <4>1. m.player = q
        BY <3>2
      <4>2. e \in Pages \ {p} => q # p
        <5>1. e \in Pages \ {p} => backend[e][p].load = 0
          BY <1>2 DEF Clean, NoElement
        <5> QED
          BY <3>2, <5>1
      <4> QED
        BY <1>10, <3>2, <4>1, <4>2
    <3> QED
      BY <1>13, <3>1, <3>2 DEF Says
  <2> QED
    BY <1>2, <1>7, <2>1, <2>2 DEF Clean
<1>14. ASSUME NEW c \in Pages, Passes(c) PROVE OwnedBy(p)' /\ \A d \in Pages \ {p} : Clean(d, p)'
  <2>1. /\ UNCHANGED <<sending, router, thread, inbox, backend>> /\ Existing' = Existing
        /\ outbox[c] \in Seq(Reports) /\ outbox[c] # <<>>
        /\ outbox' = [outbox EXCEPT ![c] = Tail(outbox[c])]
    BY <1>0, <1>14, HearNumbers DEF Passes
  <2>2. \A i \in DOMAIN Tail(outbox[c]) : \E j \in DOMAIN outbox[c] : Tail(outbox[c])[i] = outbox[c][j]
    BY <2>1, Rest
  <2>3. \A d \in Pages \ {p} : \A i \in DOMAIN outbox'[d] :
           outbox'[d][i].type = "observe" => outbox'[d][i].player # p
    BY <1>0, <1>2, <2>1, <2>2 DEF Clean
  <2> QED
    BY <1>2, <1>7, <2>1, <2>3 DEF Clean
<1> QED
  BY <1>5, <1>6, <1>8, <1>9, <1>12, <1>13, <1>14, Kinds

-----------------------------------------------------------------------------
(* What waits is coming.                                                   *)

\* Page e answered request n.
Said(e, n) ==
    /\ e # "device"
    /\ \E i \in DOMAIN outbox[e] : outbox[e][i].type = "complete" /\ outbox[e][i].request = n

\* Executor e has, or had and still says, request n.
With(e, n) ==
    \/ \E i \in DOMAIN inbox[e] : inbox[e][i].request = n
    \/ \E r \in performing[e] : r.request = n
    \/ Said(e, n)

LEMMA HandedIs ==
    ASSUME NEW e, NEW n
    PROVE  (\E r \in Handed(e) : r.request = n) <=> With(e, n)
BY DEF Handed, Completes, With, Said, Range

\* A thread is about to hand over request n, about p.
Going(p, n) == \E s \in sending : \E i \in DOMAIN s.requests : s.requests[i].request = n /\ About(s, i, p)

\* An executor that may run p has request n.
Held(p, n) == \E e \in Executors : (hub.players[p].runner => e # "device") /\ With(e, n)

\* The entry of what waits.
Entry(p, n) == [request |-> n, player |-> p]

\* Player p waits for its newest request.
Waits(p) == hub.players[p].status = "accepted" /\ ~hub.players[p].lost

\* The request is noted, and on its way.
Due(p) ==
    LET n == hub.players[p].request
    IN Entry(p, n) \in hub.pending /\ (Going(p, n) \/ Held(p, n))

\* It is about to be handed over.
JustDue(p) ==
    LET n == hub.players[p].request
    IN Entry(p, n) \in hub.pending /\ Going(p, n)

LEMMA AwaitedIs == Awaited <=> (~raced => \A p \in Existing : Waits(p) => Due(p))
BY HandedIs DEF Awaited, ComingFor, Waits, Due, Entry, Going, Held

\* What a player waits for across a call.
LEMMA CallWaits ==
    ASSUME Typed, Calls, NEW p \in Existing', Waits(p)'
    PROVE  LET new == hub'.players[p]
               old == hub.players[p]
           IN \/ JustDue(p)'
              \/ /\ p \in Existing /\ Waits(p) /\ new.request = old.request /\ new.runner = old.runner
                 /\ Entry(p, old.request) \in hub.pending => Entry(p, old.request) \in hub'.pending
                 /\ sending' = sending \/ sending = {}
              \/ /\ p \in Existing /\ Waits(p) /\ old.runner /\ sending = {}
                 /\ \E c \in Pages : IsAt(c, {"forget"})
<1> DEFINE new == hub'.players[p]
           old == hub.players[p]
           Goal == \/ JustDue(p)'
                   \/ /\ p \in Existing /\ Waits(p) /\ new.request = old.request /\ new.runner = old.runner
                      /\ Entry(p, old.request) \in hub.pending => Entry(p, old.request) \in hub'.pending
                      /\ sending' = sending \/ sending = {}
                   \/ /\ p \in Existing /\ Waits(p) /\ old.runner /\ sending = {}
                      /\ \E c \in Pages : IsAt(c, {"forget"})
<1>1. ASSUME NEW by, NEW q, NEW op, Asks(by, q, op) PROVE Goal
  <2>1. /\ Existing' = Existing /\ q \in Existing /\ sending = {} /\ OthersStay(q)
        /\ hub'.pending = hub.pending \cup {[request |-> hub.next_request + 1, player |-> q]}
        /\ hub'.players[q].request = hub.next_request + 1
    BY <1>1, PlayersOf DEF Asks
  <2>2. CASE p # q
    BY <2>1, <2>2 DEF OthersStay, Waits
  <2>3. CASE p = q
    <3> DEFINE r == [request |-> hub.next_request + 1, player |-> q,
                     version |-> hub'.players[q].version, op |-> op, to |-> RunnerOf(hub', q)]
               l == <<r>>
               s == [by |-> by, requests |-> l]
    <3>1. s \in sending'
      BY <1>1 DEF Asks
    <3>2. 1 \in DOMAIN l /\ l[1].request = hub.next_request + 1 /\ l[1].player = q
      OBVIOUS
    <3> HIDE DEF l
    <3>3. s.requests = l
      OBVIOUS
    <3> HIDE DEF s
    <3>4. \E t \in sending' : \E i \in DOMAIN t.requests :
             t.requests[i].request = new.request /\ t.requests[i].player = p
      BY <2>1, <2>3, <3>1, <3>2, <3>3
    <3>5. Entry(p, new.request) \in hub'.pending
      BY <2>1, <2>3 DEF Entry
    <3> QED
      BY <3>4, <3>5 DEF JustDue, Going, About
  <2> QED
    BY <2>2, <2>3
<1>2. ASSUME NEW q, Notes(q) PROVE Goal
  <2>1. /\ Existing' = Existing /\ sending = {} /\ OthersStay(q) /\ hub'.pending = hub.pending
    BY <1>2, PlayersOf DEF Notes
  <2>2. CASE p # q
    BY <2>1, <2>2 DEF OthersStay, Waits
  <2>3. CASE p = q
    BY <1>2, <2>1, <2>3 DEF Notes, Waits
  <2> QED
    BY <2>2, <2>3
<1>3. ASSUME NEW by, NEW e, Reloads(by, e) PROVE Goal
  <2>1. /\ Existing' = Existing /\ sending = {}
        /\ hub'.pending = hub.pending \cup {[request |-> hub'.players[q].request, player |-> q] :
                                          q \in {q \in Existing : Unattended(q)}}
    BY <1>3, PlayersOf DEF Reloads
  <2>2. CASE Unattended(p)
    <3>1. PICK t \in sending' : \E i \in DOMAIN t.requests : t.requests[i] = LoadOf(p, e)
      BY <1>3, <2>1, <2>2 DEF Reloads
    <3>2. LoadOf(p, e).request = new.request /\ LoadOf(p, e).player = p
      BY DEF LoadOf
    <3>3. \E u \in sending' : \E i \in DOMAIN u.requests :
             u.requests[i].request = new.request /\ u.requests[i].player = p
      BY <3>1, <3>2
    <3>4. Entry(p, new.request) \in hub'.pending
      BY <2>1, <2>2 DEF Entry
    <3> QED
      BY <3>3, <3>4 DEF JustDue, Going, About
  <2>3. CASE ~Unattended(p)
    <3>1. /\ new.runner = old.runner /\ new.request = old.request
          /\ new.status = old.status /\ new.lost = old.lost
      BY <1>3, <2>1, <2>3 DEF Reloads, SamePlay
    <3> QED
      BY <2>1, <3>1 DEF Waits
  <2> QED
    BY <2>2, <2>3
<1>4. ASSUME NEW q \in Windows, Removes(q, q) PROVE Goal
  <2>1. /\ Existing' = Existing \ {q} /\ sending = {} /\ OthersStay(q)
        /\ hub'.pending = {w \in hub.pending : w.player # q}
    BY <1>4, PlayersOf DEF Removes
  <2>2. p # q
    BY <2>1
  <2>3. Entry(p, old.request) \in hub.pending => Entry(p, old.request) \in hub'.pending
    <3>1. Entry(p, old.request).player = p
      BY DEF Entry
    <3> HIDE DEF old
    <3> QED
      BY <2>1, <2>2, <3>1
  <2> QED
    BY <2>1, <2>2, <2>3 DEF OthersStay, Waits
<1>5. ASSUME NEW c \in Pages, Creates(c) PROVE Goal
  <2>1. Existing' = Existing \cup {c} /\ p # c
    BY <1>5, PlayersOf DEF Creates, Waits
  <2> QED
    BY <1>5, <2>1 DEF Creates, Waits
<1>6. ASSUME Forgets, sending' = sending, NEW c \in Pages, IsAt(c, {"forget"}) PROVE Goal
  <2>1. /\ Existing' = Existing /\ sending = {}
        /\ new.request = old.request /\ new.status = old.status /\ new.lost = old.lost
    BY <1>6, PlayersOf DEF Forgets
  <2>2. CASE old.runner
    BY <1>6, <2>1, <2>2 DEF Waits
  <2>3. CASE ~old.runner
    <3>1. new = old
      BY <1>6, <2>1, <2>3 DEF Forgets
    <3>2. Entry(p, old.request) \in hub.pending => Entry(p, old.request) \in hub'.pending
      <4>1. Entry(p, old.request).player = p
        BY DEF Entry
      <4>2. \A w \in hub.pending : w.player \in Existing /\ ~hub.players[w.player].runner =>
                                     w \in hub'.pending
        BY <1>6 DEF Forgets
      <4> QED
        BY <2>1, <2>3, <4>1, <4>2
    <3> QED
      BY <2>1, <3>1, <3>2 DEF Waits
  <2> QED
    BY <2>2, <2>3
<1>7. ASSUME Drops PROVE FALSE
  BY <1>7, PlayersOf DEF Drops, Waits
<1> QED
  BY <1>1, <1>2, <1>3, <1>4, <1>5, <1>6, <1>7 DEF Calls

\* What a player waits for when the hub hears m: not for m.
LEMMA HearWaits ==
    ASSUME Typed, NEW m, Hears(m), NEW p \in Existing, Waits(p)'
    PROVE  /\ Waits(p)
           /\ Entry(p, hub.players[p].request) \in hub.pending =>
                 /\ Entry(p, hub.players[p].request) \in hub'.pending
                 /\ ~(m.type = "complete" /\ m.request = hub.players[p].request)
<1>1. /\ hub'.players[p].lost = hub.players[p].lost
      /\ hub'.players[p].status \in {hub.players[p].status, "answered"}
      /\ m.type = "complete" /\ m.request = hub.players[p].request =>
            (Entry(p, hub.players[p].request) \in hub.pending => hub'.players[p].status = "answered")
  BY DEF Hears, Entry
<1>2. hub'.players[p].status = "accepted" /\ ~hub'.players[p].lost
  BY DEF Waits
<1>3. Waits(p)
  BY <1>1, <1>2 DEF Waits
<1>4. ASSUME Entry(p, hub.players[p].request) \in hub.pending
      PROVE  ~(m.type = "complete" /\ m.request = hub.players[p].request)
  BY <1>1, <1>2, <1>4
<1>5. ASSUME Entry(p, hub.players[p].request) \in hub.pending,
             Entry(p, hub.players[p].request) \notin hub'.pending
      PROVE  FALSE
  <2>1. Entry(p, hub.players[p].request).request = hub.players[p].request
    BY DEF Entry
  <2>2. m.type = "complete" /\ hub.players[p].request = m.request
    BY <1>5, <2>1 DEF Hears
  <2> QED
    BY <1>4, <1>5, <2>2
<1> QED
  BY <1>3, <1>4, <1>5

\* The router sends nothing to the device.
LEMMA RoutedIs == ASSUME Typed, NEW p \in PlayerIds PROVE Routed(p) # "device" /\ Routed(p) \in Pages \cup {None}
<1>1. router.executors \in Seq(Pages) /\ router.players[p] \in Pages \cup {None}
  BY DEF Typed, RouterTyped
<1>2. Routed(p) \in Pages \cup {None}
  BY <1>1, Elements DEF Routed
<1> QED
  BY <1>2, MediaAssumption

\* A race is remembered.
LEMMA RacedStays == ASSUME Typed, Next, raced PROVE raced'
BY Kinds DEF QuietStep, CallStep, Keeps, Attach, Detach, Unclaim, Claiming, Leaves, Hands,
             Performs, Says, Passes, histories

\* What a player waits for when executor e answers r: not for r, or the page says so.
LEMMA ToldWaits ==
    ASSUME Typed, NEW e \in Executors, NEW r, Told(e, Answer(r)), NEW p \in Existing, Waits(p)',
           Waits(p) => Due(p)
    PROVE  LET n == hub.players[p].request
           IN /\ Waits(p) /\ Due(p) /\ hub'.players[p].request = n
              /\ hub'.players[p].runner = hub.players[p].runner
              /\ Entry(p, n) \in hub'.pending
              /\ r.request = n => Said(e, n)'
              /\ \A d \in Executors : Said(d, n) => Said(d, n)'
<1> DEFINE n == hub.players[p].request
<1>1. Answer(r).type = "complete" /\ Answer(r).request = r.request
  BY DEF Answer
<1>2. CASE e = "device" /\ Hears(Answer(r)) /\ outbox' = outbox
  <2>1. /\ Waits(p)
        /\ Entry(p, n) \in hub.pending => Entry(p, n) \in hub'.pending /\ r.request # n
    BY <1>1, <1>2, HearWaits
  <2>2. Due(p) /\ Entry(p, n) \in hub.pending
    BY <2>1 DEF Due
  <2>3. hub'.players[p].request = n /\ hub'.players[p].runner = hub.players[p].runner
    BY <1>2 DEF Hears, SamePlay
  <2>4. \A d \in Executors : Said(d, n) => Said(d, n)'
    BY <1>2, <2>3 DEF Said
  <2> QED
    BY <2>1, <2>2, <2>3, <2>4
<1>3. CASE e \in Pages /\ outbox' = [outbox EXCEPT ![e] = Append(outbox[e], Answer(r))] /\ hub' = hub
  <2>1. Waits(p) /\ Due(p) /\ Entry(p, n) \in hub.pending
    BY <1>3 DEF Waits, Due
  <2> DEFINE m == Answer(r)
  <2>2. outbox[e] \in Seq(Reports) /\ m \in Reports /\ outbox \in [Pages -> Seq(Reports)]
    BY <1>3 DEF Typed, ExecutorsTyped, Told
  <2>3. m.type = "complete" /\ m.request = r.request
    BY <1>1
  <2> HIDE DEF m
  <2>4. /\ outbox'[e] = Append(outbox[e], m)
        /\ \A d \in Pages \ {e} : outbox'[d] = outbox[d]
    BY <1>3, <2>2 DEF m
  <2>5. /\ DOMAIN outbox'[e] = DOMAIN outbox[e] \cup {Len(outbox[e]) + 1}
        /\ outbox'[e][Len(outbox[e]) + 1] = m
        /\ \A i \in DOMAIN outbox[e] : outbox'[e][i] = outbox[e][i]
    BY <2>2, <2>4, More
  <2>6. e # "device" /\ \A d \in Executors : d # "device" => d \in Pages
    BY <1>3, MediaAssumption DEF Executors
  <2>7. r.request = n => Said(e, n)'
    BY <1>3, <2>3, <2>5, <2>6 DEF Said
  <2>8. \A d \in Executors : Said(d, n) => Said(d, n)'
    BY <1>3, <2>4, <2>5, <2>6 DEF Said
  <2> QED
    BY <1>3, <2>1, <2>7, <2>8
<1> QED
  BY <1>2, <1>3 DEF Told

\* What waits stays on its way until it is answered.
LEMMA AwaitedStays ==
    ASSUME Typed, Members, TakenOver, Emptied, Addressed, Awaited, Next
    PROVE  Awaited'
<1>0. /\ inbox \in [Executors -> Seq(Requests)]
      /\ performing \in [Executors -> SUBSET Requests]
      /\ outbox \in [Pages -> Seq(Reports)]
      /\ Pages \subseteq Executors /\ "device" \notin Pages
      /\ \A e \in Executors : e # "device" => e \in Pages
  BY MediaAssumption DEF Typed, ExecutorsTyped, Executors
<1>1. SUFFICES ASSUME ~raced', NEW p \in Existing', Waits(p)'
               PROVE  Due(p)'
  <2>1. (Awaited <=> (~raced => \A p \in Existing : Waits(p) => Due(p)))'
    BY AwaitedIs, PTL
  <2> QED
    BY <2>1
<1> DEFINE n == hub.players[p].request
<1>2. ~raced /\ (p \in Existing /\ Waits(p) => Due(p))
  BY <1>1, RacedStays, AwaitedIs
<1>3. CASE CallStep
  <2>1. Calls /\ ExecutorsStay
    BY <1>3 DEF CallStep
  <2>2. CASE JustDue(p)'
    BY <2>2 DEF JustDue, Due
  <2>3. ASSUME p \in Existing, Waits(p), hub'.players[p].request = n,
               hub'.players[p].runner = hub.players[p].runner,
               Entry(p, n) \in hub.pending => Entry(p, n) \in hub'.pending,
               sending' = sending \/ sending = {}
        PROVE  Due(p)'
    <3>1. Entry(p, n) \in hub'.pending /\ (Going(p, n) \/ Held(p, n))
      BY <1>2, <2>3 DEF Due
    <3>2. Going(p, n) => Going(p, n)'
      BY <2>3 DEF Going, About
    <3>3. Held(p, n) => Held(p, n)'
      BY <2>1, <2>3 DEF Held, With, Said, ExecutorsStay, executorVars
    <3> QED
      BY <2>3, <3>1, <3>2, <3>3 DEF Due
  <2>4. ASSUME p \in Existing, Waits(p), hub.players[p].runner, sending = {},
               NEW c \in Pages, IsAt(c, {"forget"})
        PROVE  FALSE
    <3>1. c \in GivingUp
      BY <2>4, GivingUpIs DEF IsAt
    <3>2. router.executors = <<>>
      BY <1>2, <3>1 DEF TakenOver
    <3>3. \A d \in Pages : ~Connected(d)
      <4>1. Range(router.executors) = {}
        BY <3>2 DEF Range
      <4> QED
        BY <4>1 DEF Members, Connected, Listed, IsAt
    <3>4. Held(p, n)
      BY <1>2, <2>4 DEF Due, Going
    <3>5. PICK e \in Pages : With(e, n)
      BY <1>0, <2>4, <3>4 DEF Held
    <3>6. inbox[e] = <<>> /\ performing[e] = {} /\ outbox[e] = <<>>
      BY <3>3 DEF Emptied
    <3> QED
      BY <3>5, <3>6 DEF With, Said
  <2> QED
    BY <1>1, <2>1, <2>2, <2>3, <2>4, CallWaits
<1>4. CASE QuietStep
  <2>1. hub' = hub /\ sending' = sending /\ ExecutorsStay /\ Existing' = Existing
    BY <1>4 DEF QuietStep, Existing
  <2>2. Waits(p) /\ p \in Existing
    BY <1>1, <2>1 DEF Waits
  <2> QED
    BY <1>2, <2>1, <2>2 DEF Due, Going, About, Held, With, Said, ExecutorsStay, executorVars
<1> HIDE DEF n
<1>5. ASSUME NEW c \in Pages, Leaves(c) PROVE Due(p)'
  <2>1. PICK ids : Unanswers(ids) /\ \A r \in Handed(c) : r.request \in ids
    BY <1>5 DEF Leaves
  <2>2. Existing' = Existing
    BY <2>1, PlayersOf DEF Unanswers
  <2>3. /\ Waits(p) /\ n \notin ids /\ hub'.players[p].request = n /\ p \in Existing
        /\ hub'.players[p].runner = hub.players[p].runner /\ hub'.pending = hub.pending
    <3>1. p \in Existing /\ hub.players[p].lost \in BOOLEAN /\ hub'.players[p].lost \in BOOLEAN
      BY <2>1, <2>2, PlayersAre, PlayersOf DEF Typed, Unanswers, PlayerRecords
    <3> QED
      BY <1>1, <2>1, <3>1 DEF Unanswers, Waits, SamePlay, n
  <2>4. Entry(p, n) \in hub'.pending /\ (Going(p, n) \/ Held(p, n))
    BY <1>2, <2>3 DEF Due, n
  <2>5. Going(p, n) => Going(p, n)'
    BY <1>5, <2>3 DEF Going, About, Leaves, n
  <2>6. ASSUME NEW e \in Executors, With(e, n) PROVE With(e, n)'
    <3>1. e # c
      BY <2>1, <2>3, <2>6, HandedIs
    <3>2. inbox'[e] = inbox[e] /\ performing'[e] = performing[e]
      BY <1>0, <1>5, <3>1 DEF Leaves
    <3>3. e # "device" => outbox'[e] = outbox[e]
      BY <1>0, <1>5, <3>1 DEF Leaves
    <3>4. n' = n
      BY <2>3 DEF n
    <3> QED
      BY <2>6, <3>2, <3>3, <3>4 DEF With, Said
  <2>7. Held(p, n) => Held(p, n)'
    BY <2>3, <2>6 DEF Held
  <2> QED
    BY <2>3, <2>4, <2>5, <2>7 DEF Due, n
<1>6. ASSUME NEW s, NEW r, NEW e, Hands(s, r, e) PROVE Due(p)'
  <2>1. /\ sending = {s} /\ s.requests \in Seq(Requests) /\ s.requests # <<>> /\ r = s.requests[1]
        /\ r \in Requests
        /\ Tail(s.requests) # <<>> => [by |-> s.by, requests |-> Tail(s.requests)] \in sending'
        /\ e = IF r.to = "device" THEN "device" ELSE Routed(r.player)
        /\ UNCHANGED <<performing, outbox>>
    BY <1>6 DEF Hands
  <2>2. \/ hub' = hub
        \/ Unanswers({r.request})
    BY <1>6 DEF Hands
  <2>3. Existing' = Existing
    BY <2>2, HearNumbers
  <2>4. /\ p \in Existing /\ Waits(p) /\ hub'.players[p].request = n
        /\ hub'.players[p].runner = hub.players[p].runner /\ hub'.pending = hub.pending
    <3>1. p \in Existing
      BY <2>3
    <3>2. CASE hub' = hub
      BY <1>1, <3>1, <3>2 DEF Waits, n
    <3>3. CASE Unanswers({r.request})
      <4>1. hub.players[p].lost \in BOOLEAN /\ hub'.players[p].lost \in BOOLEAN
        BY <3>1, <3>3, PlayersAre, PlayersOf DEF Typed, Unanswers, PlayerRecords
      <4> QED
        BY <1>1, <3>1, <3>3, <4>1 DEF Unanswers, Waits, SamePlay, n
    <3> QED
      BY <2>2, <3>2, <3>3
  <2>5. n' = n
    BY <2>4 DEF n
  <2>6. Entry(p, n) \in hub'.pending /\ (Going(p, n) \/ Held(p, n))
    BY <1>2, <2>4 DEF Due, n
  <2>7. ASSUME NEW d \in Executors, With(d, n) PROVE With(d, n)'
    <3>1. \A i \in DOMAIN inbox[d] : i \in DOMAIN inbox'[d] /\ inbox'[d][i] = inbox[d][i]
      <4>1. CASE inbox' = inbox
        BY <4>1
      <4>2. CASE e \in Executors /\ inbox' = [inbox EXCEPT ![e] = Append(inbox[e], r)]
        BY <1>0, <2>1, <4>2, More
      <4> QED
        BY <1>6, <4>1, <4>2 DEF Hands
    <3> QED
      BY <2>1, <2>5, <2>7, <3>1 DEF With, Said
  <2>8. Held(p, n) => Held(p, n)'
    BY <2>4, <2>7 DEF Held
  <2>9. ASSUME Going(p, n) PROVE Going(p, n)' \/ Held(p, n)'
    <3>1. PICK i \in DOMAIN s.requests : s.requests[i].request = n /\ s.requests[i].player = p
      BY <2>1, <2>9 DEF Going, About
    <3>2. CASE i # 1
      <4> DEFINE l == Tail(s.requests)
      <4>1. i - 1 \in DOMAIN l /\ l[i - 1] = s.requests[i] /\ l # <<>>
        BY <2>1, <3>2, Rest
      <4>2. l # <<>> => [by |-> s.by, requests |-> l] \in sending'
        BY <2>1
      <4> HIDE DEF l
      <4>3. \E t \in sending' : t.requests = l
        BY <4>1, <4>2
      <4> QED
        BY <2>5, <3>1, <4>1, <4>3 DEF Going, About
    <3>3. CASE i = 1
      <4>1. r.request = n /\ r.player = p
        BY <2>1, <3>1, <3>3
      <4>2. CASE Unanswers({r.request})
        BY <1>1, <2>4, <4>1, <4>2 DEF Unanswers, Waits, n
      <4>3. CASE e \in Executors /\ inbox' = [inbox EXCEPT ![e] = Append(inbox[e], r)] /\ hub' = hub
        <5>1. inbox'[e] = Append(inbox[e], r) /\ inbox[e] \in Seq(Requests)
          BY <1>0, <4>3
        <5>2. \E j \in DOMAIN inbox'[e] : inbox'[e][j] = r
          BY <2>1, <5>1, More
        <5>3. With(e, n)'
          BY <2>5, <4>1, <5>2 DEF With
        <5>4. hub.players[p].runner => e # "device"
          <6>1. Fits(r, s.by)
            <7>1. 1 \in DOMAIN s.requests
              BY <2>1, Rest
            <7> QED
              BY <2>1, <7>1, AddressedIs
          <6>2. r.to = RunnerOf(hub, p)
            BY <2>4, <4>1, <6>1 DEF Fits
          <6>3. hub.players[p].runner => e = Routed(p)
            BY <2>1, <4>1, <6>2 DEF RunnerOf
          <6>4. p \in PlayerIds
            BY <2>4, PlayersAre DEF Typed
          <6> QED
            BY <6>3, <6>4, RoutedIs
        <5> QED
          BY <2>4, <4>3, <5>3, <5>4 DEF Held
      <4> QED
        BY <1>6, <4>2, <4>3 DEF Hands
    <3> QED
      BY <3>2, <3>3
  <2> QED
    BY <2>4, <2>6, <2>8, <2>9 DEF Due, n
<1>7. ASSUME NEW e, NEW r, Performs(e, r) PROVE Due(p)'
  <2>1. /\ e \in Executors /\ inbox[e] \in Seq(Requests) /\ inbox[e] # <<>> /\ r = inbox[e][1]
        /\ r \in Requests
        /\ inbox' = [inbox EXCEPT ![e] = Tail(inbox[e])] /\ sending' = sending
    BY <1>0, <1>7 DEF Performs
  <2>2. \A i \in DOMAIN inbox[e] : i # 1 => i - 1 \in DOMAIN Tail(inbox[e])
                                             /\ Tail(inbox[e])[i - 1] = inbox[e][i]
    BY <2>1, Rest
  <2>3. ASSUME NEW d \in Executors, NEW k,
               \E i \in DOMAIN inbox[d] : inbox[d][i].request = k, ~(d = e /\ r.request = k)
        PROVE  \E i \in DOMAIN inbox'[d] : inbox'[d][i].request = k
    <3>1. CASE d # e
      BY <1>0, <2>1, <2>3, <3>1
    <3>2. CASE d = e
      <4>1. PICK i \in DOMAIN inbox[e] : inbox[e][i].request = k
        BY <2>3, <3>2
      <4>2. i # 1 /\ inbox'[e] = Tail(inbox[e])
        BY <1>0, <2>1, <2>3, <3>2, <4>1
      <4> QED
        BY <2>2, <3>2, <4>1, <4>2
    <3> QED
      BY <3>1, <3>2
  <2>4. CASE Told(e, Answer(r)) /\ performing' = performing
    <3>1. Existing' = Existing
      BY <2>4, HearNumbers DEF Told
    <3>2. /\ p \in Existing /\ Waits(p) /\ Due(p) /\ hub'.players[p].request = n
          /\ hub'.players[p].runner = hub.players[p].runner
          /\ Entry(p, n) \in hub'.pending /\ n' = n
      BY <1>1, <1>2, <2>1, <2>4, <3>1, ToldWaits DEF n
    <3>3. /\ r.request = n => Said(e, n)'
          /\ \A d \in Executors : Said(d, n) => Said(d, n)'
      BY <1>1, <1>2, <2>1, <2>4, <3>2, ToldWaits DEF n
    <3>4. Going(p, n) => Going(p, n)'
      BY <2>1, <3>2 DEF Going, About
    <3>5. ASSUME NEW d \in Executors, With(d, n) PROVE With(d, n)'
      <4>1. CASE d = e /\ r.request = n
        BY <3>3, <4>1 DEF With
      <4>2. CASE ~(d = e /\ r.request = n)
        BY <2>3, <2>4, <3>2, <3>3, <3>5, <4>2 DEF With
      <4> QED
        BY <4>1, <4>2
    <3>6. Held(p, n) => Held(p, n)'
      BY <3>2, <3>5 DEF Held
    <3> QED
      BY <3>2, <3>4, <3>6 DEF Due, n
  <2>5. CASE performing' = [performing EXCEPT ![e] = @ \cup {r}] /\ UNCHANGED <<hub, outbox>>
    <3>1. Existing' = Existing /\ n' = n /\ p \in Existing /\ Waits(p) /\ hub' = hub
      BY <1>1, <2>5 DEF Existing, n, Waits
    <3>2. Due(p)
      BY <1>2, <3>1
    <3>3. ASSUME NEW d \in Executors, With(d, n) PROVE With(d, n)'
      <4>1. \A q \in performing[d] : q \in performing'[d]
        BY <1>0, <2>1, <2>5
      <4>2. r \in performing'[e]
        BY <1>0, <2>1, <2>5
      <4>3. CASE d = e /\ r.request = n
        BY <3>1, <4>2, <4>3 DEF With
      <4>4. CASE ~(d = e /\ r.request = n)
        BY <2>3, <2>5, <3>1, <3>3, <4>1, <4>4 DEF With, Said
      <4> QED
        BY <4>3, <4>4
    <3>4. (Held(p, n) => Held(p, n)') /\ (Going(p, n) => Going(p, n)')
      BY <2>1, <3>1, <3>3 DEF Held, Going, About
    <3> QED
      BY <3>1, <3>2, <3>4 DEF Due, n
  <2> QED
    BY <1>7, <2>4, <2>5 DEF Performs
<1>8. ASSUME NEW e, Says(e) PROVE Due(p)'
  <2>1. e \in Executors /\ UNCHANGED <<inbox, sending>>
    BY <1>8 DEF Says
  <2>2. ASSUME NEW r \in performing[e], performing' = [performing EXCEPT ![e] = @ \ {r}],
               Told(e, Answer(r))
        PROVE  Due(p)'
    <3>1. Existing' = Existing
      BY <2>2, HearNumbers DEF Told
    <3>2. /\ p \in Existing /\ Waits(p) /\ Due(p) /\ hub'.players[p].request = n
          /\ hub'.players[p].runner = hub.players[p].runner
          /\ Entry(p, n) \in hub'.pending /\ n' = n
      BY <1>1, <1>2, <2>1, <2>2, <3>1, ToldWaits DEF n
    <3>3. /\ r.request = n => Said(e, n)'
          /\ \A d \in Executors : Said(d, n) => Said(d, n)'
      BY <1>1, <1>2, <2>1, <2>2, <3>2, ToldWaits DEF n
    <3>4. Going(p, n) => Going(p, n)'
      BY <2>1, <3>2 DEF Going, About
    <3>5. ASSUME NEW d \in Executors, With(d, n) PROVE With(d, n)'
      <4>1. CASE d = e /\ r.request = n
        BY <3>3, <4>1 DEF With
      <4>2. CASE ~(d = e /\ r.request = n)
        <5>1. \A q \in performing[d] : q.request = n => q \in performing'[d]
          BY <1>0, <2>1, <2>2, <4>2
        <5> QED
          BY <2>1, <3>2, <3>3, <3>5, <5>1 DEF With
      <4> QED
        BY <4>1, <4>2
    <3>6. Held(p, n) => Held(p, n)'
      BY <3>2, <3>5 DEF Held
    <3> QED
      BY <3>2, <3>4, <3>6 DEF Due, n
  <2>3. ASSUME performing' = performing, NEW m, m.type = "observe", Told(e, m)
        PROVE  Due(p)'
    <3>1. Existing' = Existing
      BY <2>3, HearNumbers DEF Told
    <3>2. /\ p \in Existing /\ Waits(p) /\ Due(p) /\ hub'.players[p].request = n
          /\ hub'.players[p].runner = hub.players[p].runner
          /\ Entry(p, n) \in hub'.pending /\ n' = n
      <4>1. CASE hub' = hub
        BY <1>1, <1>2, <3>1, <4>1 DEF Waits, Due, n
      <4>2. CASE Hears(m)
        <5>1. Waits(p) /\ p \in Existing
              /\ (Entry(p, n) \in hub.pending => Entry(p, n) \in hub'.pending)
          BY <1>1, <3>1, <4>2, HearWaits DEF n
        <5>2. Due(p) /\ Entry(p, n) \in hub.pending
          BY <1>2, <5>1 DEF Due, n
        <5> QED
          BY <4>2, <5>1, <5>2 DEF Hears, SamePlay, n
      <4> QED
        BY <2>3, <4>1, <4>2 DEF Told
    <3>3. ASSUME NEW d \in Executors, Said(d, n) PROVE Said(d, n)'
      <4>1. CASE outbox' = outbox
        BY <3>2, <3>3, <4>1 DEF Said
      <4>2. CASE e \in Pages /\ outbox' = [outbox EXCEPT ![e] = Append(outbox[e], m)]
        <5>1. m \in Reports /\ d \in Pages
          BY <1>0, <2>3, <3>3 DEF Told, Said
        <5>2. \A i \in DOMAIN outbox[d] : i \in DOMAIN outbox'[d] /\ outbox'[d][i] = outbox[d][i]
          BY <1>0, <4>2, <5>1, More
        <5> QED
          BY <3>2, <3>3, <5>2 DEF Said
      <4> QED
        BY <2>3, <4>1, <4>2 DEF Told
    <3>4. (Held(p, n) => Held(p, n)') /\ (Going(p, n) => Going(p, n)')
      BY <2>1, <2>3, <3>2, <3>3 DEF Held, With, Going, About
    <3> QED
      BY <3>2, <3>4 DEF Due, n
  <2> QED
    BY <1>8, <2>2, <2>3 DEF Says
<1>9. ASSUME NEW c \in Pages, Passes(c) PROVE Due(p)'
  <2> DEFINE m == outbox[c][1]
  <2>1. /\ outbox[c] \in Seq(Reports) /\ outbox[c] # <<>> /\ Hears(m)
        /\ outbox' = [outbox EXCEPT ![c] = Tail(outbox[c])]
        /\ UNCHANGED <<inbox, sending, performing>>
    BY <1>0, <1>9 DEF Passes
  <2>2. \A i \in DOMAIN outbox[c] : i # 1 => i - 1 \in DOMAIN Tail(outbox[c])
                                              /\ Tail(outbox[c])[i - 1] = outbox[c][i]
    BY <2>1, Rest
  <2>3. Existing' = Existing
    BY <2>1, HearNumbers
  <2>4. p \in Existing /\ Waits(p) /\ (Entry(p, n) \in hub.pending =>
               Entry(p, n) \in hub'.pending /\ ~(m.type = "complete" /\ m.request = n))
    BY <1>1, <2>1, <2>3, HearWaits DEF n
  <2>5. Due(p) /\ Entry(p, n) \in hub.pending
    BY <1>2, <2>4 DEF Due, n
  <2>6. hub'.players[p].request = n /\ hub'.players[p].runner = hub.players[p].runner /\ n' = n
    BY <2>1, <2>4 DEF Hears, SamePlay, n
  <2>7. ASSUME NEW d \in Executors, Said(d, n) PROVE Said(d, n)'
    <3>1. d \in Pages
      BY <1>0, <2>7 DEF Said
    <3>2. CASE d # c
      BY <1>0, <2>1, <2>6, <2>7, <3>1, <3>2 DEF Said
    <3>3. CASE d = c
      <4>1. PICK i \in DOMAIN outbox[c] : outbox[c][i].type = "complete" /\ outbox[c][i].request = n
        BY <2>7, <3>3 DEF Said
      <4>2. i # 1
        BY <2>4, <2>5, <4>1
      <4>3. outbox'[c] = Tail(outbox[c])
        BY <1>0, <2>1
      <4> QED
        BY <1>0, <2>2, <2>6, <3>1, <3>3, <4>1, <4>2, <4>3 DEF Said
    <3> QED
      BY <3>2, <3>3
  <2>8. (Held(p, n) => Held(p, n)') /\ (Going(p, n) => Going(p, n)')
    BY <2>1, <2>6, <2>7 DEF Held, With, Going, About
  <2> QED
    BY <2>4, <2>5, <2>6, <2>8 DEF Due, n
<1> QED
  BY <1>3, <1>4, <1>5, <1>6, <1>7, <1>8, <1>9, Kinds

-----------------------------------------------------------------------------
(* What is said of what is loaded.                                         *)

\* What is observed of p is about its load.
Observes(p) == hub.players[p].of # 0 => hub.players[p].of = hub.players[p].load

\* Executor e loaded, and is to load, what p has or had.
Follows(e, p) ==
    /\ backend[e][p].load # 0 => OldOrCurrent(p, backend[e][p].version, backend[e][p].load)
    /\ \A i \in DOMAIN inbox[e] :
          inbox[e][i].player = p /\ inbox[e][i].op = "load" =>
              OldOrCurrent(p, inbox[e][i].version, inbox[e][i].request)

\* What page c says is about what p has or had.
Speaks(c, p) ==
    \A i \in DOMAIN outbox[c] :
        outbox[c][i].type = "observe" /\ outbox[c][i].player = p =>
            OldOrCurrent(p, outbox[c][i].version, outbox[c][i].load)

FreshOf(p) ==
    /\ Observes(p)
    /\ \A e \in Executors : Follows(e, p)
    /\ \A c \in Pages : Speaks(c, p)

LEMMA FreshIs == Fresh <=> \A p \in Existing \ reborn : FreshOf(p)
BY DEF Fresh, FreshOf, Observes, Follows, Speaks

\* What a call does to what player p plays.
LEMMA CallPlays ==
    ASSUME Typed, Calls, NEW p \in Existing'
    PROVE  LET new == hub'.players[p]
               old == hub.players[p]
           IN \/ p \in Existing /\ SamePlay(new, old) /\ new.of \in {old.of, 0}
              \/ p \in Existing /\ new.version = old.version + 1 /\ new.of = 0
              \/ p \in Pages /\ p \notin Existing /\ Creates(p)
<1> DEFINE new == hub'.players[p]
           old == hub.players[p]
           Goal == \/ p \in Existing /\ SamePlay(new, old) /\ new.of \in {old.of, 0}
                   \/ p \in Existing /\ new.version = old.version + 1 /\ new.of = 0
                   \/ p \in Pages /\ p \notin Existing /\ Creates(p)
<1>0. new = old => SamePlay(new, old) /\ new.of = old.of
  BY DEF SamePlay
<1>1. ASSUME NEW by, NEW q, NEW op, Asks(by, q, op) PROVE Goal
  <2>1. Existing' = Existing /\ q \in Existing /\ OthersStay(q)
    BY <1>1, PlayersOf DEF Asks
  <2>2. p # q => new = old
    BY <2>1 DEF OthersStay
  <2>3. p = q => \/ new.version = old.version + 1 /\ new.of = 0
                 \/ SamePlay(new, old) /\ new.of = old.of
    BY <1>1 DEF Asks
  <2> QED
    BY <1>0, <2>1, <2>2, <2>3
<1>2. ASSUME NEW q, Notes(q) PROVE Goal
  <2>1. Existing' = Existing /\ OthersStay(q)
    BY <1>2, PlayersOf DEF Notes
  <2>2. p # q => new = old
    BY <2>1 DEF OthersStay
  <2>3. p = q => new.version = old.version + 1 /\ new.of = 0
    BY <1>2 DEF Notes
  <2> QED
    BY <1>0, <2>1, <2>2, <2>3
<1>3. ASSUME NEW by, NEW e, Reloads(by, e) PROVE Goal
  <2>1. Existing' = Existing
    BY <1>3, PlayersOf DEF Reloads
  <2>2. CASE old.runner
    BY <1>0, <1>3, <2>1, <2>2 DEF Reloads
  <2>3. CASE ~old.runner
    BY <1>3, <2>1, <2>3 DEF Reloads
  <2> QED
    BY <2>2, <2>3
<1>4. ASSUME NEW q \in Windows, Removes(q, q) PROVE Goal
  <2>1. Existing' = Existing \ {q} /\ OthersStay(q)
    BY <1>4, PlayersOf DEF Removes
  <2>2. new = old
    BY <2>1 DEF OthersStay
  <2> QED
    BY <1>0, <2>1, <2>2
<1>5. ASSUME NEW c \in Pages, Creates(c) PROVE Goal
  <2>1. Existing' = Existing \cup {c} /\ \A q \in Existing : hub'.players[q] = hub.players[q]
    BY <1>5, PlayersOf DEF Creates
  <2> QED
    BY <1>0, <1>5, <2>1
<1>6. ASSUME Forgets PROVE Goal
  <2>1. Existing' = Existing
    BY <1>6, PlayersOf DEF Forgets
  <2>2. CASE old.runner
    BY <1>6, <2>1, <2>2 DEF Forgets
  <2>3. CASE ~old.runner
    BY <1>0, <1>6, <2>1, <2>3 DEF Forgets
  <2> QED
    BY <2>2, <2>3
<1>7. ASSUME Drops PROVE Goal
  BY <1>7, PlayersOf DEF Drops
<1> QED
  BY <1>1, <1>2, <1>3, <1>4, <1>5, <1>6, <1>7 DEF Calls

\* What was old or current stays so.
LEMMA StaysOld ==
    ASSUME Typed, NEW p \in Existing, hub'.players[p] \in PlayerRecords,
           \/ SamePlay(hub'.players[p], hub.players[p])
           \/ hub'.players[p].version = hub.players[p].version + 1
    PROVE  \A v \in Nat : \A l : OldOrCurrent(p, v, l) => OldOrCurrent(p, v, l)'
<1>1. hub.players[p].version \in Nat
  BY PlayersAre DEF Typed
<1> QED
  BY <1>1 DEF SamePlay, OldOrCurrent

\* What is known of p stays so, as nothing new is said.
LEMMA FreshKept ==
    ASSUME Typed, NEW p \in Existing, FreshOf(p),
           \A v \in Nat : \A l : OldOrCurrent(p, v, l) => OldOrCurrent(p, v, l)'
    PROVE  /\ inbox' = inbox /\ backend' = backend => \A e \in Executors : Follows(e, p)'
           /\ outbox' = outbox => \A c \in Pages : Speaks(c, p)'
<1>1. /\ inbox \in [Executors -> Seq(Requests)]
      /\ backend \in [Executors -> [PlayerIds -> [version : Nat, load : Nat]]]
      /\ outbox \in [Pages -> Seq(Reports)] /\ p \in PlayerIds
  BY PlayersAre DEF Typed, ExecutorsTyped
<1>2. \A e \in Executors : /\ backend[e][p].version \in Nat
                           /\ \A i \in DOMAIN inbox[e] : inbox[e][i].version \in Nat
  <2>1. \A e \in Executors : \A i \in DOMAIN inbox[e] : inbox[e][i] \in Requests
    BY <1>1
  <2> QED
    BY <1>1, <2>1 DEF Requests
<1>3. \A c \in Pages : \A i \in DOMAIN outbox[c] :
         outbox[c][i].type = "observe" => outbox[c][i].version \in Nat
  <2>1. \A c \in Pages : \A i \in DOMAIN outbox[c] : outbox[c][i] \in Reports
    BY <1>1
  <2> QED
    BY <2>1 DEF Reports
<1>4. ASSUME inbox' = inbox, backend' = backend, NEW e \in Executors PROVE Follows(e, p)'
  <2>1. Follows(e, p)
    BY DEF FreshOf
  <2> QED
    BY <1>2, <1>4, <2>1 DEF Follows
<1>5. ASSUME outbox' = outbox, NEW c \in Pages PROVE Speaks(c, p)'
  <2>1. Speaks(c, p)
    BY DEF FreshOf
  <2> QED
    BY <1>3, <1>5, <2>1 DEF Speaks
<1> QED
  BY <1>4, <1>5

\* What the hub hears is merged only when it is current.
LEMMA HearFresh ==
    ASSUME Typed, NEW p \in Existing, FreshOf(p), NEW m, Hears(m),
           m.type = "observe" /\ m.player = p => OldOrCurrent(p, m.version, m.load)
    PROVE  Observes(p)' /\ SamePlay(hub'.players[p], hub.players[p])
<1>1. /\ SamePlay(hub'.players[p], hub.players[p])
      /\ \/ hub'.players[p].of = hub.players[p].of
         \/ /\ m.type = "observe" /\ m.player = p /\ m.version = hub.players[p].version
            /\ hub'.players[p].of = m.load
  BY DEF Hears
<1>2. hub.players[p].version \in Nat /\ Observes(p)
  BY PlayersAre DEF Typed, FreshOf
<1> QED
  BY <1>1, <1>2 DEF Observes, SamePlay, OldOrCurrent

\* Executor e says what is old or current.
LEMMA TellFresh ==
    ASSUME Typed, NEW p \in Existing, FreshOf(p), NEW e \in Executors, NEW m, Told(e, m),
           m.type = "observe" /\ m.player = p => OldOrCurrent(p, m.version, m.load)
    PROVE  /\ Observes(p)' /\ Existing' = Existing /\ hub'.players[p] \in PlayerRecords
           /\ SamePlay(hub'.players[p], hub.players[p])
           /\ \A c \in Pages : Speaks(c, p)'
<1>1. CASE e = "device" /\ Hears(m) /\ outbox' = outbox
  <2>1. Observes(p)' /\ SamePlay(hub'.players[p], hub.players[p])
    BY <1>1, HearFresh
  <2>2. hub'.players[p] \in PlayerRecords /\ Existing' = Existing
    BY <1>1, PlayersOf DEF Hears
  <2>3. \A c \in Pages : Speaks(c, p)'
    BY <1>1, <2>1, <2>2, StaysOld, FreshKept
  <2> QED
    BY <2>1, <2>2, <2>3
<1>2. CASE e \in Pages /\ outbox' = [outbox EXCEPT ![e] = Append(outbox[e], m)] /\ hub' = hub
  <2>1. /\ Observes(p)' /\ hub'.players[p] \in PlayerRecords /\ Existing' = Existing
        /\ SamePlay(hub'.players[p], hub.players[p])
    BY <1>2, PlayersAre DEF Typed, FreshOf, Observes, SamePlay, Existing
  <2>2. /\ outbox[e] \in Seq(Reports) /\ m \in Reports /\ outbox \in [Pages -> Seq(Reports)]
    BY <1>2 DEF Typed, ExecutorsTyped, Told
  <2>3. ASSUME NEW c \in Pages PROVE Speaks(c, p)'
    <3>0. Speaks(c, p)
      BY DEF FreshOf
    <3>1. CASE c # e
      <4>1. outbox'[c] = outbox[c]
        BY <1>2, <2>2, <3>1
      <4> QED
        BY <1>2, <3>0, <4>1 DEF Speaks, OldOrCurrent
    <3>2. CASE c = e
      <4>1. outbox'[e] = Append(outbox[e], m)
        BY <1>2, <2>2
      <4>2. /\ DOMAIN outbox'[e] = DOMAIN outbox[e] \cup {Len(outbox[e]) + 1}
            /\ outbox'[e][Len(outbox[e]) + 1] = m
            /\ \A i \in DOMAIN outbox[e] : outbox'[e][i] = outbox[e][i]
        BY <2>2, <4>1, More
      <4> QED
        BY <1>2, <3>0, <3>2, <4>2 DEF Speaks, OldOrCurrent
    <3> QED
      BY <3>1, <3>2
  <2> QED
    BY <2>1, <2>3
<1> QED
  BY <1>1, <1>2 DEF Told

\* Reports about another source are never merged.
LEMMA FreshStays ==
    ASSUME Typed, Addressed, Owned, Fresh, Next
    PROVE  Fresh'
<1>0. /\ inbox \in [Executors -> Seq(Requests)]
      /\ backend \in [Executors -> [PlayerIds -> [version : Nat, load : Nat]]]
      /\ outbox \in [Pages -> Seq(Reports)]
  BY DEF Typed, ExecutorsTyped
<1>1. SUFFICES ASSUME NEW p \in Existing', p \notin reborn'
               PROVE  FreshOf(p)'
  <2>1. (Fresh <=> \A p \in Existing \ reborn : FreshOf(p))'
    BY FreshIs, PTL
  <2> QED
    BY <2>1
<1>2. p \in Existing /\ p \notin reborn => FreshOf(p) /\ p \in PlayerIds
  BY FreshIs, PlayersAre DEF Typed
<1>3. ASSUME p \in Existing, FreshOf(p), Observes(p)', hub'.players[p] \in PlayerRecords,
             \/ SamePlay(hub'.players[p], hub.players[p])
             \/ hub'.players[p].version = hub.players[p].version + 1,
             ExecutorsStay
      PROVE  FreshOf(p)'
  <2>1. \A v \in Nat : \A l : OldOrCurrent(p, v, l) => OldOrCurrent(p, v, l)'
    BY <1>3, StaysOld
  <2>2. (\A e \in Executors : Follows(e, p)') /\ (\A c \in Pages : Speaks(c, p)')
    BY <1>3, <2>1, FreshKept DEF ExecutorsStay, executorVars
  <2> QED
    BY <1>3, <2>2 DEF FreshOf
<1>4. CASE CallStep
  <2>1. Calls /\ ExecutorsStay /\ (p \notin reborn)
    BY <1>1, <1>4 DEF CallStep, Keeps
  <2>2. hub'.players[p] \in PlayerRecords
    BY <2>1, CallTypes DEF Typed, HubTyped, HubsOf
  <2>3. CASE p \in Existing /\ SamePlay(hub'.players[p], hub.players[p])
             /\ hub'.players[p].of \in {hub.players[p].of, 0}
    <3>1. Observes(p)
      BY <1>2, <2>1, <2>3 DEF FreshOf
    <3>2. Observes(p)'
      BY <2>3, <3>1 DEF Observes, SamePlay
    <3> QED
      BY <1>2, <1>3, <2>1, <2>2, <2>3, <3>2
  <2>4. CASE p \in Existing /\ hub'.players[p].version = hub.players[p].version + 1
             /\ hub'.players[p].of = 0
    <3>1. Observes(p)'
      BY <2>4 DEF Observes
    <3> QED
      BY <1>2, <1>3, <2>1, <2>2, <2>4, <3>1
  <2>5. CASE p \in Pages /\ p \notin Existing /\ Creates(p)
    <3>1. /\ hub'.players[p].of = 0 /\ outbox[p] = <<>> /\ p \in Windows
          /\ \A e \in Executors :
                backend[e][p] = NoElement /\ \A i \in DOMAIN inbox[e] : inbox[e][i].player # p
      BY <1>1, <2>5 DEF Creates
    <3>2. \A e \in Executors : Follows(e, p)'
      BY <2>1, <3>1 DEF Follows, NoElement, ExecutorsStay, executorVars
    <3>3. \A c \in Pages : \A i \in DOMAIN outbox[c] :
             outbox[c][i].type = "observe" => outbox[c][i].player # p
      BY <3>1, OwnedIs DEF Clean
    <3>4. \A c \in Pages : Speaks(c, p)'
      BY <2>1, <3>3 DEF Speaks, ExecutorsStay, executorVars
    <3> QED
      BY <3>1, <3>2, <3>4 DEF FreshOf, Observes
  <2> QED
    BY <1>1, <2>1, <2>3, <2>4, <2>5, CallPlays
<1>5. CASE QuietStep
  <2>1. hub' = hub /\ ExecutorsStay /\ Existing' = Existing
    BY <1>5 DEF QuietStep, Existing
  <2>2. p \notin reborn
    BY <1>1, <1>5, <2>1 DEF QuietStep, Keeps, Attach, Detach, Unclaim, Claiming, histories
  <2>3. p \in Existing /\ FreshOf(p) /\ hub'.players[p] \in PlayerRecords
        /\ SamePlay(hub'.players[p], hub.players[p])
    BY <1>1, <1>2, <2>1, <2>2, PlayersAre DEF Typed, SamePlay
  <2>4. Observes(p)'
    BY <2>1, <2>3 DEF FreshOf, Observes
  <2> QED
    BY <1>3, <2>1, <2>3, <2>4
\* The hub hears nothing, or nobody answers: the player plays what it did.
<1>6. ASSUME hub' = hub \/ (\E ids : Unanswers(ids)), reborn' = reborn
      PROVE  /\ Existing' = Existing /\ p \in Existing /\ FreshOf(p)
             /\ Observes(p)' /\ hub'.players[p] \in PlayerRecords
             /\ SamePlay(hub'.players[p], hub.players[p])
  <2>1. CASE hub' = hub
    <3>1. p \in Existing /\ FreshOf(p) /\ Existing' = Existing
      BY <1>1, <1>2, <1>6, <2>1 DEF Existing
    <3> QED
      BY <2>1, <3>1, PlayersAre DEF Typed, FreshOf, Observes, SamePlay
  <2>2. CASE \E ids : Unanswers(ids)
    <3>1. PICK ids : Unanswers(ids)
      BY <2>2
    <3>2. Existing' = Existing /\ hub'.players[p] \in PlayerRecords
      BY <3>1, PlayersOf, <1>1 DEF Unanswers
    <3>3. p \in Existing /\ FreshOf(p)
      BY <1>1, <1>2, <1>6, <3>2
    <3> QED
      BY <3>1, <3>2, <3>3 DEF Unanswers, FreshOf, Observes, SamePlay
  <2> QED
    BY <1>6, <2>1, <2>2
<1>7. ASSUME NEW c \in Pages, Leaves(c) PROVE FreshOf(p)'
  <2>1. (\E ids : Unanswers(ids)) /\ reborn' = reborn
    BY <1>7 DEF Leaves
  <2>2. /\ p \in Existing /\ FreshOf(p) /\ Observes(p)' /\ p \in PlayerIds
        /\ SamePlay(hub'.players[p], hub.players[p])
    BY <1>6, <2>1, PlayersAre DEF Typed
  <2>3. ASSUME NEW e \in Executors PROVE Follows(e, p)'
    <3>0. Follows(e, p)
      BY <2>2 DEF FreshOf
    <3>1. CASE e = c
      <4>1. inbox'[e] = <<>> /\ backend'[e][p] = NoElement
        BY <1>0, <1>7, <2>2, <3>1 DEF Leaves
      <4> QED
        BY <4>1 DEF Follows, NoElement
    <3>2. CASE e # c
      <4>1. inbox'[e] = inbox[e] /\ backend'[e] = backend[e]
        BY <1>0, <1>7, <3>2 DEF Leaves
      <4> QED
        BY <2>2, <3>0, <4>1 DEF Follows, OldOrCurrent, SamePlay
    <3> QED
      BY <3>1, <3>2
  <2>4. ASSUME NEW d \in Pages PROVE Speaks(d, p)'
    <3>0. Speaks(d, p)
      BY <2>2 DEF FreshOf
    <3>1. outbox'[d] = <<>> \/ outbox'[d] = outbox[d]
      BY <1>0, <1>7 DEF Leaves
    <3> QED
      BY <2>2, <3>0, <3>1 DEF Speaks, OldOrCurrent, SamePlay
  <2> QED
    BY <2>2, <2>3, <2>4 DEF FreshOf
<1>8. ASSUME NEW s, NEW r, NEW e, Hands(s, r, e) PROVE FreshOf(p)'
  <2>1. (hub' = hub \/ \E ids : Unanswers(ids)) /\ UNCHANGED <<reborn, backend, outbox>>
    BY <1>8 DEF Hands
  <2>2. /\ p \in Existing /\ FreshOf(p) /\ Observes(p)' /\ hub'.players[p] \in PlayerRecords
        /\ SamePlay(hub'.players[p], hub.players[p])
    BY <1>6, <2>1
  <2>3. \A v \in Nat : \A l : OldOrCurrent(p, v, l) => OldOrCurrent(p, v, l)'
    BY <2>2, StaysOld
  <2>4. \A c \in Pages : Speaks(c, p)'
    BY <2>1, <2>2, <2>3, FreshKept
  <2>5. ASSUME NEW d \in Executors PROVE Follows(d, p)'
    <3>0. Follows(d, p)
      BY <2>2 DEF FreshOf
    <3>1. CASE inbox'[d] = inbox[d]
      BY <2>1, <2>2, <3>0, <3>1 DEF Follows, OldOrCurrent, SamePlay
    <3>2. CASE d = e /\ inbox' = [inbox EXCEPT ![e] = Append(inbox[e], r)]
      <4>1. r \in Requests /\ inbox[e] \in Seq(Requests) /\ inbox'[e] = Append(inbox[e], r)
        BY <1>0, <1>8, <3>2 DEF Hands
      <4>2. /\ DOMAIN inbox'[e] = DOMAIN inbox[e] \cup {Len(inbox[e]) + 1}
            /\ inbox'[e][Len(inbox[e]) + 1] = r
            /\ \A i \in DOMAIN inbox[e] : inbox'[e][i] = inbox[e][i]
        BY <4>1, More
      <4>3. Fits(r, s.by)
        <5>1. 1 \in DOMAIN s.requests /\ sending = {s} /\ r = s.requests[1]
          BY <1>8, Rest DEF Hands
        <5> QED
          BY <5>1, AddressedIs
      <4>4. r.player = p /\ r.op = "load" => OldOrCurrent(p, r.version, r.request)
        BY <2>2, <4>3 DEF Fits, OldOrCurrent
      <4> QED
        BY <2>1, <2>2, <3>0, <3>2, <4>2, <4>4 DEF Follows, OldOrCurrent, SamePlay
    <3> QED
      BY <1>0, <1>8, <3>1, <3>2 DEF Hands
  <2> QED
    BY <2>2, <2>4, <2>5 DEF FreshOf
<1>9. ASSUME NEW e, NEW r, Performs(e, r) PROVE FreshOf(p)'
  <2>1. /\ e \in Executors /\ inbox[e] \in Seq(Requests) /\ inbox[e] # <<>> /\ r = inbox[e][1]
        /\ r \in Requests /\ reborn' = reborn
        /\ inbox' = [inbox EXCEPT ![e] = Tail(inbox[e])]
    BY <1>0, <1>9 DEF Performs, histories
  <2>2. (Told(e, Answer(r)) \/ UNCHANGED <<hub, outbox>>) /\ Answer(r).type = "complete"
    BY <1>9 DEF Performs, Answer
  <2>3. Existing' = Existing
    BY <2>2, HearNumbers DEF Told
  <2>4. p \in Existing /\ FreshOf(p) /\ p \in PlayerIds
    BY <1>1, <1>2, <2>1, <2>3
  <2>5. /\ Observes(p)' /\ hub'.players[p] \in PlayerRecords
        /\ SamePlay(hub'.players[p], hub.players[p])
        /\ \A c \in Pages : Speaks(c, p)'
    <3>1. CASE Told(e, Answer(r))
      BY <2>1, <2>2, <2>4, <3>1, TellFresh
    <3>2. CASE UNCHANGED <<hub, outbox>>
      BY <2>4, <3>2, PlayersAre DEF Typed, FreshOf, Observes, Speaks, SamePlay, OldOrCurrent
    <3> QED
      BY <2>2, <3>1, <3>2
  <2>6. ASSUME NEW d \in Executors PROVE Follows(d, p)'
    <3>0. Follows(d, p)
      BY <2>4 DEF FreshOf
    <3>1. \A i \in DOMAIN inbox'[d] : \E j \in DOMAIN inbox[d] : inbox'[d][i] = inbox[d][j]
      <4>1. \A i \in DOMAIN Tail(inbox[e]) : \E j \in DOMAIN inbox[e] : Tail(inbox[e])[i] = inbox[e][j]
        BY <2>1, Rest
      <4> QED
        BY <1>0, <2>1, <4>1
    <3>2. \/ backend'[d][p] = backend[d][p]
          \/ backend'[d][p].load = 0
          \/ /\ d = e /\ r.player = p /\ r.op = "load"
             /\ backend'[d][p].version = r.version /\ backend'[d][p].load = r.request
      <4>1. CASE backend' = backend
        BY <4>1
      <4>2. ASSUME NEW loaded \in [version : Nat, load : Nat],
                   r.op = "load" => loaded.version = r.version /\ loaded.load = r.request,
                   r.op # "load" => loaded.load = 0,
                   backend' = [backend EXCEPT ![e][r.player] = loaded]
            PROVE  \/ backend'[d][p] = backend[d][p]
                   \/ backend'[d][p].load = 0
                   \/ /\ d = e /\ r.player = p /\ r.op = "load"
                      /\ backend'[d][p].version = r.version /\ backend'[d][p].load = r.request
        BY <1>0, <2>1, <2>4, <4>2
      <4> QED
        BY <1>9, <4>1, <4>2 DEF Performs
    <3>3. 1 \in DOMAIN inbox[e]
      BY <2>1, Rest
    <3>4. d = e /\ r.player = p /\ r.op = "load" => OldOrCurrent(p, r.version, r.request)
      BY <2>1, <3>0, <3>3 DEF Follows
    <3>5. \A v, l : OldOrCurrent(p, v, l) => OldOrCurrent(p, v, l)'
      BY <2>5 DEF OldOrCurrent, SamePlay
    <3>6. backend'[d][p].load # 0 => OldOrCurrent(p, backend'[d][p].version, backend'[d][p].load)
      BY <3>0, <3>2, <3>4 DEF Follows
    <3>7. \A i \in DOMAIN inbox'[d] : inbox'[d][i].player = p /\ inbox'[d][i].op = "load" =>
             OldOrCurrent(p, inbox'[d][i].version, inbox'[d][i].request)
      BY <3>0, <3>1 DEF Follows
    <3> QED
      BY <2>5, <3>6, <3>7 DEF Follows, OldOrCurrent, SamePlay
  <2> QED
    BY <2>5, <2>6 DEF FreshOf
<1>10. ASSUME NEW e, Says(e) PROVE FreshOf(p)'
  <2>1. e \in Executors /\ UNCHANGED <<inbox, backend, reborn>>
    BY <1>10 DEF Says, histories
  <2>2. PICK m : /\ Told(e, m)
                 /\ m.type = "observe" =>
                       \E q \in PlayerIds : /\ backend[e][q].load # 0 /\ m.player = q
                                            /\ m.version = backend[e][q].version
                                            /\ m.load = backend[e][q].load
    <3>1. ASSUME NEW r, Told(e, Answer(r))
          PROVE  \E m : Told(e, m) /\ m.type # "observe"
      <4>1. Answer(r).type # "observe"
        BY DEF Answer
      <4> QED
        BY <3>1, <4>1
    <3>2. ASSUME NEW q \in PlayerIds, backend[e][q].load # 0,
                 Told(e, [type |-> "observe", player |-> q, version |-> backend[e][q].version,
                          load |-> backend[e][q].load])
          PROVE  \E m : /\ Told(e, m) /\ m.player = q /\ m.version = backend[e][q].version
                        /\ m.load = backend[e][q].load
      BY <3>2
    <3>3. CASE \E r : Told(e, Answer(r))
      BY <3>1, <3>3
    <3>4. CASE \E q \in PlayerIds :
                  /\ backend[e][q].load # 0
                  /\ Told(e, [type |-> "observe", player |-> q, version |-> backend[e][q].version,
                              load |-> backend[e][q].load])
      BY <3>2, <3>4
    <3> QED
      BY <1>10, <3>3, <3>4 DEF Says
  <2>3. Existing' = Existing
    BY <2>2, HearNumbers DEF Told
  <2>4. p \in Existing /\ FreshOf(p) /\ p \in PlayerIds /\ Follows(e, p)
    BY <1>1, <1>2, <2>1, <2>3 DEF FreshOf
  <2>5. m.type = "observe" /\ m.player = p => OldOrCurrent(p, m.version, m.load)
    BY <2>2, <2>4 DEF Follows
  <2>6. /\ Observes(p)' /\ hub'.players[p] \in PlayerRecords
        /\ SamePlay(hub'.players[p], hub.players[p])
        /\ \A c \in Pages : Speaks(c, p)'
    BY <2>1, <2>2, <2>4, <2>5, TellFresh
  <2>7. \A v \in Nat : \A l : OldOrCurrent(p, v, l) => OldOrCurrent(p, v, l)'
    BY <2>4, <2>6, StaysOld
  <2>8. \A d \in Executors : Follows(d, p)'
    BY <2>1, <2>4, <2>7, FreshKept
  <2> QED
    BY <2>6, <2>8 DEF FreshOf
<1>11. ASSUME NEW c \in Pages, Passes(c) PROVE FreshOf(p)'
  <2> DEFINE m == outbox[c][1]
  <2>1. /\ outbox[c] \in Seq(Reports) /\ outbox[c] # <<>> /\ Hears(m)
        /\ outbox' = [outbox EXCEPT ![c] = Tail(outbox[c])]
        /\ UNCHANGED <<inbox, backend, reborn>>
    BY <1>0, <1>11 DEF Passes, histories
  <2>2. Existing' = Existing /\ hub'.players[p] \in PlayerRecords
    BY <1>1, <2>1, PlayersOf DEF Hears
  <2>3. p \in Existing /\ FreshOf(p)
    BY <1>1, <1>2, <2>1, <2>2
  <2>4. 1 \in DOMAIN outbox[c] /\ \A i \in DOMAIN Tail(outbox[c]) : \E j \in DOMAIN outbox[c] :
           Tail(outbox[c])[i] = outbox[c][j]
    BY <2>1, Rest
  <2>5. m.type = "observe" /\ m.player = p => OldOrCurrent(p, m.version, m.load)
    BY <1>11, <2>3, <2>4 DEF FreshOf, Speaks
  <2>6. Observes(p)' /\ SamePlay(hub'.players[p], hub.players[p])
    BY <2>1, <2>3, <2>5, HearFresh
  <2>7. \A v \in Nat : \A l : OldOrCurrent(p, v, l) => OldOrCurrent(p, v, l)'
    BY <2>2, <2>3, <2>6, StaysOld
  <2>8. \A d \in Executors : Follows(d, p)'
    BY <2>1, <2>3, <2>7, FreshKept
  <2>9. ASSUME NEW d \in Pages PROVE Speaks(d, p)'
    <3>0. Speaks(d, p)
      BY <2>3 DEF FreshOf
    <3>1. \A i \in DOMAIN outbox'[d] : \E j \in DOMAIN outbox[d] : outbox'[d][i] = outbox[d][j]
      BY <1>0, <2>1, <2>4
    <3> QED
      BY <2>6, <3>0, <3>1 DEF Speaks, OldOrCurrent, SamePlay
  <2> QED
    BY <2>6, <2>8, <2>9 DEF FreshOf
<1> QED
  BY <1>4, <1>5, <1>7, <1>8, <1>9, <1>10, <1>11, Kinds

-----------------------------------------------------------------------------
(* Who gets the requests about a player loaded it.                         *)

\* No request that changes what is loaded comes after the load of p.
Topped(p) ==
    hub.players[p].source # None =>
        /\ RunnerOf(hub, p) # "none" => hub.players[p].load # 0
        /\ hub.players[p].load # 0 =>
              \A e \in Executors : \A i \in DOMAIN inbox[e] :
                  inbox[e][i].player = p /\ inbox[e][i].op # "control" =>
                      inbox[e][i].request <= hub.players[p].load

\* Executor e loaded what p has.
HasIt(e, p) ==
    /\ backend[e][p].version = hub.players[p].version
    /\ backend[e][p].load = hub.players[p].load

\* Its load is about to be handed over.
Loading(p) == \E s \in sending : \E i \in DOMAIN s.requests : LoadsIt(s.requests[i], p)

\* Executor e has it, or gets its load.
Reaches(e, p) ==
    \/ HasIt(e, p)
    \/ \E i \in DOMAIN inbox[e] : LoadsIt(inbox[e][i], p)
    \/ Loading(p)

\* Requests for e arrive.
Sought(e) == e # None /\ (e \in Pages => Connected(e))

Placed(p) == hub.players[p].source # None /\ Sought(Holder(p)) => Reaches(Holder(p), p)

LEMMA LoadedIs ==
    Loaded <=> /\ \A p \in Existing : Topped(p)
               /\ ~raced => \A p \in Existing \ moved : Placed(p)
BY DEF Loaded, Topped, Placed, Sought, Reaches, HasIt, Loading

\* What is loaded of p, by who gets its requests.
LEMMA PlacedBy ==
    ASSUME NEW p, NEW h, Holder(p)' = h,
           hub'.players[p].source # None /\ Sought(h)' => Reaches(h, p)'
    PROVE  Placed(p)'
BY DEF Placed, Sought, Reaches, HasIt, Loading, LoadsIt

\* A player that plays the same is loaded the same.
LEMMA SameLoads ==
    ASSUME NEW p, SamePlay(hub'.players[p], hub.players[p])
    PROVE  /\ \A r : LoadsIt(r, p) <=> LoadsIt(r, p)'
           /\ \A e : backend'[e][p] = backend[e][p] => (HasIt(e, p) <=> HasIt(e, p)')
           /\ sending' = sending => (Loading(p) <=> Loading(p)')
           /\ hub'.players[p].source = hub.players[p].source
           /\ hub'.executor = hub.executor => RunnerOf(hub', p) = RunnerOf(hub, p)
BY DEF SamePlay, LoadsIt, HasIt, Loading, RunnerOf

\* What a call does to the loading of p.
LEMMA CallLoads ==
    ASSUME Typed, Calls, NEW p \in Existing'
    PROVE  \/ hub'.players[p].source = None
           \/ RunnerOf(hub', p) = "none" /\ hub'.players[p].load = 0
           \/ hub.next_request < hub'.players[p].load /\ Loading(p)'
           \/ /\ p \in Existing /\ SamePlay(hub'.players[p], hub.players[p])
              /\ RunnerOf(hub', p) \in {RunnerOf(hub, p), "none"}
              /\ sending = {} \/ sending' = sending
<1> DEFINE new == hub'.players[p]
           old == hub.players[p]
           Goal == \/ new.source = None
                   \/ RunnerOf(hub', p) = "none" /\ new.load = 0
                   \/ hub.next_request < new.load /\ Loading(p)'
                   \/ /\ p \in Existing /\ SamePlay(new, old)
                      /\ RunnerOf(hub', p) \in {RunnerOf(hub, p), "none"}
                      /\ sending = {} \/ sending' = sending
<1>0. hub.next_request \in Nat
  BY PlayersAre DEF Typed
<1>1. ASSUME p \in Existing, new = old \/ SamePlay(new, old), hub'.executor = hub.executor,
             sending = {} \/ sending' = sending
      PROVE  Goal
  BY <1>1 DEF SamePlay, RunnerOf
<1>2. ASSUME NEW by, NEW q, NEW op, Asks(by, q, op) PROVE Goal
  <2>1. /\ Existing' = Existing /\ q \in Existing /\ OthersStay(q) /\ sending = {}
        /\ hub'.executor = hub.executor /\ op \in {"load", "unload", "control"}
    BY <1>2, PlayersOf DEF Asks
  <2>2. CASE p # q
    BY <1>1, <2>1, <2>2 DEF OthersStay
  <2>3. CASE p = q /\ op = "control"
    BY <1>1, <1>2, <2>1, <2>3 DEF Asks
  <2>4. CASE p = q /\ op = "unload"
    BY <1>2, <2>4 DEF Asks
  <2>5. CASE p = q /\ op = "load"
    <3> DEFINE r == [request |-> hub.next_request + 1, player |-> q,
                     version |-> hub'.players[q].version, op |-> op, to |-> RunnerOf(hub', q)]
               l == <<r>>
               s == [by |-> by, requests |-> l]
    <3>1. s \in sending' /\ new.load = hub.next_request + 1
      BY <1>2, <2>5 DEF Asks
    <3>2. 1 \in DOMAIN l /\ l[1] = r
      OBVIOUS
    <3>3. r.player = p /\ r.op = "load" /\ r.version = new.version /\ r.request = new.load
      BY <2>5, <3>1
    <3> HIDE DEF l, r
    <3>4. s.requests = l
      OBVIOUS
    <3> HIDE DEF s
    <3>5. \E t \in sending' : \E i \in DOMAIN t.requests : t.requests[i] = r
      BY <3>1, <3>2, <3>4
    <3>6. \E t \in sending' : \E i \in DOMAIN t.requests :
             /\ t.requests[i].player = p /\ t.requests[i].op = "load"
             /\ t.requests[i].version = new.version /\ t.requests[i].request = new.load
      BY <3>3, <3>5
    <3>7. Loading(p)'
      BY <3>6 DEF Loading, LoadsIt
    <3> QED
      BY <1>0, <3>1, <3>7
  <2> QED
    BY <2>1, <2>2, <2>3, <2>4, <2>5
<1>3. ASSUME NEW q, Notes(q) PROVE Goal
  <2>1. /\ Existing' = Existing /\ OthersStay(q) /\ sending = {} /\ hub'.executor = hub.executor
    BY <1>3, PlayersOf DEF Notes
  <2>2. CASE p # q
    BY <1>1, <2>1, <2>2 DEF OthersStay
  <2>3. CASE p = q
    BY <1>3, <2>3 DEF Notes, RunnerOf
  <2> QED
    BY <2>2, <2>3
<1>4. ASSUME NEW by, NEW e, Reloads(by, e) PROVE Goal
  <2>1. Existing' = Existing /\ sending = {}
    BY <1>4, PlayersOf DEF Reloads
  <2>2. CASE old.runner
    <3>1. new = old
      BY <1>4, <2>1, <2>2 DEF Reloads
    <3> QED
      BY <2>1, <2>2, <3>1 DEF SamePlay, RunnerOf
  <2>3. CASE Unattended(p)
    <3>1. /\ new.load = new.request /\ hub.next_request < new.request
          /\ \E t \in sending' : \E i \in DOMAIN t.requests : t.requests[i] = LoadOf(p, e)
      BY <1>4, <2>1, <2>3 DEF Reloads
    <3>2. /\ LoadOf(p, e).player = p /\ LoadOf(p, e).op = "load"
          /\ LoadOf(p, e).version = new.version /\ LoadOf(p, e).request = new.load
      BY <3>1 DEF LoadOf
    <3>3. \E t \in sending' : \E i \in DOMAIN t.requests :
             /\ t.requests[i].player = p /\ t.requests[i].op = "load"
             /\ t.requests[i].version = new.version /\ t.requests[i].request = new.load
      BY <3>1, <3>2
    <3>4. Loading(p)'
      BY <3>3 DEF Loading, LoadsIt
    <3> QED
      BY <3>1, <3>4
  <2>4. CASE ~old.runner /\ ~Unattended(p)
    BY <1>4, <2>1, <2>4 DEF Reloads, SamePlay, Unattended
  <2> QED
    BY <2>2, <2>3, <2>4
<1>5. ASSUME NEW q \in Windows, Removes(q, q) PROVE Goal
  <2>1. Existing' = Existing \ {q} /\ OthersStay(q) /\ sending = {} /\ hub'.executor = hub.executor
    BY <1>5, PlayersOf DEF Removes
  <2> QED
    BY <1>1, <2>1 DEF OthersStay
<1>6. ASSUME NEW c \in Pages, Creates(c) PROVE Goal
  <2>1. /\ Existing' = Existing \cup {c} /\ sending' = sending /\ hub'.executor = hub.executor
        /\ \A q \in Existing : hub'.players[q] = hub.players[q]
        /\ hub'.players[c].source = None
    BY <1>6, PlayersOf DEF Creates
  <2> QED
    BY <1>1, <2>1
<1>7. ASSUME Forgets, sending' = sending PROVE Goal
  <2>1. Existing' = Existing /\ hub'.executor = hub.executor
    BY <1>7, PlayersOf DEF Forgets
  <2>2. CASE old.runner
    BY <1>7, <2>1, <2>2 DEF Forgets
  <2>3. CASE ~old.runner
    <3>1. new = old
      BY <1>7, <2>1, <2>3 DEF Forgets
    <3> QED
      BY <1>1, <1>7, <2>1, <3>1
  <2> QED
    BY <2>2, <2>3
<1>8. ASSUME Drops PROVE Goal
  <2>1. Existing' = Existing /\ hub'.executor = "none" /\ sending = {}
    BY <1>8, PlayersOf DEF Drops
  <2>2. SamePlay(new, old)
    BY <1>8, <2>1 DEF Drops
  <2> QED
    BY <2>1, <2>2 DEF SamePlay, RunnerOf
<1> QED
  BY <1>2, <1>3, <1>4, <1>5, <1>6, <1>7, <1>8 DEF Calls

\* No request that changes what is loaded comes after the load.
LEMMA ToppedStays ==
    ASSUME Typed, Numbered, Addressed, \A p \in Existing : Topped(p), Next, NEW p \in Existing'
    PROVE  Topped(p)'
<1>0. /\ inbox \in [Executors -> Seq(Requests)] /\ hub.next_request \in Nat
      /\ \A e \in Executors : \A i \in DOMAIN inbox[e] :
            inbox[e][i].request \in Nat /\ inbox[e][i].request <= hub.next_request
  <2>1. inbox \in [Executors -> Seq(Requests)] /\ hub.next_request \in Nat
    BY PlayersAre DEF Typed, ExecutorsTyped
  <2>2. \A e \in Executors : \A i \in DOMAIN inbox[e] : inbox[e][i] \in Requests
    BY <2>1
  <2> QED
    BY <2>1, <2>2 DEF Numbered, UpTo, Requests
\* The player plays the same, and nobody gets a request about it but its load.
<1>1. ASSUME p \in Existing, SamePlay(hub'.players[p], hub.players[p]),
             RunnerOf(hub', p) \in {RunnerOf(hub, p), "none"},
             \A e \in Executors : \A i \in DOMAIN inbox'[e] : inbox'[e][i].player = p =>
                 \/ \E j \in DOMAIN inbox[e] : inbox'[e][i] = inbox[e][j]
                 \/ Fits(inbox'[e][i], p)
      PROVE  Topped(p)'
  <2>1. /\ hub'.players[p].source = hub.players[p].source
        /\ hub'.players[p].load = hub.players[p].load
    BY <1>1 DEF SamePlay
  <2>2. hub.players[p].load \in Nat /\ Topped(p)
    BY <1>1, PlayersAre DEF Typed
  <2>3. ASSUME hub.players[p].source # None, hub.players[p].load # 0, NEW e \in Executors,
               NEW i \in DOMAIN inbox'[e],
               inbox'[e][i].player = p, inbox'[e][i].op # "control"
        PROVE  inbox'[e][i].request <= hub.players[p].load
    <3>1. CASE \E j \in DOMAIN inbox[e] : inbox'[e][i] = inbox[e][j]
      BY <2>2, <2>3, <3>1 DEF Topped
    <3>2. CASE Fits(inbox'[e][i], p) /\ inbox'[e][i].op \in {"load", "unload", "control", "release"}
      <4>1. inbox'[e][i].request = hub.players[p].load
        BY <1>1, <2>3, <3>2 DEF Fits
      <4> QED
        BY <2>2, <4>1
    <3>3. inbox'[e][i].op \in {"load", "unload", "control", "release"}
      <4>1. inbox' \in [Executors -> Seq(Requests)]
        BY ExecutorsStayTyped DEF ExecutorsTyped
      <4>2. inbox'[e][i] \in Requests
        BY <4>1
      <4> QED
        BY <4>2 DEF Requests
    <3> QED
      BY <1>1, <2>3, <3>1, <3>2, <3>3
  <2> QED
    BY <1>1, <2>1, <2>2, <2>3 DEF Topped
<1>2. CASE CallStep
  <2>1. Calls /\ inbox' = inbox
    BY <1>2 DEF CallStep, ExecutorsStay, executorVars
  <2>2. CASE hub'.players[p].source = None
    BY <2>2 DEF Topped
  <2>3. CASE RunnerOf(hub', p) = "none" /\ hub'.players[p].load = 0
    BY <2>3 DEF Topped
  <2>4. CASE hub.next_request < hub'.players[p].load
    <3>1. hub'.players[p].load \in Nat
      BY <2>1, CallTypes DEF Typed, HubTyped, HubsOf, PlayerRecords
    <3>2. \A e \in Executors : \A i \in DOMAIN inbox'[e] :
             inbox'[e][i].request <= hub'.players[p].load
      BY <1>0, <2>1, <2>4, <3>1
    <3> QED
      BY <1>0, <2>4, <3>1, <3>2 DEF Topped
  <2>5. CASE /\ p \in Existing /\ SamePlay(hub'.players[p], hub.players[p])
             /\ RunnerOf(hub', p) \in {RunnerOf(hub, p), "none"}
    BY <1>1, <2>1, <2>5
  <2> QED
    BY <2>1, <2>2, <2>3, <2>4, <2>5, CallLoads
<1>3. ASSUME \/ hub' = hub
             \/ \E m : Hears(m)
             \/ \E ids : Unanswers(ids)
      PROVE  /\ p \in Existing /\ SamePlay(hub'.players[p], hub.players[p])
             /\ RunnerOf(hub', p) = RunnerOf(hub, p)
  <2>1. /\ Existing' = Existing /\ hub'.executor = hub.executor
        /\ \A q \in Existing : SamePlay(hub'.players[q], hub.players[q])
    BY <1>3, HearNumbers
  <2>2. p \in Existing
    BY <2>1
  <2> QED
    BY <2>1, <2>2, SameLoads
<1>4. CASE QuietStep
  <2>1. hub' = hub /\ inbox' = inbox
    BY <1>4 DEF QuietStep, ExecutorsStay, executorVars
  <2> QED
    BY <1>1, <1>3, <2>1
<1>5. ASSUME NEW c \in Pages, Leaves(c) PROVE Topped(p)'
  <2>1. \E ids : Unanswers(ids)
    BY <1>5 DEF Leaves
  <2>2. \A e \in Executors : inbox'[e] = inbox[e] \/ inbox'[e] = <<>>
    BY <1>0, <1>5 DEF Leaves
  <2>3. \A e \in Executors : \A i \in DOMAIN inbox'[e] : \E j \in DOMAIN inbox[e] :
           inbox'[e][i] = inbox[e][j]
    BY <2>2
  <2> QED
    BY <1>1, <1>3, <2>1, <2>3
<1>6. ASSUME NEW s, NEW r, NEW e, Hands(s, r, e) PROVE Topped(p)'
  <2>1. hub' = hub \/ \E ids : Unanswers(ids)
    BY <1>6 DEF Hands
  <2>2. p \in Existing
    BY <1>3, <2>1
  <2>3. r.player = p => Fits(r, p)
    <3>1. Fits(r, s.by)
      <4>1. 1 \in DOMAIN s.requests /\ sending = {s} /\ r = s.requests[1]
        BY <1>6, Rest DEF Hands
      <4> QED
        BY <4>1, AddressedIs
    <3> QED
      BY <2>2, <3>1 DEF Fits
  <2>4. ASSUME NEW d \in Executors, NEW i \in DOMAIN inbox'[d], inbox'[d][i].player = p
        PROVE  \/ \E j \in DOMAIN inbox[d] : inbox'[d][i] = inbox[d][j]
               \/ Fits(inbox'[d][i], p)
    <3>1. CASE inbox'[d] = inbox[d]
      BY <3>1
    <3>2. CASE d = e /\ inbox' = [inbox EXCEPT ![e] = Append(inbox[e], r)]
      <4>1. r \in Requests /\ inbox[e] \in Seq(Requests) /\ inbox'[e] = Append(inbox[e], r)
        BY <1>0, <1>6, <3>2 DEF Hands
      <4>2. /\ DOMAIN inbox'[e] = DOMAIN inbox[e] \cup {Len(inbox[e]) + 1}
            /\ inbox'[e][Len(inbox[e]) + 1] = r
            /\ \A j \in DOMAIN inbox[e] : inbox'[e][j] = inbox[e][j]
        BY <4>1, More
      <4>3. CASE i \in DOMAIN inbox[e]
        BY <3>2, <4>2, <4>3
      <4>4. CASE i = Len(inbox[e]) + 1
        BY <2>3, <2>4, <3>2, <4>2, <4>4
      <4> QED
        BY <3>2, <4>2, <4>3, <4>4
    <3> QED
      BY <1>0, <1>6, <3>1, <3>2 DEF Hands
  <2>5. Topped(p)
    BY <2>2
  <2> QED
    BY <1>1, <1>3, <2>1, <2>4
<1>7. ASSUME NEW e, NEW r, Performs(e, r) PROVE Topped(p)'
  <2>1. hub' = hub \/ \E m : Hears(m)
    BY <1>7 DEF Performs, Told
  <2>2. e \in Executors /\ inbox[e] \in Seq(Requests) /\ inbox[e] # <<>>
        /\ inbox' = [inbox EXCEPT ![e] = Tail(inbox[e])]
    BY <1>0, <1>7 DEF Performs
  <2>3. \A i \in DOMAIN Tail(inbox[e]) : \E j \in DOMAIN inbox[e] : Tail(inbox[e])[i] = inbox[e][j]
    BY <2>2, Rest
  <2>4. \A d \in Executors : \A i \in DOMAIN inbox'[d] : \E j \in DOMAIN inbox[d] :
           inbox'[d][i] = inbox[d][j]
    BY <1>0, <2>2, <2>3
  <2> QED
    BY <1>1, <1>3, <2>1, <2>4
<1>8. ASSUME (\E e : Says(e)) \/ (\E c \in Pages : Passes(c)) PROVE Topped(p)'
  <2>1. (hub' = hub \/ \E m : Hears(m)) /\ inbox' = inbox
    BY <1>8 DEF Says, Told, Passes
  <2> QED
    BY <1>1, <1>3, <2>1
<1> QED
  BY <1>2, <1>4, <1>5, <1>6, <1>7, <1>8, Kinds

\* Who gets the requests, by the fields it depends on.
LEMMA HolderIs ==
    ASSUME Typed, NEW p \in Existing
    PROVE  /\ RunnerOf(hub', p) = "none" => Holder(p)' = None
           /\ RunnerOf(hub', p) = RunnerOf(hub, p) /\ Routed(p)' = Routed(p) => Holder(p)' = Holder(p)
           /\ RunnerOf(hub', p) = RunnerOf(hub, p) /\ RunnerOf(hub, p) # "router" =>
                 Holder(p)' = Holder(p) /\ Holder(p) \in {"device", None}
           /\ Holder(p) \in Executors \cup {None}
           /\ RunnerOf(hub, p) = "none" => Holder(p) = None
<1>1. Routed(p) \in Pages \cup {None}
  BY RoutedIs, PlayersAre DEF Typed
<1> QED
  BY <1>1 DEF Holder, Executors

\* A step that leaves the hub and what it loads alone, and where its requests go.
LEMMA PlacedKept ==
    ASSUME Typed, NEW p \in Existing, Placed(p), SamePlay(hub'.players[p], hub.players[p]),
           Loading(p) => Loading(p)',
           inbox' = inbox, backend' = backend, Holder(p)' = Holder(p),
           \A c \in Pages : c = Holder(p) /\ Connected(c)' => Connected(c)
    PROVE  Placed(p)'
<1> PICK h : h = Holder(p)
  OBVIOUS
<1>1. hub'.players[p].source # None /\ Sought(h)' => hub.players[p].source # None /\ Sought(h)
  BY DEF Sought, SamePlay
<1>2. Reaches(h, p) => Reaches(h, p)'
  BY SameLoads DEF Reaches
<1>3. hub'.players[p].source # None /\ Sought(h)' => Reaches(h, p)'
  BY <1>1, <1>2 DEF Placed
<1> QED
  BY <1>3, PlacedBy

\* What the router sends elsewhere was loaded elsewhere.
LEMMA MovesOn ==
    ASSUME Typed, Moves, UNCHANGED hub, NEW p \in Existing, p \notin moved'
    PROVE  /\ p \notin moved
           /\ hub.players[p].source # None /\ RunnerOf(hub, p) = "router" /\ Routed(p) # None =>
                 Routed(p)' = Routed(p)
BY DEF Moves

\* A load of what p plays in the inbox of h.
LEMMA InboxReaches ==
    ASSUME NEW h, NEW p, NEW a, LoadsIt(a, p)', \E i \in DOMAIN inbox'[h] : inbox'[h][i] = a
    PROVE  Reaches(h, p)'
BY DEF Reaches, LoadsIt

\* Who gets the requests about a player has what it plays, or gets it.
LEMMA PlacedStays ==
    ASSUME Typed, Members, TakenOver, Unrun, Numbered, Addressed, Owned, Loaded, Next,
           ~raced', NEW p \in Existing', p \notin moved'
    PROVE  Placed(p)'
<1>0. /\ inbox \in [Executors -> Seq(Requests)] /\ p \in PlayerIds
      /\ backend \in [Executors -> [PlayerIds -> [version : Nat, load : Nat]]]
      /\ thread \in [Pages -> Steps] /\ None \notin Executors /\ ~raced
      /\ router \in [executors : Seq(Pages), players : [PlayerIds -> Pages \cup {None}]]
      /\ Pages \subseteq Executors /\ "device" \notin Pages /\ Executors = Pages \cup {"device"}
  <2>1. p \in PlayerIds
    BY HubStaysTyped DEF HubTyped
  <2>2. ~raced
    BY RacedStays
  <2> QED
    BY <2>1, <2>2, MediaAssumption DEF Typed, RouterTyped, ExecutorsTyped, Executors
<1>1. p \in Existing /\ p \notin moved => Topped(p) /\ Placed(p)
  BY <1>0, LoadedIs
<1>2. CASE CallStep
  <2>1. /\ Calls /\ UNCHANGED <<inbox, backend>>
        /\ p \in Existing => /\ p \notin moved
                             /\ router'.players[p] = router.players[p]
        /\ router'.executors = router.executors
        /\ \A c \in Pages : Connected(c)' <=> Connected(c)
    BY <1>0, <1>2 DEF CallStep, Keeps, ExecutorsStay, executorVars
  <2>2. p \in Existing => Routed(p)' = Routed(p)
    BY <2>1 DEF Routed
  <2>3. CASE hub'.players[p].source = None
    BY <2>3 DEF Placed
  <2>4. CASE RunnerOf(hub', p) = "none"
    <3>1. Holder(p)' = None
      BY <2>4 DEF Holder
    <3> QED
      BY <3>1, PlacedBy DEF Sought
  <2>5. CASE Loading(p)'
    <3> PICK h : h = Holder(p)'
      OBVIOUS
    <3>1. Reaches(h, p)'
      BY <2>5 DEF Reaches
    <3> QED
      BY <3>1, PlacedBy
  <2>6. CASE /\ p \in Existing /\ SamePlay(hub'.players[p], hub.players[p])
             /\ RunnerOf(hub', p) = RunnerOf(hub, p)
             /\ sending = {} \/ sending' = sending
    <3>1. Holder(p)' = Holder(p)
      BY <2>2, <2>6, HolderIs
    <3>2. Loading(p) => Loading(p)'
      <4>1. CASE sending = {}
        BY <4>1 DEF Loading
      <4>2. CASE sending' = sending
        BY <2>6, <4>2, SameLoads
      <4> QED
        BY <2>6, <4>1, <4>2
    <3> QED
      BY <1>1, <2>1, <2>6, <3>1, <3>2, PlacedKept
  <2> QED
    BY <2>1, <2>3, <2>4, <2>5, <2>6, CallLoads
<1>3. CASE QuietStep
  <2>1. /\ UNCHANGED <<hub, sending, inbox, backend>> /\ p \in Existing
        /\ SamePlay(hub'.players[p], hub.players[p]) /\ RunnerOf(hub', p) = RunnerOf(hub, p)
    BY <1>3 DEF QuietStep, ExecutorsStay, executorVars, SamePlay, Existing
  <2>2. Loading(p) => Loading(p)'
    BY <2>1, SameLoads
  \* It is enough that the router sends it where it did, to a page that was there.
  <2>3. ASSUME p \notin moved,
               hub.players[p].source # None /\ RunnerOf(hub, p) = "router" => Routed(p)' = Routed(p),
               \A c \in Pages : c = Holder(p) /\ Connected(c)' => Connected(c)
        PROVE  Placed(p)'
    <3>1. CASE hub.players[p].source = None
      BY <2>1, <3>1 DEF Placed
    <3>2. CASE hub.players[p].source # None
      <4>1. Holder(p)' = Holder(p)
        BY <2>1, <2>3, <3>2, HolderIs
      <4> QED
        BY <1>1, <2>1, <2>2, <2>3, <4>1, PlacedKept
    <3> QED
      BY <3>1, <3>2
  <2>4. ASSUME Moves,
               hub.players[p].source # None /\ RunnerOf(hub, p) = "router" => Routed(p) # None,
               \A c \in Pages : c = Holder(p) /\ Connected(c)' => Connected(c)
        PROVE  Placed(p)'
    <3>1. /\ p \notin moved
          /\ hub.players[p].source # None /\ RunnerOf(hub, p) = "router" => Routed(p)' = Routed(p)
      BY <2>1, <2>4, MovesOn
    <3> QED
      BY <2>3, <2>4, <3>1
  <2>5. CASE Keeps
    <3>1. /\ p \notin moved /\ router'.players[p] = router.players[p]
          /\ router'.executors = router.executors
          /\ \A c \in Pages : Connected(c)' <=> Connected(c)
      BY <1>0, <2>1, <2>5 DEF Keeps
    <3>2. Routed(p)' = Routed(p)
      BY <3>1 DEF Routed
    <3> QED
      BY <2>3, <3>1, <3>2
  <2>6. router.executors # <<>> => Routed(p) \in Range(router.executors) /\ Routed(p) # None
    BY <1>0, Elements DEF Routed
  <2>7. ASSUME NEW c \in Pages, Attach(c) PROVE Placed(p)'
    <3>1. /\ Moves /\ GivingUp = {} /\ c \notin Range(router.executors)
          /\ \A d \in Pages \ {c} : thread'[d] = thread[d]
      BY <1>0, <2>7, Coming DEF Attach
    <3>2. CASE router.executors = <<>>
      <4>1. \A d \in Pages : ~IsAt(d, {"forget"})
        BY <3>1, GivingUpIs DEF IsAt
      <4>2. RunnerOf(hub, p) # "router"
        BY <1>0, <2>1, <3>1, <3>2, <4>1 DEF TakenOver, Unrun, RunnerOf
      <4>3. Holder(p) \in {"device", None}
        BY <2>1, <4>2, HolderIs
      <4> QED
        BY <1>0, <2>4, <3>1, <4>2, <4>3
    <3>3. CASE router.executors # <<>>
      <4>1. Holder(p) # c
        BY <1>0, <2>6, <3>1, <3>3 DEF Holder
      <4>2. \A d \in Pages : d = Holder(p) /\ Connected(d)' => Connected(d)
        BY <3>1, <4>1 DEF Connected
      <4> QED
        BY <2>4, <2>6, <3>1, <3>3, <4>2
    <3> QED
      BY <3>2, <3>3
  <2>8. ASSUME NEW c \in Pages, Detach(c) PROVE Placed(p)'
    <3>1. /\ Moves /\ router.executors # <<>>
          /\ thread'[c] = <<"forget">> \/ thread'[c] = <<"gone">>
          /\ \A d \in Pages \ {c} : thread'[d] = thread[d]
      BY <2>8, Detaching DEF Detach
    <3>2. \A d \in Pages : Connected(d)' => Connected(d)
      BY <3>1 DEF Connected
    <3> QED
      BY <2>4, <2>6, <3>1, <3>2
  <2>9. ASSUME NEW c \in Pages, NEW q, Claiming(c, q) PROVE Placed(p)'
    <3>1. Moves /\ thread[c] = Receiving
      BY <2>9 DEF Claiming, Claims
    <3>2. router.executors # <<>>
      <4>1. c \in Range(router.executors)
        BY <3>1 DEF Members, Listed, IsAt, Receiving
      <4> QED
        BY <4>1 DEF Range
    <3>3. \A d \in Pages : Connected(d)' => Connected(d)
      <4>1. \A d \in Pages \ {c} : thread'[d] = thread[d]
        BY <1>0, <2>9 DEF Claiming
      <4>2. Connected(c)
        BY <3>1 DEF Connected, Receiving
      <4> QED
        BY <4>1, <4>2 DEF Connected
    <3> QED
      BY <2>4, <2>6, <3>1, <3>2, <3>3
  <2>10. ASSUME NEW c \in Pages, Unclaim(c) PROVE Placed(p)'
    <3>1. /\ thread[c] = <<"unclaim">> /\ router' = [router EXCEPT !.players[c] = None]
          /\ thread' = [thread EXCEPT ![c] = Receiving] /\ moved' = moved
      BY <2>10 DEF Unclaim, Goes, histories
    <3>2. p # c
      <4>1. p = c => p \in Windows
        BY <2>1, PlayersAre, MediaAssumption DEF Typed, PlayerIds
      <4>2. p = c => Housed(p)
        BY <2>1, <4>1, OwnedIs DEF OwnedBy
      <4> QED
        BY <3>1, <4>2 DEF Housed, IsAt
    <3>3. Routed(p)' = Routed(p)
      <4>1. router'.players[p] = router.players[p] /\ router'.executors = router.executors
        BY <1>0, <3>1, <3>2
      <4> QED
        BY <4>1 DEF Routed
    <3>4. \A d \in Pages : Connected(d)' => Connected(d)
      BY <1>0, <3>1 DEF Connected
    <3> QED
      BY <2>3, <3>1, <3>3, <3>4
  <2> QED
    BY <1>3, <2>5, <2>7, <2>8, <2>9, <2>10 DEF QuietStep
\* The hub hears nothing, or what does not change what is played.
<1>4. ASSUME \/ hub' = hub
             \/ \E m : Hears(m)
             \/ \E ids : Unanswers(ids),
             UNCHANGED router
      PROVE  /\ p \in Existing /\ SamePlay(hub'.players[p], hub.players[p])
             /\ Holder(p)' = Holder(p)
  <2>1. /\ Existing' = Existing /\ hub'.executor = hub.executor
        /\ \A q \in Existing : SamePlay(hub'.players[q], hub.players[q])
    BY <1>4, HearNumbers
  <2>2. p \in Existing
    BY <2>1
  <2>3. RunnerOf(hub', p) = RunnerOf(hub, p) /\ Routed(p)' = Routed(p)
    BY <1>4, <2>1, <2>2, SameLoads DEF Routed
  <2> QED
    BY <2>1, <2>2, <2>3, HolderIs
<1>5. ASSUME NEW c \in Pages, Leaves(c) PROVE Placed(p)'
  <2>1. /\ \E ids : Unanswers(ids)
        /\ UNCHANGED <<router, sending, moved>> /\ thread' = [thread EXCEPT ![c] = <<"release">>]
        /\ inbox' = [inbox EXCEPT ![c] = <<>>]
        /\ backend' = [backend EXCEPT ![c] = [q \in PlayerIds |-> NoElement]]
    BY <1>5 DEF Leaves
  <2>2. p \in Existing /\ SamePlay(hub'.players[p], hub.players[p]) /\ Holder(p)' = Holder(p)
    BY <1>4, <2>1
  <2> PICK h : h = Holder(p)
    OBVIOUS
  <2>3. Placed(p)
    BY <1>1, <2>1, <2>2
  <2>4. CASE h = c
    <3>1. ~Connected(c)'
      BY <1>0, <2>1 DEF Connected
    <3> QED
      BY <2>2, <2>4, <3>1, PlacedBy DEF Sought
  <2>5. CASE h # c
    <3>1. ASSUME hub'.players[p].source # None, Sought(h)' PROVE Reaches(h, p)'
      <4>1. h \in Executors /\ Sought(h)
        <5>1. h \in Executors \cup {None} /\ h # None
          BY <2>2, <3>1, HolderIs DEF Sought
        <5>2. h \in Pages => Connected(h)
          BY <1>0, <2>1, <2>5, <3>1 DEF Sought, Connected
        <5> QED
          BY <5>1, <5>2 DEF Sought
      <4>2. inbox'[h] = inbox[h] /\ backend'[h][p] = backend[h][p]
        BY <1>0, <2>1, <2>5, <4>1
      <4>3. Reaches(h, p)
        BY <2>2, <2>3, <3>1, <4>1 DEF Placed, SamePlay
      <4> QED
        BY <2>1, <2>2, <4>2, <4>3, SameLoads DEF Reaches
    <3> QED
      BY <2>2, <3>1, PlacedBy
  <2> QED
    BY <2>4, <2>5
<1>6. ASSUME NEW s, NEW r, NEW e, Hands(s, r, e) PROVE Placed(p)'
  <2>1. /\ sending = {s} /\ s.requests \in Seq(Requests) /\ s.requests # <<>> /\ r = s.requests[1]
        /\ r \in Requests /\ UNCHANGED <<router, thread, backend>>
        /\ e = IF r.to = "device" THEN "device" ELSE Routed(r.player)
        /\ Tail(s.requests) # <<>> => [by |-> s.by, requests |-> Tail(s.requests)] \in sending'
        /\ moved' = IF r.op = "load" THEN moved \ {r.player} ELSE moved
        /\ hub' = hub \/ \E ids : Unanswers(ids)
    BY <1>6 DEF Hands
  <2>2. p \in Existing /\ SamePlay(hub'.players[p], hub.players[p]) /\ Holder(p)' = Holder(p)
    BY <1>4, <2>1
  <2> PICK h : h = Holder(p)
    OBVIOUS
  <2>3. \A d \in Executors : \A i \in DOMAIN inbox[d] : i \in DOMAIN inbox'[d] /\ inbox'[d][i] = inbox[d][i]
    <3>1. CASE inbox' = inbox
      BY <3>1
    <3>2. CASE e \in Executors /\ inbox' = [inbox EXCEPT ![e] = Append(inbox[e], r)]
      BY <1>0, <2>1, <3>2, More
    <3> QED
      BY <1>6, <3>1, <3>2 DEF Hands
  <2>4. SUFFICES ASSUME hub'.players[p].source # None, Sought(h)'
                 PROVE  Reaches(h, p)'
    BY <2>2, PlacedBy
  <2>5. h \in Executors /\ Sought(h) /\ hub.players[p].source # None /\ RunnerOf(hub, p) # "none"
    <3>1. Sought(h)
      BY <2>1, <2>4 DEF Sought, Connected
    <3> QED
      BY <2>2, <2>4, <3>1, HolderIs DEF Sought, SamePlay
  <2>6. CASE r.op = "load" /\ r.player = p
    <3>1. Fits(r, s.by)
      <4>1. 1 \in DOMAIN s.requests
        BY <2>1, Rest
      <4> QED
        BY <2>1, <4>1, AddressedIs
    <3>2. LoadsIt(r, p) /\ r.to = RunnerOf(hub, p)
      BY <2>2, <2>6, <3>1 DEF Fits, LoadsIt
    <3>3. e = h
      BY <2>1, <2>2, <2>5, <2>6, <3>2, RunnerIs, PlayersAre DEF Holder, Typed, Requests
    <3>4. inbox' = [inbox EXCEPT ![e] = Append(inbox[e], r)]
      BY <1>0, <1>6, <2>5, <3>3 DEF Hands, Sought
    <3>5. \E i \in DOMAIN inbox'[h] : inbox'[h][i] = r
      <4>1. inbox'[e] = Append(inbox[e], r) /\ inbox[e] \in Seq(Requests)
        BY <1>0, <2>5, <3>3, <3>4
      <4> QED
        BY <2>1, <3>3, <4>1, More
    <3>6. LoadsIt(r, p)'
      BY <2>2, <3>2, SameLoads
    <3> QED
      BY <3>5, <3>6, InboxReaches
  <2>7. CASE ~(r.op = "load" /\ r.player = p)
    <3>1. Reaches(h, p)
      <4>1. p \notin moved
        BY <2>1, <2>7
      <4> QED
        BY <1>1, <2>2, <2>5, <4>1 DEF Placed
    <3>2. HasIt(h, p) => HasIt(h, p)'
      BY <2>1, <2>2, SameLoads
    <3>3. ASSUME NEW i \in DOMAIN inbox[h], LoadsIt(inbox[h][i], p) PROVE Reaches(h, p)'
      <4> PICK a : a = inbox[h][i]
        OBVIOUS
      <4>1. LoadsIt(a, p)'
        BY <2>2, <3>3, SameLoads
      <4> QED
        BY <2>3, <2>5, <4>1, InboxReaches
    <3>4. ASSUME Loading(p) PROVE Loading(p)'
      <4>1. PICK i \in DOMAIN s.requests : LoadsIt(s.requests[i], p)
        BY <2>1, <3>4 DEF Loading
      <4>2. i # 1
        BY <2>1, <2>7, <4>1 DEF LoadsIt
      <4> DEFINE l == Tail(s.requests)
      <4>3. i - 1 \in DOMAIN l /\ l[i - 1] = s.requests[i] /\ l # <<>>
        BY <2>1, <4>2, Rest
      <4>4. l # <<>> => [by |-> s.by, requests |-> l] \in sending'
        BY <2>1
      <4> HIDE DEF l
      <4>5. \E t \in sending' : t.requests = l
        BY <4>3, <4>4
      <4> QED
        BY <2>2, <4>1, <4>3, <4>5 DEF Loading, LoadsIt, SamePlay
    <3> QED
      BY <3>1, <3>2, <3>3, <3>4 DEF Reaches
  <2> QED
    BY <2>6, <2>7
<1>7. ASSUME NEW e, NEW r, Performs(e, r) PROVE Placed(p)'
  <2>1. /\ e \in Executors /\ inbox[e] \in Seq(Requests) /\ inbox[e] # <<>> /\ r = inbox[e][1]
        /\ r \in Requests /\ UNCHANGED <<sending, router, thread, moved>>
        /\ inbox' = [inbox EXCEPT ![e] = Tail(inbox[e])]
        /\ hub' = hub \/ \E m : Hears(m)
    BY <1>0, <1>7 DEF Performs, Told, histories
  <2>2. p \in Existing /\ SamePlay(hub'.players[p], hub.players[p]) /\ Holder(p)' = Holder(p)
    BY <1>4, <2>1
  <2> PICK h : h = Holder(p)
    OBVIOUS
  <2>3. Placed(p) /\ Topped(p)
    BY <1>1, <2>1, <2>2
  <2>4. SUFFICES ASSUME hub'.players[p].source # None, Sought(h)'
                 PROVE  Reaches(h, p)'
    BY <2>2, PlacedBy
  <2>5. h \in Executors /\ Sought(h) /\ hub.players[p].source # None /\ RunnerOf(hub, p) # "none"
    <3>1. Sought(h)
      BY <2>1, <2>4 DEF Sought, Connected
    <3> QED
      BY <2>2, <2>4, <3>1, HolderIs DEF Sought, SamePlay
  <2>6. Reaches(h, p)
    BY <2>2, <2>3, <2>5 DEF Placed
  <2>7. /\ 1 \in DOMAIN inbox[e]
        /\ \A i \in DOMAIN inbox[e] : i # 1 => i - 1 \in DOMAIN Tail(inbox[e])
                                                /\ Tail(inbox[e])[i - 1] = inbox[e][i]
    BY <2>1, Rest
  <2>8. /\ h # e => inbox'[h] = inbox[h]
        /\ inbox'[e] = Tail(inbox[e])
    BY <1>0, <2>1, <2>5
  <2>9. Loading(p) => Loading(p)'
    BY <2>1, <2>2, SameLoads
  <2>10. \/ backend' = backend
         \/ \E loaded \in [version : Nat, load : Nat] :
               /\ r.op # "control"
               /\ r.op = "load" => loaded.version = r.version /\ loaded.load = r.request
               /\ backend' = [backend EXCEPT ![e][r.player] = loaded]
    BY <1>7 DEF Performs
  <2>11. ASSUME HasIt(h, p) PROVE HasIt(h, p)'
    <3>1. ~(h = e /\ r.player = p /\ r.op # "control")
      <4> SUFFICES ASSUME h = e, r.player = p, r.op # "control" PROVE FALSE
        OBVIOUS
      <4>1. r.request <= hub.players[p].load
        BY <2>1, <2>3, <2>5, <2>7 DEF Topped
      <4>2. backend[e][p].load < r.request
        BY <1>0, <2>1, <2>7 DEF Numbered, From
      <4>3. backend[e][p].load = hub.players[p].load
        BY <2>11 DEF HasIt
      <4>4. r.request \in Nat /\ hub.players[p].load \in Nat
        BY <2>1, <2>2, PlayersAre DEF Requests, Typed
      <4> QED
        BY <4>1, <4>2, <4>3, <4>4
    <3>2. backend'[h][p] = backend[h][p]
      BY <1>0, <2>1, <2>5, <2>10, <3>1
    <3> QED
      BY <2>2, <2>11, <3>2, SameLoads
  <2>12. ASSUME NEW i \in DOMAIN inbox[h], LoadsIt(inbox[h][i], p) PROVE Reaches(h, p)'
    <3>1. CASE h = e /\ i = 1
      <4>1. /\ r.player = p /\ r.op = "load" /\ r.version = hub.players[p].version
            /\ r.request = hub.players[p].load
        BY <2>1, <2>12, <3>1 DEF LoadsIt
      <4>2. ASSUME NEW loaded \in [version : Nat, load : Nat],
                   loaded.version = r.version, loaded.load = r.request,
                   backend' = [backend EXCEPT ![e][r.player] = loaded]
            PROVE  HasIt(h, p)'
        <5>1. backend'[h][p] = loaded
          BY <1>0, <2>1, <3>1, <4>1, <4>2
        <5> QED
          BY <2>2, <4>1, <4>2, <5>1 DEF HasIt, SamePlay
      <4>3. HasIt(h, p)'
        BY <1>7, <4>1, <4>2 DEF Performs
      <4> QED
        BY <4>3 DEF Reaches
    <3>2. CASE ~(h = e /\ i = 1)
      <4>1. \E j \in DOMAIN inbox'[h] : inbox'[h][j] = inbox[h][i]
        BY <2>7, <2>8, <2>12, <3>2
      <4> PICK a : a = inbox[h][i]
        OBVIOUS
      <4>2. LoadsIt(a, p)'
        BY <2>2, <2>12, SameLoads
      <4> QED
        BY <4>1, <4>2, InboxReaches
    <3> QED
      BY <3>1, <3>2
  <2> QED
    BY <2>6, <2>9, <2>11, <2>12 DEF Reaches
<1>8. ASSUME (\E e : Says(e)) \/ (\E c \in Pages : Passes(c)) PROVE Placed(p)'
  <2>1. /\ UNCHANGED <<sending, router, thread, inbox, backend, moved>>
        /\ hub' = hub \/ \E m : Hears(m)
    BY <1>8 DEF Says, Told, Passes, histories
  <2>2. p \in Existing /\ SamePlay(hub'.players[p], hub.players[p]) /\ Holder(p)' = Holder(p)
    BY <1>4, <2>1
  <2>3. Placed(p)
    BY <1>1, <2>1, <2>2
  <2>4. Loading(p) => Loading(p)'
    BY <2>1, <2>2, SameLoads
  <2>5. \A c \in Pages : Connected(c)' => Connected(c)
    BY <2>1 DEF Connected
  <2> QED
    BY <2>1, <2>2, <2>3, <2>4, <2>5, PlacedKept
<1> QED
  BY <1>2, <1>3, <1>5, <1>6, <1>7, <1>8, Kinds

LEMMA LoadedStays ==
    ASSUME Typed, Members, TakenOver, Unrun, Numbered, Addressed, Owned, Loaded, Next
    PROVE  Loaded'
<1>1. \A p \in Existing : Topped(p)
  BY LoadedIs
<1>2. \A p \in Existing' : Topped(p)'
  BY <1>1, ToppedStays
<1>3. ~raced' => \A p \in Existing' : p \notin moved' => Placed(p)'
  BY PlacedStays
<1>4. (Loaded <=> /\ \A p \in Existing : Topped(p)
                  /\ ~raced => \A p \in Existing \ moved : Placed(p))'
  BY LoadedIs, PTL
<1> QED
  BY <1>2, <1>3, <1>4

-----------------------------------------------------------------------------
(* What holds in every state.                                              *)

\* The invariants hold at first.
LEMMA InvariantFirst == Init => Inductive
<1> SUFFICES ASSUME Init PROVE Inductive
  OBVIOUS
<1>1. /\ hub = [players |-> [p \in Application |-> NewPlayer], executor |-> "none",
                pending |-> {}, next_request |-> 0]
      /\ sending = {}
      /\ router = [executors |-> <<>>, players |-> [p \in PlayerIds |-> None]]
      /\ thread = [c \in Pages |-> <<"new">>] /\ device = FALSE
      /\ inbox = [e \in Executors |-> <<>>] /\ performing = [e \in Executors |-> {}]
      /\ backend = [e \in Executors |-> [p \in PlayerIds |-> NoElement]]
      /\ outbox = [c \in Pages |-> <<>>]
      /\ moved = {} /\ reborn = {} /\ raced = FALSE
  BY DEF Init
<1>2. Existing = Application /\ \A p \in Existing : hub.players[p] = NewPlayer
  BY <1>1 DEF Existing
<1>3. /\ NewPlayer \in PlayerRecords /\ NewPlayer.source = None /\ NewPlayer.of = 0
      /\ NewPlayer.load = 0 /\ NewPlayer.status = "none" /\ ~NewPlayer.runner
  BY MediaAssumption DEF NewPlayer, PlayerRecords
<1>4. NoElement \in [version : Nat, load : Nat] /\ NoElement.load = 0
  BY DEF NoElement
<1>5. HubTyped
  <2>1. hub.players \in [Existing -> PlayerRecords]
    BY <1>1, <1>2, <1>3
  <2>2. hub \in HubsOf(Existing)
    BY <1>1, <2>1 DEF HubsOf
  <2> QED
    BY <1>1, <1>2, <2>2, MediaAssumption DEF HubTyped, PlayerIds
<1>6. SendingTyped
  BY <1>1 DEF SendingTyped
<1>7. RouterTyped
  <2> DEFINE new == <<"new">>
             none == <<>>
             free == [p \in PlayerIds |-> None]
  <2>1. /\ new \in Steps /\ none \in Seq(Pages)
        /\ free \in [PlayerIds -> Pages \cup {None}]
    BY DEF Steps, At
  <2>2. /\ thread = [c \in Pages |-> new]
        /\ router = [executors |-> none, players |-> free]
    BY <1>1
  <2> HIDE DEF new, none, free
  <2>3. /\ thread \in [Pages -> Steps]
        /\ router \in [executors : Seq(Pages), players : [PlayerIds -> Pages \cup {None}]]
    BY <2>1, <2>2
  <2> QED
    BY <1>1, <2>3 DEF RouterTyped
<1>8. ExecutorsTyped
  BY <1>1, <1>4, MediaAssumption DEF ExecutorsTyped, Executors
<1>9. \A c \in Pages : thread[c][1] = "new"
  BY <1>1
<1>10. router.executors = <<>> /\ GivingUp = {}
  BY <1>1, <1>9 DEF GivingUp
<1>11. Members
  <2>1. Range(router.executors) = {}
    BY <1>10 DEF Range
  <2>2. DOMAIN router.executors = {}
    BY <1>10
  <2> QED
    BY <1>9, <2>1, <2>2 DEF Members, Listed, IsAt
<1>12. TakenOver
  BY <1>1, <1>10 DEF TakenOver
<1>13. Unrun
  BY <1>2, <1>3, <1>9 DEF Unrun, IsAt
<1>14. \A e \in Executors : inbox[e] = <<>> /\ performing[e] = {}
                            /\ backend[e] = [p \in PlayerIds |-> NoElement]
  BY <1>1
<1>15. Emptied
  BY <1>1, <1>14 DEF Emptied, Executors
<1>16. Numbered
  <2>1. \A e \in Executors : DOMAIN inbox[e] = {}
    BY <1>14
  <2>2. \A e \in Executors, p \in PlayerIds : backend[e][p].load = 0
    BY <1>4, <1>14
  <2>3. hub.next_request = 0
    BY <1>1
  <2> QED
    BY <1>1, <1>2, <1>3, <2>1, <2>2, <2>3 DEF Numbered, Rising, UpTo, From
<1>17. Addressed
  BY <1>1 DEF Addressed
<1>18. Owned
  <2> SUFFICES ASSUME NEW p \in Windows
               PROVE  OwnedBy(p) /\ \A e \in Pages \ {p} : Clean(e, p)
    BY OwnedIs
  <2>1. p \in PlayerIds /\ p \notin Existing
    BY <1>2, MediaAssumption DEF PlayerIds
  <2>2. router.players[p] = None
    BY <1>1, <2>1
  <2>3. OwnedBy(p)
    BY <1>1, <2>1, <2>2 DEF OwnedBy, Spoken
  <2>4. ASSUME NEW e \in Pages \ {p} PROVE Clean(e, p)
    <3>1. DOMAIN inbox[e] = {} /\ DOMAIN outbox[e] = {} /\ backend[e][p] = NoElement
      BY <1>1, <2>1 DEF Executors
    <3> QED
      BY <3>1 DEF Clean
  <2> QED
    BY <2>3, <2>4
<1>19. Awaited
  BY <1>2, <1>3 DEF Awaited
<1>20. Fresh
  <2>1. \A e \in Executors : DOMAIN inbox[e] = {}
    BY <1>14
  <2>2. \A e \in Executors, p \in PlayerIds : backend[e][p].load = 0
    BY <1>4, <1>14
  <2>3. \A c \in Pages : DOMAIN outbox[c] = {}
    BY <1>1
  <2> QED
    BY <1>2, <1>3, <2>1, <2>2, <2>3 DEF Fresh, PlayerIds
<1>21. Loaded
  BY <1>2, <1>3 DEF Loaded
<1> QED
  BY <1>5, <1>6, <1>7, <1>8, <1>11, <1>12, <1>13, <1>15, <1>16, <1>17, <1>18, <1>19, <1>20,
     <1>21 DEF Inductive, Typed

\* Every step keeps them.
LEMMA InvariantKept == Inductive /\ [Next]_vars => Inductive'
<1>1. ASSUME Inductive, Next PROVE Inductive'
  <2>1. /\ Typed /\ Members /\ TakenOver /\ Unrun /\ Emptied /\ Numbered /\ Addressed /\ Owned
        /\ Awaited /\ Fresh /\ Loaded
    BY <1>1 DEF Inductive
  <2>2. Typed'
    BY <1>1, <2>1, HubStaysTyped, RouterStaysTyped, ExecutorsStayTyped DEF Typed
  <2>3. Members' /\ TakenOver' /\ Unrun' /\ Emptied'
    BY <1>1, <2>1, MembersStay, TakenOverStays, UnrunStays, EmptiedStays
  <2>4. Numbered' /\ Addressed' /\ Owned'
    BY <1>1, <2>1, NumberedStays, AddressedStays, OwnedStays
  <2>5. Awaited' /\ Fresh' /\ Loaded'
    BY <1>1, <2>1, AwaitedStays, FreshStays, LoadedStays
  <2> QED
    BY <2>2, <2>3, <2>4, <2>5 DEF Inductive
<1>2. ASSUME Inductive, UNCHANGED vars PROVE Inductive'
  <2>1. /\ UNCHANGED <<hub, sending, router, thread, device>>
        /\ UNCHANGED <<inbox, performing, backend, outbox, moved, reborn, raced>>
    BY <1>2 DEF vars, executorVars, histories
  <2>2. Existing' = Existing
    BY <2>1 DEF Existing
  <2>3. Typed'
    BY <1>2, <2>1, <2>2 DEF Inductive, Typed, HubTyped, SendingTyped, RouterTyped, ExecutorsTyped
  <2>4. Members' /\ TakenOver' /\ Unrun' /\ Emptied'
    BY <1>2, <2>1, <2>2 DEF Inductive, Members, TakenOver, Unrun, Emptied, Listed, IsAt, GivingUp,
                            Connected
  <2>5. Numbered' /\ Addressed'
    BY <1>2, <2>1, <2>2 DEF Inductive, Numbered, Addressed, RunnerOf
  <2>6. Owned'
    BY <1>2, <2>1, <2>2 DEF Inductive, Owned, IsAt, About, Listed
  <2>7. Awaited'
    BY <1>2, <2>1, <2>2 DEF Inductive, Awaited, ComingFor, About, Handed, Completes
  <2>8. Fresh'
    BY <1>2, <2>1, <2>2 DEF Inductive, Fresh, OldOrCurrent
  <2>9. Loaded'
    BY <1>2, <2>1, <2>2 DEF Inductive, Loaded, Holder, RunnerOf, Routed, LoadsIt, Connected
  <2> QED
    BY <2>3, <2>4, <2>5, <2>6, <2>7, <2>8, <2>9 DEF Inductive
<1> QED
  BY <1>1, <1>2

LEMMA InvariantHolds == Spec => []Inductive
BY InvariantFirst, InvariantKept, PTL DEF Spec

\* The players, requests and locks of the hub are well formed: what waits, waits for a
\* player that exists, and one thread at most hands over requests.
THEOREM MediaTypesCorrect == Spec => []MediaTypeOK
<1>1. ASSUME Inductive PROVE MediaTypeOK
  <2>1. HubTyped /\ SendingTyped
    BY <1>1 DEF Inductive, Typed
  <2>2. /\ Application \subseteq Existing /\ Existing \subseteq PlayerIds
        /\ hub.executor \in {"none", "device", "router"}
        /\ \A p \in Existing : hub.players[p] \in PlayerRecords
    BY <2>1, PlayersAre DEF HubTyped
  <2>3. \A p \in Existing : /\ hub.players[p].source \in Urls \cup {None}
                            /\ hub.players[p].version \in 0 .. MaxVersion
                            /\ hub.players[p].status \in {"none", "accepted", "answered"}
    BY <2>2 DEF PlayerRecords
  <2>4. hub.pending \subseteq [request : 1 .. hub.next_request, player : Existing]
    <3>1. \A w \in hub.pending : w \in [request : Nat, player : PlayerIds]
      BY <2>1 DEF HubTyped, HubsOf
    <3>2. \A w \in hub.pending : w.request \in 1 .. hub.next_request /\ w.player \in Existing
      BY <2>1 DEF HubTyped
    <3> QED
      BY <3>1, <3>2
  <2>5. Cardinality(sending) <= 1
    <3>1. CASE sending = {}
      BY <3>1, FS_EmptySet
    <3>2. CASE sending # {}
      <4> PICK s \in sending : TRUE
        BY <3>2
      <4>1. sending = {s}
        BY <2>1 DEF SendingTyped
      <4> QED
        BY <4>1, FS_Singleton
    <3> QED
      BY <3>1, <3>2
  <2> QED
    BY <2>2, <2>3, <2>4, <2>5 DEF MediaTypeOK
<1> QED
  BY <1>1, InvariantHolds, PTL

\* "Requests reach the executor in the order the hub accepted them" (hub.rs:95): the send lock
\* is held until the last of them was handed over.
THEOREM RequestsStayInOrder == Spec => []RequestsInOrder
<1>1. ASSUME Inductive PROVE RequestsInOrder
  <2>1. \A e \in Executors : inbox[e] \in Seq(Requests) /\ Rising(inbox[e])
    BY <1>1 DEF Inductive, Typed, ExecutorsTyped, Numbered
  <2> QED
    BY <2>1 DEF RequestsInOrder, Rising
<1> QED
  BY <1>1, InvariantHolds, PTL

\* A player says "accepted" only while its request waits and an executor has it, or is to get
\* it, unless the page that had it left (complete, detach_executor, forget_runner).
THEOREM AcceptedStaysComing == Spec => []AcceptedIsComing
<1>1. ASSUME Inductive PROVE AcceptedIsComing
  <2>1. Awaited /\ Unrun /\ HubTyped
    BY <1>1 DEF Inductive, Typed
  <2> SUFFICES ASSUME NEW p \in Existing, hub.players[p].status = "accepted", ~raced,
                      ~(/\ hub.players[p].lost
                        /\ hub.executor # "none" \/ router.executors # <<>>)
               PROVE  AnswerIsComing(p)
    BY DEF AcceptedIsComing
  <2>2. ~hub.players[p].lost
    BY <2>1 DEF Unrun
  <2>3. /\ [request |-> hub.players[p].request, player |-> p] \in hub.pending
        /\ ComingFor(p)
    BY <2>1, <2>2 DEF Awaited
  <2>4. IsComing(hub.players[p].request)
    BY <2>3 DEF ComingFor, IsComing, Range
  <2> QED
    BY <2>3, <2>4 DEF AnswerIsComing
<1> QED
  BY <1>1, InvariantHolds, PTL

\* "Late reports from an older source never overwrite the newer one" (hub.rs:6): what observe
\* merged is about the load of the source the player has.
THEOREM ReportsStayCurrent == Spec => []ReportsAreCurrent
<1>1. Inductive => ReportsAreCurrent
  BY DEF Inductive, Fresh, ReportsAreCurrent
<1> QED
  BY <1>1, InvariantHolds, PTL

\* "Commands are routed to the executor that actually holds that player" (Design.md:2361):
\* what gets the next request loaded the source, or is to load it first.
THEOREM RoutedStaysToHolder == Spec => []RoutedToHolder
<1>1. ASSUME Inductive PROVE RoutedToHolder
  <2>1. Loaded
    BY <1>1 DEF Inductive
  <2>2. \A c \in Pages : thread[c] = Receiving => Connected(c)
    BY DEF Receiving, Connected
  <2> SUFFICES ASSUME ~raced, NEW p \in Existing \ moved, NEW e, e = Holder(p),
                      hub.players[p].source # None, e # None, e \in Pages => thread[e] = Receiving
               PROVE  Holds(e, p)
    BY DEF RoutedToHolder, GoesToHolder
  <2>3. \/ /\ backend[e][p].version = hub.players[p].version
           /\ backend[e][p].load = hub.players[p].load
        \/ \E i \in DOMAIN inbox[e] : LoadsIt(inbox[e][i], p)
        \/ \E s \in sending : \E i \in DOMAIN s.requests : LoadsIt(s.requests[i], p)
    BY <2>1, <2>2 DEF Loaded
  <2>4. backend[e][p] \in [version : Nat, load : Nat]
    <3>1. e \in Executors /\ p \in PlayerIds
      BY <1>1, HolderIs DEF Inductive, Typed, HubTyped
    <3> QED
      BY <1>1, <3>1 DEF Inductive, Typed, ExecutorsTyped
  <2> QED
    BY <2>3, <2>4 DEF Holds, LoadsIt, Range
<1> QED
  BY <1>1, InvariantHolds, PTL

\* "If it ran players the others take over" (channel.rs:822), and a page never takes over from
\* the device: with a page, or the device, there, something runs the players.
THEOREM OthersAlwaysTakeOver == Spec => []OthersTakeOver
<1>1. ASSUME Inductive PROVE OthersTakeOver
  <2>1. TakenOver
    BY <1>1 DEF Inductive
  <2>2. Settled => /\ \A c \in Pages : ~IsAt(c, {"check", "attach"})
                   /\ GivingUp = {}
    BY DEF Settled, IsAt, GivingUp
  <2> QED
    BY <2>1, <2>2 DEF TakenOver, OthersTakeOver, PlayersHaveExecutor
<1> QED
  BY <1>1, InvariantHolds, PTL

=============================================================================
