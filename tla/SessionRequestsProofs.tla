------------------------ MODULE SessionRequestsProofs ------------------------
(***************************************************************************)
(* For any entries, window kinds, presentations, calls and connections: an *)
(* entry of SessionRequests is told what the frontend did, about the       *)
(* window it asked for, and a call it gave up is forgotten.                 *)
(***************************************************************************)
EXTENDS SessionRequests, SequenceTheorems, TLAPS

-----------------------------------------------------------------------------
(* The inductive invariant.                                                 *)

\* Where a thread or a connection can be.
Places ==
    /\ \A c \in Callers :
         /\ caller[c].step \in {"checked", "inserted"} => c \in Local
         /\ c \in Forwarded /\ caller[c].step # "idle" => caller[c].via \in Links
         /\ caller[c].step \in {"routed", "checked"} => reply[c] = None
    /\ linked \/ toPage # <<>> \/ toHost # <<>> => link \in Links

\* PendingIsAwaited, and while it is pending the channel is empty.
Awaited ==
    /\ \A r \in DOMAIN requests :
         LET c == requests[r].asked.caller
         IN  requests[r].from = 0 =>
               /\ c \in Local
               /\ requests[r].asked = Me(c)
               /\ caller[c].step \in {"inserted", "waiting", "late"}
               /\ caller[c].request = r
               /\ reply[c] = None
    /\ \A l \in Links : \A id \in DOMAIN waiting[l] :
         LET c == waiting[l][id].caller
         IN  /\ c \in Forwarded
             /\ waiting[l][id] = Me(c)
             /\ caller[c].step \in {"waiting", "late"}
             /\ caller[c].request = id
             /\ caller[c].via = l
             /\ reply[c] = None

Asking(messages) == {messages[i].asked : i \in DOMAIN messages}

\* The call has left its thread, for the frontend or with an answer.
HandedOver(a) ==
    \/ caller[a.caller].number > a.number
    \/ /\ caller[a.caller].number = a.number
       /\ caller[a.caller].step \in {"idle", "waiting", "late"}

\* A call on its way to the page is nowhere else.
OnTheWay ==
    /\ \A a \in performed \cup Asking(inbox) \cup Asking(toPage) : HandedOver(a)
    /\ Asking(toPage) \cap (performed \cup Asking(inbox)) = {}
    /\ \A i, j \in DOMAIN toPage : toPage[i].asked = toPage[j].asked => i = j

\* A request the frontend performs is the one that is pending under its id.
Matching ==
    /\ \A r \in DOMAIN requests : r \in acting => requests[r].asked \in performed
    /\ \A i \in DOMAIN inbox :
         inbox[i].request \in DOMAIN requests =>
             requests[inbox[i].request].asked = inbox[i].asked
    /\ \A c \in Callers : caller[c].step = "inserted" =>
         /\ caller[c].request \in 1 .. next - 1
         /\ caller[c].request \in DOMAIN requests =>
              requests[caller[c].request].asked = Me(c)

Never(a) ==
    /\ HandedOver(a)
    /\ a \notin performed /\ a \notin Asking(inbox) /\ a \notin Asking(toPage)

IsTrue(result) ==
    /\ result.status \in {"done", "stale"} => result.asked \in performed
    /\ result.status = "refused" => Never(result.asked)

\* What is asked is what the entry's last call asks, unless an earlier one did.
Fits(a, call) ==
    /\ a.number <= caller[a.caller].number
    /\ a = Me(a.caller) => call = caller[a.caller].call

Shows(result) ==
    LET c == result.asked.caller
    IN  /\ result.asked.number <= caller[c].number
        /\ result.asked = Me(c) /\ result.status = "done"
             /\ caller[c].call.command = "minimize"
             => result.window = caller[c].call.window

\* What may be told to an entry, and what may be sent to the host.
Speaks(c, result) ==
    Shows(result) /\ (caller[c].call.command # "list" => IsTrue(result))

Carries(message) ==
    /\ Shows(message.result)
    /\ \/ message.command = "list" /\ message.result.status = "done"
       \/ IsTrue(message.result)

Telling ==
    /\ \A c \in Callers :
         /\ reply[c] # None => Speaks(c, reply[c])
         /\ caller[c].result # None => Speaks(c, caller[c].result)
    /\ \A i \in DOMAIN toHost : Carries(toHost[i])

Fitting ==
    /\ \A r \in DOMAIN requests : Fits(requests[r].asked, requests[r].call)
    /\ \A i \in DOMAIN toPage : Fits(toPage[i].asked, toPage[i].call)

\* The host's name id for a request of connection l stands for call a, or for
\* none any more.
Named(l, id, a) ==
    id \in 1 .. sent[l] /\ (id \in DOMAIN waiting[l] => waiting[l][id] = a)

\* The answer is to the call it is told to, unless the connection of the call
\* was told what an older one had asked.
OwnOrStrayed(c, result) == caller[c].via \in strayed \/ result.asked = Me(c)

Owned ==
    /\ ~linked => toPage = <<>> /\ toHost = <<>>
    /\ \A r \in DOMAIN requests :
         requests[r].from # 0 => Named(requests[r].from, requests[r].id, requests[r].asked)
    /\ \A i \in DOMAIN toPage : Named(link, toPage[i].id, toPage[i].asked)
    /\ link \notin strayed =>
         \A i \in DOMAIN toHost : Named(link, toHost[i].id, toHost[i].result.asked)
    /\ \A c \in Callers :
         /\ reply[c] # None => OwnOrStrayed(c, reply[c])
         /\ caller[c].result # None => OwnOrStrayed(c, caller[c].result)

-----------------------------------------------------------------------------
(* Messages and records.                                                     *)

\* A message is taken from the front: the others move up by one.
LEMMA TakenFirst ==
    ASSUME NEW S, NEW s \in Seq(S), s # <<>>
    PROVE  /\ Head(s) \in S /\ Tail(s) \in Seq(S)
           /\ 1 \in DOMAIN s /\ Head(s) = s[1]
           /\ \A i \in DOMAIN Tail(s) : i + 1 \in DOMAIN s /\ Tail(s)[i] = s[i + 1]
           /\ DOMAIN s \subseteq Nat /\ DOMAIN Tail(s) \subseteq Nat
           /\ \A i \in DOMAIN s : i # 1 => i - 1 \in DOMAIN Tail(s)
<1>1. /\ Len(s) \in Nat \ {0} /\ Head(s) \in S /\ Tail(s) \in Seq(S)
      /\ Len(Tail(s)) = Len(s) - 1
      /\ \A i \in 1 .. Len(Tail(s)) : Tail(s)[i] = s[i + 1]
  BY EmptySeq, HeadTailProperties, LenProperties
<1>2. DOMAIN s = 1 .. Len(s) /\ DOMAIN Tail(s) = 1 .. Len(Tail(s))
  BY <1>1, LenProperties
<1>3. Head(s) = s[1]
  BY <1>1, EmptySeq, HeadTailProperties
<1> QED
  BY <1>1, <1>2, <1>3

\* A message is added at the end.
LEMMA AddedLast ==
    ASSUME NEW S, NEW s \in Seq(S), NEW m \in S
    PROVE  /\ Append(s, m) \in Seq(S)
           /\ Append(s, m) # <<>>
           /\ Len(s) + 1 \notin DOMAIN s
           /\ DOMAIN Append(s, m) = DOMAIN s \cup {Len(s) + 1}
           /\ Append(s, m)[Len(s) + 1] = m
           /\ \A i \in DOMAIN s : Append(s, m)[i] = s[i]
<1>1. /\ Len(s) \in Nat /\ DOMAIN s = 1 .. Len(s)
      /\ Append(s, m) \in Seq(S) /\ Len(Append(s, m)) = Len(s) + 1
      /\ Append(s, m)[Len(s) + 1] = m
      /\ \A i \in 1 .. Len(s) : Append(s, m)[i] = s[i]
  BY AppendProperties, LenProperties
<1>2. DOMAIN Append(s, m) = 1 .. (Len(s) + 1)
  BY <1>1, LenProperties
<1>3. Append(s, m) # <<>>
  BY <1>1, EmptySeq
<1> QED
  BY <1>1, <1>2, <1>3

\* What is asked for in a sequence, when a message is taken or added.
LEMMA AskingTaken ==
    ASSUME NEW S, NEW s \in Seq(S), s # <<>>
    PROVE  Asking(s) = Asking(Tail(s)) \cup {Head(s).asked}
<1>1. ASSUME NEW a \in Asking(s) PROVE a \in Asking(Tail(s)) \cup {Head(s).asked}
  <2>1. PICK i \in DOMAIN s : a = s[i].asked
    BY <1>1 DEF Asking
  <2>2. CASE i = 1
    BY <2>1, <2>2, TakenFirst
  <2>3. CASE i # 1
    <3>1. i - 1 \in DOMAIN Tail(s) /\ Tail(s)[i - 1] = s[i]
      BY <2>1, <2>3, TakenFirst
    <3> QED
      BY <2>1, <3>1 DEF Asking
  <2> QED
    BY <2>2, <2>3
<1>2. ASSUME NEW a \in Asking(Tail(s)) PROVE a \in Asking(s)
  BY <1>2, TakenFirst DEF Asking
<1>3. Head(s).asked \in Asking(s)
  BY TakenFirst DEF Asking
<1> QED
  BY <1>1, <1>2, <1>3

\* What is asked for in a sequence with one message more.
LEMMA AskingAdded ==
    ASSUME NEW S, NEW s \in Seq(S), NEW m \in S
    PROVE  Asking(Append(s, m)) = Asking(s) \cup {m.asked}
BY AddedLast DEF Asking

\* A thread's record after a step, field by field.
LEMMA ThreadMade ==
    ASSUME NEW step \in Steps, NEW call \in Calls \cup {NoCall},
           NEW number \in 0 .. MaxCalls, NEW via \in 0 .. MaxLinks,
           NEW request \in Nat, NEW result \in Results \cup {None}
    PROVE  [step |-> step, call |-> call, number |-> number, via |-> via,
            request |-> request, result |-> result] \in Threads
BY DEF Threads

\* A thread that takes a step leaves the others alone.
LEMMA ThreadSteps ==
    ASSUME caller \in [Callers -> Threads], NEW c \in Callers, NEW t \in Threads,
           caller' = [caller EXCEPT ![c] = t]
    PROVE  /\ caller' \in [Callers -> Threads]
           /\ caller'[c] = t
           /\ \A d \in Callers : d # c => caller'[d] = caller[d]
OBVIOUS

\* The records a thread can become, field by field.
LEMMA StepChanged ==
    ASSUME NEW t \in Threads, NEW step
    PROVE  [t EXCEPT !.step = step] =
             [step |-> step, call |-> t.call, number |-> t.number, via |-> t.via,
              request |-> t.request, result |-> t.result]
BY DEF Threads

\* The same, with another request.
LEMMA RequestChanged ==
    ASSUME NEW t \in Threads, NEW step \in Steps, NEW r
    PROVE  [t EXCEPT !.step = step, !.request = r] =
             [step |-> step, call |-> t.call, number |-> t.number, via |-> t.via,
              request |-> r, result |-> t.result]
<1> DEFINE u == [t EXCEPT !.step = step]
           v == [step |-> step, call |-> t.call, number |-> t.number, via |-> t.via,
                 request |-> t.request, result |-> t.result]
<1>1. [t EXCEPT !.step = step, !.request = r] = [u EXCEPT !.request = r]
  OBVIOUS
<1>2. v \in Threads
  BY ThreadMade DEF Threads
<1>3. u = v
  BY StepChanged
<1> HIDE DEF u, v
<1>4. [v EXCEPT !.request = r] =
        [step |-> v.step, call |-> v.call, number |-> v.number, via |-> v.via,
         request |-> r, result |-> v.result]
  BY <1>2 DEF Threads
<1> QED
  BY <1>1, <1>3, <1>4 DEF v

\* The same, with another result.
LEMMA ResultChanged ==
    ASSUME NEW t \in Threads, NEW step \in Steps, NEW r
    PROVE  [t EXCEPT !.step = step, !.result = r] =
             [step |-> step, call |-> t.call, number |-> t.number, via |-> t.via,
              request |-> t.request, result |-> r]
<1> DEFINE u == [t EXCEPT !.step = step]
           v == [step |-> step, call |-> t.call, number |-> t.number, via |-> t.via,
                 request |-> t.request, result |-> t.result]
<1>1. [t EXCEPT !.step = step, !.result = r] = [u EXCEPT !.result = r]
  OBVIOUS
<1>2. v \in Threads
  BY ThreadMade DEF Threads
<1>3. u = v
  BY StepChanged
<1> HIDE DEF u, v
<1>4. [v EXCEPT !.result = r] =
        [step |-> v.step, call |-> v.call, number |-> v.number, via |-> v.via,
         request |-> v.request, result |-> r]
  BY <1>2 DEF Threads
<1> QED
  BY <1>1, <1>3, <1>4 DEF v

\* Only its step changes.
LEMMA ThreadGoes ==
    ASSUME caller \in [Callers -> Threads], NEW c \in Callers, NEW step \in Steps,
           caller' = [caller EXCEPT ![c].step = step]
    PROVE  /\ caller' \in [Callers -> Threads]
           /\ \A d \in Callers : d # c => caller'[d] = caller[d]
           /\ caller'[c].step = step /\ caller'[c].call = caller[c].call
           /\ caller'[c].number = caller[c].number /\ caller'[c].via = caller[c].via
           /\ caller'[c].request = caller[c].request
           /\ caller'[c].result = caller[c].result
<1> DEFINE t == [step |-> step, call |-> caller[c].call, number |-> caller[c].number,
                 via |-> caller[c].via, request |-> caller[c].request,
                 result |-> caller[c].result]
<1>1. caller[c] \in Threads
  OBVIOUS
<1>2. t \in Threads
  BY <1>1, ThreadMade DEF Threads
<1>3. caller' = [caller EXCEPT ![c] = t]
  BY <1>1, StepChanged
<1> HIDE DEF t
<1>4. caller'[c] = t /\ caller' \in [Callers -> Threads]
  BY <1>2, <1>3
<1> QED
  BY <1>3, <1>4 DEF t

\* The request it waits for changes too.
LEMMA ThreadAsks ==
    ASSUME caller \in [Callers -> Threads], NEW c \in Callers, NEW step \in Steps,
           NEW r \in Nat,
           caller' = [caller EXCEPT ![c] = [@ EXCEPT !.step = step, !.request = r]]
    PROVE  /\ caller' \in [Callers -> Threads]
           /\ \A d \in Callers : d # c => caller'[d] = caller[d]
           /\ caller'[c].step = step /\ caller'[c].call = caller[c].call
           /\ caller'[c].number = caller[c].number /\ caller'[c].via = caller[c].via
           /\ caller'[c].request = r /\ caller'[c].result = caller[c].result
<1> DEFINE t == [step |-> step, call |-> caller[c].call, number |-> caller[c].number,
                 via |-> caller[c].via, request |-> r, result |-> caller[c].result]
<1>1. caller[c] \in Threads
  OBVIOUS
<1>2. t \in Threads
  BY <1>1, ThreadMade DEF Threads
<1>3. caller' = [caller EXCEPT ![c] = t]
  BY <1>1, RequestChanged
<1> HIDE DEF t
<1>4. caller'[c] = t /\ caller' \in [Callers -> Threads]
  BY <1>2, <1>3
<1> QED
  BY <1>3, <1>4 DEF t

\* It returns.
LEMMA ThreadReturns ==
    ASSUME caller \in [Callers -> Threads], NEW c \in Callers, NEW r \in Results,
           Returns(c, r)
    PROVE  /\ caller' \in [Callers -> Threads]
           /\ \A d \in Callers : d # c => caller'[d] = caller[d]
           /\ caller'[c].step = "idle" /\ caller'[c].call = caller[c].call
           /\ caller'[c].number = caller[c].number /\ caller'[c].via = caller[c].via
           /\ caller'[c].request = caller[c].request /\ caller'[c].result = r
<1> DEFINE t == [step |-> "idle", call |-> caller[c].call, number |-> caller[c].number,
                 via |-> caller[c].via, request |-> caller[c].request, result |-> r]
<1>1. caller[c] \in Threads /\ "idle" \in Steps
  BY DEF Steps
<1>2. t \in Threads
  BY <1>1, ThreadMade DEF Threads
<1>3. caller' = [caller EXCEPT ![c] = t]
  <2>1. [caller[c] EXCEPT !.step = "idle", !.result = r] = t
    BY <1>1, ResultChanged
  <2> QED
    BY <2>1 DEF Returns
<1> HIDE DEF t
<1>4. caller'[c] = t /\ caller' \in [Callers -> Threads]
  BY <1>2, <1>3
<1> QED
  BY <1>3, <1>4 DEF t

-----------------------------------------------------------------------------
(* Types.                                                                   *)

\* What is told in the making of a step has the type of a result.
LEMMA ResultMade ==
    ASSUME NEW status \in {"done", "refused", "failed", "stale", "ended", "unknown"},
           NEW window \in WindowIds \cup {NoWindow}, NEW a \in Asked
    PROVE  /\ Result(status, window, a) \in Results
           /\ Result(status, window, a).status = status
           /\ Result(status, window, a).window = window
           /\ Result(status, window, a).asked = a
BY DEF Result, Results

\* A call of a thread.
LEMMA MyCall ==
    ASSUME EntriesTyped, NEW c \in Callers
    PROVE  /\ Me(c) \in Asked /\ Me(c).caller = c /\ Me(c).number = caller[c].number
           /\ caller[c].call \in Calls
<1>1. NoCall \in Calls
  BY DEF NoCall, Calls
<1> QED
  BY <1>1 DEF EntriesTyped, Me, Asked, Threads

\* A command and its window.
LEMMA CallFields ==
    ASSUME NEW call \in Calls
    PROVE  /\ call.command \in Commands
           /\ call.window \in WindowIds \cup {NoWindow}
           /\ call.command = "minimize" => call.window \in WindowIds
BY DEF Calls, Commands

\* What a command answered at once tells.
LEMMA AtOnceTyped ==
    ASSUME NEW call \in Calls, NEW a \in Asked
    PROVE  /\ AtOnce(call, a) \in Results
           /\ AtOnce(call, a).asked = a
           /\ AtOnce(call, a).status = IF call.command = "list" THEN "done" ELSE "refused"
BY ResultMade DEF AtOnce

\* What a completed request tells; only one that was performed succeeds.
LEMMA CompletedTyped ==
    ASSUME NEW request \in Pending, NEW ok \in BOOLEAN
    PROVE  /\ Completed(request, ok) \in Results
           /\ Completed(request, ok).asked = request.asked
           /\ Completed(request, ok).status \in {"done", "failed", "stale"}
           /\ ~ok => Completed(request, ok).status = "failed"
           /\ Completed(request, ok).status = "done" /\ request.call.command = "minimize"
                => Completed(request, ok).window = request.call.window
<1>1. request.call \in Calls /\ request.asked \in Asked
  BY DEF Pending
<1>2. CASE ~ok
  BY <1>1, <1>2, ResultMade DEF Completed
<1>3. CASE ok /\ request.call.command # "minimize"
  BY <1>1, <1>3, ResultMade DEF Completed
<1>4. CASE ok /\ request.call.command = "minimize"
  BY <1>1, <1>4, ResultMade, CallFields DEF Completed, Presented
<1> QED
  BY <1>2, <1>3, <1>4

\* Telling an entry.
LEMMA TellTyped ==
    ASSUME EntriesTyped, NEW r \in Results, Tell(r)
    PROVE  /\ reply' \in [Callers -> Results \cup {None}]
           /\ \A c \in Callers : reply'[c] # reply[c] =>
                reply'[c] = r /\ c = r.asked.caller /\ Me(c) = r.asked
                /\ caller[c].step # "idle"
BY DEF EntriesTyped, Tell, Heard, Results, Asked

\* An answer changes the channel of its entry, or what is sent to the host.
LEMMA AnswerTyped ==
    ASSUME RequestsTypeOK, Places, NEW request \in Pending, NEW r \in Results,
           Answer(request, r)
    PROVE  /\ reply' \in [Callers -> Results \cup {None}]
           /\ toHost' \in Seq(Answers) /\ strayed' \subseteq Links
           /\ toHost' # toHost =>
                toHost' = Append(toHost, [id |-> request.id, result |-> r,
                                          command |-> request.call.command])
           /\ toHost' # toHost => linked
           /\ \A c \in Callers : reply'[c] # reply[c] =>
                reply'[c] = r /\ c = r.asked.caller /\ Me(c) = r.asked
                /\ caller[c].step # "idle" /\ request.from = 0
<1> DEFINE m == [id |-> request.id, result |-> r, command |-> request.call.command]
<1>1. m \in Answers
  BY CallFields DEF Answers, Pending
<1>2. CASE request.from = 0
  BY <1>2, TellTyped DEF Answer, RequestsTypeOK, LinkTyped
<1>3. CASE request.from # 0
  <2>1. reply' = reply /\ toHost' = IF linked THEN Append(toHost, m) ELSE toHost
    BY <1>3 DEF Answer
  <2>2. strayed' \subseteq Links
    BY <1>3 DEF Answer, RequestsTypeOK, LinkTyped, Places
  <2>3. toHost' \in Seq(Answers)
    BY <2>1, <1>1, AddedLast DEF RequestsTypeOK, LinkTyped
  <2> HIDE DEF m
  <2> QED
    BY <2>1, <2>2, <2>3 DEF RequestsTypeOK, EntriesTyped, m
<1> QED
  BY <1>2, <1>3

\* The thread of an entry keeps every type.
LEMMA CallerTypes ==
    ASSUME RequestsTypeOK, Places, Matching, NEW c \in Callers, CallerStep(c)
    PROVE  RequestsTypeOK'
<1> USE DEF sessionVars, windowVars, bridgeVars, linkVars, hostVars
<1>0. /\ caller \in [Callers -> Threads] /\ reply \in [Callers -> Results \cup {None}]
      /\ Me(c) \in Asked /\ caller[c].call \in Calls /\ caller[c] \in Threads
      /\ {"idle", "checked", "inserted", "waiting", "late"} \subseteq Steps
  BY MyCall DEF RequestsTypeOK, EntriesTyped, Steps
<1>1. CASE Check(c)
  <2>1. CASE Answerable(caller[c].call)
    <3>1. Returns(c, AtOnce(caller[c].call, Me(c)))
      BY <1>1, <2>1 DEF Check
    <3>2. caller' \in [Callers -> Threads]
      BY <1>0, <3>1, AtOnceTyped, ThreadReturns
    <3> QED
      BY <1>1, <3>2 DEF Check, RequestsTypeOK, TypeSessions, EntriesTyped, BridgeTyped,
                        HostTyped, LinkTyped
  <2>2. CASE ~Answerable(caller[c].call)
    <3>1. caller' \in [Callers -> Threads]
      BY <1>0, <1>1, <2>2, ThreadGoes DEF Check
    <3> QED
      BY <1>1, <3>1 DEF Check, RequestsTypeOK, TypeSessions, EntriesTyped, BridgeTyped,
                        HostTyped, LinkTyped
  <2> QED
    BY <2>1, <2>2
<1>2. CASE Insert(c)
  <2> DEFINE q == Request(caller[c].call, Me(c), 0, 0)
  <2>1. next \in Nat \ {0} /\ next' = next + 1 /\ requests' = With(requests, next, q)
    BY <1>2 DEF Insert, Fetched, RequestsTypeOK, BridgeTyped
  <2>2. q \in Pending
    BY <1>0, RequestsAssumption DEF Request, Pending
  <2> HIDE DEF q
  <2>3. caller' \in [Callers -> Threads]
    BY <1>0, <1>2, <2>1, ThreadAsks DEF Insert
  <2>4. BridgeTyped'
    <3>1. Posted(next) \subseteq Posted(next')
      BY <2>1 DEF Posted
    <3>2. inbox \in Seq(Posted(next'))
      BY <3>1 DEF RequestsTypeOK, BridgeTyped
    <3>3. /\ DOMAIN requests' = DOMAIN requests \cup {next}
          /\ requests'[next] = q
          /\ \A r \in DOMAIN requests : r # next => requests'[r] = requests[r]
      BY <2>1 DEF With
    <3>4. DOMAIN requests' \subseteq 1 .. next' - 1 /\ acting \subseteq 1 .. next' - 1
      BY <2>1, <3>3 DEF RequestsTypeOK, BridgeTyped
    <3>5. \A r \in DOMAIN requests' : requests'[r] \in Pending
      BY <2>2, <3>3 DEF RequestsTypeOK, BridgeTyped
    <3> QED
      BY <1>2, <2>1, <3>2, <3>4, <3>5 DEF Insert, RequestsTypeOK, BridgeTyped
  <2> QED
    BY <1>2, <2>3, <2>4 DEF Insert, RequestsTypeOK, TypeSessions, EntriesTyped,
                            HostTyped, LinkTyped
<1>3. CASE Announce(c)
  <2> DEFINE m == [request |-> caller[c].request, call |-> caller[c].call, asked |-> Me(c)]
  <2>1. caller' \in [Callers -> Threads]
    BY <1>0, <1>3, ThreadGoes DEF Announce
  <2>2. m \in Posted(next)
    BY <1>0, <1>3 DEF Announce, Matching, Posted
  <2>3. inbox' \in Seq(Posted(next))
    BY <1>3, <2>2, AddedLast DEF Announce, RequestsTypeOK, BridgeTyped
  <2> QED
    BY <1>3, <2>1, <2>3 DEF Announce, RequestsTypeOK, TypeSessions, EntriesTyped,
                            BridgeTyped, HostTyped, LinkTyped
<1>4. CASE Forward(c)
  <2> DEFINE l == caller[c].via
             id == sent[l] + 1
             m == [call |-> caller[c].call, asked |-> Me(c), id |-> id]
  <2>1. l \in Links /\ id \in Nat /\ sent[l] \in Nat
    BY <1>4 DEF Forward, Places, RequestsTypeOK, HostTyped
  <2>2. caller' \in [Callers -> Threads]
    BY <1>0, <1>4, <2>1, ThreadAsks DEF Forward, ForwardedAs
  <2>3. m \in Messages
    BY <1>0, <2>1 DEF Messages
  <2>4. toPage' \in Seq(Messages)
    <3>1. toPage' = Append(toPage, m) \/ toPage' = toPage
      BY <1>4 DEF Forward, ForwardedAs
    <3> QED
      BY <3>1, <2>3, AddedLast DEF RequestsTypeOK, LinkTyped
  <2>5. HostTyped'
    <3>1. /\ sent' = [sent EXCEPT ![l] = id]
          /\ waiting' = [waiting EXCEPT ![l] = With(waiting[l], id, Me(c))]
      BY <1>4 DEF Forward, ForwardedAs
    <3> HIDE DEF l
    <3>2. /\ sent' \in [Links -> Nat] /\ DOMAIN waiting' = Links
          /\ \A k \in Links : k # l => waiting'[k] = waiting[k] /\ sent'[k] = sent[k]
          /\ waiting'[l] = With(waiting[l], id, Me(c)) /\ sent'[l] = id
      BY <2>1, <3>1 DEF RequestsTypeOK, HostTyped
    <3>3. DOMAIN waiting[l] \subseteq 1 .. sent[l]
      BY <2>1 DEF RequestsTypeOK, HostTyped
    <3>6. /\ DOMAIN waiting'[l] = DOMAIN waiting[l] \cup {id}
          /\ waiting'[l][id] = Me(c)
          /\ \A k \in DOMAIN waiting[l] : k # id => waiting'[l][k] = waiting[l][k]
      BY <3>2 DEF With
    <3>4. DOMAIN waiting'[l] \subseteq 1 .. sent'[l]
      BY <2>1, <3>2, <3>3, <3>6
    <3>5. \A k \in DOMAIN waiting'[l] : waiting'[l][k] \in Asked
      BY <1>0, <2>1, <3>6 DEF RequestsTypeOK, HostTyped
    <3> QED
      BY <3>2, <3>4, <3>5 DEF RequestsTypeOK, HostTyped
  <2> QED
    BY <1>4, <2>2, <2>4, <2>5 DEF Forward, RequestsTypeOK, TypeSessions, EntriesTyped,
                                  BridgeTyped, LinkTyped
<1>5. CASE Receive(c)
  <2>1. reply[c] \in Results /\ Returns(c, reply[c])
    BY <1>0, <1>5 DEF Receive
  <2>2. caller' \in [Callers -> Threads]
    BY <1>0, <2>1, ThreadReturns
  <2> QED
    BY <1>5, <2>2 DEF Receive, RequestsTypeOK, TypeSessions, EntriesTyped, BridgeTyped,
                      HostTyped, LinkTyped
<1>6. CASE TimeOut(c)
  <2>1. caller' \in [Callers -> Threads]
    BY <1>0, <1>6, ThreadGoes DEF TimeOut
  <2> QED
    BY <1>6, <2>1 DEF TimeOut, RequestsTypeOK, TypeSessions, EntriesTyped, BridgeTyped,
                      HostTyped, LinkTyped
<1>7. CASE Withdraw(c)
  <2>1. UiTimeout(c) \in Results /\ Returns(c, UiTimeout(c))
    BY <1>0, <1>7, ResultMade DEF UiTimeout, Withdraw
  <2>2. caller' \in [Callers -> Threads]
    BY <1>0, <2>1, ThreadReturns
  <2>3. BridgeTyped' /\ HostTyped'
    <3>1. CASE c \in Local /\ requests' = Without(requests, caller[c].request)
               /\ UNCHANGED waiting
      <4>1. /\ DOMAIN requests' = DOMAIN requests \ {caller[c].request}
            /\ \A r \in DOMAIN requests' : requests'[r] = requests[r]
        BY <3>1 DEF Without
      <4> QED
        BY <1>7, <3>1, <4>1 DEF Withdraw, RequestsTypeOK, BridgeTyped, HostTyped
    <3>2. CASE /\ c \in Forwarded /\ UNCHANGED requests
               /\ waiting' = [waiting EXCEPT ![caller[c].via] =
                                 Without(@, caller[c].request)]
      <4>1. caller[c].via \in Links
        BY <1>7, <3>2 DEF Withdraw, Places
      <4>2. /\ DOMAIN waiting' = Links
            /\ \A k \in Links : k # caller[c].via => waiting'[k] = waiting[k]
            /\ waiting'[caller[c].via] = Without(waiting[caller[c].via], caller[c].request)
        BY <3>2, <4>1 DEF RequestsTypeOK, HostTyped
      <4>4. /\ DOMAIN waiting'[caller[c].via] \subseteq DOMAIN waiting[caller[c].via]
            /\ \A id \in DOMAIN waiting'[caller[c].via] :
                 waiting'[caller[c].via][id] = waiting[caller[c].via][id]
        BY <4>2 DEF Without
      <4>3. HostTyped'
        BY <1>7, <4>1, <4>2, <4>4 DEF Withdraw, RequestsTypeOK, HostTyped
      <4> QED
        BY <1>7, <3>2, <4>3 DEF Withdraw, RequestsTypeOK, BridgeTyped
    <3> QED
      BY <1>7, <3>1, <3>2 DEF Withdraw, Withdrawn
  <2> QED
    BY <1>7, <2>2, <2>3 DEF Withdraw, RequestsTypeOK, TypeSessions, EntriesTyped,
                            LinkTyped
<1> QED
  BY <1>1, <1>2, <1>3, <1>4, <1>5, <1>6, <1>7 DEF CallerStep

\* Completing takes one request out, and answers that one.
LEMMA CompleteTyped ==
    ASSUME RequestsTypeOK, Places, NEW r, NEW ok \in BOOLEAN, Complete(r, ok)
    PROVE  /\ DOMAIN requests' = DOMAIN requests \ {r}
           /\ \A s \in DOMAIN requests' : requests'[s] = requests[s]
           /\ r \in DOMAIN requests =>
                /\ requests[r] \in Pending
                /\ Completed(requests[r], ok) \in Results
                /\ Answer(requests[r], Completed(requests[r], ok))
           /\ r \notin DOMAIN requests => UNCHANGED <<requests, reply, toHost, strayed>>
           /\ reply' \in [Callers -> Results \cup {None}]
           /\ toHost' \in Seq(Answers) /\ strayed' \subseteq Links
<1>1. CASE r \in DOMAIN requests
  <2>1. requests[r] \in Pending
    BY <1>1 DEF RequestsTypeOK, BridgeTyped
  <2>2. Completed(requests[r], ok) \in Results
    BY <2>1, CompletedTyped
  <2>3. requests' = Without(requests, r) /\ Answer(requests[r], Completed(requests[r], ok))
    BY <1>1 DEF Complete
  <2>4. /\ DOMAIN requests' = DOMAIN requests \ {r}
        /\ \A s \in DOMAIN requests' : requests'[s] = requests[s]
    BY <2>3 DEF Without
  <2>5. /\ reply' \in [Callers -> Results \cup {None}]
        /\ toHost' \in Seq(Answers) /\ strayed' \subseteq Links
    BY <2>1, <2>2, <2>3, AnswerTyped
  <2> QED
    BY <1>1, <2>1, <2>2, <2>3, <2>4, <2>5
<1>2. CASE r \notin DOMAIN requests
  BY <1>2 DEF Complete, RequestsTypeOK, EntriesTyped, LinkTyped
<1> QED
  BY <1>1, <1>2

\* A call keeps every type.
LEMMA CallTypes ==
    ASSUME RequestsTypeOK, NEW c \in Callers, NEW call \in Calls, Call(c, call)
    PROVE  /\ RequestsTypeOK'
           /\ \A d \in Callers : d # c => caller'[d] = caller[d] /\ reply'[d] = reply[d]
           /\ reply'[c] = None
           /\ caller'[c].step = "routed" /\ caller'[c].call = call
           /\ caller'[c].number = caller[c].number + 1 /\ caller'[c].result = None
           /\ c \in Forwarded => caller'[c].via \in Links
<1> USE DEF sessionVars, windowVars, bridgeVars, linkVars, hostVars
<1>1. PICK l \in 0 .. MaxLinks :
        /\ c \in Forwarded => l \in Links
        /\ caller' = [caller EXCEPT ![c] =
              [step |-> "routed", call |-> call, number |-> caller[c].number + 1,
               via |-> l, request |-> 0, result |-> None]]
  <2>1. CASE c \in Local
    BY <2>1, RequestsAssumption DEF Call
  <2>2. CASE c \in Forwarded
    <3>1. sessions \subseteq Links /\ Links \subseteq 0 .. MaxLinks
      BY RequestsAssumption DEF RequestsTypeOK, LinkTyped, Links
    <3> QED
      BY <2>2, <3>1, RequestsAssumption DEF Call
  <2> QED
    BY <2>1, <2>2 DEF Callers
<1> DEFINE t == [step |-> "routed", call |-> call, number |-> caller[c].number + 1,
                 via |-> l, request |-> 0, result |-> None]
<1>2. caller[c].number + 1 \in 0 .. MaxCalls
  BY RequestsAssumption DEF Call, RequestsTypeOK, EntriesTyped, Threads
<1>3. t \in Threads
  BY <1>2, ThreadMade DEF Steps
<1>4. caller' = [caller EXCEPT ![c] = t] /\ t.step = "routed" /\ t.call = call
      /\ t.number = caller[c].number + 1 /\ t.result = None /\ t.via = l
  BY <1>1
<1> HIDE DEF t
<1>5. /\ caller' \in [Callers -> Threads] /\ caller'[c] = t
      /\ \A d \in Callers : d # c => caller'[d] = caller[d]
  BY <1>3, <1>4, ThreadSteps DEF RequestsTypeOK, EntriesTyped
<1>6. /\ reply' \in [Callers -> Results \cup {None}] /\ reply'[c] = None
      /\ \A d \in Callers : d # c => reply'[d] = reply[d]
  BY DEF Call, RequestsTypeOK, EntriesTyped
<1>7. RequestsTypeOK'
  BY <1>5, <1>6 DEF Call, RequestsTypeOK, TypeSessions, EntriesTyped, BridgeTyped,
                    HostTyped, LinkTyped
<1> QED
  BY <1>1, <1>4, <1>5, <1>6, <1>7

\* The frontend keeps every type.
LEMMA FrontendTypes ==
    ASSUME RequestsTypeOK, Places,
           Begin \/ (\E r \in acting, ok \in BOOLEAN : Finish(r, ok)) \/ PageRun
             \/ Windows \/ Stop
    PROVE  RequestsTypeOK'
<1> USE DEF sessionVars, windowVars, bridgeVars, linkVars, hostVars
<1>1. CASE Begin
  <2> DEFINE m == Head(inbox)
  <2>1. m \in Posted(next) /\ inbox' \in Seq(Posted(next))
    BY <1>1, TakenFirst DEF Begin, RequestsTypeOK, BridgeTyped
  <2>2. m.request \in 1 .. next - 1 /\ m.asked \in Asked
    BY <2>1 DEF Posted
  <2> HIDE DEF m
  <2>3. CASE /\ acting' = acting \cup {m.request}
             /\ performed' = performed \cup {m.asked}
             /\ UNCHANGED <<requests, reply, toHost, strayed>>
    BY <1>1, <2>1, <2>2, <2>3 DEF Begin, RequestsTypeOK, TypeSessions, EntriesTyped,
                                  BridgeTyped, HostTyped, LinkTyped
  <2>4. CASE Complete(m.request, FALSE) /\ UNCHANGED <<acting, performed>>
    <3>1. /\ DOMAIN requests' = DOMAIN requests \ {m.request}
          /\ \A s \in DOMAIN requests' : requests'[s] = requests[s]
          /\ reply' \in [Callers -> Results \cup {None}]
          /\ toHost' \in Seq(Answers) /\ strayed' \subseteq Links
      BY <2>4, CompleteTyped
    <3> QED
      BY <1>1, <2>1, <2>4, <3>1 DEF Begin, RequestsTypeOK, TypeSessions, EntriesTyped,
                                    BridgeTyped, HostTyped, LinkTyped
  <2> QED
    BY <1>1, <2>3, <2>4 DEF Begin, m
<1>2. CASE \E r \in acting, ok \in BOOLEAN : Finish(r, ok)
  <2>1. PICK r \in acting, ok \in BOOLEAN : Finish(r, ok)
    BY <1>2
  <2>2. /\ DOMAIN requests' = DOMAIN requests \ {r}
        /\ \A s \in DOMAIN requests' : requests'[s] = requests[s]
        /\ reply' \in [Callers -> Results \cup {None}]
        /\ toHost' \in Seq(Answers) /\ strayed' \subseteq Links
    BY <2>1, CompleteTyped DEF Finish
  <2> QED
    BY <2>1, <2>2 DEF Finish, RequestsTypeOK, TypeSessions, EntriesTyped, BridgeTyped,
                      HostTyped, LinkTyped
<1>3. CASE PageRun
  <2> DEFINE m == Head(toPage)
             q == Request(m.call, m.asked, link, m.id)
             n == [request |-> next, call |-> m.call, asked |-> m.asked]
  <2>1. m \in Messages /\ toPage' \in Seq(Messages)
    BY <1>3, TakenFirst DEF PageRun, RequestsTypeOK, LinkTyped
  <2>2. q \in Pending /\ m.call \in Calls /\ m.asked \in Asked
    BY <2>1 DEF Messages, Request, Pending, RequestsTypeOK, LinkTyped
  <2>3. CASE /\ Answerable(m.call) /\ Answer(q, AtOnce(m.call, m.asked))
             /\ UNCHANGED bridgeVars
    <3>1. /\ reply' \in [Callers -> Results \cup {None}]
          /\ toHost' \in Seq(Answers) /\ strayed' \subseteq Links
      BY <2>2, <2>3, AtOnceTyped, AnswerTyped
    <3> HIDE DEF m, q, n
    <3> QED
      BY <1>3, <2>1, <2>3, <3>1 DEF PageRun, RequestsTypeOK, TypeSessions, EntriesTyped,
                                    BridgeTyped, HostTyped, LinkTyped
  <2>4. CASE /\ requests' = With(requests, next, q)
             /\ next' = next + 1
             /\ inbox' = Append(inbox, n)
             /\ UNCHANGED <<acting, reply, toHost, strayed>>
    <3>1. next \in Nat \ {0} /\ Posted(next) \subseteq Posted(next')
          /\ n \in Posted(next')
      BY <2>2, <2>4 DEF Posted, RequestsTypeOK, BridgeTyped
    <3>2. inbox' \in Seq(Posted(next'))
      <4>1. inbox \in Seq(Posted(next'))
        BY <3>1 DEF RequestsTypeOK, BridgeTyped
      <4> QED
        BY <2>4, <3>1, <4>1, AddedLast
    <3>3. /\ DOMAIN requests' = DOMAIN requests \cup {next}
          /\ requests'[next] = q
          /\ \A r \in DOMAIN requests : r # next => requests'[r] = requests[r]
      BY <2>4 DEF With
    <3> HIDE DEF m, q, n
    <3>4. DOMAIN requests' \subseteq 1 .. next' - 1 /\ acting \subseteq 1 .. next' - 1
      BY <2>4, <3>1, <3>3 DEF RequestsTypeOK, BridgeTyped
    <3>5. \A r \in DOMAIN requests' : requests'[r] \in Pending
      BY <2>2, <3>3 DEF RequestsTypeOK, BridgeTyped
    <3>6. BridgeTyped'
      BY <1>3, <2>4, <3>1, <3>2, <3>4, <3>5 DEF PageRun, RequestsTypeOK, BridgeTyped
    <3> QED
      BY <1>3, <2>1, <2>4, <3>6 DEF PageRun, RequestsTypeOK, TypeSessions, EntriesTyped,
                                    HostTyped, LinkTyped
  <2> QED
    BY <1>3, <2>3, <2>4 DEF PageRun, Fetched
<1>4. CASE Windows
  <2>1. PICK k \in Kinds : \/ WindowOpened(k)
                           \/ WindowClosed(k, generation[k])
                           \/ \E f \in Facts : WindowFacts(k, generation[k], f)
    BY <1>4 DEF Windows
  <2>2. TypeSessions'
    <3>1. TypeSessions /\ MaxOpens \in Nat
      BY SessionAssumption DEF RequestsTypeOK
    <3>2. CASE WindowOpened(k)
      <4>1. generation[k] + 1 \in 0 .. MaxOpens
        BY <3>1, <3>2 DEF WindowOpened, TypeSessions
      <4> QED
        BY <3>1, <3>2, <4>1 DEF WindowOpened, TypeSessions
    <3>3. CASE WindowClosed(k, generation[k])
      BY <3>1, <3>3 DEF WindowClosed, TypeSessions
    <3>4. CASE \E f \in Facts : WindowFacts(k, generation[k], f)
      BY <3>1, <3>4 DEF WindowFacts, TypeSessions
    <3> QED
      BY <2>1, <3>2, <3>3, <3>4
  <2> QED
    BY <1>4, <2>2 DEF Windows, RequestsTypeOK, EntriesTyped, BridgeTyped, HostTyped,
                      LinkTyped
<1>5. CASE Stop
  BY <1>5 DEF Stop, RequestsTypeOK, TypeSessions, EntriesTyped, BridgeTyped, HostTyped,
              LinkTyped
<1> QED
  BY <1>1, <1>2, <1>3, <1>4, <1>5

\* The host's connections keep every type.
LEMMA ConnectionTypes ==
    ASSUME RequestsTypeOK, Places,
           Connect \/ Lose \/ (\E l \in Links : Closed(l)) \/ SessionResult
    PROVE  RequestsTypeOK'
<1> USE DEF sessionVars, windowVars, bridgeVars, linkVars, hostVars
<1>1. CASE Connect
  <2>1. link + 1 \in Links /\ Links \subseteq 0 .. MaxLinks
    BY <1>1, RequestsAssumption DEF Connect, Links, RequestsTypeOK, LinkTyped
  <2> QED
    BY <1>1, <2>1 DEF Connect, RequestsTypeOK, TypeSessions, EntriesTyped, BridgeTyped,
                      HostTyped, LinkTyped
<1>2. CASE Lose
  <2>1. <<>> \in Seq(Messages) /\ <<>> \in Seq(Answers)
    BY EmptySeq
  <2> QED
    BY <1>2, <2>1 DEF Lose, RequestsTypeOK, TypeSessions, EntriesTyped, BridgeTyped,
                      HostTyped, LinkTyped
<1>3. CASE \E l \in Links : Closed(l)
  <2>1. PICK l \in Links : Closed(l)
    BY <1>3
  <2>2. \A c \in Callers : Result("ended", NoWindow, Me(c)) \in Results
    BY MyCall, ResultMade DEF RequestsTypeOK
  <2>3. reply' \in [Callers -> Results \cup {None}]
    BY <2>1, <2>2 DEF Closed, RequestsTypeOK, EntriesTyped
  <2>4. HostTyped'
    <3>1. DOMAIN waiting' = Links
      BY <2>1 DEF Closed, RequestsTypeOK, HostTyped
    <3>2. waiting'[l] = <<>> /\ \A k \in Links : k # l => waiting'[k] = waiting[k]
      BY <2>1 DEF Closed, RequestsTypeOK, HostTyped
    <3>3. DOMAIN waiting'[l] = {}
      BY <3>2
    <3> QED
      BY <2>1, <3>1, <3>2, <3>3 DEF Closed, RequestsTypeOK, HostTyped
  <2> QED
    BY <2>1, <2>3, <2>4 DEF Closed, RequestsTypeOK, TypeSessions, EntriesTyped,
                            BridgeTyped, LinkTyped
<1>4. CASE SessionResult
  <2> DEFINE m == Head(toHost)
  <2>1. m \in Answers /\ toHost' \in Seq(Answers) /\ link \in Links
    BY <1>4, TakenFirst DEF SessionResult, RequestsTypeOK, LinkTyped, Places
  <2> HIDE DEF m
  <2>2. CASE m.id \in DOMAIN waiting[link]
    <3> DEFINE a == waiting[link][m.id]
    <3>1. a \in Asked
      BY <2>1, <2>2 DEF RequestsTypeOK, HostTyped
    <3>2. \A command : Decoded(m, command) \in Results
      <4>1. m.result \in Results /\ m.result.asked \in Asked
        BY <2>1 DEF Answers, Results
      <4> QED
        BY <4>1, ResultMade DEF Decoded
    <3>3. reply' \in [Callers -> Results \cup {None}]
      BY <1>4, <2>2, <3>2 DEF SessionResult, m, RequestsTypeOK, EntriesTyped
    <3>4. waiting' = [waiting EXCEPT ![link] = Without(@, m.id)]
      BY <1>4, <2>2 DEF SessionResult, m
    <3>5. /\ DOMAIN waiting' = Links
          /\ \A k \in Links : k # link => waiting'[k] = waiting[k]
          /\ waiting'[link] = Without(waiting[link], m.id)
      BY <2>1, <3>4 DEF RequestsTypeOK, HostTyped
    <3>6. /\ DOMAIN waiting'[link] \subseteq DOMAIN waiting[link]
          /\ \A id \in DOMAIN waiting'[link] : waiting'[link][id] = waiting[link][id]
      BY <3>5 DEF Without
    <3>7. HostTyped'
      BY <1>4, <2>1, <3>5, <3>6 DEF SessionResult, RequestsTypeOK, HostTyped
    <3> QED
      BY <1>4, <2>1, <3>3, <3>7 DEF SessionResult, RequestsTypeOK, TypeSessions,
                                    EntriesTyped, BridgeTyped, LinkTyped
  <2>3. CASE m.id \notin DOMAIN waiting[link]
    BY <1>4, <2>1, <2>3 DEF SessionResult, m, RequestsTypeOK, TypeSessions, EntriesTyped,
                            BridgeTyped, HostTyped, LinkTyped
  <2> QED
    BY <2>2, <2>3
<1> QED
  BY <1>1, <1>2, <1>3, <1>4

-----------------------------------------------------------------------------
(* What is pending is awaited.                                              *)

\* The steps of a thread other than its return leave the others alone and keep
\* its call.
LEMMA CallerMoves ==
    ASSUME RequestsTypeOK, Places, Matching, NEW c \in Callers, CallerStep(c)
    PROVE  /\ \A d \in Callers : d # c => caller'[d] = caller[d]
           /\ \A d \in Callers : Me(d)' = Me(d) /\ caller'[d].via = caller[d].via
                                 /\ caller'[d].call = caller[d].call
           /\ reply' = reply
           /\ Check(c) => caller'[c].step \in {"idle", "checked"}
                            /\ caller'[c].request = caller[c].request
           /\ Insert(c) => caller'[c].step = "inserted" /\ caller'[c].request = next
           /\ Announce(c) => caller'[c].step = "waiting"
                               /\ caller'[c].request = caller[c].request
           /\ Forward(c) => caller'[c].step = "waiting"
                              /\ caller'[c].request = sent[caller[c].via] + 1
           /\ Receive(c) => caller'[c].step = "idle"
           /\ TimeOut(c) => caller'[c].step = "late"
                              /\ caller'[c].request = caller[c].request
           /\ Withdraw(c) => caller'[c].step = "idle"
<1>0. /\ caller \in [Callers -> Threads] /\ reply \in [Callers -> Results \cup {None}]
      /\ Me(c) \in Asked /\ caller[c].call \in Calls /\ caller[c] \in Threads
      /\ {"idle", "checked", "inserted", "waiting", "late"} \subseteq Steps
  BY MyCall DEF RequestsTypeOK, EntriesTyped, Steps
<1>1. ASSUME Check(c)
      PROVE  /\ \A d \in Callers : d # c => caller'[d] = caller[d]
             /\ caller'[c].number = caller[c].number /\ caller'[c].via = caller[c].via
             /\ caller'[c].call = caller[c].call /\ reply' = reply
             /\ caller'[c].step \in {"idle", "checked"}
             /\ caller'[c].request = caller[c].request
  <2>1. CASE Answerable(caller[c].call)
    <3>1. Returns(c, AtOnce(caller[c].call, Me(c))) /\ reply' = reply
      BY <1>1, <2>1 DEF Check
    <3> QED
      BY <1>0, <3>1, AtOnceTyped, ThreadReturns
  <2>2. CASE ~Answerable(caller[c].call)
    BY <1>0, <1>1, <2>2, ThreadGoes DEF Check
  <2> QED
    BY <2>1, <2>2
<1>2. ASSUME Insert(c)
      PROVE  /\ \A d \in Callers : d # c => caller'[d] = caller[d]
             /\ caller'[c].number = caller[c].number /\ caller'[c].via = caller[c].via
             /\ caller'[c].call = caller[c].call /\ reply' = reply
             /\ caller'[c].step = "inserted" /\ caller'[c].request = next
  <2>1. next \in Nat
    BY DEF RequestsTypeOK, BridgeTyped
  <2> QED
    BY <1>0, <1>2, <2>1, ThreadAsks DEF Insert
<1>3. ASSUME Announce(c)
      PROVE  /\ \A d \in Callers : d # c => caller'[d] = caller[d]
             /\ caller'[c].number = caller[c].number /\ caller'[c].via = caller[c].via
             /\ caller'[c].call = caller[c].call /\ reply' = reply
             /\ caller'[c].step = "waiting" /\ caller'[c].request = caller[c].request
  BY <1>0, <1>3, ThreadGoes DEF Announce
<1>4. ASSUME Forward(c)
      PROVE  /\ \A d \in Callers : d # c => caller'[d] = caller[d]
             /\ caller'[c].number = caller[c].number /\ caller'[c].via = caller[c].via
             /\ caller'[c].call = caller[c].call /\ reply' = reply
             /\ caller'[c].step = "waiting"
             /\ caller'[c].request = sent[caller[c].via] + 1
  <2>1. sent[caller[c].via] + 1 \in Nat
    BY <1>4 DEF Forward, Places, RequestsTypeOK, HostTyped
  <2> QED
    BY <1>0, <1>4, <2>1, ThreadAsks DEF Forward, ForwardedAs
<1>5. ASSUME Receive(c)
      PROVE  /\ \A d \in Callers : d # c => caller'[d] = caller[d]
             /\ caller'[c].number = caller[c].number /\ caller'[c].via = caller[c].via
             /\ caller'[c].call = caller[c].call /\ reply' = reply
             /\ caller'[c].step = "idle"
  <2>1. reply[c] \in Results /\ Returns(c, reply[c]) /\ reply' = reply
    BY <1>0, <1>5 DEF Receive
  <2> QED
    BY <1>0, <2>1, ThreadReturns
<1>6. ASSUME TimeOut(c)
      PROVE  /\ \A d \in Callers : d # c => caller'[d] = caller[d]
             /\ caller'[c].number = caller[c].number /\ caller'[c].via = caller[c].via
             /\ caller'[c].call = caller[c].call /\ reply' = reply
             /\ caller'[c].step = "late" /\ caller'[c].request = caller[c].request
  BY <1>0, <1>6, ThreadGoes DEF TimeOut
<1>7. ASSUME Withdraw(c)
      PROVE  /\ \A d \in Callers : d # c => caller'[d] = caller[d]
             /\ caller'[c].number = caller[c].number /\ caller'[c].via = caller[c].via
             /\ caller'[c].call = caller[c].call /\ reply' = reply
             /\ caller'[c].step = "idle"
  <2>1. UiTimeout(c) \in Results /\ Returns(c, UiTimeout(c)) /\ reply' = reply
    BY <1>0, <1>7, ResultMade DEF UiTimeout, Withdraw
  <2> QED
    BY <1>0, <2>1, ThreadReturns
<1>8. /\ \A d \in Callers : d # c => caller'[d] = caller[d]
      /\ caller'[c].number = caller[c].number /\ caller'[c].via = caller[c].via
      /\ caller'[c].call = caller[c].call /\ reply' = reply
  BY <1>1, <1>2, <1>3, <1>4, <1>5, <1>6, <1>7 DEF CallerStep
<1>9. \A d \in Callers : Me(d)' = Me(d) /\ caller'[d].via = caller[d].via
                         /\ caller'[d].call = caller[d].call
  BY <1>8 DEF Me
<1> QED
  BY <1>1, <1>2, <1>3, <1>4, <1>5, <1>6, <1>7, <1>8, <1>9

\* A thread's steps keep what is pending awaited.
LEMMA CallerAwaits ==
    ASSUME RequestsTypeOK, Places, Matching, Awaited, NEW c \in Callers, CallerStep(c)
    PROVE  Places' /\ Awaited'
<1> USE DEF bridgeVars, linkVars, hostVars
<1>0. /\ \A d \in Callers : d # c => caller'[d] = caller[d]
      /\ \A d \in Callers : Me(d)' = Me(d) /\ caller'[d].via = caller[d].via
      /\ reply' = reply /\ link' = link /\ linked' = linked /\ toHost' = toHost
  BY CallerMoves DEF CallerStep, Check, Insert, Announce, Forward, Receive, TimeOut,
                     Withdraw
<1>1. Local \subseteq Callers /\ Forwarded \subseteq Callers /\ Local \cap Forwarded = {}
  BY RequestsAssumption DEF Callers
<1>2. CASE Check(c)
  <2>1. /\ caller'[c].step \in {"idle", "checked"}
        /\ caller[c].step = "routed" /\ c \in Local
        /\ UNCHANGED <<requests, waiting, toPage>>
    BY <1>2, CallerMoves DEF Check
  <2> QED
    BY <1>0, <1>1, <2>1 DEF Places, Awaited
<1>3. CASE Insert(c)
  <2> DEFINE q == Request(caller[c].call, Me(c), 0, 0)
  <2>1. /\ caller'[c].step = "inserted" /\ caller'[c].request = next
        /\ caller[c].step = "checked" /\ c \in Local /\ reply[c] = None
        /\ UNCHANGED <<waiting, toPage>>
    BY <1>3, CallerMoves DEF Insert, Places
  <2>2. /\ DOMAIN requests' = DOMAIN requests \cup {next}
        /\ requests'[next] = q
        /\ \A r \in DOMAIN requests : r # next => requests'[r] = requests[r]
    BY <1>3 DEF Insert, With
  <2>3. q.asked = Me(c) /\ q.asked.caller = c
    BY DEF Request, Me
  <2> HIDE DEF q
  <2>4. next \notin DOMAIN requests
    BY DEF RequestsTypeOK, BridgeTyped
  <2>5. Places'
    BY <1>0, <1>1, <2>1 DEF Places
  <2>6. \A r \in DOMAIN requests : requests[r].from = 0 => requests[r].asked.caller # c
    BY <2>1 DEF Awaited
  <2> QED
    BY <1>0, <1>1, <2>1, <2>2, <2>3, <2>4, <2>5, <2>6 DEF Awaited
<1>4. CASE Announce(c)
  <2>1. /\ caller'[c].step = "waiting" /\ caller'[c].request = caller[c].request
        /\ caller[c].step = "inserted" /\ c \in Local
        /\ UNCHANGED <<requests, waiting, toPage>>
    BY <1>4, CallerMoves DEF Announce, Places
  <2> QED
    BY <1>0, <1>1, <2>1 DEF Places, Awaited
<1>5. CASE Forward(c)
  <2> DEFINE l == caller[c].via
             id == sent[l] + 1
  <2>1. /\ caller'[c].step = "waiting" /\ caller'[c].request = id
        /\ caller[c].step = "routed" /\ c \in Forwarded /\ reply[c] = None
        /\ l \in Links /\ requests' = requests
        /\ waiting' = [waiting EXCEPT ![l] = With(waiting[l], id, Me(c))]
        /\ toPage' # toPage => linked
    BY <1>5, CallerMoves DEF Forward, ForwardedAs, Places
  <2>2. Places'
    BY <1>0, <1>1, <2>1 DEF Places
  <2> HIDE DEF l
  <2>3. /\ \A k \in Links : k # l => waiting'[k] = waiting[k]
        /\ waiting'[l] = With(waiting[l], id, Me(c))
    BY <2>1 DEF RequestsTypeOK, HostTyped
  <2>4. /\ DOMAIN waiting'[l] = DOMAIN waiting[l] \cup {id}
        /\ waiting'[l][id] = Me(c)
        /\ \A k \in DOMAIN waiting[l] : k # id => waiting'[l][k] = waiting[l][k]
    BY <2>3 DEF With
  <2>5. Me(c).caller = c /\ caller'[c].via = l /\ id \notin DOMAIN waiting[l]
    <3>1. caller'[c].via = l
      BY <1>0, <1>1, <2>1 DEF l
    <3>2. sent[l] \in Nat /\ DOMAIN waiting[l] \subseteq 1 .. sent[l]
      BY <2>1 DEF RequestsTypeOK, HostTyped
    <3> QED
      BY <3>1, <3>2 DEF Me
  <2>6. \A k \in Links : \A i \in DOMAIN waiting[k] : waiting[k][i].caller # c
    BY <2>1 DEF Awaited
  <2> HIDE DEF id
  <2> QED
    BY <1>0, <1>1, <2>1, <2>2, <2>3, <2>4, <2>5, <2>6 DEF Awaited
<1>6. CASE Receive(c)
  <2>1. /\ caller'[c].step = "idle" /\ reply[c] # None
        /\ UNCHANGED <<requests, waiting, toPage>>
    BY <1>6, CallerMoves DEF Receive
  <2> QED
    BY <1>0, <1>1, <2>1 DEF Places, Awaited
<1>7. CASE TimeOut(c)
  <2>1. /\ caller'[c].step = "late" /\ caller'[c].request = caller[c].request
        /\ caller[c].step = "waiting"
        /\ UNCHANGED <<requests, waiting, toPage>>
    BY <1>7, CallerMoves DEF TimeOut
  <2> QED
    BY <1>0, <1>1, <2>1 DEF Places, Awaited
<1>8. CASE Withdraw(c)
  <2>1. caller'[c].step = "idle" /\ caller[c].step = "late" /\ toPage' = toPage
    BY <1>8, CallerMoves DEF Withdraw
  <2>2. Places'
    BY <1>0, <1>1, <2>1 DEF Places
  <2>3. CASE c \in Local /\ requests' = Without(requests, caller[c].request)
             /\ UNCHANGED waiting
    <3>1. /\ DOMAIN requests' = DOMAIN requests \ {caller[c].request}
          /\ \A r \in DOMAIN requests' : requests'[r] = requests[r]
      BY <2>3 DEF Without
    <3>2. \A r \in DOMAIN requests' :
            requests'[r].from = 0 => requests'[r].asked.caller # c
      BY <3>1 DEF Awaited
    <3> QED
      BY <1>0, <1>1, <2>2, <2>3, <3>1, <3>2 DEF Awaited
  <2>4. CASE /\ c \in Forwarded /\ UNCHANGED requests
             /\ waiting' = [waiting EXCEPT ![caller[c].via] =
                               Without(@, caller[c].request)]
    <3>1. caller[c].via \in Links
      BY <2>1, <2>4 DEF Places
    <3>2. /\ \A k \in Links : k # caller[c].via => waiting'[k] = waiting[k]
          /\ waiting'[caller[c].via] = Without(waiting[caller[c].via], caller[c].request)
      BY <2>4, <3>1 DEF RequestsTypeOK, HostTyped
    <3>3. /\ DOMAIN waiting'[caller[c].via] =
               DOMAIN waiting[caller[c].via] \ {caller[c].request}
          /\ \A id \in DOMAIN waiting'[caller[c].via] :
               waiting'[caller[c].via][id] = waiting[caller[c].via][id]
      BY <3>2 DEF Without
    <3>4. \A k \in Links : \A id \in DOMAIN waiting'[k] :
            /\ id \in DOMAIN waiting[k] /\ waiting'[k][id] = waiting[k][id]
            /\ waiting[k][id].caller # c
      BY <3>1, <3>2, <3>3 DEF Awaited
    <3> QED
      BY <1>0, <1>1, <2>2, <2>4, <3>4 DEF Awaited
  <2> QED
    BY <1>8, <2>3, <2>4 DEF Withdraw, Withdrawn
<1> QED
  BY <1>2, <1>3, <1>4, <1>5, <1>6, <1>7, <1>8 DEF CallerStep

\* A step of the frontend or the host keeps what is pending awaited: it withdraws
\* whatever it answers.
LEMMA StillAwaited ==
    ASSUME Places, Awaited, caller' = caller,
           \A r \in DOMAIN requests' :
              \/ r \in DOMAIN requests /\ requests'[r] = requests[r]
              \/ requests'[r].from # 0,
           \A l \in Links : \A id \in DOMAIN waiting'[l] :
              id \in DOMAIN waiting[l] /\ waiting'[l][id] = waiting[l][id],
           \A c \in Callers : reply'[c] # reply[c] =>
              /\ caller[c].step \notin {"routed", "checked"}
              /\ \A r \in DOMAIN requests' :
                   requests'[r].from = 0 => requests'[r].asked # Me(c)
              /\ \A l \in Links : \A id \in DOMAIN waiting'[l] : waiting'[l][id] # Me(c),
           linked' \/ toPage' # <<>> \/ toHost' # <<>> => link' \in Links
    PROVE  Places' /\ Awaited'
<1>1. Local \subseteq Callers /\ Forwarded \subseteq Callers
  BY DEF Callers
<1>2. \A c : Me(c)' = Me(c)
  BY DEF Me
<1>3. Places'
  BY <1>1 DEF Places
<1>4. ASSUME NEW r \in DOMAIN requests', requests'[r].from = 0
      PROVE  /\ r \in DOMAIN requests /\ requests'[r] = requests[r]
             /\ requests[r].asked = Me(requests[r].asked.caller)
             /\ requests[r].asked.caller \in Local
             /\ reply'[requests[r].asked.caller] = None
  BY <1>1, <1>4 DEF Awaited
<1>5. ASSUME NEW l \in Links, NEW id \in DOMAIN waiting'[l]
      PROVE  /\ id \in DOMAIN waiting[l] /\ waiting'[l][id] = waiting[l][id]
             /\ reply'[waiting[l][id].caller] = None
  BY <1>1, <1>5 DEF Awaited
<1> QED
  BY <1>2, <1>3, <1>4, <1>5 DEF Awaited

\* Completing a request is such a step.
LEMMA CompleteAwaits ==
    ASSUME RequestsTypeOK, Places, Awaited, NEW r, NEW ok \in BOOLEAN, Complete(r, ok),
           UNCHANGED <<caller, waiting, link, linked, toPage>>
    PROVE  Places' /\ Awaited'
<1>1. /\ DOMAIN requests' = DOMAIN requests \ {r}
      /\ \A s \in DOMAIN requests' : requests'[s] = requests[s]
      /\ r \in DOMAIN requests =>
           /\ requests[r] \in Pending
           /\ Completed(requests[r], ok) \in Results
           /\ Completed(requests[r], ok).asked = requests[r].asked
           /\ Answer(requests[r], Completed(requests[r], ok))
      /\ r \notin DOMAIN requests => UNCHANGED <<requests, reply, toHost, strayed>>
  BY CompleteTyped, CompletedTyped
<1>2. /\ toHost' # toHost => linked
      /\ \A c \in Callers : reply'[c] # reply[c] =>
           /\ r \in DOMAIN requests /\ requests[r].from = 0
           /\ requests[r].asked = Me(c)
  BY <1>1, AnswerTyped
<1>3. linked' \/ toPage' # <<>> \/ toHost' # <<>> => link' \in Links
  BY <1>2 DEF Places
<1>4. ASSUME NEW c \in Callers, reply'[c] # reply[c]
      PROVE  /\ caller[c].step \notin {"routed", "checked"}
             /\ \A s \in DOMAIN requests' :
                  requests'[s].from = 0 => requests'[s].asked # Me(c)
             /\ \A l \in Links : \A id \in DOMAIN waiting'[l] : waiting'[l][id] # Me(c)
  <2>1. r \in DOMAIN requests /\ requests[r].from = 0 /\ requests[r].asked = Me(c)
    BY <1>2, <1>4
  <2>2. c \in Local /\ caller[c].step \in {"inserted", "waiting", "late"}
        /\ caller[c].request = r /\ Me(c).caller = c
    BY <2>1 DEF Awaited, Me
  <2>3. c \notin Forwarded
    BY <2>2, RequestsAssumption
  <2>4. ASSUME NEW s \in DOMAIN requests', requests'[s].from = 0, requests'[s].asked = Me(c)
        PROVE  FALSE
    BY <1>1, <2>2, <2>4 DEF Awaited
  <2> QED
    BY <2>2, <2>3, <2>4 DEF Awaited
<1> QED
  BY <1>1, <1>3, <1>4, StillAwaited

\* A new call finds nothing pending for its entry.
LEMMA CallAwaits ==
    ASSUME RequestsTypeOK, Places, Awaited, NEW c \in Callers, NEW call \in Calls,
           Call(c, call)
    PROVE  Places' /\ Awaited'
<1>1. /\ \A d \in Callers : d # c => caller'[d] = caller[d] /\ reply'[d] = reply[d]
      /\ reply'[c] = None /\ caller'[c].step = "routed"
      /\ c \in Forwarded => caller'[c].via \in Links
  BY CallTypes
<1>2. UNCHANGED <<requests, waiting, link, linked, toPage, toHost>>
  BY DEF Call, bridgeVars, linkVars, hostVars
<1>3. Local \subseteq Callers /\ Forwarded \subseteq Callers
  BY DEF Callers
<1>4. caller[c].step = "idle"
  BY DEF Call
<1>5. Places'
  BY <1>1, <1>2, <1>3 DEF Places
<1>6. \A d \in Callers : d # c => Me(d)' = Me(d)
  BY <1>1 DEF Me
<1>7. ASSUME NEW r \in DOMAIN requests, requests[r].from = 0
      PROVE  requests[r].asked.caller \in Callers \ {c}
  BY <1>3, <1>4, <1>7 DEF Awaited
<1>8. ASSUME NEW l \in Links, NEW id \in DOMAIN waiting[l]
      PROVE  waiting[l][id].caller \in Callers \ {c}
  BY <1>3, <1>4, <1>8 DEF Awaited
<1> QED
  BY <1>1, <1>2, <1>5, <1>6, <1>7, <1>8 DEF Awaited

\* The frontend keeps what is pending awaited.
LEMMA FrontendAwaits ==
    ASSUME RequestsTypeOK, Places, Awaited,
           Begin \/ (\E r \in acting, ok \in BOOLEAN : Finish(r, ok)) \/ PageRun
             \/ Windows \/ Stop
    PROVE  Places' /\ Awaited'
<1> USE DEF bridgeVars, linkVars, hostVars
<1>1. CASE Begin
  <2>1. UNCHANGED <<caller, waiting, link, linked, toPage>>
    BY <1>1 DEF Begin
  <2>2. CASE UNCHANGED <<requests, reply, toHost>>
    BY <2>1, <2>2, StillAwaited DEF Places
  <2>3. CASE Complete(Head(inbox).request, FALSE)
    BY <2>1, <2>3, CompleteAwaits
  <2> QED
    BY <1>1, <2>2, <2>3 DEF Begin
<1>2. CASE \E r \in acting, ok \in BOOLEAN : Finish(r, ok)
  <2>1. PICK r \in acting, ok \in BOOLEAN : Finish(r, ok)
    BY <1>2
  <2>2. Complete(r, ok) /\ UNCHANGED <<caller, waiting, link, linked, toPage>>
    BY <2>1 DEF Finish
  <2> QED
    BY <2>2, CompleteAwaits
<1>3. CASE PageRun
  <2> DEFINE m == Head(toPage)
             q == Request(m.call, m.asked, link, m.id)
  <2>1. /\ UNCHANGED <<caller, waiting, link, linked>>
        /\ link \in Links /\ link # 0 /\ q.from = link
    BY <1>3 DEF PageRun, Places, Links, Request
  <2>2. reply' = reply
    BY <1>3, <2>1 DEF PageRun, Answer
  <2>3. \A r \in DOMAIN requests' :
          \/ r \in DOMAIN requests /\ requests'[r] = requests[r]
          \/ requests'[r].from # 0
    <3>1. requests' = requests \/ requests' = With(requests, next, q)
      BY <1>3 DEF PageRun
    <3> HIDE DEF q
    <3> QED
      BY <2>1, <3>1 DEF With
  <2> HIDE DEF q
  <2> QED
    BY <2>1, <2>2, <2>3, StillAwaited
<1>4. CASE Windows
  <2>1. UNCHANGED <<caller, waiting, link, linked, toPage, toHost, requests, reply>>
    BY <1>4 DEF Windows
  <2> QED
    BY <2>1, StillAwaited DEF Places
<1>5. CASE Stop
  <2>1. UNCHANGED <<caller, waiting, link, linked, toPage, toHost, requests, reply>>
    BY <1>5 DEF Stop
  <2> QED
    BY <2>1, StillAwaited DEF Places
<1> QED
  BY <1>1, <1>2, <1>3, <1>4, <1>5

\* The host's connections keep what is pending awaited.
LEMMA ConnectionAwaits ==
    ASSUME RequestsTypeOK, Places, Awaited,
           Connect \/ Lose \/ (\E l \in Links : Closed(l)) \/ SessionResult
    PROVE  Places' /\ Awaited'
<1> USE DEF bridgeVars, linkVars, hostVars
<1>1. CASE Connect
  <2>1. UNCHANGED <<caller, waiting, requests, reply>> /\ link' \in Links
    BY <1>1, RequestsAssumption DEF Connect, Links, RequestsTypeOK, LinkTyped
  <2> QED
    BY <2>1, StillAwaited
<1>2. CASE Lose
  <2>1. /\ UNCHANGED <<caller, waiting, requests, reply>>
        /\ ~linked' /\ toPage' = <<>> /\ toHost' = <<>>
    BY <1>2 DEF Lose
  <2> QED
    BY <2>1, StillAwaited
<1>3. CASE \E l \in Links : Closed(l)
  <2>1. PICK l \in Links : Closed(l)
    BY <1>3
  <2>2. /\ UNCHANGED <<caller, requests, link, linked, toPage, toHost>>
        /\ waiting'[l] = <<>> /\ \A k \in Links : k # l => waiting'[k] = waiting[k]
    BY <2>1 DEF Closed, RequestsTypeOK, HostTyped
  <2>3. DOMAIN waiting'[l] = {}
    BY <2>2
  <2>4. ASSUME NEW c \in Callers, reply'[c] # reply[c]
        PROVE  /\ caller[c].step \notin {"routed", "checked"}
               /\ \A r \in DOMAIN requests' :
                    requests'[r].from = 0 => requests'[r].asked # Me(c)
               /\ \A k \in Links : \A id \in DOMAIN waiting'[k] : waiting'[k][id] # Me(c)
    <3>1. PICK id \in DOMAIN waiting[l] : waiting[l][id] = Me(c)
      BY <2>1, <2>4 DEF Closed
    <3>2. Me(c).caller = c
      BY DEF Me
    <3>3. c \in Forwarded /\ caller[c].step \in {"waiting", "late"} /\ caller[c].via = l
      BY <3>1, <3>2 DEF Awaited
    <3>4. c \notin Local
      BY <3>3, RequestsAssumption
    <3> QED
      BY <2>2, <2>3, <3>2, <3>3, <3>4 DEF Awaited
  <2> QED
    BY <2>2, <2>3, <2>4, StillAwaited DEF Places
<1>4. CASE SessionResult
  <2> DEFINE m == Head(toHost)
  <2>1. /\ UNCHANGED <<caller, requests, link, linked, toPage>> /\ link \in Links
    BY <1>4 DEF SessionResult, Places
  <2>2. CASE m.id \in DOMAIN waiting[link]
    <3> DEFINE a == waiting[link][m.id]
    <3>1. /\ waiting' = [waiting EXCEPT ![link] = Without(waiting[link], m.id)]
          /\ \A c \in Callers : reply'[c] # reply[c] => c = a.caller
      BY <1>4, <2>2 DEF SessionResult, RequestsTypeOK, EntriesTyped
    <3> HIDE DEF m
    <3>2. /\ waiting'[link] = Without(waiting[link], m.id)
          /\ \A k \in Links : k # link => waiting'[k] = waiting[k]
      BY <2>1, <3>1 DEF RequestsTypeOK, HostTyped
    <3>3. /\ DOMAIN waiting'[link] = DOMAIN waiting[link] \ {m.id}
          /\ \A id \in DOMAIN waiting'[link] : waiting'[link][id] = waiting[link][id]
      BY <3>2 DEF Without
    <3>4. \A k \in Links : \A id \in DOMAIN waiting'[k] :
            /\ id \in DOMAIN waiting[k] /\ waiting'[k][id] = waiting[k][id]
            /\ ~(k = link /\ id = m.id)
      BY <3>2, <3>3
    <3>5. /\ a.caller \in Forwarded /\ caller[a.caller].step \in {"waiting", "late"}
          /\ caller[a.caller].request = m.id /\ caller[a.caller].via = link
          /\ a.caller \notin Local
      BY <2>1, <2>2, RequestsAssumption DEF Awaited
    <3>6. \A c : Me(c).caller = c
      BY DEF Me
    <3> HIDE DEF a
    <3>7. ASSUME NEW c \in Callers, reply'[c] # reply[c]
          PROVE  /\ caller[c].step \notin {"routed", "checked"}
                 /\ \A r \in DOMAIN requests' :
                      requests'[r].from = 0 => requests'[r].asked # Me(c)
                 /\ \A k \in Links : \A id \in DOMAIN waiting'[k] :
                      waiting'[k][id] # Me(c)
      <4>1. c = a.caller
        BY <3>1, <3>7
      <4> QED
        BY <2>1, <3>4, <3>5, <3>6, <4>1 DEF Awaited
    <3> QED
      BY <2>1, <3>4, <3>7, StillAwaited
  <2>3. CASE m.id \notin DOMAIN waiting[link]
    <3>1. UNCHANGED <<waiting, reply>>
      BY <1>4, <2>3 DEF SessionResult
    <3> QED
      BY <2>1, <3>1, StillAwaited
  <2> QED
    BY <2>2, <2>3
<1> QED
  BY <1>1, <1>2, <1>3, <1>4

-----------------------------------------------------------------------------
(* What is taken, performed and completed under an id is one request.       *)

\* A step that only removes requests keeps them matched.
LEMMA StillMatching ==
    ASSUME Matching, UNCHANGED <<caller, next>>,
           \A r \in DOMAIN requests' : r \in DOMAIN requests /\ requests'[r] = requests[r],
           \A i \in DOMAIN inbox' : \E j \in DOMAIN inbox : inbox'[i] = inbox[j],
           \A r \in acting' : \/ r \in acting
                              \/ \E j \in DOMAIN inbox :
                                   /\ inbox[j].request = r
                                   /\ inbox[j].asked \in performed',
           performed \subseteq performed'
    PROVE  Matching'
<1>1. \A c : Me(c)' = Me(c)
  BY DEF Me
<1>2. ASSUME NEW r \in DOMAIN requests', r \in acting'
      PROVE  requests'[r].asked \in performed'
  BY <1>2 DEF Matching
<1>3. ASSUME NEW i \in DOMAIN inbox', inbox'[i].request \in DOMAIN requests'
      PROVE  requests'[inbox'[i].request].asked = inbox'[i].asked
  BY <1>3 DEF Matching
<1> QED
  BY <1>1, <1>2, <1>3 DEF Matching

\* A thread's steps, and a new call, keep requests matched.
LEMMA CallerMatches ==
    ASSUME RequestsTypeOK, Places, Matching, NEW c \in Callers,
           CallerStep(c) \/ \E call \in Calls : Call(c, call)
    PROVE  Matching'
<1> USE DEF bridgeVars, linkVars, hostVars
<1>0. /\ next \in Nat \ {0} /\ DOMAIN requests \subseteq 1 .. next - 1
      /\ acting \subseteq 1 .. next - 1 /\ inbox \in Seq(Posted(next))
      /\ \A i \in DOMAIN inbox : inbox[i].request \in 1 .. next - 1
  <2>1. inbox \in Seq(Posted(next))
    BY DEF RequestsTypeOK, BridgeTyped
  <2>2. \A i \in DOMAIN inbox : inbox[i] \in Posted(next)
    BY <2>1, LenProperties
  <2> QED
    BY <2>1, <2>2 DEF RequestsTypeOK, BridgeTyped, Posted
<1>1. CASE \E call \in Calls : Call(c, call)
  <2>1. PICK call \in Calls : Call(c, call)
    BY <1>1
  <2>2. /\ \A d \in Callers : d # c => caller'[d] = caller[d]
        /\ caller'[c].step = "routed"
    BY <2>1, CallTypes
  <2>3. \A d \in Callers : d # c => Me(d)' = Me(d)
    BY <2>2 DEF Me
  <2> QED
    BY <2>1, <2>2, <2>3 DEF Call, Matching
<1>2. CASE CallerStep(c)
  <2>0. /\ \A d \in Callers : d # c => caller'[d] = caller[d]
        /\ \A d \in Callers : Me(d)' = Me(d)
        /\ UNCHANGED <<acting, performed>>
    BY <1>2, CallerMoves DEF CallerStep, Check, Insert, Announce, Forward, Receive,
                             TimeOut, Withdraw
  <2>1. CASE Insert(c)
    <3> DEFINE q == Request(caller[c].call, Me(c), 0, 0)
    <3>1. /\ caller'[c].step = "inserted" /\ caller'[c].request = next
          /\ next' = next + 1 /\ inbox' = inbox /\ requests' = With(requests, next, q)
      BY <2>1, CallerMoves, <1>2 DEF Insert, Fetched
    <3>2. q.asked = Me(c)
      BY DEF Request
    <3> HIDE DEF q
    <3>3. /\ DOMAIN requests' = DOMAIN requests \cup {next}
          /\ requests'[next] = q
          /\ \A r \in DOMAIN requests : requests'[r] = requests[r]
      BY <1>0, <3>1 DEF With
    <3>4. \A r \in DOMAIN requests' : r \in acting' => requests'[r].asked \in performed'
      BY <1>0, <2>0, <3>3 DEF Matching
    <3>5. \A i \in DOMAIN inbox' : inbox'[i].request \in DOMAIN requests' =>
            requests'[inbox'[i].request].asked = inbox'[i].asked
      BY <1>0, <3>1, <3>3 DEF Matching
    <3>6. ASSUME NEW d \in Callers, caller'[d].step = "inserted"
          PROVE  /\ caller'[d].request \in 1 .. next' - 1
                 /\ caller'[d].request \in DOMAIN requests' =>
                      requests'[caller'[d].request].asked = Me(d)
      <4>1. CASE d = c
        BY <1>0, <3>1, <3>2, <3>3, <4>1
      <4>2. CASE d # c
        <5>1. /\ caller'[d] = caller[d] /\ caller[d].request \in 1 .. next - 1
              /\ caller[d].request \in DOMAIN requests =>
                   requests[caller[d].request].asked = Me(d)
          BY <2>0, <3>6, <4>2 DEF Matching
        <5> QED
          BY <1>0, <3>1, <3>3, <5>1
      <4> QED
        BY <4>1, <4>2
    <3> QED
      BY <2>0, <3>4, <3>5, <3>6 DEF Matching
  <2>2. CASE Announce(c)
    <3> DEFINE m == [request |-> caller[c].request, call |-> caller[c].call,
                     asked |-> Me(c)]
    <3>1. /\ caller[c].step = "inserted" /\ caller'[c].step = "waiting"
          /\ UNCHANGED <<requests, next>> /\ inbox' = Append(inbox, m)
      BY <2>2, <1>2, CallerMoves DEF Announce
    <3>2. /\ m.request \in 1 .. next - 1
          /\ m.request \in DOMAIN requests => requests[m.request].asked = m.asked
      BY <3>1 DEF Matching
    <3>3. m \in Posted(next)
      BY <3>2, MyCall DEF Posted, RequestsTypeOK
    <3> HIDE DEF m
    <3>4. \A i \in DOMAIN inbox' :
            \/ inbox'[i] = m
            \/ i \in DOMAIN inbox /\ inbox'[i] = inbox[i]
      <4>1. /\ DOMAIN Append(inbox, m) = DOMAIN inbox \cup {Len(inbox) + 1}
            /\ Append(inbox, m)[Len(inbox) + 1] = m
            /\ \A i \in DOMAIN inbox : Append(inbox, m)[i] = inbox[i]
        BY <1>0, <3>1, <3>3, AddedLast
      <4>2. /\ DOMAIN inbox' = DOMAIN inbox \cup {Len(inbox) + 1}
            /\ inbox'[Len(inbox) + 1] = m
            /\ \A i \in DOMAIN inbox : inbox'[i] = inbox[i]
        BY <3>1, <4>1, Zenon
      <4> QED
        BY <4>2
    <3> QED
      BY <2>0, <3>1, <3>2, <3>4 DEF Matching
  <2>3. CASE Withdraw(c)
    <3>1. caller'[c].step = "idle" /\ UNCHANGED <<next, inbox>>
      BY <2>3, <1>2, CallerMoves DEF Withdraw
    <3>2. \A r \in DOMAIN requests' : r \in DOMAIN requests /\ requests'[r] = requests[r]
      BY <2>3 DEF Withdraw, Withdrawn, Without
    <3> QED
      BY <2>0, <3>1, <3>2 DEF Matching
  <2>4. CASE Check(c) \/ Forward(c) \/ Receive(c) \/ TimeOut(c)
    <3>1. caller'[c].step # "inserted" /\ UNCHANGED <<next, inbox, requests>>
      BY <2>4, <1>2, CallerMoves DEF Check, Forward, Receive, TimeOut
    <3> QED
      BY <2>0, <3>1 DEF Matching
  <2> QED
    BY <1>2, <2>1, <2>2, <2>3, <2>4 DEF CallerStep
<1> QED
  BY <1>1, <1>2

\* The frontend's and the host's steps keep requests matched.
LEMMA OthersMatch ==
    ASSUME RequestsTypeOK, Places, Matching,
           \/ Begin \/ (\E r \in acting, ok \in BOOLEAN : Finish(r, ok)) \/ PageRun
           \/ Windows \/ Stop
           \/ Connect \/ Lose \/ (\E l \in Links : Closed(l)) \/ SessionResult
    PROVE  Matching'
<1> USE DEF bridgeVars, linkVars, hostVars
<1>1. CASE Begin
  <2> DEFINE m == Head(inbox)
  <2>1. /\ m = inbox[1] /\ 1 \in DOMAIN inbox
        /\ \A i \in DOMAIN inbox' : i + 1 \in DOMAIN inbox /\ inbox'[i] = inbox[i + 1]
    BY <1>1, TakenFirst DEF Begin, RequestsTypeOK, BridgeTyped
  <2>2. UNCHANGED <<caller, next>>
    BY <1>1 DEF Begin
  <2>3. CASE /\ acting' = acting \cup {m.request} /\ requests' = requests
             /\ performed' = performed \cup {m.asked}
    <3> HIDE DEF m
    <3> QED
      BY <2>1, <2>2, <2>3, StillMatching
  <2>4. CASE Complete(m.request, FALSE) /\ UNCHANGED <<acting, performed>>
    <3> HIDE DEF m
    <3>1. \A r \in DOMAIN requests' : r \in DOMAIN requests /\ requests'[r] = requests[r]
      BY <2>4, CompleteTyped
    <3> QED
      BY <2>1, <2>2, <2>4, <3>1, StillMatching
  <2> QED
    BY <1>1, <2>3, <2>4 DEF Begin
<1>2. CASE \E r \in acting, ok \in BOOLEAN : Finish(r, ok)
  <2>1. PICK r \in acting, ok \in BOOLEAN : Finish(r, ok)
    BY <1>2
  <2>2. /\ Complete(r, ok) /\ acting' \subseteq acting
        /\ UNCHANGED <<caller, next, inbox, performed>>
    BY <2>1 DEF Finish
  <2>3. \A s \in DOMAIN requests' : s \in DOMAIN requests /\ requests'[s] = requests[s]
    BY <2>2, CompleteTyped
  <2> QED
    BY <2>2, <2>3, StillMatching
<1>3. CASE PageRun
  <2> DEFINE m == Head(toPage)
             q == Request(m.call, m.asked, link, m.id)
             n == [request |-> next, call |-> m.call, asked |-> m.asked]
  <2>1. UNCHANGED <<caller, acting, performed>>
    BY <1>3 DEF PageRun
  <2>2. CASE UNCHANGED <<requests, next, inbox, acting>>
    BY <2>1, <2>2, StillMatching
  <2>3. CASE /\ requests' = With(requests, next, q) /\ next' = next + 1
             /\ inbox' = Append(inbox, n)
    <3>1. /\ next \in Nat \ {0} /\ DOMAIN requests \subseteq 1 .. next - 1
          /\ acting \subseteq 1 .. next - 1 /\ inbox \in Seq(Posted(next'))
          /\ n \in Posted(next')
      <4>1. m \in Messages
        BY <1>3, TakenFirst DEF PageRun, RequestsTypeOK, LinkTyped
      <4>2. next \in Nat \ {0} /\ Posted(next) \subseteq Posted(next')
        BY <2>3 DEF Posted, RequestsTypeOK, BridgeTyped
      <4>3. n \in Posted(next')
        BY <2>3, <4>1, <4>2 DEF Messages, Posted
      <4> QED
        BY <4>2, <4>3 DEF RequestsTypeOK, BridgeTyped
    <3>2. \A i \in DOMAIN inbox : inbox[i].request \in 1 .. next - 1
      <4>1. \A i \in DOMAIN inbox : inbox[i] \in Posted(next)
        BY LenProperties DEF RequestsTypeOK, BridgeTyped
      <4> QED
        BY <4>1 DEF Posted
    <3>3. q.asked = n.asked /\ n.request = next
      BY DEF Request
    <3> HIDE DEF m, q, n
    <3>4. \A i \in DOMAIN inbox' :
            \/ inbox'[i] = n
            \/ i \in DOMAIN inbox /\ inbox'[i] = inbox[i]
      <4>1. /\ DOMAIN Append(inbox, n) = DOMAIN inbox \cup {Len(inbox) + 1}
            /\ Append(inbox, n)[Len(inbox) + 1] = n
            /\ \A i \in DOMAIN inbox : Append(inbox, n)[i] = inbox[i]
        BY <3>1, AddedLast
      <4>2. /\ DOMAIN inbox' = DOMAIN inbox \cup {Len(inbox) + 1}
            /\ inbox'[Len(inbox) + 1] = n
            /\ \A i \in DOMAIN inbox : inbox'[i] = inbox[i]
        BY <2>3, <4>1, Zenon
      <4> QED
        BY <4>2
    <3>5. /\ DOMAIN requests' = DOMAIN requests \cup {next}
          /\ requests'[next] = q
          /\ \A r \in DOMAIN requests : requests'[r] = requests[r]
      BY <2>3, <3>1 DEF With
    <3>6. \A r \in DOMAIN requests' : r \in acting' => requests'[r].asked \in performed'
      BY <2>1, <3>1, <3>5 DEF Matching
    <3>7. \A i \in DOMAIN inbox' : inbox'[i].request \in DOMAIN requests' =>
            requests'[inbox'[i].request].asked = inbox'[i].asked
      BY <3>1, <3>2, <3>3, <3>4, <3>5 DEF Matching
    <3>8. ASSUME NEW d \in Callers, caller'[d].step = "inserted"
          PROVE  /\ caller'[d].request \in 1 .. next' - 1
                 /\ caller'[d].request \in DOMAIN requests' =>
                      requests'[caller'[d].request].asked = Me(d)'
      <4>1. /\ caller'[d] = caller[d] /\ Me(d)' = Me(d)
            /\ caller[d].request \in 1 .. next - 1
            /\ caller[d].request \in DOMAIN requests =>
                 requests[caller[d].request].asked = Me(d)
        BY <2>1, <3>8 DEF Matching, Me
      <4> QED
        BY <2>3, <3>1, <3>5, <4>1
    <3> QED
      BY <3>6, <3>7, <3>8 DEF Matching
  <2> QED
    BY <1>3, <2>2, <2>3 DEF PageRun, Fetched
<1>4. CASE Windows \/ Stop \/ Connect \/ Lose \/ (\E l \in Links : Closed(l))
             \/ SessionResult
  <2>1. UNCHANGED <<caller, requests, next, inbox, acting, performed>>
    BY <1>4 DEF Windows, Stop, Connect, Lose, Closed, SessionResult
  <2> QED
    BY <2>1, StillMatching
<1> QED
  BY <1>1, <1>2, <1>3, <1>4

-----------------------------------------------------------------------------
(* The four together are inductive.                                         *)

\* A state in which what is pending is awaited.
Waits == RequestsTypeOK /\ Places /\ Awaited /\ Matching

\* A state and its successor, whatever the step.
LEMMA WaitsSteps == ASSUME Waits, [Next]_vars PROVE Waits'
<1>1. CASE UNCHANGED vars
  <2>1. \A c : Me(c)' = Me(c)
    BY <1>1 DEF vars, Me
  <2> QED
    BY <1>1, <2>1 DEF vars, sessionVars, windowVars, bridgeVars, linkVars, hostVars, Waits,
       RequestsTypeOK, TypeSessions, EntriesTyped, BridgeTyped, HostTyped, LinkTyped,
       Places, Awaited, Matching
<1>2. ASSUME NEW c \in Callers, CallerStep(c) PROVE Waits'
  BY <1>2, CallerTypes, CallerAwaits, CallerMatches DEF Waits
<1>3. ASSUME NEW c \in Callers, NEW call \in Calls, Call(c, call) PROVE Waits'
  BY <1>3, CallTypes, CallAwaits, CallerMatches DEF Waits
<1>4. CASE Begin \/ (\E r \in acting, ok \in BOOLEAN : Finish(r, ok)) \/ PageRun
             \/ Windows \/ Stop
  BY <1>4, FrontendTypes, FrontendAwaits, OthersMatch DEF Waits
<1>5. CASE Connect \/ Lose \/ (\E l \in Links : Closed(l)) \/ SessionResult
  BY <1>5, ConnectionTypes, ConnectionAwaits, OthersMatch DEF Waits
<1> QED
  BY <1>1, <1>2, <1>3, <1>4, <1>5 DEF Next

\* The first state.
LEMMA WaitsFirst == Init => Waits
<1> SUFFICES ASSUME Init PROVE Waits
  OBVIOUS
<1> DEFINE t == [step |-> "idle", call |-> NoCall, number |-> 0, via |-> 0,
                 request |-> 0, result |-> None]
<1>1. 0 \in 0 .. MaxCalls /\ 0 \in 0 .. MaxLinks /\ 0 \in 0 .. MaxOpens
  BY RequestsAssumption, SessionAssumption
<1>2. t \in Threads
  BY <1>1, ThreadMade DEF Steps
<1>3. caller = [c \in Callers |-> t] /\ t.step = "idle"
  BY DEF Init
<1> HIDE DEF t
<1>4. EntriesTyped /\ \A c \in Callers : caller[c].step = "idle"
  BY <1>2, <1>3 DEF EntriesTyped, Init
<1>5. /\ <<>> \in Seq(Posted(next)) /\ <<>> \in Seq(Messages) /\ <<>> \in Seq(Answers)
      /\ DOMAIN <<>> = {}
  BY EmptySeq
<1>6. TypeSessions
  BY <1>1 DEF Init, SessionInit, TypeSessions
<1>7. BridgeTyped /\ LinkTyped
  <2>1. next = 1 /\ requests = <<>> /\ inbox = <<>> /\ acting = {} /\ performed = {}
    BY DEF Init
  <2>2. BridgeTyped
    BY <1>5, <2>1 DEF BridgeTyped
  <2>3. LinkTyped
    BY <1>1, <1>5 DEF Init, LinkTyped
  <2> QED
    BY <2>2, <2>3
<1>8. HostTyped /\ \A l \in Links : DOMAIN waiting[l] = {}
  BY <1>5 DEF Init, HostTyped
<1>9. Local \subseteq Callers /\ DOMAIN requests = {} /\ DOMAIN inbox = {}
  BY <1>5 DEF Init, Callers
<1>10. Places
  BY <1>4 DEF Init, Places, Callers
<1> QED
  BY <1>4, <1>6, <1>7, <1>8, <1>9, <1>10 DEF Waits, RequestsTypeOK, Awaited, Matching

-----------------------------------------------------------------------------
(* What is on its way only moves forward.                                   *)

\* A step takes a call forward, or starts a new one.
Flowing ==
    /\ \A c \in Callers :
         \/ caller'[c].number > caller[c].number
         \/ /\ caller'[c].number = caller[c].number /\ caller'[c].call = caller[c].call
            /\ caller[c].step \in {"idle", "waiting", "late"} =>
                 caller'[c].step \in {"idle", "waiting", "late"}
    /\ \A a \in performed' \cup Asking(inbox') \cup Asking(toPage') :
         \/ a \in performed \cup Asking(inbox) \cup Asking(toPage)
         \/ a \in Asked /\ ~HandedOver(a) /\ HandedOver(a)'
    /\ performed \subseteq performed'

\* The messages of every queue, and what they ask.
LEMMA MessagesTyped ==
    ASSUME RequestsTypeOK
    PROVE  /\ \A i \in DOMAIN inbox : inbox[i] \in Posted(next)
           /\ \A i \in DOMAIN toPage : toPage[i] \in Messages
           /\ \A i \in DOMAIN toHost : toHost[i] \in Answers
           /\ performed \cup Asking(inbox) \cup Asking(toPage) \subseteq Asked
<1>1. inbox \in Seq(Posted(next)) /\ toPage \in Seq(Messages) /\ toHost \in Seq(Answers)
  BY DEF RequestsTypeOK, BridgeTyped, LinkTyped
<1>2. /\ \A i \in DOMAIN inbox : inbox[i] \in Posted(next)
      /\ \A i \in DOMAIN toPage : toPage[i] \in Messages
      /\ \A i \in DOMAIN toHost : toHost[i] \in Answers
  BY <1>1, LenProperties
<1>3. Asking(inbox) \subseteq Asked
  BY <1>2 DEF Asking, Posted
<1>4. Asking(toPage) \subseteq Asked
  BY <1>2 DEF Asking, Messages
<1> QED
  BY <1>2, <1>3, <1>4 DEF RequestsTypeOK, BridgeTyped

\* The numbers of the calls, to compare them.
LEMMA NumbersTyped ==
    ASSUME RequestsTypeOK
    PROVE  \A c \in Callers : caller[c].number \in Int
BY DEF RequestsTypeOK, EntriesTyped, Threads

\* What has left its thread has left it for good.
LEMMA HandedOverStays ==
    ASSUME Flowing, RequestsTypeOK, RequestsTypeOK', NEW a \in Asked, HandedOver(a)
    PROVE  HandedOver(a)'
<1> DEFINE c == a.caller
<1>1. c \in Callers /\ a.number \in Int
  BY DEF Asked
<1>2. caller[c].number \in Int /\ caller'[c].number \in Int
  BY <1>1, NumbersTyped DEF RequestsTypeOK, EntriesTyped, Threads
<1> QED
  BY <1>1, <1>2 DEF Flowing, HandedOver

\* What will not be performed is not performed later.
LEMMA NeverStays ==
    ASSUME Flowing, RequestsTypeOK, RequestsTypeOK', NEW a \in Asked, Never(a)
    PROVE  Never(a)'
<1>1. HandedOver(a) /\ HandedOver(a)'
  BY HandedOverStays DEF Never
<1>2. a \notin performed' \cup Asking(inbox') \cup Asking(toPage')
  BY <1>1 DEF Flowing, Never
<1> QED
  BY <1>1, <1>2 DEF Never

\* What is on its way has left its thread.
LEMMA AllHandedOver ==
    ASSUME Flowing, RequestsTypeOK, RequestsTypeOK', OnTheWay
    PROVE  \A a \in performed' \cup Asking(inbox') \cup Asking(toPage') : HandedOver(a)'
<1>1. ASSUME NEW a \in performed \cup Asking(inbox) \cup Asking(toPage)
      PROVE  HandedOver(a)'
  BY <1>1, MessagesTyped, HandedOverStays DEF OnTheWay
<1> QED
  BY <1>1 DEF Flowing

\* A thread's steps, and a new call, move what is on its way forward.
LEMMA CallerFlows ==
    ASSUME Waits, Waits', OnTheWay, NEW c \in Callers,
           CallerStep(c) \/ \E call \in Calls : Call(c, call)
    PROVE  Flowing /\ OnTheWay'
<1> USE DEF bridgeVars, linkVars, hostVars
<1>0. RequestsTypeOK /\ RequestsTypeOK' /\ Places /\ Matching
  BY DEF Waits
<1>1. /\ Me(c) \in Asked /\ Me(c).caller = c /\ Me(c).number = caller[c].number
      /\ caller[c].number \in Int
      /\ inbox \in Seq(Posted(next)) /\ toPage \in Seq(Messages)
  BY <1>0, MyCall, NumbersTyped DEF RequestsTypeOK, BridgeTyped, LinkTyped
<1>2. CASE \E call \in Calls : Call(c, call)
  <2>1. PICK call \in Calls : Call(c, call)
    BY <1>2
  <2>2. /\ \A d \in Callers : d # c => caller'[d] = caller[d]
        /\ caller'[c].number = caller[c].number + 1
    BY <1>0, <2>1, CallTypes
  <2>3. UNCHANGED <<performed, inbox, toPage>>
    BY <2>1 DEF Call
  <2>4. Flowing
    BY <1>1, <2>2, <2>3 DEF Flowing
  <2>5. \A a \in performed' \cup Asking(inbox') \cup Asking(toPage') : HandedOver(a)'
    BY <1>0, <2>4, AllHandedOver
  <2> QED
    BY <2>3, <2>4, <2>5 DEF OnTheWay
<1>3. CASE CallerStep(c)
  <2>0. /\ \A d \in Callers : d # c => caller'[d] = caller[d]
        /\ \A d \in Callers : Me(d)' = Me(d) /\ caller'[d].call = caller[d].call
        /\ performed' = performed
    BY <1>0, <1>3, CallerMoves DEF CallerStep, Check, Insert, Announce, Forward, Receive,
                                   TimeOut, Withdraw
  <2>1. caller'[c].number = caller[c].number
    BY <2>0 DEF Me
  <2>2. CASE Announce(c)
    <3> DEFINE m == [request |-> caller[c].request, call |-> caller[c].call,
                     asked |-> Me(c)]
    <3>1. /\ caller[c].step = "inserted" /\ caller'[c].step = "waiting"
          /\ toPage' = toPage /\ inbox' = Append(inbox, m)
      BY <1>0, <1>3, <2>2, CallerMoves DEF Announce
    <3>2. m \in Posted(next)
      BY <1>0, <1>1, <3>1, MyCall DEF Posted, Matching, RequestsTypeOK
    <3>3. Asking(inbox') = Asking(inbox) \cup {Me(c)}
      BY <1>1, <3>1, <3>2, AskingAdded
    <3>4. ~HandedOver(Me(c))
      BY <1>1, <3>1 DEF HandedOver
    <3>5. ASSUME NEW a, a = Me(c) PROVE HandedOver(a)'
      BY <1>1, <2>1, <3>1, <3>5 DEF HandedOver
    <3>6. Flowing
      BY <1>1, <2>0, <2>1, <3>1, <3>3, <3>4, <3>5 DEF Flowing
    <3>7. \A a \in performed' \cup Asking(inbox') \cup Asking(toPage') : HandedOver(a)'
      BY <1>0, <3>6, AllHandedOver
    <3>8. Asking(toPage') \cap (performed' \cup Asking(inbox')) = {}
      BY <2>0, <3>1, <3>3, <3>4 DEF OnTheWay
    <3> HIDE DEF m
    <3>9. \A i, j \in DOMAIN toPage' : toPage'[i].asked = toPage'[j].asked => i = j
      BY <3>1 DEF OnTheWay
    <3> QED
      BY <3>6, <3>7, <3>8, <3>9 DEF OnTheWay
  <2>3. CASE Forward(c)
    <3> DEFINE m == [call |-> caller[c].call, asked |-> Me(c),
                     id |-> sent[caller[c].via] + 1]
    <3>1. /\ caller[c].step = "routed" /\ caller'[c].step = "waiting"
          /\ inbox' = inbox /\ toPage' \in {Append(toPage, m), toPage}
      BY <1>0, <1>3, <2>3, CallerMoves DEF Forward, ForwardedAs
    <3>2. m \in Messages
      <4>1. sent[caller[c].via] + 1 \in Nat
        BY <1>0, <2>3, <3>1 DEF Forward, Places, RequestsTypeOK, HostTyped
      <4> QED
        BY <1>0, <1>1, <4>1, MyCall DEF Messages, RequestsTypeOK
    <3>3. Asking(toPage') \subseteq Asking(toPage) \cup {Me(c)}
      <4>1. Asking(Append(toPage, m)) = Asking(toPage) \cup {m.asked}
        BY <1>1, <3>2, AskingAdded
      <4>2. m.asked = Me(c)
        OBVIOUS
      <4> HIDE DEF m
      <4> QED
        BY <3>1, <4>1, <4>2
    <3>4. ~HandedOver(Me(c))
      BY <1>1, <3>1 DEF HandedOver
    <3>5. ASSUME NEW a, a = Me(c) PROVE HandedOver(a)'
      BY <1>1, <2>1, <3>1, <3>5 DEF HandedOver
    <3>6. Flowing
      BY <1>1, <2>0, <2>1, <3>1, <3>3, <3>4, <3>5 DEF Flowing
    <3>7. \A a \in performed' \cup Asking(inbox') \cup Asking(toPage') : HandedOver(a)'
      BY <1>0, <3>6, AllHandedOver
    <3>8. Asking(toPage') \cap (performed' \cup Asking(inbox')) = {}
      BY <2>0, <3>1, <3>3, <3>4 DEF OnTheWay
    <3>9. \A i, j \in DOMAIN toPage' : toPage'[i].asked = toPage'[j].asked => i = j
      <4>1. m.asked \notin Asking(toPage)
        BY <3>4 DEF OnTheWay
      <4> HIDE DEF m
      <4>2. \A i \in DOMAIN toPage : toPage[i].asked # m.asked
        BY <4>1 DEF Asking
      <4>3. CASE toPage' = toPage
        BY <4>3 DEF OnTheWay
      <4>4. CASE toPage' = Append(toPage, m)
        <5>1. /\ DOMAIN Append(toPage, m) = DOMAIN toPage \cup {Len(toPage) + 1}
              /\ Append(toPage, m)[Len(toPage) + 1] = m
              /\ \A i \in DOMAIN toPage : Append(toPage, m)[i] = toPage[i]
          BY <1>1, <3>2, AddedLast
        <5>2. /\ DOMAIN toPage' = DOMAIN toPage \cup {Len(toPage) + 1}
              /\ toPage'[Len(toPage) + 1] = m
              /\ \A i \in DOMAIN toPage : toPage'[i] = toPage[i]
          BY <4>4, <5>1, Zenon
        <5> QED
          BY <4>2, <5>2 DEF OnTheWay
      <4> QED
        BY <3>1, <4>3, <4>4
    <3> QED
      BY <3>6, <3>7, <3>8, <3>9 DEF OnTheWay
  <2>4. CASE Check(c) \/ Insert(c) \/ Receive(c) \/ TimeOut(c) \/ Withdraw(c)
    <3>1. /\ UNCHANGED <<inbox, toPage>>
          /\ caller[c].step \in {"idle", "waiting", "late"} =>
               caller'[c].step \in {"idle", "waiting", "late"}
      BY <1>0, <1>3, <2>4, CallerMoves DEF Check, Insert, Receive, TimeOut, Withdraw
    <3>2. Flowing
      BY <2>0, <2>1, <3>1 DEF Flowing
    <3>3. \A a \in performed' \cup Asking(inbox') \cup Asking(toPage') : HandedOver(a)'
      BY <1>0, <3>2, AllHandedOver
    <3> QED
      BY <2>0, <3>1, <3>2, <3>3 DEF OnTheWay
  <2> QED
    BY <1>3, <2>2, <2>3, <2>4 DEF CallerStep
<1> QED
  BY <1>2, <1>3

\* The frontend's and the host's steps move it forward too.
LEMMA OthersFlow ==
    ASSUME Waits, Waits', OnTheWay,
           \/ Begin \/ (\E r \in acting, ok \in BOOLEAN : Finish(r, ok)) \/ PageRun
           \/ Windows \/ Stop
           \/ Connect \/ Lose \/ (\E l \in Links : Closed(l)) \/ SessionResult
    PROVE  Flowing /\ OnTheWay'
<1> USE DEF bridgeVars, linkVars, hostVars
<1>0. /\ RequestsTypeOK /\ RequestsTypeOK' /\ caller' = caller
      /\ inbox \in Seq(Posted(next)) /\ toPage \in Seq(Messages)
  BY DEF Waits, Begin, Finish, PageRun, Windows, Stop, Connect, Lose, Closed,
         SessionResult, RequestsTypeOK, BridgeTyped, LinkTyped
<1>1. CASE Begin
  <2> DEFINE m == Head(inbox)
  <2>1. /\ Asking(inbox) = Asking(inbox') \cup {m.asked} /\ toPage' = toPage
        /\ performed' \in {performed, performed \cup {m.asked}}
    BY <1>0, <1>1, AskingTaken DEF Begin
  <2> HIDE DEF m
  <2>2. Flowing
    BY <1>0, <2>1 DEF Flowing
  <2>3. \A a \in performed' \cup Asking(inbox') \cup Asking(toPage') : HandedOver(a)'
    BY <1>0, <2>2, AllHandedOver
  <2> QED
    BY <2>1, <2>2, <2>3 DEF OnTheWay
<1>2. CASE PageRun
  <2> DEFINE m == Head(toPage)
             n == [request |-> next, call |-> m.call, asked |-> m.asked]
  <2>1. /\ toPage # <<>> /\ toPage' = Tail(toPage) /\ performed' = performed
        /\ \/ inbox' = inbox
           \/ inbox' = Append(inbox, n) /\ next' = next + 1
    BY <1>2 DEF PageRun, Fetched
  <2>2. m \in Messages /\ Asking(toPage) = Asking(toPage') \cup {m.asked}
    BY <1>0, <2>1, TakenFirst, AskingTaken
  <2>3. inbox' = inbox \/ Asking(inbox') = Asking(inbox) \cup {m.asked}
    <3>1. CASE inbox' = Append(inbox, n) /\ next' = next + 1
      <4>1. Posted(next) \subseteq Posted(next') /\ n \in Posted(next')
        BY <1>0, <2>2, <3>1 DEF Posted, Messages, RequestsTypeOK, BridgeTyped
      <4>2. inbox \in Seq(Posted(next'))
        BY <1>0, <4>1
      <4>3. Asking(Append(inbox, n)) = Asking(inbox) \cup {n.asked}
        BY <4>1, <4>2, AskingAdded
      <4> QED
        BY <3>1, <4>3
    <3> QED
      BY <2>1, <3>1
  <2> HIDE DEF m, n
  <2>4. Flowing
    BY <1>0, <2>1, <2>2, <2>3 DEF Flowing
  <2>5. \A a \in performed' \cup Asking(inbox') \cup Asking(toPage') : HandedOver(a)'
    BY <1>0, <2>4, AllHandedOver
  <2>6. /\ m = toPage[1] /\ 1 \in DOMAIN toPage
        /\ DOMAIN toPage' \subseteq Nat
        /\ \A i \in DOMAIN toPage' : i + 1 \in DOMAIN toPage /\ toPage'[i] = toPage[i + 1]
        /\ 0 \notin DOMAIN toPage'
    <3>1. Len(Tail(toPage)) \in Nat /\ DOMAIN Tail(toPage) = 1 .. Len(Tail(toPage))
      BY <1>0, <2>1, TakenFirst, LenProperties
    <3> QED
      BY <1>0, <2>1, <3>1, TakenFirst DEF m
  <2>7. m.asked \notin Asking(toPage')
    BY <2>6 DEF OnTheWay, Asking
  <2>8. Asking(toPage') \cap (performed' \cup Asking(inbox')) = {}
    BY <2>1, <2>2, <2>3, <2>7 DEF OnTheWay
  <2>9. \A i, j \in DOMAIN toPage' : toPage'[i].asked = toPage'[j].asked => i = j
    <3> SUFFICES ASSUME NEW i \in DOMAIN toPage', NEW j \in DOMAIN toPage',
                        toPage'[i].asked = toPage'[j].asked
                 PROVE  i = j
      OBVIOUS
    <3>1. i + 1 = j + 1
      BY <2>6 DEF OnTheWay
    <3> QED
      BY <2>6, <3>1
  <2> QED
    BY <2>4, <2>5, <2>8, <2>9 DEF OnTheWay
<1>3. CASE Lose
  <2>1. toPage' = <<>> /\ UNCHANGED <<inbox, performed>>
    BY <1>3 DEF Lose
  <2>2. DOMAIN toPage' = {} /\ Asking(toPage') = {}
    BY <2>1 DEF Asking
  <2>3. Flowing
    BY <1>0, <2>1, <2>2 DEF Flowing
  <2>4. \A a \in performed' \cup Asking(inbox') \cup Asking(toPage') : HandedOver(a)'
    BY <1>0, <2>3, AllHandedOver
  <2> QED
    BY <2>2, <2>3, <2>4 DEF OnTheWay
<1>4. CASE \/ (\E r \in acting, ok \in BOOLEAN : Finish(r, ok)) \/ Windows \/ Stop
           \/ Connect \/ (\E l \in Links : Closed(l)) \/ SessionResult
  <2>1. UNCHANGED <<performed, inbox, toPage>>
    BY <1>4 DEF Finish, Windows, Stop, Connect, Closed, SessionResult
  <2>2. Flowing
    BY <1>0, <2>1 DEF Flowing
  <2>3. \A a \in performed' \cup Asking(inbox') \cup Asking(toPage') : HandedOver(a)'
    BY <1>0, <2>2, AllHandedOver
  <2> QED
    BY <2>1, <2>2, <2>3 DEF OnTheWay
<1> QED
  BY <1>1, <1>2, <1>3, <1>4

-----------------------------------------------------------------------------
(* What is told is true, and about the window that was asked for.           *)

\* What fits, shows a window or is true stays so.
LEMMA FitsStays ==
    ASSUME Flowing, RequestsTypeOK, RequestsTypeOK', NEW a \in Asked, NEW call,
           Fits(a, call)
    PROVE  Fits(a, call)'
<1> DEFINE c == a.caller
<1>1. c \in Callers /\ a.number \in Int
  BY DEF Asked
<1>2. caller[c].number \in Int /\ caller'[c].number \in Int
  BY <1>1, NumbersTyped DEF RequestsTypeOK, EntriesTyped, Threads
<1>3. \/ caller'[c].number > caller[c].number
      \/ caller'[c].number = caller[c].number /\ caller'[c].call = caller[c].call
  BY <1>1 DEF Flowing
<1>5. (a = Me(c))' => a.number = caller'[c].number
  BY DEF Me
<1>6. a.number <= caller[c].number
  BY DEF Fits
<1>7. a.number <= caller'[c].number
  BY <1>1, <1>2, <1>3, <1>6
<1>8. ASSUME (a = Me(c))' PROVE call = caller'[c].call
  <2>1. caller'[c].number = caller[c].number /\ caller'[c].call = caller[c].call
    BY <1>1, <1>2, <1>3, <1>5, <1>6, <1>8
  <2>2. a = Me(c)
    BY <1>8, <2>1 DEF Me
  <2> QED
    BY <2>1, <2>2 DEF Fits
<1> QED
  BY <1>7, <1>8 DEF Fits

\* The same of the window a result shows.
LEMMA ShowsStays ==
    ASSUME Flowing, RequestsTypeOK, RequestsTypeOK', NEW r \in Results, Shows(r)
    PROVE  Shows(r)'
<1> DEFINE a == r.asked
           c == a.caller
<1>1. c \in Callers /\ a.number \in Int
  BY DEF Asked, Results
<1>2. caller[c].number \in Int /\ caller'[c].number \in Int
  BY <1>1, NumbersTyped DEF RequestsTypeOK, EntriesTyped, Threads
<1>3. \/ caller'[c].number > caller[c].number
      \/ caller'[c].number = caller[c].number /\ caller'[c].call = caller[c].call
  BY <1>1 DEF Flowing
<1>5. (a = Me(c))' => a.number = caller'[c].number
  BY DEF Me
<1>6. a.number <= caller[c].number
  BY DEF Shows
<1>7. a.number <= caller'[c].number
  BY <1>1, <1>2, <1>3, <1>6
<1>8. ASSUME (a = Me(c))', r.status = "done", caller'[c].call.command = "minimize"
      PROVE  r.window = caller'[c].call.window
  <2>1. caller'[c].number = caller[c].number /\ caller'[c].call = caller[c].call
    BY <1>1, <1>2, <1>3, <1>5, <1>6, <1>8
  <2>2. a = Me(c)
    BY <1>8, <2>1 DEF Me
  <2> QED
    BY <1>8, <2>1, <2>2 DEF Shows
<1> QED
  BY <1>7, <1>8 DEF Shows

\* The same of what it says happened.
LEMMA TrueStays ==
    ASSUME Flowing, RequestsTypeOK, RequestsTypeOK', NEW r \in Results, IsTrue(r)
    PROVE  IsTrue(r)'
<1>1. r.asked \in Asked
  BY DEF Results
<1>2. r.status = "refused" => Never(r.asked)'
  BY <1>1, NeverStays DEF IsTrue
<1> QED
  BY <1>2 DEF IsTrue, Flowing

\* A step keeps what is told right when whatever it tells anew is.
LEMMA StillTelling ==
    ASSUME Flowing, RequestsTypeOK, RequestsTypeOK', Telling,
           \A c \in Callers :
              \/ reply'[c] = None
              \/ reply'[c] = reply[c] /\ caller'[c].call = caller[c].call
              \/ \E r \in Results : reply'[c] = r /\ Speaks(c, r)',
           \A c \in Callers :
              \/ caller'[c].result = None
              \/ /\ caller'[c].result \in {caller[c].result, reply[c]}
                 /\ caller'[c].call = caller[c].call
              \/ \E r \in Results : caller'[c].result = r /\ Speaks(c, r)',
           \A i \in DOMAIN toHost' :
              \/ \E j \in DOMAIN toHost : toHost'[i] = toHost[j]
              \/ \E m \in Answers : toHost'[i] = m /\ Carries(m)'
    PROVE  Telling'
<1>1. ASSUME NEW c \in Callers, caller'[c].call = caller[c].call, NEW r \in Results,
             Speaks(c, r)
      PROVE  Speaks(c, r)'
  BY <1>1, ShowsStays, TrueStays DEF Speaks
<1>2. ASSUME NEW c \in Callers
      PROVE  /\ reply[c] \in Results \cup {None}
             /\ caller[c].result \in Results \cup {None}
  BY DEF RequestsTypeOK, EntriesTyped, Threads
<1>3. ASSUME NEW c \in Callers, reply'[c] # None PROVE Speaks(c, reply[c])'
  <2>1. CASE reply'[c] = reply[c] /\ caller'[c].call = caller[c].call
    <3>1. reply[c] \in Results /\ Speaks(c, reply[c])
      BY <1>2, <1>3, <2>1 DEF Telling
    <3>2. PICK r \in Results : r = reply[c]
      BY <3>1
    <3>3. Speaks(c, r)'
      BY <1>1, <2>1, <3>1, <3>2
    <3> QED
      BY <2>1, <3>2, <3>3 DEF Speaks, Shows, IsTrue, Never
  <2>2. CASE \E r \in Results : reply'[c] = r /\ Speaks(c, r)'
    BY <2>2 DEF Speaks, Shows, IsTrue, Never
  <2> QED
    BY <1>3, <2>1, <2>2
<1>4. ASSUME NEW c \in Callers, caller'[c].result # None
      PROVE  Speaks(c, caller[c].result)'
  <2>1. CASE /\ caller'[c].result \in {caller[c].result, reply[c]}
             /\ caller'[c].call = caller[c].call
    <3>1. PICK r \in Results : r = caller'[c].result /\ Speaks(c, r)
      BY <1>2, <1>4, <2>1 DEF Telling
    <3>3. Speaks(c, r)'
      BY <1>1, <2>1, <3>1
    <3> QED
      BY <3>1, <3>3 DEF Speaks, Shows, IsTrue, Never
  <2>2. CASE \E r \in Results : caller'[c].result = r /\ Speaks(c, r)'
    BY <2>2 DEF Speaks, Shows, IsTrue, Never
  <2> QED
    BY <1>4, <2>1, <2>2
<1>5. ASSUME NEW i \in DOMAIN toHost' PROVE Carries(toHost[i])'
  <2>1. CASE \E j \in DOMAIN toHost : toHost'[i] = toHost[j]
    <3>1. PICK m \in Answers : toHost'[i] = m /\ Carries(m)
      BY <2>1, MessagesTyped DEF Telling
    <3>2. m.result \in Results
      BY DEF Answers
    <3>3. Carries(m)'
      BY <3>1, <3>2, ShowsStays, TrueStays DEF Carries
    <3> QED
      BY <3>1, <3>3 DEF Carries, Shows, IsTrue, Never
  <2>2. CASE \E m \in Answers : toHost'[i] = m /\ Carries(m)'
    BY <2>2 DEF Carries, Shows, IsTrue, Never
  <2> QED
    BY <2>1, <2>2
<1> QED
  BY <1>3, <1>4, <1>5 DEF Telling

\* A thread's steps, and a new call, keep what is told right.
LEMMA CallerTells ==
    ASSUME Waits, Waits', OnTheWay, Flowing, Telling, NEW c \in Callers,
           CallerStep(c) \/ \E call \in Calls : Call(c, call)
    PROVE  Telling'
<1> USE DEF bridgeVars, linkVars, hostVars
<1>0. /\ RequestsTypeOK /\ RequestsTypeOK' /\ Places /\ Matching
      /\ caller \in [Callers -> Threads] /\ reply \in [Callers -> Results \cup {None}]
      /\ Me(c) \in Asked /\ Me(c).caller = c /\ Me(c).number = caller[c].number
      /\ caller[c].call \in Calls /\ caller[c].number \in Int
      /\ {"checked", "waiting", "inserted", "late"} \subseteq Steps
  BY MyCall, NumbersTyped DEF Waits, RequestsTypeOK, EntriesTyped, Steps
<1>1. toHost' = toHost
  BY DEF CallerStep, Check, Insert, Announce, Forward, Receive, TimeOut, Withdraw, Call
<1>2. CASE \E call \in Calls : Call(c, call)
  <2>1. /\ \A d \in Callers : d # c => caller'[d] = caller[d] /\ reply'[d] = reply[d]
        /\ reply'[c] = None /\ caller'[c].result = None
    BY <1>0, <1>2, CallTypes
  <2> QED
    BY <1>0, <1>1, <2>1, StillTelling
<1>3. CASE CallerStep(c)
  <2>1. /\ \A d \in Callers : d # c => caller'[d] = caller[d]
        /\ \A d \in Callers : Me(d)' = Me(d) /\ caller'[d].call = caller[d].call
        /\ reply' = reply
        /\ Check(c) => caller'[c].step \in {"idle", "checked"}
    BY <1>0, <1>3, CallerMoves
  <2>2. Me(c)' = Me(c)
    BY <2>1
  <2>3. CASE \/ caller'[c].result \in {caller[c].result, reply[c]}
             \/ \E r \in Results : caller'[c].result = r /\ Speaks(c, r)'
    BY <1>0, <1>1, <2>1, <2>3, StillTelling
  <2>4. CASE Check(c) /\ Answerable(caller[c].call)
    <3> DEFINE r == AtOnce(caller[c].call, Me(c))
    <3>1. Returns(c, r)
      BY <2>4 DEF Check
    <3>2. /\ r \in Results /\ r.asked = Me(c)
          /\ r.status = IF caller[c].call.command = "list" THEN "done" ELSE "refused"
      BY <1>0, AtOnceTyped
    <3> HIDE DEF r
    <3>3. caller'[c].result = r /\ caller'[c].step = "idle" /\ caller[c].step = "routed"
          /\ UNCHANGED <<performed, inbox, toPage>>
      BY <1>0, <2>4, <3>1, <3>2, ThreadReturns DEF Check
    <3>4. caller'[c].call = caller[c].call /\ caller'[c].number = caller[c].number
      BY <2>1, <2>2 DEF Me
    <3>5. PICK x \in Results : x = r
      BY <3>2
    <3>6. PICK a \in Asked : a = Me(c)
      BY <1>0
    <3>7. Never(a)'
      <4>1. ~HandedOver(a)
        BY <1>0, <3>3, <3>6 DEF HandedOver
      <4>2. HandedOver(a)'
        BY <1>0, <3>3, <3>4, <3>6 DEF HandedOver
      <4> QED
        BY <3>3, <4>1, <4>2 DEF OnTheWay, Never
    <3>8. Shows(x)'
      BY <1>0, <3>2, <3>4, <3>5 DEF Shows
    <3>9. caller[c].call.command # "list" => IsTrue(x)'
      BY <3>2, <3>5, <3>6, <3>7 DEF IsTrue
    <3>10. Speaks(c, x)'
      BY <3>4, <3>8, <3>9 DEF Speaks
    <3> QED
      BY <2>3, <3>3, <3>5, <3>10
  <2>5. CASE Check(c) /\ ~Answerable(caller[c].call)
    BY <1>0, <2>3, <2>5, ThreadGoes DEF Check
  <2>6. CASE Insert(c)
    <3>1. next \in Nat
      BY <1>0 DEF RequestsTypeOK, BridgeTyped
    <3> QED
      BY <1>0, <2>3, <2>6, <3>1, ThreadAsks DEF Insert
  <2>7. CASE Announce(c)
    BY <1>0, <2>3, <2>7, ThreadGoes DEF Announce
  <2>8. CASE Forward(c)
    <3>1. sent[caller[c].via] + 1 \in Nat
      BY <1>0, <2>8 DEF Forward, Places, RequestsTypeOK, HostTyped
    <3> QED
      BY <1>0, <2>3, <2>8, <3>1, ThreadAsks DEF Forward, ForwardedAs
  <2>9. CASE Receive(c)
    <3>1. reply[c] \in Results /\ Returns(c, reply[c])
      BY <1>0, <2>9 DEF Receive
    <3> QED
      BY <1>0, <2>3, <3>1, ThreadReturns
  <2>10. CASE TimeOut(c)
    BY <1>0, <2>3, <2>10, ThreadGoes DEF TimeOut
  <2>11. CASE Withdraw(c)
    <3>1. PICK x \in Results : x = UiTimeout(c)
      BY <1>0, ResultMade DEF UiTimeout
    <3>2. x.status = "unknown" /\ x.asked = Me(c)
      BY <1>0, <3>1, ResultMade DEF UiTimeout
    <3>3. caller'[c].result = x
      BY <1>0, <2>11, <3>1, ThreadReturns DEF Withdraw
    <3>4. Speaks(c, x)'
      <4>1. caller'[c].number = caller[c].number
        BY <2>2 DEF Me
      <4> QED
        BY <1>0, <3>2, <4>1 DEF Speaks, Shows, IsTrue
    <3> QED
      BY <2>3, <3>3, <3>4
  <2> QED
    BY <1>3, <2>4, <2>5, <2>6, <2>7, <2>8, <2>9, <2>10, <2>11 DEF CallerStep
<1> QED
  BY <1>2, <1>3

\* An answer keeps it right, when it is about a call that fits.
LEMMA AnswerTells ==
    ASSUME Waits, Waits', Flowing, Telling, UNCHANGED caller,
           NEW request \in Pending, NEW r \in Results, Answer(request, r),
           r.asked = request.asked, Fits(request.asked, request.call),
           \/ request.call.command = "list" /\ r.status = "done" /\ request.from # 0
           \/ IsTrue(r)',
           r.status = "done" /\ request.call.command = "minimize"
             => r.window = request.call.window
    PROVE  Telling'
<1>0. RequestsTypeOK /\ RequestsTypeOK' /\ Places
  BY DEF Waits
<1>1. PICK m \in Answers : /\ m.result = r /\ m.command = request.call.command
                           /\ m = [id |-> request.id, result |-> r,
                                   command |-> request.call.command]
  BY CallFields DEF Answers, Pending
<1>2. Shows(r)'
  <2>1. request.asked \in Asked /\ Me(request.asked.caller)' = Me(request.asked.caller)
    BY DEF Pending, Me
  <2> QED
    BY <2>1 DEF Shows, Fits
<1>3. \A c \in Callers : reply'[c] # reply[c] => reply'[c] = r /\ request.from = 0
  BY <1>0, AnswerTyped
<1>4. ASSUME NEW c \in Callers, reply'[c] # reply[c]
      PROVE  reply'[c] = r /\ Speaks(c, r)'
  BY <1>2, <1>3, <1>4 DEF Speaks
<1>5. ASSUME NEW i \in DOMAIN toHost', ~\E j \in DOMAIN toHost : toHost'[i] = toHost[j]
      PROVE  toHost'[i] = m /\ Carries(m)'
  <2>1. toHost' = Append(toHost, m) /\ toHost \in Seq(Answers)
    <3>1. toHost' # toHost
      BY <1>5
    <3> QED
      BY <1>0, <1>1, <3>1, AnswerTyped DEF RequestsTypeOK, LinkTyped
  <2>2. /\ DOMAIN Append(toHost, m) = DOMAIN toHost \cup {Len(toHost) + 1}
        /\ Append(toHost, m)[Len(toHost) + 1] = m
        /\ \A j \in DOMAIN toHost : Append(toHost, m)[j] = toHost[j]
    BY <2>1, AddedLast
  <2>3. /\ DOMAIN toHost' = DOMAIN toHost \cup {Len(toHost) + 1}
        /\ toHost'[Len(toHost) + 1] = m
        /\ \A j \in DOMAIN toHost : toHost'[j] = toHost[j]
    BY <2>1, <2>2, Zenon
  <2>4. toHost'[i] = m
    BY <1>5, <2>3
  <2>5. request.from # 0
    <3>1. toHost' # toHost
      BY <1>5
    <3> QED
      BY <3>1 DEF Answer
  <2> QED
    BY <1>1, <1>2, <2>4 DEF Carries
<1> QED
  BY <1>0, <1>4, <1>5, StillTelling DEF RequestsTypeOK, EntriesTyped, Threads

\* Completing a request keeps it right: what succeeds was performed.
LEMMA CompleteTells ==
    ASSUME Waits, Waits', Flowing, Telling, Fitting, UNCHANGED caller,
           NEW r, NEW ok \in BOOLEAN, Complete(r, ok),
           ok /\ r \in DOMAIN requests => requests[r].asked \in performed
    PROVE  Telling'
<1>0. RequestsTypeOK /\ RequestsTypeOK' /\ Places
  BY DEF Waits
<1>1. CASE r \in DOMAIN requests
  <2> DEFINE q == requests[r]
             x == Completed(q, ok)
  <2>1. q \in Pending /\ x \in Results /\ Answer(q, x)
    BY <1>0, <1>1, CompleteTyped
  <2>2. /\ x.asked = q.asked /\ x.status \in {"done", "failed", "stale"}
        /\ ~ok => x.status = "failed"
        /\ x.status = "done" /\ q.call.command = "minimize" => x.window = q.call.window
    BY <2>1, CompletedTyped
  <2>3. Fits(q.asked, q.call) /\ (ok => q.asked \in performed)
    BY <1>1 DEF Fitting
  <2> HIDE DEF q, x
  <2>4. PICK z \in Results : z = x
    BY <2>1
  <2>5. IsTrue(z)'
    BY <2>2, <2>3, <2>4 DEF IsTrue, Flowing
  <2> QED
    BY <2>1, <2>2, <2>3, <2>4, <2>5, AnswerTells
<1>2. CASE r \notin DOMAIN requests
  <2>1. UNCHANGED <<reply, toHost>>
    BY <1>2 DEF Complete
  <2> QED
    BY <1>0, <2>1, StillTelling
<1> QED
  BY <1>1, <1>2

\* The frontend keeps what is told right.
LEMMA FrontendTells ==
    ASSUME Waits, Waits', OnTheWay, Flowing, Telling, Fitting,
           Begin \/ (\E r \in acting, ok \in BOOLEAN : Finish(r, ok)) \/ PageRun
             \/ Windows \/ Stop
    PROVE  Telling'
<1> USE DEF bridgeVars, linkVars, hostVars
<1>0. RequestsTypeOK /\ RequestsTypeOK' /\ Places /\ Matching /\ caller' = caller
  BY DEF Waits, Begin, Finish, PageRun, Windows, Stop
<1>1. CASE UNCHANGED <<reply, toHost>>
  BY <1>0, <1>1, StillTelling
<1>2. CASE Begin
  <2>1. CASE Complete(Head(inbox).request, FALSE)
    BY <1>0, <2>1, CompleteTells
  <2> QED
    BY <1>1, <1>2, <2>1 DEF Begin
<1>3. CASE \E r \in acting, ok \in BOOLEAN : Finish(r, ok)
  <2>1. PICK r \in acting, ok \in BOOLEAN : Finish(r, ok)
    BY <1>3
  <2>2. r \in DOMAIN requests => requests[r].asked \in performed
    BY <1>0 DEF Matching
  <2>3. Complete(r, ok)
    BY <2>1 DEF Finish
  <2> QED
    BY <1>0, <2>2, <2>3, CompleteTells
<1>4. CASE PageRun
  <2> DEFINE m == Head(toPage)
             q == Request(m.call, m.asked, link, m.id)
             x == AtOnce(m.call, m.asked)
  <2>1. /\ toPage # <<>> /\ toPage' = Tail(toPage) /\ performed' = performed
        /\ \/ UNCHANGED <<reply, toHost>>
           \/ Answer(q, x) /\ inbox' = inbox
    BY <1>4 DEF PageRun
  <2>2. CASE Answer(q, x) /\ inbox' = inbox
    <3>1. m \in Messages /\ link \in Links /\ link # 0
      BY <1>0, <2>1, TakenFirst DEF RequestsTypeOK, LinkTyped, Places, Links
    <3>2. /\ m.call \in Calls /\ m.asked \in Asked
          /\ q \in Pending /\ q.asked = m.asked /\ q.call = m.call /\ q.from = link
      BY <1>0, <3>1 DEF Messages, Request, Pending, RequestsTypeOK, LinkTyped
    <3>3. /\ x \in Results /\ x.asked = m.asked
          /\ x.status = IF m.call.command = "list" THEN "done" ELSE "refused"
      BY <3>2, AtOnceTyped
    <3>4. toPage \in Seq(Messages)
      BY <1>0 DEF RequestsTypeOK, LinkTyped
    <3>5. /\ m = toPage[1] /\ 1 \in DOMAIN toPage /\ 0 \notin DOMAIN toPage'
          /\ \A i \in DOMAIN toPage' :
               i + 1 \in DOMAIN toPage /\ toPage'[i] = toPage[i + 1] /\ i \in Nat
      <4>1. Len(Tail(toPage)) \in Nat /\ DOMAIN Tail(toPage) = 1 .. Len(Tail(toPage))
        BY <2>1, <3>4, TakenFirst, LenProperties
      <4> QED
        BY <2>1, <3>4, <4>1, TakenFirst
    <3> HIDE DEF m, q, x
    <3>6. Fits(m.asked, m.call)
      BY <3>5 DEF Fitting
    <3>7. PICK a \in Asked : a = m.asked
      BY <3>2
    <3>8. Never(a)'
      <4>1. a \in Asking(toPage)
        BY <3>5, <3>7 DEF Asking
      <4>2. HandedOver(a)'
        BY <1>0, <4>1, HandedOverStays DEF OnTheWay
      <4>3. a \notin performed' \cup Asking(inbox')
        BY <2>1, <2>2, <4>1 DEF OnTheWay
      <4>4. a \notin Asking(toPage')
        BY <3>5, <3>7 DEF OnTheWay, Asking
      <4> QED
        BY <4>2, <4>3, <4>4 DEF Never
    <3>9. PICK z \in Results : z = x
      BY <3>3
    <3>10. m.call.command # "list" => IsTrue(z)'
      BY <3>3, <3>7, <3>8, <3>9 DEF IsTrue
    <3> QED
      BY <1>0, <2>2, <3>1, <3>2, <3>3, <3>6, <3>9, <3>10, AnswerTells
  <2> QED
    BY <1>1, <2>1, <2>2
<1>5. CASE Windows \/ Stop
  BY <1>1, <1>5 DEF Windows, Stop
<1> QED
  BY <1>2, <1>3, <1>4, <1>5

\* The host keeps it right: it passes on what the page said.
LEMMA HostTells ==
    ASSUME Waits, Waits', Flowing, Telling,
           Connect \/ Lose \/ (\E l \in Links : Closed(l)) \/ SessionResult
    PROVE  Telling'
<1> USE DEF bridgeVars, linkVars, hostVars
<1>0. RequestsTypeOK /\ RequestsTypeOK' /\ Places /\ Awaited /\ caller' = caller
  BY DEF Waits, Connect, Lose, Closed, SessionResult
<1>1. \A c \in Callers : caller'[c].call = caller[c].call
  BY <1>0
<1>2. CASE Connect
  <2>1. UNCHANGED <<reply, toHost>>
    BY <1>2 DEF Connect
  <2> QED
    BY <1>0, <2>1, StillTelling
<1>3. CASE Lose
  <2>1. reply' = reply /\ toHost' = <<>>
    BY <1>3 DEF Lose
  <2> QED
    BY <1>0, <2>1, StillTelling
<1>4. CASE \E l \in Links : Closed(l)
  <2>1. PICK l \in Links : Closed(l)
    BY <1>4
  <2>2. toHost' = toHost
    BY <2>1 DEF Closed
  <2>3. ASSUME NEW c \in Callers, reply'[c] # reply[c]
        PROVE  \E r \in Results : reply'[c] = r /\ Speaks(c, r)'
    <3>1. Me(c) \in Asked /\ Me(c).caller = c /\ Me(c).number = caller[c].number
          /\ caller[c].number \in Int
      BY <1>0, MyCall, NumbersTyped DEF RequestsTypeOK
    <3>2. PICK x \in Results : x = Result("ended", NoWindow, Me(c))
      BY <3>1, ResultMade
    <3>3. reply'[c] = x
      BY <2>1, <2>3, <3>2 DEF Closed
    <3>4. x.status = "ended" /\ x.asked = Me(c)
      BY <3>2 DEF Result
    <3>5. Speaks(c, x)'
      BY <1>0, <3>1, <3>4 DEF Speaks, Shows, IsTrue
    <3> QED
      BY <3>3, <3>5
  <2> QED
    BY <1>0, <2>2, <2>3, StillTelling
<1>5. CASE SessionResult
  <2> DEFINE m == Head(toHost)
  <2>1. /\ toHost \in Seq(Answers) /\ toHost # <<>> /\ toHost' = Tail(toHost)
        /\ link \in Links
    BY <1>0, <1>5 DEF SessionResult, RequestsTypeOK, LinkTyped, Places
  <2>2. /\ m \in Answers /\ m = toHost[1] /\ 1 \in DOMAIN toHost
        /\ \A i \in DOMAIN toHost' : i + 1 \in DOMAIN toHost /\ toHost'[i] = toHost[i + 1]
    BY <2>1, TakenFirst
  <2>3. Carries(m)
    BY <2>2 DEF Telling
  <2> DEFINE a == waiting[link][m.id]
  <2>4. CASE m.id \in DOMAIN waiting[link]
             /\ reply' = [reply EXCEPT ![a.caller] =
                            Decoded(m, caller[a.caller].call.command)]
    <3>1. PICK c \in Callers : c = a.caller
      BY <1>0, <2>1, <2>4 DEF Awaited, Callers
    <3>2. m.result \in Results /\ m.result.asked \in Asked
      BY <2>2 DEF Answers, Results
    <3>3. PICK x \in Results : x = Decoded(m, caller[c].call.command)
      BY <3>2, ResultMade DEF Decoded
    <3> HIDE DEF m
    <3>4. reply'[c] = x /\ \A d \in Callers : d # c => reply'[d] = reply[d]
      BY <1>0, <2>4, <3>1, <3>3 DEF RequestsTypeOK, EntriesTyped
    <3>5. PICK y \in Results : y = m.result /\ Shows(y)
      BY <2>3, <3>2 DEF Carries
    <3>6. Shows(y)'
      BY <1>0, <3>5, ShowsStays
    <3>7. CASE m.result.status = "done" /\ m.command # caller[c].call.command
      <4>1. x.status = "failed" /\ x.asked = y.asked
        BY <3>2, <3>3, <3>5, <3>7, ResultMade DEF Decoded
      <4>2. Speaks(c, x)'
        BY <3>6, <4>1 DEF Speaks, Shows, IsTrue
      <4>3. \A d \in Callers : \/ reply'[d] = reply[d]
                               \/ \E r \in Results : reply'[d] = r /\ Speaks(d, r)'
        BY <3>4, <4>2
      <4> QED
        BY <1>0, <1>1, <2>2, <4>3, StillTelling
    <3>8. CASE ~(m.result.status = "done" /\ m.command # caller[c].call.command)
      <4>1. x = y
        BY <3>3, <3>5, <3>8 DEF Decoded
      <4>2. caller[c].call.command # "list" => IsTrue(y)
        BY <2>3, <3>5, <3>8 DEF Carries
      <4>3. caller[c].call.command # "list" => IsTrue(y)'
        BY <1>0, <4>2, TrueStays
      <4>4. Speaks(c, y)'
        <5>1. caller'[c].call = caller[c].call
          BY <1>0
        <5> QED
          BY <3>6, <4>3, <5>1 DEF Speaks
      <4>5. \A d \in Callers : \/ reply'[d] = reply[d]
                               \/ \E r \in Results : reply'[d] = r /\ Speaks(d, r)'
        BY <3>4, <4>1, <4>4
      <4> QED
        BY <1>0, <1>1, <2>2, <4>5, StillTelling
    <3> QED
      BY <3>7, <3>8
  <2>5. CASE reply' = reply
    BY <1>0, <1>1, <2>2, <2>5, StillTelling
  <2> QED
    BY <1>5, <2>4, <2>5 DEF SessionResult
<1> QED
  BY <1>2, <1>3, <1>4, <1>5

\* A step keeps requests and messages fitting when those it makes do.
LEMMA StillFitting ==
    ASSUME Flowing, RequestsTypeOK, RequestsTypeOK', Fitting,
           \A r \in DOMAIN requests' :
              \/ r \in DOMAIN requests /\ requests'[r] = requests[r]
              \/ \E a \in Asked, call \in Calls :
                   requests'[r].asked = a /\ requests'[r].call = call /\ Fits(a, call),
           \A i \in DOMAIN toPage' :
              \/ \E j \in DOMAIN toPage : toPage'[i] = toPage[j]
              \/ \E a \in Asked, call \in Calls :
                   toPage'[i].asked = a /\ toPage'[i].call = call /\ Fits(a, call)
    PROVE  Fitting'
<1>1. ASSUME NEW r \in DOMAIN requests'
      PROVE  Fits(requests[r].asked, requests[r].call)'
  <2>1. PICK a \in Asked, call \in Calls :
          requests'[r].asked = a /\ requests'[r].call = call /\ Fits(a, call)
    <3>1. CASE r \in DOMAIN requests /\ requests'[r] = requests[r]
      <4>1. requests[r] \in Pending
        BY <3>1 DEF RequestsTypeOK, BridgeTyped
      <4> QED
        BY <3>1, <4>1 DEF Fitting, Pending
    <3> QED
      BY <3>1
  <2>2. Fits(a, call)'
    BY <2>1, FitsStays
  <2> QED
    BY <2>1, <2>2 DEF Fits
<1>2. ASSUME NEW i \in DOMAIN toPage'
      PROVE  Fits(toPage[i].asked, toPage[i].call)'
  <2>1. PICK a \in Asked, call \in Calls :
          toPage'[i].asked = a /\ toPage'[i].call = call /\ Fits(a, call)
    <3>1. CASE \E j \in DOMAIN toPage : toPage'[i] = toPage[j]
      <4>1. PICK j \in DOMAIN toPage : toPage'[i] = toPage[j]
        BY <3>1
      <4>2. toPage[j] \in Messages
        BY MessagesTyped
      <4> QED
        BY <4>1, <4>2 DEF Fitting, Messages
    <3> QED
      BY <3>1
  <2>2. Fits(a, call)'
    BY <2>1, FitsStays
  <2> QED
    BY <2>1, <2>2 DEF Fits
<1> QED
  BY <1>1, <1>2 DEF Fitting

\* Every step keeps them fitting.
LEMMA FittingSteps ==
    ASSUME Waits, Waits', Flowing, Fitting, Next
    PROVE  Fitting'
<1> USE DEF bridgeVars, linkVars, hostVars
<1>0. RequestsTypeOK /\ RequestsTypeOK' /\ Places
  BY DEF Waits
<1>1. ASSUME NEW c \in Callers, CallerStep(c) \/ \E call \in Calls : Call(c, call)
      PROVE  Fitting'
  <2>0. /\ Me(c) \in Asked /\ Me(c).caller = c /\ Me(c).number = caller[c].number
        /\ caller[c].call \in Calls /\ caller[c].number \in Int
    BY <1>0, MyCall, NumbersTyped DEF RequestsTypeOK
  <2>1. Fits(Me(c), caller[c].call)
    BY <2>0 DEF Fits
  <2>2. CASE Insert(c)
    <3> DEFINE q == Request(caller[c].call, Me(c), 0, 0)
    <3>1. q.asked = Me(c) /\ q.call = caller[c].call
      BY DEF Request
    <3>2. requests' = With(requests, next, q) /\ toPage' = toPage
      BY <2>2 DEF Insert
    <3> HIDE DEF q
    <3>3. \A r \in DOMAIN requests' :
            \/ r \in DOMAIN requests /\ requests'[r] = requests[r]
            \/ requests'[r] = q
      BY <3>2 DEF With
    <3> QED
      BY <1>0, <2>0, <2>1, <3>1, <3>2, <3>3, StillFitting
  <2>3. CASE Forward(c)
    <3> DEFINE m == [call |-> caller[c].call, asked |-> Me(c),
                     id |-> sent[caller[c].via] + 1]
    <3>1. m \in Messages
      <4>1. sent[caller[c].via] + 1 \in Nat
        BY <1>0, <2>3 DEF Forward, Places, RequestsTypeOK, HostTyped
      <4> QED
        BY <2>0, <4>1 DEF Messages
    <3>2. /\ requests' = requests /\ toPage' \in {Append(toPage, m), toPage}
          /\ m.asked = Me(c) /\ m.call = caller[c].call
      BY <2>3 DEF Forward, ForwardedAs
    <3> HIDE DEF m
    <3>3. /\ DOMAIN Append(toPage, m) = DOMAIN toPage \cup {Len(toPage) + 1}
          /\ Append(toPage, m)[Len(toPage) + 1] = m
          /\ \A i \in DOMAIN toPage : Append(toPage, m)[i] = toPage[i]
      BY <1>0, <3>1, AddedLast DEF RequestsTypeOK, LinkTyped
    <3>4. \A i \in DOMAIN toPage' :
            (\E j \in DOMAIN toPage : toPage'[i] = toPage[j]) \/ toPage'[i] = m
      <4>1. CASE toPage' = toPage
        BY <4>1
      <4>2. CASE toPage' = Append(toPage, m)
        <5>1. /\ DOMAIN toPage' = DOMAIN toPage \cup {Len(toPage) + 1}
              /\ toPage'[Len(toPage) + 1] = m
              /\ \A i \in DOMAIN toPage : toPage'[i] = toPage[i]
          BY <3>3, <4>2, Zenon
        <5> QED
          BY <5>1
      <4> QED
        BY <3>2, <4>1, <4>2
    <3> QED
      BY <1>0, <2>0, <2>1, <3>2, <3>4, StillFitting
  <2>4. CASE Withdraw(c)
    <3>1. toPage' = toPage
      BY <2>4 DEF Withdraw
    <3>2. \A r \in DOMAIN requests' : r \in DOMAIN requests /\ requests'[r] = requests[r]
      BY <2>4 DEF Withdraw, Withdrawn, Without
    <3> QED
      BY <1>0, <3>1, <3>2, StillFitting
  <2>5. CASE \/ Check(c) \/ Announce(c) \/ Receive(c) \/ TimeOut(c)
             \/ \E call \in Calls : Call(c, call)
    <3>1. UNCHANGED <<requests, toPage>>
      BY <2>5 DEF Check, Announce, Receive, TimeOut, Call
    <3> QED
      BY <1>0, <3>1, StillFitting
  <2> QED
    BY <1>1, <2>2, <2>3, <2>4, <2>5 DEF CallerStep
<1>2. CASE Begin \/ (\E r \in acting, ok \in BOOLEAN : Finish(r, ok))
  <2>1. toPage' = toPage
    BY <1>2 DEF Begin, Finish
  <2>2. CASE requests' = requests
    BY <1>0, <2>1, <2>2, StillFitting
  <2>3. ASSUME NEW r, NEW ok \in BOOLEAN, Complete(r, ok) PROVE Fitting'
    <3>1. \A s \in DOMAIN requests' : s \in DOMAIN requests /\ requests'[s] = requests[s]
      BY <1>0, <2>3, CompleteTyped
    <3> QED
      BY <1>0, <2>1, <3>1, StillFitting
  <2>4. CASE Begin
    BY <2>2, <2>3, <2>4 DEF Begin
  <2>5. CASE \E r \in acting, ok \in BOOLEAN : Finish(r, ok)
    BY <2>3, <2>5 DEF Finish
  <2> QED
    BY <1>2, <2>4, <2>5
<1>3. CASE PageRun
  <2> DEFINE m == Head(toPage)
             q == Request(m.call, m.asked, link, m.id)
  <2>1. /\ toPage # <<>> /\ toPage' = Tail(toPage) /\ toPage \in Seq(Messages)
        /\ requests' = requests \/ requests' = With(requests, next, q)
        /\ q.asked = m.asked /\ q.call = m.call
    BY <1>0, <1>3 DEF PageRun, Request, RequestsTypeOK, LinkTyped
  <2>2. /\ m \in Messages /\ m = toPage[1] /\ 1 \in DOMAIN toPage
        /\ \A i \in DOMAIN toPage' : i + 1 \in DOMAIN toPage /\ toPage'[i] = toPage[i + 1]
    BY <2>1, TakenFirst
  <2>3. m.asked \in Asked /\ m.call \in Calls /\ Fits(m.asked, m.call)
    BY <2>2 DEF Messages, Fitting
  <2> HIDE DEF m, q
  <2>4. \A r \in DOMAIN requests' :
          \/ r \in DOMAIN requests /\ requests'[r] = requests[r]
          \/ requests'[r] = q
    BY <2>1 DEF With
  <2> QED
    BY <1>0, <2>1, <2>2, <2>3, <2>4, StillFitting
<1>4. CASE Lose
  <2>1. requests' = requests /\ toPage' = <<>>
    BY <1>4 DEF Lose
  <2> QED
    BY <1>0, <2>1, StillFitting
<1>5. CASE Windows \/ Stop \/ Connect \/ (\E l \in Links : Closed(l)) \/ SessionResult
  <2>1. UNCHANGED <<requests, toPage>>
    BY <1>5 DEF Windows, Stop, Connect, Closed, SessionResult
  <2> QED
    BY <1>0, <2>1, StillFitting
<1> QED
  BY <1>1, <1>2, <1>3, <1>4, <1>5 DEF Next

-----------------------------------------------------------------------------
(* Answers are to the calls they are told to.                               *)

\* A session numbers its requests upwards, and what is waiting only goes.
NumbersUp ==
    \A l \in Links :
        /\ sent'[l] >= sent[l]
        /\ \A id \in DOMAIN waiting'[l] : id <= sent[l] =>
             id \in DOMAIN waiting[l] /\ waiting'[l][id] = waiting[l][id]

\* Names go on standing for their call.
LEMMA NamedStays ==
    ASSUME HostTyped, HostTyped', NumbersUp, NEW l \in Links, NEW id, NEW a, Named(l, id, a)
    PROVE  Named(l, id, a)'
<1>1. sent[l] \in Nat /\ sent'[l] \in Nat
  BY DEF HostTyped
<1> QED
  BY <1>1 DEF Named, NumbersUp

\* Every step numbers upwards.
LEMMA NumbersGoUp == ASSUME Waits, Next PROVE NumbersUp
<1> USE DEF bridgeVars, linkVars, hostVars
<1>0. HostTyped /\ Places
  BY DEF Waits, RequestsTypeOK
<1>1. CASE UNCHANGED hostVars
  BY <1>0, <1>1 DEF NumbersUp, HostTyped
<1>2. ASSUME NEW c \in Callers, Forward(c) PROVE NumbersUp
  <2> DEFINE l == caller[c].via
             id == sent[l] + 1
  <2>1. l \in Links
    BY <1>0, <1>2 DEF Forward, Places
  <2>2. /\ sent' = [sent EXCEPT ![l] = id]
        /\ waiting' = [waiting EXCEPT ![l] = With(@, id, Me(c))]
    BY <1>2 DEF Forward, ForwardedAs
  <2>3. sent[l] \in Nat /\ sent \in [Links -> Nat] /\ DOMAIN waiting = Links
    BY <1>0, <2>1 DEF HostTyped
  <2>4. ASSUME NEW k \in Links
        PROVE  /\ sent'[k] >= sent[k]
               /\ \A i \in DOMAIN waiting'[k] : i <= sent[k] =>
                    i \in DOMAIN waiting[k] /\ waiting'[k][i] = waiting[k][i]
    <3>1. CASE k # l
      BY <2>2, <2>3, <3>1
    <3>2. CASE k = l
      <4>1. sent'[k] = sent[k] + 1 /\ waiting'[k] = With(waiting[k], id, Me(c))
        BY <2>2, <2>3, <3>2
      <4> QED
        BY <2>3, <3>2, <4>1 DEF With
    <3> QED
      BY <3>1, <3>2
  <2> QED
    BY <2>4 DEF NumbersUp
<1>3. ASSUME NEW c \in Callers, Withdraw(c) PROVE NumbersUp
  BY <1>0, <1>3 DEF NumbersUp, HostTyped, Withdraw, Withdrawn, Without
<1>4. ASSUME NEW l \in Links, Closed(l) PROVE NumbersUp
  BY <1>0, <1>4 DEF NumbersUp, HostTyped, Closed
<1>5. CASE SessionResult
  BY <1>0, <1>5 DEF NumbersUp, HostTyped, SessionResult, Without
<1> QED
  BY <1>1, <1>2, <1>3, <1>4, <1>5
  DEF Next, CallerStep, Check, Insert, Announce, Receive, TimeOut, Call, Begin, Finish,
      PageRun, Windows, Stop, Connect, Lose

\* A step keeps answers with their calls when those it makes are.
LEMMA StillOwned ==
    ASSUME Waits, Waits', Owned, NumbersUp, strayed \subseteq strayed',
           ~linked' => toPage' = <<>> /\ toHost' = <<>>,
           \A r \in DOMAIN requests' : requests'[r].from # 0 =>
              \/ r \in DOMAIN requests /\ requests'[r] = requests[r]
              \/ Named(requests[r].from, requests[r].id, requests[r].asked)',
           \A i \in DOMAIN toPage' :
              \/ link' = link /\ \E j \in DOMAIN toPage : toPage'[i] = toPage[j]
              \/ Named(link, toPage[i].id, toPage[i].asked)',
           link' \notin strayed' => \A i \in DOMAIN toHost' :
              \/ link' = link /\ \E j \in DOMAIN toHost : toHost'[i] = toHost[j]
              \/ Named(link, toHost[i].id, toHost[i].result.asked)',
           \A c \in Callers :
              /\ reply'[c] # None =>
                   \/ reply'[c] = reply[c] /\ Me(c)' = Me(c) /\ caller'[c].via = caller[c].via
                   \/ OwnOrStrayed(c, reply[c])'
              /\ caller'[c].result # None =>
                   \/ /\ caller'[c].result = caller[c].result
                      /\ Me(c)' = Me(c) /\ caller'[c].via = caller[c].via
                   \/ OwnOrStrayed(c, caller[c].result)'
    PROVE  Owned'
<1>0. HostTyped /\ HostTyped' /\ BridgeTyped /\ LinkTyped /\ Places
  BY DEF Waits, RequestsTypeOK
<1>1. ASSUME NEW r \in DOMAIN requests', requests'[r].from # 0
      PROVE  Named(requests[r].from, requests[r].id, requests[r].asked)'
  <2>1. CASE r \in DOMAIN requests /\ requests'[r] = requests[r]
    <3>1. requests[r] \in Pending /\ requests[r].from \in Links
      BY <1>0, <1>1, <2>1, RequestsAssumption DEF BridgeTyped, Pending, Links
    <3>2. PICK l \in Links : l = requests[r].from /\ l = requests'[r].from
      BY <2>1, <3>1
    <3>3. Named(l, requests[r].id, requests[r].asked)
      BY <1>1, <2>1, <3>2 DEF Owned
    <3>4. PICK id, a : id = requests[r].id /\ a = requests[r].asked
                       /\ id = requests'[r].id /\ a = requests'[r].asked
      BY <2>1
    <3>5. Named(l, id, a)'
      BY <1>0, <3>3, <3>4, NamedStays
    <3> QED
      BY <3>2, <3>4, <3>5 DEF Named
  <2> QED
    BY <1>1, <2>1
<1>2. ASSUME NEW i \in DOMAIN toPage'
      PROVE  Named(link, toPage[i].id, toPage[i].asked)'
  <2>1. CASE link' = link /\ \E j \in DOMAIN toPage : toPage'[i] = toPage[j]
    <3>1. PICK j \in DOMAIN toPage : toPage'[i] = toPage[j]
      BY <2>1
    <3>2. link \in Links
      BY <1>0, <3>1 DEF Places
    <3>3. PICK l, id, a : /\ l \in Links /\ l = link /\ l = link'
                          /\ id = toPage[j].id /\ a = toPage[j].asked
                          /\ id = toPage'[i].id /\ a = toPage'[i].asked
      BY <2>1, <3>1, <3>2
    <3>4. Named(l, id, a)
      BY <3>3 DEF Owned
    <3>5. Named(l, id, a)'
      BY <1>0, <3>3, <3>4, NamedStays
    <3> QED
      BY <3>3, <3>5 DEF Named
  <2> QED
    BY <1>2, <2>1
<1>3. ASSUME link' \notin strayed', NEW i \in DOMAIN toHost'
      PROVE  Named(link, toHost[i].id, toHost[i].result.asked)'
  <2>1. CASE link' = link /\ \E j \in DOMAIN toHost : toHost'[i] = toHost[j]
    <3>1. PICK j \in DOMAIN toHost : toHost'[i] = toHost[j]
      BY <2>1
    <3>2. link \in Links /\ link \notin strayed
      BY <1>0, <1>3, <2>1, <3>1 DEF Places
    <3>3. PICK l, id, a :
            /\ l \in Links /\ l = link /\ id = toHost[j].id /\ a = toHost[j].result.asked
            /\ l = link' /\ id = toHost'[i].id /\ a = toHost'[i].result.asked
      BY <2>1, <3>1, <3>2
    <3>4. Named(l, id, a)
      BY <3>2, <3>3 DEF Owned
    <3>5. Named(l, id, a)'
      BY <1>0, <3>3, <3>4, NamedStays
    <3> QED
      BY <3>3, <3>5 DEF Named
  <2> QED
    BY <1>3, <2>1
<1>4. ASSUME NEW c \in Callers
      PROVE  /\ reply'[c] # None => OwnOrStrayed(c, reply[c])'
             /\ caller'[c].result # None => OwnOrStrayed(c, caller[c].result)'
  BY <1>4 DEF Owned, OwnOrStrayed
<1> QED
  BY <1>1, <1>2, <1>3, <1>4 DEF Owned

\* A thread's step keeps answers with their calls: it returns with the one it was
\* told, or with one of its own making.
LEMMA CallerOwns ==
    ASSUME Waits, Waits', Owned, NumbersUp, NEW c \in Callers, CallerStep(c)
    PROVE  Owned'
<1> USE DEF bridgeVars, linkVars, hostVars
<1>0. /\ RequestsTypeOK /\ RequestsTypeOK' /\ Places /\ Matching
      /\ caller \in [Callers -> Threads] /\ Me(c) \in Asked /\ caller[c].call \in Calls
      /\ Steps = {"idle", "routed", "checked", "inserted", "waiting", "late"}
  BY MyCall DEF Waits, RequestsTypeOK, EntriesTyped, Steps
<1>1. /\ reply' = reply /\ \A d \in Callers : d # c => caller'[d] = caller[d]
      /\ \A d \in Callers : Me(d)' = Me(d) /\ caller'[d].via = caller[d].via
  BY <1>0, CallerMoves
<1>2. \/ caller'[c].result = caller[c].result
      \/ caller'[c].result = reply[c] /\ reply[c] # None
      \/ caller'[c].result.asked = Me(c)
  <2>1. CASE Check(c)
    <3>1. CASE Answerable(caller[c].call)
      <4>1. Returns(c, AtOnce(caller[c].call, Me(c)))
        BY <2>1, <3>1 DEF Check
      <4> QED
        BY <1>0, <4>1, AtOnceTyped, ThreadReturns
    <3>2. CASE ~Answerable(caller[c].call)
      BY <1>0, <2>1, <3>2, ThreadGoes DEF Check
    <3> QED
      BY <3>1, <3>2
  <2>2. CASE Insert(c)
    <3>1. next \in Nat
      BY <1>0 DEF RequestsTypeOK, BridgeTyped
    <3> QED
      BY <1>0, <2>2, <3>1, ThreadAsks DEF Insert
  <2>3. CASE Announce(c) \/ TimeOut(c)
    BY <1>0, <2>3, ThreadGoes DEF Announce, TimeOut
  <2>4. CASE Forward(c)
    <3>1. sent[caller[c].via] + 1 \in Nat
      BY <1>0, <2>4 DEF Forward, Places, RequestsTypeOK, HostTyped
    <3> QED
      BY <1>0, <2>4, <3>1, ThreadAsks DEF Forward, ForwardedAs
  <2>5. CASE Receive(c)
    <3>1. reply[c] \in Results /\ reply[c] # None /\ Returns(c, reply[c])
      BY <1>0, <2>5 DEF Receive, RequestsTypeOK, EntriesTyped
    <3> QED
      BY <1>0, <3>1, ThreadReturns
  <2>6. CASE Withdraw(c)
    <3>1. /\ UiTimeout(c) \in Results /\ UiTimeout(c).asked = Me(c)
          /\ Returns(c, UiTimeout(c))
      BY <1>0, <2>6, ResultMade DEF UiTimeout, Withdraw
    <3> QED
      BY <1>0, <3>1, ThreadReturns
  <2> QED
    BY <2>1, <2>2, <2>3, <2>4, <2>5, <2>6 DEF CallerStep
<1>3. UNCHANGED <<link, linked, toHost, strayed>>
  BY DEF CallerStep, Check, Insert, Announce, Forward, Receive, TimeOut, Withdraw
<1>4. ASSUME NEW r \in DOMAIN requests', requests'[r].from # 0
      PROVE  r \in DOMAIN requests /\ requests'[r] = requests[r]
  <2>1. CASE requests' = With(requests, next, Request(caller[c].call, Me(c), 0, 0))
    BY <1>4, <2>1 DEF With, Request
  <2>2. CASE Withdraw(c)
    BY <1>4, <2>2 DEF Withdraw, Withdrawn, Without
  <2>3. CASE requests' = requests
    BY <1>4, <2>3
  <2> QED
    BY <2>1, <2>2, <2>3
    DEF CallerStep, Check, Insert, Announce, Forward, Receive, TimeOut, Withdraw
<1>5. ASSUME NEW i \in DOMAIN toPage'
      PROVE  \/ link' = link /\ \E j \in DOMAIN toPage : toPage'[i] = toPage[j]
             \/ Named(link, toPage[i].id, toPage[i].asked)'
  <2>1. CASE toPage' = toPage
    BY <1>3, <1>5, <2>1
  <2>2. CASE Forward(c) /\ linked /\ link = caller[c].via
    <3> DEFINE id == sent[link] + 1
               m == [call |-> caller[c].call, asked |-> Me(c), id |-> id]
    <3>1. /\ link \in Links /\ sent \in [Links -> Nat] /\ DOMAIN waiting = Links
          /\ toPage \in Seq(Messages)
      BY <1>0, <2>2 DEF RequestsTypeOK, Places, HostTyped, LinkTyped
    <3>2. /\ sent' = [sent EXCEPT ![link] = id] /\ toPage' = Append(toPage, m)
          /\ waiting' = [waiting EXCEPT ![link] = With(@, id, Me(c))]
      BY <2>2 DEF Forward, ForwardedAs
    <3>3. sent'[link] = id /\ id \in 1 .. id /\ waiting'[link][id] = Me(c)
      BY <3>1, <3>2 DEF With
    <3>4. m \in Messages /\ m.asked = Me(c) /\ m.id = id
      BY <1>0, <3>1 DEF Messages
    <3> HIDE DEF m
    <3>5. toPage'[i] = m \/ \E j \in DOMAIN toPage : toPage'[i] = toPage[j]
      BY <1>5, <3>1, <3>2, <3>4, AddedLast
    <3> QED
      BY <1>3, <3>3, <3>4, <3>5 DEF Named
  <2> QED
    BY <2>1, <2>2
    DEF CallerStep, Check, Insert, Announce, Forward, Receive, TimeOut, Withdraw
<1>6. ~linked' => toPage' = <<>> /\ toHost' = <<>>
  BY <1>3
  DEF Owned, CallerStep, Check, Insert, Announce, Forward, Receive, TimeOut, Withdraw
<1>7. ASSUME NEW d \in Callers, caller'[d].result # None
      PROVE  \/ caller'[d].result = caller[d].result
             \/ OwnOrStrayed(d, caller[d].result)'
  <2>1. CASE d # c
    BY <1>1, <2>1
  <2>2. CASE d = c
    BY <1>1, <1>2, <1>3, <2>2 DEF Owned, OwnOrStrayed
  <2> QED
    BY <2>1, <2>2
<1> QED
  BY <1>1, <1>3, <1>4, <1>5, <1>6, <1>7, StillOwned

\* A new call has been told nothing yet.
LEMMA CallOwns ==
    ASSUME Waits, Waits', Owned, NumbersUp, NEW c \in Callers, NEW call \in Calls,
           Call(c, call)
    PROVE  Owned'
<1> USE DEF bridgeVars, linkVars, hostVars
<1>1. /\ \A d \in Callers : d # c => caller'[d] = caller[d] /\ reply'[d] = reply[d]
      /\ reply'[c] = None /\ caller'[c].result = None
  BY CallTypes DEF Waits
<1>2. \A d \in Callers : d # c => Me(d)' = Me(d)
  BY <1>1 DEF Me
<1>3. UNCHANGED <<requests, toPage, toHost, strayed, link, linked>>
  BY DEF Call
<1> QED
  BY <1>1, <1>2, <1>3, StillOwned DEF Owned

\* An answer goes to its call, or to the connection that knows it by that name;
\* otherwise the connection has strayed.
LEMMA AnswerOwns ==
    ASSUME RequestsTypeOK, Places, NEW request \in Pending, NEW r \in Results,
           Answer(request, r), r.asked = request.asked,
           request.from # 0 => Named(request.from, request.id, request.asked),
           UNCHANGED <<caller, link, linked, hostVars>>
    PROVE  /\ strayed \subseteq strayed'
           /\ link' \notin strayed' => \A i \in DOMAIN toHost' :
                \/ \E j \in DOMAIN toHost : toHost'[i] = toHost[j]
                \/ Named(link, toHost[i].id, toHost[i].result.asked)'
           /\ ~linked => toHost' = toHost
           /\ \A c \in Callers : reply'[c] # None =>
                reply'[c] = reply[c] \/ OwnOrStrayed(c, reply[c])'
<1> DEFINE m == [id |-> request.id, result |-> r, command |-> request.call.command]
<1>1. m \in Answers /\ m.id = request.id /\ m.result = r
  BY CallFields DEF Answers, Pending
<1>2. PICK n \in Answers : n = m /\ n.id = request.id /\ n.result = r
  BY <1>1
<1>3. strayed \subseteq strayed'
  BY DEF Answer
<1>4. ASSUME link' \notin strayed', NEW i \in DOMAIN toHost',
             ~\E j \in DOMAIN toHost : toHost'[i] = toHost[j]
      PROVE  Named(link, toHost[i].id, toHost[i].result.asked)'
  <2>1. toHost' # toHost
    BY <1>4
  <2>2. toHost' = Append(toHost, m) /\ linked /\ toHost \in Seq(Answers)
    BY <2>1, AnswerTyped DEF RequestsTypeOK, LinkTyped
  <2>3. request.from # 0
    BY <2>1 DEF Answer
  <2>4. request.from = link
    BY <1>4, <2>2, <2>3 DEF Answer
  <2> HIDE DEF m
  <2>5. toHost'[i] = n
    BY <1>2, <1>4, <2>2, AddedLast
  <2>6. Named(link, n.id, n.result.asked)
    BY <1>2, <2>3, <2>4
  <2> QED
    BY <2>5, <2>6 DEF Named, hostVars
<1>5. ~linked => toHost' = toHost
  BY AnswerTyped
<1>6. ASSUME NEW c \in Callers, reply'[c] # reply[c]
      PROVE  OwnOrStrayed(c, reply[c])'
  <2>1. reply'[c] = r /\ Me(c) = r.asked
    BY <1>6, AnswerTyped
  <2> QED
    BY <2>1 DEF OwnOrStrayed, Me
<1> QED
  BY <1>3, <1>4, <1>5, <1>6

\* The frontend keeps answers with their calls.
LEMMA FrontendOwns ==
    ASSUME Waits, Waits', Owned, NumbersUp,
           Begin \/ (\E r \in acting, ok \in BOOLEAN : Finish(r, ok)) \/ PageRun
             \/ Windows \/ Stop
    PROVE  Owned'
<1> USE DEF bridgeVars, linkVars, hostVars
<1>0. /\ RequestsTypeOK /\ Places
      /\ UNCHANGED <<caller, link, linked, sent, waiting>>
      /\ \A c \in Callers : Me(c)' = Me(c) /\ caller'[c].via = caller[c].via
  BY DEF Waits, Begin, Finish, PageRun, Windows, Stop, Me
<1>1. ASSUME NEW r, NEW ok \in BOOLEAN, Complete(r, ok), toPage' = toPage
      PROVE  Owned'
  <2>1. /\ DOMAIN requests' = DOMAIN requests \ {r}
        /\ \A s \in DOMAIN requests' : requests'[s] = requests[s]
    BY <1>0, <1>1, CompleteTyped
  <2>2. CASE r \in DOMAIN requests
    <3> DEFINE q == requests[r]
               x == Completed(q, ok)
    <3>1. q \in Pending /\ x \in Results /\ Answer(q, x) /\ x.asked = q.asked
      BY <1>0, <1>1, <2>2, CompleteTyped, CompletedTyped
    <3>2. q.from # 0 => Named(q.from, q.id, q.asked)
      BY <2>2 DEF Owned
    <3> HIDE DEF q, x
    <3>3. /\ strayed \subseteq strayed'
          /\ link' \notin strayed' => \A i \in DOMAIN toHost' :
               \/ \E j \in DOMAIN toHost : toHost'[i] = toHost[j]
               \/ Named(link, toHost[i].id, toHost[i].result.asked)'
          /\ ~linked => toHost' = toHost
          /\ \A c \in Callers : reply'[c] # None =>
               reply'[c] = reply[c] \/ OwnOrStrayed(c, reply[c])'
      BY <1>0, <3>1, <3>2, AnswerOwns
    <3> QED
      BY <1>0, <1>1, <2>1, <3>3, StillOwned DEF Owned
  <2>3. CASE r \notin DOMAIN requests
    <3>1. UNCHANGED <<reply, toHost, strayed>>
      BY <1>1, <2>3 DEF Complete
    <3> QED
      BY <1>0, <1>1, <2>1, <3>1, StillOwned DEF Owned
  <2> QED
    BY <2>2, <2>3
<1>2. CASE UNCHANGED <<requests, reply, toHost, strayed, toPage>>
  BY <1>0, <1>2, StillOwned DEF Owned
<1>3. CASE Begin
  BY <1>1, <1>2, <1>3 DEF Begin
<1>4. CASE \E r \in acting, ok \in BOOLEAN : Finish(r, ok)
  BY <1>1, <1>4 DEF Finish
<1>5. CASE PageRun
  <2> DEFINE m == Head(toPage)
             q == Request(m.call, m.asked, link, m.id)
             x == AtOnce(m.call, m.asked)
  <2>1. /\ toPage # <<>> /\ toPage' = Tail(toPage) /\ toPage \in Seq(Messages)
        /\ \/ Answer(q, x) /\ requests' = requests
           \/ requests' = With(requests, next, q) /\ UNCHANGED <<reply, toHost, strayed>>
    BY <1>0, <1>5 DEF PageRun, RequestsTypeOK, LinkTyped
  <2>2. /\ m \in Messages /\ m = toPage[1] /\ 1 \in DOMAIN toPage
        /\ \A i \in DOMAIN toPage' : \E j \in DOMAIN toPage : toPage'[i] = toPage[j]
        /\ link \in Links /\ link # 0 /\ linked
    BY <1>0, <2>1, TakenFirst DEF Places, Links, Owned
  <2>3. Named(link, m.id, m.asked)
    BY <2>2 DEF Owned
  <2>4. /\ m.call \in Calls /\ m.asked \in Asked
        /\ q \in Pending /\ q.asked = m.asked /\ q.from = link /\ q.id = m.id
    BY <1>0, <2>2 DEF Messages, Request, Pending, RequestsTypeOK, LinkTyped
  <2>5. x \in Results /\ x.asked = q.asked
    BY <2>4, AtOnceTyped
  <2> HIDE DEF m, q, x
  <2>6. CASE Answer(q, x) /\ requests' = requests
    <3>1. /\ strayed \subseteq strayed'
          /\ link' \notin strayed' => \A i \in DOMAIN toHost' :
               \/ \E j \in DOMAIN toHost : toHost'[i] = toHost[j]
               \/ Named(link, toHost[i].id, toHost[i].result.asked)'
          /\ \A c \in Callers : reply'[c] # None =>
               reply'[c] = reply[c] \/ OwnOrStrayed(c, reply[c])'
      BY <1>0, <2>3, <2>4, <2>5, <2>6, AnswerOwns
    <3> QED
      BY <1>0, <2>2, <2>6, <3>1, StillOwned DEF Owned
  <2>7. CASE requests' = With(requests, next, q) /\ UNCHANGED <<reply, toHost, strayed>>
    <3>1. ASSUME NEW r \in DOMAIN requests', requests'[r].from # 0
          PROVE  \/ r \in DOMAIN requests /\ requests'[r] = requests[r]
                 \/ Named(requests[r].from, requests[r].id, requests[r].asked)'
      <4>1. CASE r = next
        <5>1. requests'[r] = q
          BY <2>7, <4>1 DEF With
        <5> QED
          BY <1>0, <2>3, <2>4, <5>1 DEF Named
      <4>2. CASE r # next
        BY <2>7, <3>1, <4>2 DEF With
      <4> QED
        BY <4>1, <4>2
    <3> QED
      BY <1>0, <2>2, <2>7, <3>1, StillOwned DEF Owned
  <2> QED
    BY <2>1, <2>6, <2>7
<1>6. CASE Windows \/ Stop
  BY <1>2, <1>6 DEF Windows, Stop
<1> QED
  BY <1>3, <1>4, <1>5, <1>6

\* The host keeps answers with their calls: it looks the name up that the page
\* answers by, among those of the page's connection.
LEMMA HostOwns ==
    ASSUME Waits, Waits', Owned, NumbersUp,
           Connect \/ Lose \/ (\E l \in Links : Closed(l)) \/ SessionResult
    PROVE  Owned'
<1> USE DEF bridgeVars, linkVars, hostVars
<1>0. /\ RequestsTypeOK /\ Places /\ Awaited
      /\ UNCHANGED <<caller, requests, strayed>>
      /\ \A c \in Callers : Me(c)' = Me(c) /\ caller'[c].via = caller[c].via
  BY DEF Waits, Connect, Lose, Closed, SessionResult, Me
<1>1. CASE Connect
  <2>1. reply' = reply /\ linked' /\ toPage' = <<>> /\ toHost' = <<>>
    BY <1>1 DEF Connect, Owned
  <2> QED
    BY <1>0, <2>1, StillOwned
<1>2. CASE Lose
  <2>1. reply' = reply /\ ~linked' /\ toPage' = <<>> /\ toHost' = <<>>
    BY <1>2 DEF Lose
  <2> QED
    BY <1>0, <2>1, StillOwned
<1>3. CASE \E l \in Links : Closed(l)
  <2>1. PICK l \in Links : Closed(l)
    BY <1>3
  <2>2. UNCHANGED <<link, linked, toPage, toHost>>
    BY <2>1 DEF Closed
  <2>3. ASSUME NEW c \in Callers, reply'[c] # reply[c]
        PROVE  OwnOrStrayed(c, reply[c])'
    <3>1. reply'[c] = Result("ended", NoWindow, Me(c))
      BY <2>1, <2>3 DEF Closed
    <3> QED
      BY <1>0, <3>1 DEF OwnOrStrayed, Result
  <2> QED
    BY <1>0, <2>2, <2>3, StillOwned DEF Owned
<1>4. CASE SessionResult
  <2> DEFINE m == Head(toHost)
             a == waiting[link][m.id]
  <2>1. /\ toHost \in Seq(Answers) /\ toHost # <<>> /\ toHost' = Tail(toHost)
        /\ link \in Links /\ UNCHANGED <<link, linked, toPage>>
    BY <1>0, <1>4 DEF SessionResult, RequestsTypeOK, LinkTyped, Places
  <2>2. /\ m \in Answers /\ m = toHost[1] /\ 1 \in DOMAIN toHost
        /\ \A i \in DOMAIN toHost' : \E j \in DOMAIN toHost : toHost'[i] = toHost[j]
    BY <2>1, TakenFirst
  <2>3. linked
    BY <2>1 DEF Owned
  <2>4. CASE m.id \in DOMAIN waiting[link]
             /\ reply' = [reply EXCEPT ![a.caller] =
                            Decoded(m, caller[a.caller].call.command)]
    <3>1. PICK c \in Callers : c = a.caller /\ a = Me(c) /\ caller[c].via = link
      BY <1>0, <2>1, <2>4 DEF Awaited, Callers
    <3>2. m.result \in Results /\ m.result.asked \in Asked
      BY <2>2 DEF Answers, Results
    <3>3. link \in strayed \/ m.result.asked = a
      BY <2>2, <2>4 DEF Owned, Named
    <3>4. PICK x : x = Decoded(m, caller[c].call.command) /\ x.asked = m.result.asked
      BY <3>2, ResultMade DEF Decoded
    <3> HIDE DEF m
    <3>5. reply'[c] = x /\ \A d \in Callers : d # c => reply'[d] = reply[d]
      BY <1>0, <2>4, <3>1, <3>4 DEF RequestsTypeOK, EntriesTyped
    <3>6. OwnOrStrayed(c, reply[c])'
      BY <1>0, <3>1, <3>3, <3>4, <3>5 DEF OwnOrStrayed
    <3>7. \A d \in Callers : reply'[d] = reply[d] \/ OwnOrStrayed(d, reply[d])'
      BY <3>5, <3>6
    <3> QED
      BY <1>0, <2>1, <2>2, <2>3, <3>7, StillOwned DEF Owned
  <2>5. CASE reply' = reply
    BY <1>0, <2>1, <2>2, <2>3, <2>5, StillOwned DEF Owned
  <2> QED
    BY <1>4, <2>4, <2>5 DEF SessionResult
<1> QED
  BY <1>1, <1>2, <1>3, <1>4

\* Whatever the step.
LEMMA OwnedSteps == ASSUME Waits, Waits', Owned, Next PROVE Owned'
BY NumbersGoUp, CallerOwns, CallOwns, FrontendOwns, HostOwns DEF Next

-----------------------------------------------------------------------------
(* Every reachable state.                                                   *)

\* What is told, and what it rests on.
Tells == Waits /\ OnTheWay /\ Telling /\ Fitting /\ Owned

\* A state and its successor, whatever the step.
LEMMA TellsSteps == ASSUME Tells, [Next]_vars PROVE Tells'
<1>1. CASE UNCHANGED vars
  <2>2. Waits'
    BY WaitsSteps DEF Tells
  <2>3. UNCHANGED <<caller, reply, requests, inbox, toPage, toHost, performed>>
    BY <1>1 DEF vars, bridgeVars, linkVars
  <2>4. OnTheWay'
    BY <2>3 DEF Tells, OnTheWay, Asking, HandedOver
  <2>5. Flowing
    BY <2>3 DEF Flowing
  <2>6. Telling' /\ Fitting'
    BY <2>2, <2>3, <2>5, StillTelling, StillFitting DEF Tells, Waits
  <2>7. Owned'
    BY <1>1 DEF Tells, Owned, Named, OwnOrStrayed, Me, vars, bridgeVars, linkVars, hostVars
  <2> QED
    BY <2>2, <2>4, <2>6, <2>7 DEF Tells
<1>2. CASE Next
  <2>1. Waits'
    BY WaitsSteps DEF Tells
  <2>2. Flowing /\ OnTheWay'
    BY <1>2, <2>1, CallerFlows, OthersFlow DEF Next, Tells
  <2>3. Telling'
    BY <1>2, <2>1, <2>2, CallerTells, FrontendTells, HostTells DEF Next, Tells
  <2>4. Fitting'
    BY <1>2, <2>1, <2>2, FittingSteps DEF Tells
  <2>5. Owned'
    BY <1>2, <2>1, OwnedSteps DEF Tells
  <2> QED
    BY <2>1, <2>2, <2>3, <2>4, <2>5 DEF Tells
<1> QED
  BY <1>1, <1>2

\* The first state.
LEMMA TellsFirst == Init => Tells
<1> SUFFICES ASSUME Init PROVE Tells
  OBVIOUS
<1>1. Waits
  BY WaitsFirst
<1>2. DOMAIN inbox = {} /\ DOMAIN toPage = {} /\ DOMAIN toHost = {} /\ DOMAIN requests = {}
      /\ performed = {} /\ toPage = <<>> /\ toHost = <<>>
  BY DEF Init
<1>3. \A c \in Callers : reply[c] = None /\ caller[c].result = None
  BY DEF Init
<1>4. Asking(inbox) = {} /\ Asking(toPage) = {}
  BY <1>2 DEF Asking
<1> QED
  BY <1>1, <1>2, <1>3, <1>4 DEF Tells, OnTheWay, Telling, Fitting, Owned

\* Every state.
LEMMA AlwaysTells == Spec => []Tells
BY TellsFirst, TellsSteps, PTL DEF Spec

\* The state of the bridge and of the connections keeps its type; so does the
\* state of the threads that use it.
THEOREM RequestsTypesCorrect == Spec => []RequestsTypeOK
BY AlwaysTells, PTL DEF Tells, Waits

\* No request is left behind in UiBridge::pending or WebSession::waiting: its entry
\* waits for it, or is about to withdraw it.
THEOREM PendingStaysAwaited == Spec => []PendingIsAwaited
<1>1. ASSUME Tells PROVE PendingIsAwaited
  BY <1>1 DEF Tells, Waits, Awaited, PendingIsAwaited, Heard
<1> QED
  BY <1>1, AlwaysTells, PTL

\* An entry that is told its command succeeded, or found its window gone at the
\* end, had it performed; one that is told it was refused never will.
THEOREM OutcomesStayTrue == Spec => []OutcomesAreTrue
<1>1. ASSUME Tells PROVE OutcomesAreTrue
  <2> SUFFICES ASSUME NEW c \in Callers, Returned(c), caller[c].result.asked = Me(c),
                      caller[c].call.command # "list"
               PROVE  /\ caller[c].result.status \in {"done", "stale"} => Me(c) \in performed
                      /\ caller[c].result.status = "refused" =>
                           /\ Me(c) \notin performed
                           /\ \A i \in DOMAIN inbox : inbox[i].asked # Me(c)
    BY DEF OutcomesAreTrue
  <2>1. IsTrue(caller[c].result)
    BY <1>1 DEF Tells, Telling, Speaks, Returned
  <2> QED
    BY <2>1 DEF IsTrue, Never, Asking
<1> QED
  BY <1>1, AlwaysTells, PTL

\* The window whose facts answer a presentation command is the instance that was
\* asked for, however often its kind closed and opened again meanwhile.
THEOREM PresentedStaysAsked == Spec => []PresentsTheAskedWindow
<1>1. ASSUME Tells PROVE PresentsTheAskedWindow
  <2> SUFFICES ASSUME NEW c \in Callers, Returned(c), caller[c].result.asked = Me(c),
                      caller[c].result.status = "done",
                      caller[c].call.command = "minimize"
               PROVE  caller[c].result.window = caller[c].call.window
    BY DEF PresentsTheAskedWindow
  <2>1. Shows(caller[c].result) /\ Me(c).caller = c
    BY <1>1 DEF Tells, Telling, Speaks, Returned, Me
  <2> QED
    BY <2>1 DEF Shows
<1> QED
  BY <1>1, AlwaysTells, PTL

\* What an entry is told is the answer to its own call, whatever timed out, came
\* late or was sent again before, unless its connection was told what an older
\* connection's request had asked.
THEOREM AnswersStayOwn == Spec => []AnswersAreOwnUnlessStrayed
<1>1. ASSUME Tells PROVE AnswersAreOwnUnlessStrayed
  BY <1>1 DEF Tells, Owned, OwnOrStrayed, AnswersAreOwnUnlessStrayed, Returned
<1> QED
  BY <1>1, AlwaysTells, PTL

=============================================================================
