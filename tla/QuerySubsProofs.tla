--------------------------- MODULE QuerySubsProofs ---------------------------
(***************************************************************************)
(* Proofs about QuerySubs, for any queries, parameters and bounds: its     *)
(* types, that a subscription has at most one request nobody cancelled,    *)
(* that it never waits for a request that is not on its way, and what the  *)
(* views show: whatever the order in which the engine thread and the       *)
(* providers report after they unlocked, a view ends up with what the      *)
(* session holds, and no change of what a query reads is missed.           *)
(***************************************************************************)
EXTENDS QuerySubs, SequenceTheorems, TLAPS

-----------------------------------------------------------------------------
(* Queues.                                                                  *)

\* What is put into a queue comes with what was in it.
LEMMA Appended ==
  ASSUME NEW S, NEW q \in Seq(S), NEW x \in S
  PROVE  /\ Append(q, x) \in Seq(S)
         /\ Len(Append(q, x)) = Len(q) + 1 /\ Len(q) \in Nat
         /\ DOMAIN q = 1..Len(q) /\ DOMAIN Append(q, x) = 1..(Len(q) + 1)
         /\ \A i \in 1..Len(q) : Append(q, x)[i] = q[i]
         /\ Append(q, x)[Len(q) + 1] = x
         /\ ToSet(Append(q, x)) = ToSet(q) \cup {x}
<1>1. /\ Append(q, x) \in Seq(S)
      /\ Len(Append(q, x)) = Len(q) + 1 /\ Len(q) \in Nat
      /\ DOMAIN q = 1..Len(q) /\ DOMAIN Append(q, x) = 1..(Len(q) + 1)
      /\ \A i \in 1..Len(q) : Append(q, x)[i] = q[i]
      /\ Append(q, x)[Len(q) + 1] = x
  BY AppendProperties, LenProperties
<1>2. ToSet(Append(q, x)) = ToSet(q) \cup {x}
  BY <1>1 DEF ToSet
<1> QED
  BY <1>1, <1>2

\* The first leaves a queue, and the others stay.
LEMMA Tailed ==
  ASSUME NEW S, NEW q \in Seq(S), q # <<>>
  PROVE  /\ Head(q) \in S /\ Tail(q) \in Seq(S)
         /\ DOMAIN q = 1..Len(q) /\ Len(q) \in Nat \ {0}
         /\ DOMAIN Tail(q) = 1..(Len(q) - 1)
         /\ Head(q) = q[1]
         /\ \A i \in 1..(Len(q) - 1) : Tail(q)[i] = q[i + 1]
         /\ ToSet(q) = ToSet(Tail(q)) \cup {Head(q)}
<1>1. /\ Head(q) \in S /\ Tail(q) \in Seq(S)
      /\ DOMAIN q = 1..Len(q) /\ Len(q) \in Nat \ {0}
      /\ DOMAIN Tail(q) = 1..(Len(q) - 1)
      /\ Head(q) = q[1]
      /\ \A i \in 1..(Len(q) - 1) : Tail(q)[i] = q[i + 1]
  BY HeadTailProperties, LenProperties, EmptySeq
<1>2. ASSUME NEW x PROVE x \in ToSet(q) <=> x \in ToSet(Tail(q)) \cup {Head(q)}
  <2>1. ASSUME NEW i \in 1..Len(q), q[i] = x
        PROVE  x \in ToSet(Tail(q)) \cup {Head(q)}
    <3>1. CASE i = 1
      BY <1>1, <2>1, <3>1
    <3>2. CASE i # 1
      <4>1. i - 1 \in 1..(Len(q) - 1) /\ Tail(q)[i - 1] = q[i]
        BY <1>1, <3>2
      <4> QED
        BY <1>1, <2>1, <4>1 DEF ToSet
    <3> QED
      BY <3>1, <3>2
  <2>2. ASSUME NEW i \in 1..(Len(q) - 1), Tail(q)[i] = x PROVE x \in ToSet(q)
    BY <1>1, <2>2 DEF ToSet
  <2>3. Head(q) \in ToSet(q)
    BY <1>1 DEF ToSet
  <2> QED
    BY <1>1, <2>1, <2>2, <2>3 DEF ToSet
<1> QED
  BY <1>1, <1>2

-----------------------------------------------------------------------------
(* Subscriptions.                                                           *)

\* A request takes a version of its own and leaves the rest.
LEMMA RequestMade ==
  ASSUME NEW e \in Entry, NEW params \in Params
  PROVE  LET r == Requested(e, params) IN
         /\ r \in Entry
         /\ r.state.version = e.state.version + 1 /\ r.inFlight = r.state.version
         /\ r.state.phase \in {"loading", "refreshing"}
         /\ r.query = e.query /\ r.params = params /\ r.window = e.window
<1> DEFINE loading == [version |-> e.state.version + 1,
                      phase |-> IF e.state.data = None THEN "loading" ELSE "refreshing",
                      data |-> e.state.data]
<1>1. e.state \in State /\ e.query \in Queries /\ e.window \in 1..MaxWindows
  BY DEF Entry
<1>2. loading \in State
  BY <1>1 DEF State, Phases
<1>3. /\ loading.version = e.state.version + 1 /\ loading.version \in Nat
      /\ loading.phase \in {"loading", "refreshing"}
  BY <1>1 DEF State
<1>4. Requested(e, params) = [e EXCEPT !.params = params,
                                       !.inFlight = e.state.version + 1,
                                       !.state = loading]
  BY DEF Requested
<1> HIDE DEF loading
<1> QED
  BY <1>1, <1>2, <1>3, <1>4 DEF Entry

\* An answer ends the request and keeps the version.
LEMMA AnswerTaken ==
  ASSUME NEW e \in Entry, NEW data \in Data \cup {None}
  PROVE  LET r == Resolved(e, data) IN
         /\ r \in Entry
         /\ r.state.version = e.state.version /\ r.inFlight = None
         /\ r.state.phase \in {"ready", "failed"}
BY DEF Resolved, Entry, State, Phases

\* What is sent of an entry is of its type and carries its version.
LEMMA ToSend ==
  ASSUME NEW id \in Ids, NEW e \in Entry, e.params # None
  PROVE  /\ SendingOf(id, e) \in Sending
         /\ SendingOf(id, e).job.id = id
         /\ SendingOf(id, e).job.version = e.state.version
BY DEF SendingOf, Sending, Job, Entry, State

-----------------------------------------------------------------------------
(* Types.                                                                   *)

\* At first every value is of its type.
LEMMA InitTyped == Init => TypeOK
<1> SUFFICES ASSUME Init PROVE TypeOK
  OBVIOUS
<1>1. MaxSubs \in Nat /\ MaxRequests \in Nat /\ MaxChanges \in Nat /\ MaxWindows \in Nat
  BY QueryAssumption
<1>2. DOMAIN entries = {} /\ DOMAIN views = {}
  BY DEF Init
<1>3. jobs \in Seq(Job) /\ inbox \in Seq(Post)
  BY DEF Init
<1>4. /\ window = 0 /\ open = FALSE /\ next = 0 /\ requests = 0
      /\ cancelled = {} /\ asking = None
      /\ field = 0 /\ due = FALSE /\ telling = {} /\ shown = FALSE
      /\ running = {} /\ answers = {}
  BY DEF Init
<1>5. /\ window \in 0..MaxWindows /\ next \in 0..MaxSubs
      /\ requests \in 0..MaxRequests /\ field \in 0..MaxChanges
  BY <1>1, <1>4
<1>6. /\ DOMAIN entries \subseteq 1..next /\ DOMAIN views \subseteq 1..next
      /\ \A id \in DOMAIN entries : entries[id] \in Entry
      /\ \A id \in DOMAIN views : views[id] \in State
  BY <1>2
<1> QED
  BY <1>3, <1>4, <1>5, <1>6, Zenon DEF TypeOK

\* The ticket in flight is a ticket.
LEMMA InFlightTyped ==
  ASSUME NEW id \in Ids, entries[id] \in Entry
  PROVE  InFlight(id) \subseteq Ticket
BY DEF InFlight, Entry, Ticket

\* Ending subscriptions keeps the types of the others.
LEMMA EndTyped ==
  ASSUME TypeOK, NEW ids, End(ids)
  PROVE  /\ DOMAIN entries' \subseteq 1..next
         /\ \A id \in DOMAIN entries' : entries'[id] \in Entry
         /\ cancelled' \subseteq Ticket
<1>1. DOMAIN entries \subseteq Ids
  BY QueryAssumption DEF TypeOK, Ids
<1> QED
  BY <1>1, InFlightTyped DEF TypeOK, End

\* Showing a state keeps the types of the views.
LEMMA ShowTyped ==
  ASSUME NEW id, NEW state \in State, \A i \in DOMAIN views : views[i] \in State
  PROVE  /\ DOMAIN Show(id, state) = DOMAIN views
         /\ \A i \in DOMAIN views : Show(id, state)[i] \in State
BY DEF Show

\* Every step keeps the types.
LEMMA NextTyped == TypeOK /\ [Next]_vars => TypeOK'
<1> SUFFICES ASSUME TypeOK, [Next]_vars PROVE TypeOK'
  OBVIOUS
<1> USE QueryAssumption
<1>ids. DOMAIN entries \subseteq Ids /\ DOMAIN views \subseteq Ids
  BY DEF TypeOK, Ids
<1>1. CASE OpenWindow
  BY <1>1 DEF OpenWindow, TypeOK, engineVars
<1>2. CASE CloseWindow
  BY <1>2, EndTyped DEF CloseWindow, TypeOK, engineVars
<1>3. CASE Mount
  <2>1. Idle \in State
    BY DEF Idle, State, Phases
  <2>2. PICK query \in Queries :
          entries' = [id \in DOMAIN entries \cup {next'} |->
                        IF id = next'
                        THEN [window |-> window, query |-> query, params |-> None,
                              inFlight |-> None, state |-> Idle]
                        ELSE entries[id]]
    BY <1>3 DEF Mount
  <2>3. /\ DOMAIN entries' = DOMAIN entries \cup {next'}
        /\ \A id \in DOMAIN entries' : entries'[id] \in Entry
    BY <1>3, <2>1, <2>2 DEF Mount, TypeOK, Entry
  <2> QED
    <3>1. next' \in 0..MaxSubs /\ DOMAIN entries' \subseteq 1..next'
      BY <1>3, <2>3 DEF Mount, TypeOK
    <3>2. /\ DOMAIN views' \subseteq 1..next'
          /\ \A id \in DOMAIN views' : views'[id] \in State
      BY <1>3, <2>1, <3>1 DEF Mount, TypeOK
    <3> QED
      BY <1>3, <2>3, <3>1, <3>2 DEF Mount, TypeOK, engineVars
<1>4. ASSUME NEW id \in Ids, Unmount(id) PROVE TypeOK'
  BY <1>4, EndTyped DEF Unmount, TypeOK, uiVars, engineVars
<1>5. ASSUME NEW id \in Ids, NEW params \in Params, Request(id, params) PROVE TypeOK'
  <2>1. /\ entries' = [entries EXCEPT ![id] = Requested(entries[id], params)]
        /\ id \in DOMAIN entries /\ entries[id] \in Entry
    BY <1>5 DEF Request, TypeOK
  <2>2. entries'[id] \in Entry /\ entries'[id].params = params
    BY <2>1, RequestMade
  <2>3. asking' \in Sending
    BY <1>5, <2>2, ToSend DEF Request
  <2>4. cancelled' \subseteq Ticket
    BY <1>5, <2>1, InFlightTyped DEF Request, TypeOK
  <2> QED
    BY <1>5, <2>1, <2>2, <2>3, <2>4 DEF Request, TypeOK, engineVars
<1>6. CASE SendRequest
  <2>1. asking \in Sending
    BY <1>6 DEF SendRequest, TypeOK
  <2>2. asking.job \in Job /\ asking.state \in State
    BY <2>1 DEF Sending
  <2>3. jobs' \in Seq(Job)
    BY <1>6, <2>2, Appended DEF SendRequest, TypeOK
  <2>4. /\ DOMAIN views' = DOMAIN views
        /\ \A i \in DOMAIN views' : views'[i] \in State
    BY <1>6, <2>2, ShowTyped DEF SendRequest, TypeOK
  <2> QED
    BY <1>6, <2>3, <2>4 DEF SendRequest, TypeOK, uiVars, engineVars
<1>7. CASE Receive
  <2>1. Head(inbox) \in Post /\ inbox' \in Seq(Post)
    BY <1>7, Tailed DEF Receive, TypeOK
  <2>2. Head(inbox).state \in State
    BY <2>1 DEF Post
  <2>3. /\ DOMAIN views' = DOMAIN views
        /\ \A i \in DOMAIN views' : views'[i] \in State
    BY <1>7, <2>2, ShowTyped DEF Receive, TypeOK
  <2> QED
    BY <1>7, <2>1, <2>3 DEF Receive, TypeOK, uiVars, engineVars
<1>8. CASE Change
  BY <1>8 DEF Change, TypeOK, uiVars
<1>9. CASE Refresh
  <2>1. \A id \in Stale : /\ id \in Ids /\ entries[id] \in Entry
                         /\ entries[id].params \in Params
    BY <1>ids DEF Stale, TypeOK, Entry
  <2>2. \A id \in DOMAIN entries' : entries'[id] \in Entry
    BY <1>9, <2>1, RequestMade DEF Refresh, TypeOK
  <2>3. \A id \in Stale : entries'[id].params \in Params /\ entries'[id] \in Entry
    BY <1>9, <2>1, <2>2, RequestMade DEF Refresh, Stale
  <2>4. telling' \subseteq Sending
    <3>1. ASSUME NEW id \in Stale PROVE SendingOf(id, entries'[id]) \in Sending
      BY <2>1, <2>3, ToSend
    <3> QED
      BY <1>9, <3>1 DEF Refresh
  <2>5. cancelled' \subseteq Ticket
    BY <1>9, <2>1, InFlightTyped DEF Refresh, TypeOK
  <2> QED
    BY <1>9, <2>2, <2>4, <2>5 DEF Refresh, TypeOK, uiVars
<1>10. ASSUME NEW s \in telling, ShowRefresh(s) PROVE TypeOK'
  <2>1. [id |-> s.job.id, state |-> s.state] \in Post
    BY DEF TypeOK, Sending, Job, Post
  <2>2. inbox' \in Seq(Post)
    BY <1>10, <2>1, Appended DEF ShowRefresh, TypeOK
  <2> QED
    BY <1>10, <2>2 DEF ShowRefresh, TypeOK, uiVars
<1>11. ASSUME NEW s \in telling, SendRefresh(s) PROVE TypeOK'
  <2>1. s.job \in Job
    BY DEF TypeOK, Sending
  <2>2. jobs' \in Seq(Job)
    BY <1>11, <2>1, Appended DEF SendRefresh, TypeOK
  <2> QED
    BY <1>11, <2>2 DEF SendRefresh, TypeOK, uiVars
<1>12. CASE RunQuery
  <2>1. Head(jobs) \in Job /\ jobs' \in Seq(Job)
    BY <1>12, Tailed DEF RunQuery, TypeOK
  <2> QED
    BY <1>12, <2>1 DEF RunQuery, TypeOK, uiVars, engineVars
<1>13. ASSUME NEW r \in running, Answer(r) PROVE TypeOK'
  <2>1. r.job \in Job /\ r.seen \in 0..MaxChanges
    BY DEF TypeOK
  <2>2. CASE Current(r.job)
    <3>1. PICK data \in {None, [params |-> r.job.params, seen |-> r.seen]} :
            /\ entries' = [entries EXCEPT ![r.job.id] = Resolved(@, data)]
            /\ answers' = answers \cup {[id |-> r.job.id,
                                         state |-> entries'[r.job.id].state]}
      BY <1>13, <2>2 DEF Answer
    <3>2. data \in Data \cup {None} /\ r.job.id \in DOMAIN entries
      BY <2>1, <2>2 DEF Data, Job, Current
    <3>3. /\ entries'[r.job.id] \in Entry
          /\ \A id \in DOMAIN entries' : entries'[id] \in Entry
          /\ DOMAIN entries' = DOMAIN entries
      BY <3>1, <3>2, AnswerTaken DEF TypeOK
    <3>4. answers' \subseteq Post
      BY <2>1, <3>1, <3>3 DEF TypeOK, Post, Entry, Job
    <3> QED
      BY <1>13, <3>3, <3>4 DEF Answer, TypeOK, uiVars, engineVars
  <2>3. CASE ~Current(r.job)
    BY <1>13, <2>3 DEF Answer, TypeOK, uiVars, engineVars
  <2> QED
    BY <2>2, <2>3
<1>14. ASSUME NEW answer \in answers, Call(answer) PROVE TypeOK'
  <2>1. inbox' \in Seq(Post)
    BY <1>14, Appended DEF Call, TypeOK
  <2> QED
    BY <1>14, <2>1 DEF Call, TypeOK, uiVars, engineVars
<1>15. CASE UNCHANGED vars
  BY <1>15 DEF vars, TypeOK, uiVars, engineVars
<1> QED
  BY <1>1, <1>2, <1>3, <1>4, <1>5, <1>6, <1>7, <1>8, <1>9, <1>10, <1>11, <1>12,
     <1>13, <1>14, <1>15 DEF Next

\* Every value stays of its type: no id is given twice, and no version, state
\* or answer is put together wrongly, whatever is called in whatever order.
THEOREM TypeCorrect == Spec => []TypeOK
BY InitTyped, NextTyped, PTL DEF Spec

-----------------------------------------------------------------------------
(* What is on its way.                                                      *)

\* What is on its way names subscriptions and versions.
LEMMA TicketsTyped == TypeOK => Tickets \subseteq Job
<1> SUFFICES ASSUME TypeOK PROVE Tickets \subseteq Job
  OBVIOUS
<1>1. Asked \subseteq Job /\ Told \subseteq Job /\ Answering \subseteq Job
  BY DEF TypeOK, Asked, Told, Answering, Sending
<1>2. ToSet(jobs) \subseteq Job
  BY LenProperties, ElementOfSeq DEF TypeOK, ToSet
<1> QED
  BY <1>1, <1>2 DEF Tickets

\* A step that leaves the subscriptions alone and drops no current request
\* keeps what they know.
LEMMA Kept ==
  ASSUME TypeOK, TicketsArePast, OneLiveRequest, InFlightIsComing,
         UNCHANGED <<next, entries, cancelled>>,
         Tickets' \subseteq Tickets,
         \A job \in Tickets \ Tickets' : ~Current(job)
  PROVE  TicketsArePast' /\ OneLiveRequest' /\ InFlightIsComing'
<1>1. TicketsArePast'
  BY DEF TicketsArePast
<1>2. OneLiveRequest'
  BY DEF OneLiveRequest, Superseded
<1>3. ASSUME NEW id \in DOMAIN entries, entries[id].inFlight # None,
             NEW job \in Tickets, job.id = id, job.version = entries[id].inFlight
      PROVE  job \in Tickets'
  <2>1. /\ entries[id].inFlight = entries[id].state.version
        /\ InFlight(id) \cap cancelled = {}
    BY <1>3 DEF InFlightIsComing
  <2>2. InFlight(id) = {[id |-> job.id, version |-> job.version]}
    BY <1>3 DEF InFlight
  <2>3. ~Superseded(job)
    BY <2>1, <2>2 DEF Superseded
  <2> QED
    BY <1>3, <2>1, <2>3 DEF Current
<1>4. InFlightIsComing'
  BY <1>3 DEF InFlightIsComing, InFlight
<1> QED
  BY <1>1, <1>2, <1>4

\* The same when nothing moves.
LEMMA StillOnce ==
  ASSUME RequestsAreOnce, UNCHANGED <<asking, telling, jobs, running>>
  PROVE  RequestsAreOnce' /\ Tickets' = Tickets
<1>1. Asked' = Asked /\ Told' = Told /\ Answering' = Answering /\ ToSet(jobs)' = ToSet(jobs)
  BY DEF Asked, Told, Answering, ToSet
<1> QED
  BY <1>1 DEF RequestsAreOnce, Tickets

\* An ended subscription takes its request with it.
LEMMA Ended ==
  ASSUME TypeOK, TicketsArePast, OneLiveRequest, InFlightIsComing,
         NEW ids, End(ids), next' = next, Tickets' = Tickets
  PROVE  TicketsArePast' /\ OneLiveRequest' /\ InFlightIsComing'
<1>1. /\ DOMAIN entries' = DOMAIN entries \ ids
      /\ \A id \in DOMAIN entries' : entries'[id] = entries[id]
      /\ cancelled' = cancelled \cup UNION {InFlight(id) : id \in ids \cap DOMAIN entries}
  BY DEF End
<1>2. ASSUME NEW ticket \in cancelled' \ cancelled
      PROVE  /\ ticket.id \in ids \cap DOMAIN entries
             /\ ticket \in InFlight(ticket.id)
  BY <1>1, <1>2 DEF InFlight
<1>3. TicketsArePast'
  <2>1. \A ticket \in cancelled' \ cancelled :
           ticket.id <= next /\ ticket.id \notin DOMAIN entries'
    BY <1>1, <1>2 DEF TypeOK
  <2> QED
    BY <1>1, <2>1 DEF TicketsArePast
<1>4. ASSUME NEW job \in Tickets', ~Superseded(job)'
      PROVE  /\ job.id \in DOMAIN entries'
             /\ entries'[job.id].inFlight = job.version
             /\ entries'[job.id].state.version = job.version
  <2>1. ~Superseded(job)
    BY <1>1, <1>4 DEF Superseded
  <2>2. /\ job.id \in DOMAIN entries
        /\ entries[job.id].inFlight = job.version
        /\ entries[job.id].state.version = job.version
    BY <2>1 DEF OneLiveRequest
  <2>3. job.version # None
    BY TicketsTyped, QueryAssumption DEF Job
  <2>4. job.id \notin ids
    BY <1>1, <1>4, <2>2, <2>3 DEF Superseded, InFlight
  <2> QED
    BY <1>1, <2>2, <2>4
<1>5. InFlightIsComing'
  BY <1>1, <1>2 DEF InFlightIsComing, InFlight
<1> QED
  BY <1>3, <1>4, <1>5 DEF OneLiveRequest

\* Subscriptions that ask anew cancel what they asked before.
LEMMA Renewed ==
  ASSUME TypeOK, TicketsArePast, OneLiveRequest, InFlightIsComing,
         NEW ids, ids \subseteq DOMAIN entries, NEW new,
         next' = next, DOMAIN entries' = DOMAIN entries,
         \A id \in ids :
            /\ entries'[id].state.version = entries[id].state.version + 1
            /\ entries'[id].inFlight = entries'[id].state.version
            /\ entries'[id].state.phase \in {"loading", "refreshing"}
            /\ \E job \in new : job.id = id,
         \A id \in DOMAIN entries \ ids : entries'[id] = entries[id],
         cancelled' = cancelled \cup UNION {InFlight(id) : id \in ids},
         Tickets' = Tickets \cup new,
         \A job \in new : job.id \in ids /\ job.version = entries'[job.id].state.version
  PROVE  /\ TicketsArePast' /\ OneLiveRequest' /\ InFlightIsComing'
         /\ \A job \in new, t \in Tickets : ~Same(job, t)
<1>1. \A id \in DOMAIN entries : entries[id].state.version \in Nat
  BY DEF TypeOK, Entry, State
<1>2. ASSUME NEW ticket \in cancelled' \ cancelled
      PROVE  /\ ticket.id \in ids /\ ticket.version = entries[ticket.id].state.version
             /\ ticket \in InFlight(ticket.id)
  BY <1>2 DEF InFlight, InFlightIsComing
<1>3. \A id \in ids : id <= next
  BY DEF TypeOK
<1>4. \A t \in Tickets \cup cancelled : t.version \in Nat
  BY TicketsTyped DEF TypeOK, Job, Ticket
<1>5. \A t \in Tickets \cup cancelled' :
         t.id \in ids => t.version <= entries[t.id].state.version
  BY <1>1, <1>2 DEF TicketsArePast
<1>6. TicketsArePast'
  <2>1. ASSUME NEW t \in Tickets' \cup cancelled' PROVE t.id <= next
    BY <1>2, <1>3 DEF TicketsArePast
  <2>2. ASSUME NEW t \in Tickets' \cup cancelled', t.id \in DOMAIN entries
        PROVE  t.version <= entries'[t.id].state.version
    <3>1. CASE t \in new
      BY <1>1, <3>1
    <3>2. CASE t \notin new /\ t.id \in ids
      <4>1. t.version <= entries[t.id].state.version /\ t.version \in Nat
        BY <1>1, <1>2, <1>4, <1>5, <3>2
      <4> QED
        BY <1>1, <3>2, <4>1
    <3>3. CASE t \notin new /\ t.id \notin ids
      BY <1>2, <2>2, <3>3 DEF TicketsArePast
    <3> QED
      BY <3>1, <3>2, <3>3
  <2> QED
    BY <2>1, <2>2 DEF TicketsArePast
<1>7. \A job \in new, t \in Tickets : ~Same(job, t)
  BY <1>1, <1>4, <1>5 DEF Same
<1>8. ASSUME NEW job \in Tickets', ~Superseded(job)'
      PROVE  /\ job.id \in DOMAIN entries'
             /\ entries'[job.id].inFlight = job.version
             /\ entries'[job.id].state.version = job.version
  <2>1. CASE job \in new
    BY <2>1
  <2>2. CASE job \in Tickets
    <3>1. /\ job.id \in DOMAIN entries
          /\ entries[job.id].inFlight = job.version
          /\ entries[job.id].state.version = job.version
      BY <1>8, <2>2 DEF OneLiveRequest, Superseded
    <3>2. InFlight(job.id) = {[id |-> job.id, version |-> job.version]}
      BY <1>4, <2>2, <3>1, QueryAssumption DEF InFlight
    <3>3. job.id \notin ids
      BY <1>8, <3>2 DEF Superseded
    <3> QED
      BY <3>1, <3>3
  <2> QED
    BY <2>1, <2>2
<1>9. ASSUME NEW id \in DOMAIN entries
      PROVE  /\ entries'[id].inFlight # None
                  <=> entries'[id].state.phase \in {"loading", "refreshing"}
             /\ entries'[id].inFlight # None =>
                  /\ entries'[id].inFlight = entries'[id].state.version
                  /\ InFlight(id)' \cap cancelled' = {}
                  /\ \E job \in Tickets' : job.id = id /\ job.version = entries'[id].inFlight
  <2>1. CASE id \in ids
    <3>1. entries'[id].inFlight = entries[id].state.version + 1
      BY <2>1
    <3>2. entries'[id].inFlight # None
      BY <1>1, <3>1, QueryAssumption
    <3>3. InFlight(id)' = {[id |-> id, version |-> entries[id].state.version + 1]}
      BY <3>1, <3>2 DEF InFlight
    <3>4. InFlight(id)' \cap cancelled' = {}
      BY <1>1, <1>5, <2>1, <3>3
    <3>5. \E job \in Tickets' : job.id = id /\ job.version = entries'[id].inFlight
      BY <2>1
    <3> QED
      BY <2>1, <3>2, <3>4, <3>5
  <2>2. CASE id \notin ids
    <3>1. entries'[id] = entries[id] /\ InFlight(id)' = InFlight(id)
      BY <2>2 DEF InFlight
    <3>2. \A ticket \in InFlight(id) : ticket.id = id
      BY DEF InFlight
    <3>3. InFlight(id) \cap cancelled = {} => InFlight(id)' \cap cancelled' = {}
      BY <1>2, <2>2, <3>1, <3>2
    <3> QED
      BY <3>1, <3>3 DEF InFlightIsComing
  <2> QED
    BY <2>1, <2>2
<1>10. OneLiveRequest'
  BY <1>8 DEF OneLiveRequest
<1>11. InFlightIsComing'
  BY <1>9 DEF InFlightIsComing
<1> QED
  BY <1>6, <1>7, <1>10, <1>11

\* A request that goes into the engine's queue.
LEMMA Queued ==
  ASSUME TypeOK, RequestsAreOnce, NEW job \in Asked \cup Told,
         jobs' = Append(jobs, job), running' = running,
         \/ /\ Asked = {job} /\ Asked' = {} /\ telling' = telling
         \/ /\ Asked' = Asked
            /\ \E s \in telling : s.job = job /\ telling' = telling \ {s}
  PROVE  RequestsAreOnce' /\ Tickets' = Tickets
<1>1. job \in Tickets /\ job \in Job
  BY TicketsTyped DEF Tickets
<1>2. /\ DOMAIN jobs = 1..Len(jobs) /\ DOMAIN jobs' = 1..(Len(jobs) + 1) /\ Len(jobs) \in Nat
      /\ \A i \in 1..Len(jobs) : jobs'[i] = jobs[i]
      /\ jobs'[Len(jobs) + 1] = job
      /\ ToSet(jobs)' = ToSet(jobs) \cup {job}
  <2>1. jobs \in Seq(Job) /\ ToSet(jobs)' = ToSet(Append(jobs, job))
    BY DEF TypeOK, ToSet
  <2> QED
    BY <1>1, <2>1, Appended
<1>3. Answering' = Answering
  BY DEF Answering
<1>4. \A b \in ToSet(jobs) \cup Answering : ~Same(job, b)
  BY DEF RequestsAreOnce
<1>5. \A i \in DOMAIN jobs : jobs[i] \in ToSet(jobs)
  BY DEF ToSet
<1>6. \A i, j \in DOMAIN jobs' : Same(jobs'[i], jobs'[j]) => i = j
  BY <1>2, <1>4, <1>5 DEF RequestsAreOnce, Same
<1>7. CASE Asked = {job} /\ Asked' = {} /\ telling' = telling
  <2>1. Told' = Told
    BY <1>7 DEF Told
  <2>2. Tickets' = Tickets
    BY <1>2, <1>3, <1>7, <2>1 DEF Tickets
  <2>3. \A a \in Told : ~Same(a, job)
    BY <1>7 DEF RequestsAreOnce, Same
  <2> QED
    BY <1>2, <1>3, <1>4, <1>6, <1>7, <2>1, <2>2, <2>3 DEF RequestsAreOnce, Same
<1>8. ASSUME Asked' = Asked, NEW s \in telling, s.job = job, telling' = telling \ {s}
      PROVE  RequestsAreOnce' /\ Tickets' = Tickets
  <2>1. /\ Told' \subseteq Told /\ Told = Told' \cup {job}
        /\ \A a \in Told' : ~Same(a, job)
    BY <1>8 DEF Told, RequestsAreOnce
  <2>2. Tickets' = Tickets
    BY <1>2, <1>3, <1>8, <2>1 DEF Tickets
  <2> QED
    BY <1>2, <1>3, <1>4, <1>6, <1>8, <2>1, <2>2 DEF RequestsAreOnce, Same
<1> QED
  BY <1>7, <1>8

\* A request that leaves the queue, to be answered or to be dropped.
LEMMA Taken ==
  ASSUME TypeOK, RequestsAreOnce, jobs # <<>>, jobs' = Tail(jobs),
         UNCHANGED <<asking, telling>>,
         NEW seen, running' = running \/ running' = running \cup {[job |-> Head(jobs), seen |-> seen]}
  PROVE  /\ RequestsAreOnce'
         /\ Tickets' \subseteq Tickets
         /\ Tickets \subseteq Tickets' \cup {Head(jobs)}
         /\ running' # running => Tickets' = Tickets
<1> DEFINE job == Head(jobs)
<1>1. /\ DOMAIN jobs = 1..Len(jobs) /\ Len(jobs) \in Nat \ {0} /\ job = jobs[1]
      /\ DOMAIN jobs' = 1..(Len(jobs) - 1)
      /\ \A i \in 1..(Len(jobs) - 1) : jobs'[i] = jobs[i + 1]
      /\ ToSet(jobs) = ToSet(jobs)' \cup {job}
  <2>1. jobs \in Seq(Job) /\ ToSet(jobs)' = ToSet(Tail(jobs))
    BY DEF TypeOK, ToSet
  <2> QED
    BY <2>1, Tailed
<1> HIDE DEF job
<1>2. Asked' = Asked /\ Told' = Told
  BY DEF Asked, Told
<1>3. \/ running' = running /\ Answering' = Answering
      \/ Answering' = Answering \cup {job}
  <2>1. ASSUME NEW r, r.job = job, running' = running \cup {r}
        PROVE  Answering' = Answering \cup {job}
    BY <2>1 DEF Answering
  <2>2. [job |-> job, seen |-> seen].job = job
    OBVIOUS
  <2> QED
    BY <2>1, <2>2 DEF Answering, job
<1>4. running' # running => Answering' = Answering \cup {job}
  BY <1>3
<1>5. \A b \in ToSet(jobs)' : ~Same(b, job)
  <2>1. \A i \in 1..(Len(jobs) - 1) : ~Same(jobs[i + 1], jobs[1])
    BY <1>1 DEF RequestsAreOnce
  <2> QED
    BY <1>1, <2>1 DEF ToSet
<1>6. \A i, j \in DOMAIN jobs' : Same(jobs'[i], jobs'[j]) => i = j
  <2>1. ASSUME NEW i \in DOMAIN jobs', NEW j \in DOMAIN jobs', Same(jobs'[i], jobs'[j])
        PROVE  i = j
    <3>1. /\ i + 1 \in DOMAIN jobs /\ j + 1 \in DOMAIN jobs /\ i \in Nat /\ j \in Nat
          /\ Same(jobs[i + 1], jobs[j + 1])
      BY <1>1, <2>1
    <3>2. i + 1 = j + 1
      BY <3>1 DEF RequestsAreOnce
    <3> QED
      BY <3>1, <3>2
  <2> QED
    BY <2>1
<1>7. \A b \in Answering : ~Same(job, b)
  BY <1>1 DEF RequestsAreOnce
<1>8. \A r, q \in running' : Same(r.job, q.job) => r = q
  BY <1>7 DEF RequestsAreOnce, Same, Answering, job
<1> QED
  BY <1>1, <1>2, <1>3, <1>4, <1>5, <1>6, <1>8 DEF RequestsAreOnce, Tickets, Same, job

\* At first nothing is on its way.
LEMMA InitSubs == Init => SubsInv
<1> SUFFICES ASSUME Init PROVE SubsInv
  OBVIOUS
<1>1. /\ asking = None /\ telling = {} /\ running = {} /\ cancelled = {}
      /\ DOMAIN jobs = {} /\ DOMAIN entries = {} /\ due = FALSE
  BY DEF Init
<1>2. Asked = {} /\ Told = {} /\ Answering = {} /\ ToSet(jobs) = {}
  BY <1>1 DEF Asked, Told, Answering, ToSet
<1> QED
  BY <1>1, <1>2 DEF SubsInv, RequestsAreOnce, TicketsArePast, OneLiveRequest,
                    InFlightIsComing, Tickets

\* Every step keeps what the subscriptions know and what is on its way the same.
LEMMA NextSubs == TypeOK /\ SubsInv /\ [Next]_vars => SubsInv'
<1> SUFFICES ASSUME TypeOK, SubsInv, [Next]_vars PROVE SubsInv'
  OBVIOUS
<1>inv. /\ due => telling = {}
        /\ RequestsAreOnce /\ TicketsArePast /\ OneLiveRequest /\ InFlightIsComing
  BY DEF SubsInv
<1>keep. ASSUME UNCHANGED <<next, entries, cancelled, asking, telling, jobs, running>>,
                due' => telling' = {}
         PROVE  SubsInv'
  BY <1>inv, <1>keep, StillOnce, Kept DEF SubsInv
<1>1. CASE OpenWindow
  BY <1>1, <1>inv, <1>keep DEF OpenWindow, engineVars
<1>2. CASE CloseWindow
  BY <1>2, <1>inv, StillOnce, Ended DEF CloseWindow, engineVars, SubsInv
<1>3. CASE Mount
  <2>1. /\ next' = next + 1 /\ next \in Nat /\ cancelled' = cancelled
        /\ RequestsAreOnce' /\ Tickets' = Tickets
    BY <1>3, <1>inv, StillOnce, QueryAssumption DEF Mount, engineVars, TypeOK
  <2>2. /\ DOMAIN entries' = DOMAIN entries \cup {next'}
        /\ \A id \in DOMAIN entries' : id # next' => entries'[id] = entries[id]
        /\ entries'[next'].inFlight = None /\ entries'[next'].state.phase = "idle"
    BY <1>3 DEF Mount, Idle
  <2>3. \A t \in Tickets \cup cancelled : t.id \in Nat
    BY TicketsTyped DEF TypeOK, Job, Ticket, Ids
  <2>4. \A t \in Tickets \cup cancelled : t.id <= next /\ t.id # next'
    BY <1>inv, <2>1, <2>3 DEF TicketsArePast
  <2>5. next' \notin DOMAIN entries
    BY <2>1 DEF TypeOK
  <2>6. TicketsArePast'
    BY <1>inv, <2>1, <2>2, <2>3, <2>4 DEF TicketsArePast
  <2>7. OneLiveRequest'
    BY <1>inv, <2>1, <2>2, <2>4 DEF OneLiveRequest, Superseded
  <2>8. InFlightIsComing'
    BY <1>inv, <2>1, <2>2, <2>5 DEF InFlightIsComing, InFlight
  <2> QED
    BY <1>3, <1>inv, <2>1, <2>6, <2>7, <2>8 DEF Mount, engineVars, SubsInv
<1>4. ASSUME NEW id \in Ids, Unmount(id) PROVE SubsInv'
  BY <1>4, <1>inv, StillOnce, Ended DEF Unmount, uiVars, engineVars, SubsInv
<1>5. ASSUME NEW id \in Ids, NEW params \in Params, Request(id, params) PROVE SubsInv'
  <2> DEFINE job == asking'.job
             ids == {id}
             new == {job}
  <2>1. /\ entries' = [entries EXCEPT ![id] = Requested(entries[id], params)]
        /\ id \in DOMAIN entries /\ entries[id] \in Entry
        /\ cancelled' = cancelled \cup InFlight(id)
        /\ asking = None /\ asking' = SendingOf(id, entries'[id])
        /\ UNCHANGED <<next, due, telling, jobs, running>>
    BY <1>5 DEF Request, TypeOK, engineVars
  <2>2. /\ entries'[id] \in Entry /\ entries'[id].params # None
        /\ entries'[id].state.version = entries[id].state.version + 1
        /\ entries'[id].inFlight = entries'[id].state.version
        /\ entries'[id].state.phase \in {"loading", "refreshing"}
    BY <2>1, RequestMade, QueryAssumption
  <2>3. asking' # None /\ job.id = id /\ job.version = entries'[id].state.version
    BY <2>1, <2>2, ToSend, NoneAssumption
  <2> HIDE DEF job
  <2>4. /\ Asked = {} /\ Asked' = {job} /\ Told' = Told /\ Answering' = Answering
        /\ ToSet(jobs)' = ToSet(jobs)
    BY <2>1, <2>3 DEF Asked, Told, Answering, ToSet, job
  <2>5. Tickets' = Tickets \cup new
    BY <2>4 DEF Tickets
  <2>6. cancelled' = cancelled \cup UNION {InFlight(i) : i \in ids}
    BY <2>1
  <2>7. DOMAIN entries' = DOMAIN entries /\ \A i \in DOMAIN entries \ ids : entries'[i] = entries[i]
    BY <2>1
  <2>8. /\ TicketsArePast' /\ OneLiveRequest' /\ InFlightIsComing'
        /\ \A t \in Tickets : ~Same(job, t)
    <3>1. /\ ids \subseteq DOMAIN entries
          /\ \A i \in ids :
                /\ entries'[i].state.version = entries[i].state.version + 1
                /\ entries'[i].inFlight = entries'[i].state.version
                /\ entries'[i].state.phase \in {"loading", "refreshing"}
                /\ \E j \in new : j.id = i
          /\ \A j \in new : j.id \in ids /\ j.version = entries'[j.id].state.version
      BY <2>1, <2>2, <2>3
    <3>2. job \in new /\ next' = next
      BY <2>1
    <3> HIDE DEF ids, new
    <3>3. /\ TicketsArePast' /\ OneLiveRequest' /\ InFlightIsComing'
          /\ \A j \in new, t \in Tickets : ~Same(j, t)
      BY <1>inv, <2>5, <2>6, <2>7, <3>1, <3>2, Renewed
    <3> QED
      BY <3>2, <3>3
  <2>9. RequestsAreOnce'
    BY <1>inv, <2>1, <2>4, <2>8 DEF RequestsAreOnce, Tickets
  <2> QED
    BY <1>inv, <2>1, <2>8, <2>9 DEF SubsInv
<1>6. CASE SendRequest
  <2>1. /\ asking # None /\ asking' = None /\ jobs' = Append(jobs, asking.job)
        /\ UNCHANGED <<next, entries, cancelled, due, telling, running>>
    BY <1>6 DEF SendRequest, uiVars, engineVars
  <2>2. Asked = {asking.job} /\ Asked' = {}
    BY <2>1 DEF Asked
  <2>3. RequestsAreOnce' /\ Tickets' = Tickets
    BY <1>inv, <2>1, <2>2, Queued
  <2> QED
    BY <1>inv, <2>1, <2>3, Kept DEF SubsInv
<1>7. CASE Receive
  BY <1>7, <1>inv, <1>keep DEF Receive, uiVars, engineVars
<1>8. CASE Change
  BY <1>8, <1>inv, <1>keep DEF Change, EngineFree, uiVars
<1>9. CASE Refresh
  <2> DEFINE new == {SendingOf(id, entries'[id]).job : id \in Stale}
  <2>1. /\ telling = {} /\ due' = FALSE /\ DOMAIN entries' = DOMAIN entries
        /\ Stale \subseteq DOMAIN entries
        /\ \A id \in Stale : entries'[id] = Requested(entries[id], entries[id].params)
        /\ \A id \in DOMAIN entries \ Stale : entries'[id] = entries[id]
        /\ cancelled' = cancelled \cup UNION {InFlight(id) : id \in Stale}
        /\ telling' = {SendingOf(id, entries'[id]) : id \in Stale}
        /\ UNCHANGED <<next, asking, jobs, running>>
    BY <1>9, <1>inv DEF Refresh, uiVars, Stale
  <2>2. \A id \in Stale : /\ id \in Ids /\ entries[id] \in Entry
                         /\ entries[id].params \in Params
    BY QueryAssumption DEF Stale, TypeOK, Entry, Ids
  <2>3. \A id \in Stale :
          /\ entries'[id] \in Entry /\ entries'[id].params # None
          /\ entries'[id].state.version = entries[id].state.version + 1
          /\ entries'[id].inFlight = entries'[id].state.version
          /\ entries'[id].state.phase \in {"loading", "refreshing"}
    BY <2>1, <2>2, RequestMade, QueryAssumption
  <2>4. \A id \in Stale :
          /\ SendingOf(id, entries'[id]).job.id = id
          /\ SendingOf(id, entries'[id]).job.version = entries'[id].state.version
    BY <2>2, <2>3, ToSend
  <2>5. /\ \A id \in Stale : \E job \in new : job.id = id
        /\ \A job \in new : job.id \in Stale /\ job.version = entries'[job.id].state.version
    BY <2>4
  <2>6. /\ Asked' = Asked /\ Told = {} /\ Told' = new /\ Answering' = Answering
        /\ ToSet(jobs)' = ToSet(jobs)
    BY <2>1 DEF Asked, Told, Answering, ToSet
  <2> HIDE DEF new
  <2>7. Tickets' = Tickets \cup new
    BY <2>6 DEF Tickets
  <2>8. /\ TicketsArePast' /\ OneLiveRequest' /\ InFlightIsComing'
        /\ \A job \in new, t \in Tickets : ~Same(job, t)
    BY <1>inv, <2>1, <2>3, <2>5, <2>7, Renewed
  <2>9. \A s, t \in telling' : Same(s.job, t.job) => s = t
    BY <2>1, <2>4 DEF Same
  <2>10. RequestsAreOnce'
    BY <1>inv, <2>1, <2>6, <2>8, <2>9 DEF RequestsAreOnce, Tickets, Same
  <2> QED
    BY <2>1, <2>8, <2>10 DEF SubsInv
<1>10. ASSUME NEW s \in telling, ShowRefresh(s) PROVE SubsInv'
  BY <1>10, <1>inv, <1>keep DEF ShowRefresh, uiVars
<1>11. ASSUME NEW s \in telling, SendRefresh(s) PROVE SubsInv'
  <2>1. /\ jobs' = Append(jobs, s.job) /\ telling' = telling \ {s}
        /\ UNCHANGED <<next, entries, cancelled, due, asking, running>>
    BY <1>11 DEF SendRefresh, uiVars
  <2>2. Asked' = Asked /\ s.job \in Told
    BY <2>1 DEF Asked, Told
  <2>3. RequestsAreOnce' /\ Tickets' = Tickets
    BY <1>inv, <2>1, <2>2, Queued
  <2> QED
    BY <1>inv, <2>1, <2>3, Kept DEF SubsInv
<1>12. CASE RunQuery
  <2>1. /\ jobs # <<>> /\ jobs' = Tail(jobs)
        /\ Superseded(Head(jobs)) => running' = running
        /\ ~Superseded(Head(jobs)) =>
              running' = running \cup {[job |-> Head(jobs), seen |-> field]}
        /\ UNCHANGED <<next, entries, cancelled, due, asking, telling>>
    BY <1>12 DEF RunQuery, uiVars, engineVars
  <2>2. /\ RequestsAreOnce' /\ Tickets' \subseteq Tickets
        /\ Tickets \subseteq Tickets' \cup {Head(jobs)}
        /\ running' # running => Tickets' = Tickets
    BY <1>inv, <2>1, Taken
  <2>3. ~Superseded(Head(jobs)) => Tickets' = Tickets
    <3>1. ASSUME ~Superseded(Head(jobs)) PROVE Head(jobs) \in Answering'
      <4>1. [job |-> Head(jobs), seen |-> field] \in running'
        BY <2>1, <3>1
      <4> QED
        BY <4>1 DEF Answering
    <3> QED
      BY <2>2, <3>1 DEF Tickets
  <2>4. \A job \in Tickets \ Tickets' : ~Current(job)
    BY <2>2, <2>3 DEF Current
  <2> QED
    BY <1>inv, <2>1, <2>2, <2>4, Kept DEF SubsInv
<1>13. ASSUME NEW r \in running, Answer(r) PROVE SubsInv'
  <2>1. /\ running' = running \ {r}
        /\ UNCHANGED <<next, cancelled, due, asking, telling, jobs>>
    BY <1>13 DEF Answer, uiVars, engineVars
  <2>2. /\ Asked' = Asked /\ Told' = Told /\ ToSet(jobs)' = ToSet(jobs)
        /\ Answering' \subseteq Answering /\ Answering = Answering' \cup {r.job}
    BY <2>1 DEF Asked, Told, ToSet, Answering
  <2>3. RequestsAreOnce'
    BY <1>inv, <2>1, <2>2 DEF RequestsAreOnce
  <2>4. /\ Tickets' \subseteq Tickets /\ Tickets = Tickets' \cup {r.job}
        /\ r.job \in Answering
    BY <2>2 DEF Tickets
  <2>5. \A t \in Tickets' : ~Same(t, r.job)
    <3>1. \A b \in Answering' : ~Same(b, r.job)
      BY <1>inv, <2>1 DEF RequestsAreOnce, Answering
    <3> QED
      BY <1>inv, <2>2, <2>4, <3>1 DEF RequestsAreOnce, Tickets, Same
  <2>6. CASE Current(r.job)
    <3>1. PICK data \in {None, [params |-> r.job.params, seen |-> r.seen]} :
            entries' = [entries EXCEPT ![r.job.id] = Resolved(entries[r.job.id], data)]
      BY <1>13, <2>6 DEF Answer
    <3>2. r.job.id \in DOMAIN entries /\ entries[r.job.id].state.version = r.job.version
      BY <2>6 DEF Current
    <3>3. data \in Data \cup {None} /\ entries[r.job.id] \in Entry
      BY <3>1, <3>2 DEF TypeOK, Data, Job
    <3>4. /\ entries'[r.job.id].state.version = entries[r.job.id].state.version
          /\ entries'[r.job.id].inFlight = None
          /\ entries'[r.job.id].state.phase \in {"ready", "failed"}
      BY <3>1, <3>2, <3>3, AnswerTaken
    <3>5. /\ DOMAIN entries' = DOMAIN entries
          /\ \A id \in DOMAIN entries : id # r.job.id => entries'[id] = entries[id]
      BY <3>1
    <3>6. TicketsArePast'
      BY <1>inv, <2>1, <2>4, <3>4, <3>5 DEF TicketsArePast
    <3>7. OneLiveRequest'
      BY <1>inv, <2>1, <2>4, <2>5, <3>2, <3>5 DEF OneLiveRequest, Superseded, Same
    <3>8. InFlightIsComing'
      BY <1>inv, <2>1, <2>4, <3>4, <3>5 DEF InFlightIsComing, InFlight
    <3> QED
      BY <1>inv, <2>1, <2>3, <3>6, <3>7, <3>8 DEF SubsInv
  <2>7. CASE ~Current(r.job)
    BY <1>13, <1>inv, <2>1, <2>3, <2>4, <2>7, Kept DEF Answer, SubsInv
  <2> QED
    BY <2>6, <2>7
<1>14. ASSUME NEW answer \in answers, Call(answer) PROVE SubsInv'
  BY <1>14, <1>inv, <1>keep DEF Call, uiVars, engineVars
<1>15. CASE UNCHANGED vars
  BY <1>15, <1>inv, <1>keep DEF vars, uiVars, engineVars
<1> QED
  BY <1>1, <1>2, <1>3, <1>4, <1>5, <1>6, <1>7, <1>8, <1>9, <1>10, <1>11, <1>12,
     <1>13, <1>14, <1>15 DEF Next

\* The subscriptions know of exactly the requests that are on their way.
THEOREM SubsKnow == Spec => []SubsInv
BY InitTyped, InitSubs, NextTyped, NextSubs, PTL DEF Spec

\* However requests, refreshes, ends and answers interleave, at most one
\* request of a subscription is not cancelled, and it is the current one; of
\* an ended subscription there is none.
THEOREM OneRequest == Spec => []OneLiveRequest
<1>1. SubsInv => OneLiveRequest
  BY DEF SubsInv
<1> QED
  BY <1>1, SubsKnow, PTL

\* No request reaches the engine twice or is answered twice.
THEOREM NoRequestTwice == Spec => []RequestsAreOnce
<1>1. SubsInv => RequestsAreOnce
  BY DEF SubsInv
<1> QED
  BY <1>1, SubsKnow, PTL

\* A subscription that is loading or refreshing has its current request on its
\* way: nothing is superseded, dropped or ended without the state saying so.
THEOREM WaitsEnd == Spec => []WaitsAreAnswered
<1>1. SubsInv => WaitsAreAnswered
  BY DEF SubsInv, InFlightIsComing, WaitsAreAnswered
<1> QED
  BY <1>1, SubsKnow, PTL

-----------------------------------------------------------------------------
(* The invariant.                                                           *)

\* The subscription is live and at this version.
At(id, version) == id \in DOMAIN entries /\ entries[id].state.version = version

\* A state that answers a request, rather than announces it.
Settled(state) == state.phase \in {"ready", "failed"}

\* The requests whose state is still to be shown.
Sent == (IF asking = None THEN {} ELSE {asking}) \cup telling

\* A current request is not cancelled, asks for the current parameters, and
\* announces the state its subscription is in; a refresh asks once.
TicketsFit ==
  /\ \A id \in DOMAIN entries :
        /\ [id |-> id, version |-> entries[id].state.version] \notin cancelled
        /\ entries[id].inFlight # None => entries[id].params \in Params
  /\ \A job \in Tickets : At(job.id, job.version) => job.params = entries[job.id].params
  /\ \A s \in Sent :
        /\ s.state.version = s.job.version /\ ~Settled(s.state)
        /\ At(s.job.id, s.job.version) => s.state = entries[s.job.id].state
  /\ \A s, t \in telling : s.job.id = t.job.id => s = t

\* What a view has or gets is not of a later version than its subscription,
\* and an answer of its version is the answer it holds.
Fits(id, state) ==
  id \in DOMAIN entries =>
    /\ state.version <= entries[id].state.version
    /\ state.version = entries[id].state.version /\ Settled(state)
          => state = entries[id].state

StatesFit ==
  /\ \A post \in answers \cup ToSet(inbox) : post.id <= next /\ Fits(post.id, post.state)
  /\ \A post \in answers : Settled(post.state)
  /\ \A id \in DOMAIN views : Fits(id, views[id])

PostOf(id) == [id |-> id, state |-> entries[id].state]

\* The state of a subscription is on its way to its view.
Coming(id) ==
  \/ PostOf(id) \in answers \cup ToSet(inbox)
  \/ asking # None /\ asking.job.id = id /\ asking.state = entries[id].state
  \/ \E s \in telling :
        s.job.id = id /\ s.state = entries[id].state /\ ~(shown /\ NextTold(s))

\* A view has the state of its subscription, or gets it; and when another of
\* the same version is still in its inbox, the right one comes after it.
LastComes ==
  /\ \A id \in DOMAIN entries \cap DOMAIN views : views[id] = entries[id].state \/ Coming(id)
  /\ \A i \in DOMAIN inbox :
        At(inbox[i].id, inbox[i].state.version) /\ inbox[i].state # entries[inbox[i].id].state =>
          \/ PostOf(inbox[i].id) \in answers
          \/ \E j \in DOMAIN inbox : j > i /\ inbox[j] = PostOf(inbox[i].id)

\* An answer is about the parameters of its subscription and saw the latest
\* value of the field, and so does the provider that works on the next one,
\* unless a change has just come and its refresh is due.
AnswersFit ==
  /\ \A id \in DOMAIN entries : entries[id].state.phase = "ready" =>
        /\ entries[id].state.data \in Data
        /\ entries[id].state.data.params = entries[id].params
        /\ entries[id].query \in Reading /\ ~due => entries[id].state.data.seen = field
  /\ \A r \in running :
        At(r.job.id, r.job.version) /\ entries[r.job.id].query \in Reading /\ ~due
          => r.seen = field

ViewsInv == TicketsFit /\ StatesFit /\ LastComes /\ AnswersFit

-----------------------------------------------------------------------------
(* What the steps do to the subscriptions.                                  *)

\* What is known of the values the steps are about.
LEMMA Typed ==
  ASSUME TypeOK
  PROVE  /\ next \in Nat /\ DOMAIN entries \subseteq 1..next /\ DOMAIN views \subseteq 1..next
         /\ \A id \in DOMAIN entries :
              /\ id \in Ids /\ entries[id] \in Entry /\ entries[id].state \in State
              /\ entries[id].state.version \in Nat
         /\ \A id \in DOMAIN views : views[id] \in State /\ views[id].version \in Nat
         /\ \A job \in Tickets : job \in Job /\ job.id \in Ids /\ job.version \in Nat
         /\ \A t \in cancelled : t.id \in Ids /\ t.version \in Nat
         /\ \A s \in Sent : s.job \in Job /\ s.state \in State /\ s.job \in Tickets
         /\ \A post \in answers \cup ToSet(inbox) :
              post \in Post /\ post.id \in Ids /\ post.state \in State /\ post.state.version \in Nat
         /\ Ids \subseteq Nat
<1>1. next \in Nat /\ Ids \subseteq Nat
  BY QueryAssumption DEF TypeOK, Ids
<1>2. \A id \in DOMAIN entries :
        /\ id \in Ids /\ entries[id] \in Entry /\ entries[id].state \in State
        /\ entries[id].state.version \in Nat
  BY QueryAssumption DEF TypeOK, Entry, State, Ids
<1>3. \A job \in Tickets : job \in Job /\ job.id \in Ids /\ job.version \in Nat
  BY TicketsTyped DEF Job
<1>4. \A s \in Sent : s.job \in Job /\ s.state \in State /\ s.job \in Tickets
  BY DEF TypeOK, Sent, Sending, Tickets, Asked, Told
<1>5. \A post \in answers \cup ToSet(inbox) : post \in Post
  BY LenProperties, ElementOfSeq DEF TypeOK, ToSet
<1>6. \A post \in Post : post.id \in Ids /\ post.state \in State /\ post.state.version \in Nat
  BY DEF Post, State
<1>7. \A t \in cancelled : t.id \in Ids /\ t.version \in Nat
  BY DEF TypeOK, Ticket
<1>8. \A id \in DOMAIN views : views[id] \in State /\ views[id].version \in Nat
  BY DEF TypeOK, State
<1> QED
  BY <1>1, <1>2, <1>3, <1>4, <1>5, <1>6, <1>7, <1>8 DEF TypeOK

\* Subscriptions that ask anew: later versions, and what is to be sent.
RenewedAs(ids, new) ==
  /\ ids \subseteq DOMAIN entries /\ DOMAIN entries' = DOMAIN entries
  /\ \A id \in ids :
        /\ entries'[id].state.version = entries[id].state.version + 1
        /\ entries'[id].inFlight = entries'[id].state.version
        /\ entries'[id].state.phase \in {"loading", "refreshing"}
        /\ entries'[id].params \in Params
        /\ entries'[id].query = entries[id].query
        /\ \E s \in new : s.job.id = id
  /\ \A id \in DOMAIN entries \ ids : entries'[id] = entries[id]
  /\ cancelled' = cancelled \cup UNION {InFlight(id) : id \in ids}
  /\ \A s \in new :
        /\ s.job.id \in ids
        /\ s.job.version = entries'[s.job.id].state.version
        /\ s.job.params = entries'[s.job.id].params
        /\ s.state = entries'[s.job.id].state

\* A request asks anew for one subscription.
LEMMA RequestRenews ==
  ASSUME TypeOK, NEW id \in Ids, NEW params \in Params, Request(id, params)
  PROVE  /\ RenewedAs({id}, {asking'})
         /\ asking = None /\ asking' # None
         /\ UNCHANGED <<next, due, field, telling, shown, jobs, running, answers, inbox, views>>
<1>1. /\ entries' = [entries EXCEPT ![id] = Requested(entries[id], params)]
      /\ id \in DOMAIN entries /\ entries[id] \in Entry
      /\ cancelled' = cancelled \cup InFlight(id)
      /\ asking = None /\ asking' = SendingOf(id, entries'[id])
      /\ UNCHANGED <<next, due, field, telling, shown, jobs, running, answers, inbox, views>>
  BY DEF Request, TypeOK, engineVars
<1>2. /\ entries'[id] \in Entry /\ entries'[id].params = params
      /\ entries'[id].query = entries[id].query
      /\ entries'[id].state.version = entries[id].state.version + 1
      /\ entries'[id].inFlight = entries'[id].state.version
      /\ entries'[id].state.phase \in {"loading", "refreshing"}
  BY <1>1, RequestMade
<1>3. /\ asking' \in Sending /\ asking'.job.id = id
      /\ asking'.job.version = entries'[id].state.version
      /\ asking'.job.params = params /\ asking'.state = entries'[id].state
  BY <1>1, <1>2, ToSend, QueryAssumption DEF SendingOf
<1> QED
  BY <1>1, <1>2, <1>3, NoneAssumption DEF RenewedAs

\* A refresh asks anew for every subscription it is stale for.
LEMMA RefreshRenews ==
  ASSUME TypeOK, Refresh
  PROVE  /\ RenewedAs(Stale, telling')
         /\ \A s, t \in telling' : s.job.id = t.job.id => s = t
         /\ due /\ due' = FALSE /\ shown' = FALSE
         /\ UNCHANGED <<next, field, asking, jobs, running, answers, inbox, views>>
<1>1. /\ DOMAIN entries' = DOMAIN entries /\ Stale \subseteq DOMAIN entries
      /\ \A id \in Stale : entries'[id] = Requested(entries[id], entries[id].params)
      /\ \A id \in DOMAIN entries \ Stale : entries'[id] = entries[id]
      /\ cancelled' = cancelled \cup UNION {InFlight(id) : id \in Stale}
      /\ telling' = {SendingOf(id, entries'[id]) : id \in Stale}
      /\ due /\ due' = FALSE /\ shown' = FALSE
      /\ UNCHANGED <<next, field, asking, jobs, running, answers, inbox, views>>
  BY DEF Refresh, uiVars, Stale
<1>2. \A id \in Stale : /\ id \in Ids /\ entries[id] \in Entry
                       /\ entries[id].params \in Params
  BY QueryAssumption DEF Stale, TypeOK, Entry, Ids
<1>3. \A id \in Stale :
        /\ entries'[id] \in Entry /\ entries'[id].params = entries[id].params
        /\ entries'[id].query = entries[id].query
        /\ entries'[id].state.version = entries[id].state.version + 1
        /\ entries'[id].inFlight = entries'[id].state.version
        /\ entries'[id].state.phase \in {"loading", "refreshing"}
  BY <1>1, <1>2, RequestMade
<1>4. \A id \in Stale :
        /\ SendingOf(id, entries'[id]).job.id = id
        /\ SendingOf(id, entries'[id]).job.version = entries'[id].state.version
        /\ SendingOf(id, entries'[id]).job.params = entries'[id].params
        /\ SendingOf(id, entries'[id]).state = entries'[id].state
  BY DEF SendingOf
<1>5. \A s \in telling' :
        /\ s.job.id \in Stale /\ s = SendingOf(s.job.id, entries'[s.job.id])
        /\ s.job.version = entries'[s.job.id].state.version
        /\ s.job.params = entries'[s.job.id].params
        /\ s.state = entries'[s.job.id].state
  BY <1>1, <1>4
<1>6. \A id \in Stale : \E s \in telling' : s.job.id = id
  BY <1>1, <1>4
<1>7. \A s, t \in telling' : s.job.id = t.job.id => s = t
  BY <1>5
<1> QED
  BY <1>1, <1>2, <1>3, <1>5, <1>6, <1>7 DEF RenewedAs

\* A request that is answered: the subscription waited for it and settles.
LEMMA AnswerSettles ==
  ASSUME TypeOK, SubsInv, TicketsFit, NEW r \in running, Answer(r), Current(r.job)
  PROVE  LET id == r.job.id IN
         /\ id \in DOMAIN entries /\ DOMAIN entries' = DOMAIN entries
         /\ \A i \in DOMAIN entries : i # id => entries'[i] = entries[i]
         /\ entries[id].state.version = r.job.version
         /\ ~Settled(entries[id].state) /\ entries[id].inFlight = r.job.version
         /\ entries'[id].state.version = r.job.version
         /\ entries'[id].inFlight = None
         /\ entries'[id].params = entries[id].params /\ entries[id].params = r.job.params
         /\ entries'[id].query = entries[id].query
         /\ Settled(entries'[id].state)
         /\ entries'[id].state.phase = "ready" =>
               /\ entries'[id].state.data \in Data
               /\ entries'[id].state.data.params = r.job.params
               /\ entries'[id].state.data.seen = r.seen
         /\ answers' = answers \cup {PostOf(id)'}
<1> DEFINE id == r.job.id
<1>1. PICK data \in {None, [params |-> r.job.params, seen |-> r.seen]} :
        /\ entries' = [entries EXCEPT ![id] = Resolved(entries[id], data)]
        /\ answers' = answers \cup {[id |-> id, state |-> entries'[id].state]}
  BY DEF Answer
<1>2. id \in DOMAIN entries /\ entries[id].state.version = r.job.version
  BY DEF Current
<1>3. /\ [params |-> r.job.params, seen |-> r.seen] \in Data
      /\ data \in Data \cup {None} /\ entries[id] \in Entry
  BY <1>1, <1>2 DEF TypeOK, Data, Job
<1>4. r.job \in Tickets
  BY DEF Tickets, Answering
<1>5. entries[id].inFlight = r.job.version
  BY <1>4 DEF SubsInv, OneLiveRequest, Current
<1>6. r.job.version # None
  BY <1>4, Typed, QueryAssumption
<1>7. ~Settled(entries[id].state)
  BY <1>2, <1>5, <1>6 DEF SubsInv, InFlightIsComing, Settled
<1>8. entries[id].params = r.job.params
  BY <1>2, <1>4 DEF TicketsFit, At
<1>9. entries'[id] = Resolved(entries[id], data)
  BY <1>1, <1>2
<1>10. /\ Resolved(entries[id], data).state.version = entries[id].state.version
       /\ Resolved(entries[id], data).inFlight = None
       /\ Resolved(entries[id], data).params = entries[id].params
       /\ Resolved(entries[id], data).query = entries[id].query
       /\ Settled(Resolved(entries[id], data).state)
       /\ Resolved(entries[id], data).state.phase = "ready" =>
             data # None /\ Resolved(entries[id], data).state.data = data
  BY <1>3 DEF Resolved, Entry, State, Settled
<1> QED
  BY <1>1, <1>2, <1>3, <1>5, <1>7, <1>8, <1>9, <1>10 DEF PostOf

\* A view that is mounted starts a subscription nobody has asked anything yet.
LEMMA MountStarts ==
  ASSUME TypeOK, Mount
  PROVE  /\ next' = next + 1 /\ next' \notin DOMAIN entries /\ next' \notin DOMAIN views
         /\ DOMAIN entries' = DOMAIN entries \cup {next'}
         /\ DOMAIN views' = DOMAIN views \cup {next'}
         /\ \A id \in DOMAIN entries : entries'[id] = entries[id]
         /\ \A id \in DOMAIN views : views'[id] = views[id]
         /\ entries'[next'].state = Idle /\ entries'[next'].inFlight = None
         /\ views'[next'] = Idle
         /\ UNCHANGED <<cancelled, asking, field, due, telling, shown, jobs, running,
                       answers, inbox>>
<1>1. next' = next + 1 /\ next' \notin DOMAIN entries /\ next' \notin DOMAIN views
  BY Typed DEF Mount
<1> QED
  BY <1>1 DEF Mount, engineVars

-----------------------------------------------------------------------------
(* Requests.                                                                *)

\* At first no request is on its way.
LEMMA InitTickets == Init => TicketsFit
<1> SUFFICES ASSUME Init PROVE TicketsFit
  OBVIOUS
<1>1. /\ asking = None /\ telling = {} /\ running = {} /\ DOMAIN jobs = {}
      /\ DOMAIN entries = {}
  BY DEF Init
<1>2. Tickets = {} /\ Sent = {}
  BY <1>1 DEF Tickets, Asked, Told, Answering, ToSet, Sent
<1> QED
  BY <1>1, <1>2 DEF TicketsFit

\* Nothing is asked and no subscription changes.
LEMMA TicketsStay ==
  ASSUME TicketsFit, UNCHANGED <<entries, cancelled>>,
         Tickets' \subseteq Tickets, Sent' \subseteq Sent, telling' \subseteq telling
  PROVE  TicketsFit'
BY DEF TicketsFit, At

\* Where the requests are when none of them moves.
LEMMA NoneMoves ==
  ASSUME UNCHANGED <<asking, telling, jobs, running>>
  PROVE  Tickets' = Tickets /\ Sent' = Sent
BY DEF Tickets, Asked, Told, Answering, ToSet, Sent

\* Ending subscriptions leaves the requests of the others fitting.
LEMMA TicketsOfEnded ==
  ASSUME TypeOK, TicketsFit, NEW ids, End(ids),
         UNCHANGED <<asking, telling, jobs, running>>
  PROVE  TicketsFit'
<1>1. Tickets' = Tickets /\ Sent' = Sent
  BY NoneMoves
<1>2. /\ DOMAIN entries' = DOMAIN entries \ ids
      /\ \A id \in DOMAIN entries' : entries'[id] = entries[id]
      /\ cancelled' = cancelled \cup UNION {InFlight(id) : id \in ids \cap DOMAIN entries}
  BY DEF End
<1>3. \A t \in cancelled' \ cancelled : t.id \notin DOMAIN entries'
  BY <1>2 DEF InFlight
<1>4. ASSUME NEW id \in DOMAIN entries' PROVE [id |-> id, version |-> entries[id].state.version] \notin cancelled'
  BY <1>2, <1>3 DEF TicketsFit
<1> QED
  BY <1>1, <1>2, <1>4 DEF TicketsFit, At

\* Asking anew leaves fitting requests.
LEMMA TicketsOfRenewed ==
  ASSUME TypeOK, SubsInv, TicketsFit, NEW ids, NEW new, RenewedAs(ids, new),
         Tickets' = Tickets \cup {s.job : s \in new}, Sent' \subseteq Sent \cup new,
         \A s, t \in telling' : s.job.id = t.job.id => s = t
  PROVE  TicketsFit'
<1>1. /\ ids \subseteq DOMAIN entries /\ DOMAIN entries' = DOMAIN entries
      /\ \A id \in ids :
            /\ entries'[id].state.version = entries[id].state.version + 1
            /\ entries'[id].state.phase \in {"loading", "refreshing"}
            /\ entries'[id].params \in Params
      /\ \A id \in DOMAIN entries \ ids : entries'[id] = entries[id]
      /\ cancelled' = cancelled \cup UNION {InFlight(id) : id \in ids}
      /\ \A s \in new :
            /\ s.job.id \in ids
            /\ s.job.version = entries'[s.job.id].state.version
            /\ s.job.params = entries'[s.job.id].params
            /\ s.state = entries'[s.job.id].state
  BY DEF RenewedAs
<1>2. \A id \in DOMAIN entries : entries[id].state.version \in Nat
  BY Typed
<1>3. \A t \in Tickets \cup cancelled :
         /\ t.version \in Nat
         /\ t.id \in DOMAIN entries => t.version <= entries[t.id].state.version
  BY Typed DEF SubsInv, TicketsArePast
<1>4. \A t \in cancelled' \ cancelled :
         t.id \in ids /\ t.version = entries[t.id].state.version
  BY <1>1 DEF InFlight, SubsInv, InFlightIsComing
<1>5. ASSUME NEW id \in DOMAIN entries
      PROVE  /\ [id |-> id, version |-> entries'[id].state.version] \notin cancelled'
             /\ entries'[id].inFlight # None => entries'[id].params \in Params
  <2>1. CASE id \in ids
    <3>1. \A t \in cancelled' : t.id = id => t.version # entries'[id].state.version
      BY <1>1, <1>2, <1>3, <1>4, <2>1
    <3> QED
      BY <1>1, <2>1, <3>1
  <2>2. CASE id \notin ids
    BY <1>1, <1>4, <2>2 DEF TicketsFit
  <2> QED
    BY <2>1, <2>2
<1>6. \A t \in Tickets : At(t.id, t.version)' => At(t.id, t.version) /\ t.id \notin ids
  BY <1>1, <1>2, <1>3 DEF At
<1>7. ASSUME NEW job \in Tickets', At(job.id, job.version)'
      PROVE  job.params = entries'[job.id].params
  <2>1. CASE job \in Tickets
    BY <1>1, <1>6, <1>7, <2>1 DEF TicketsFit, At
  <2>2. CASE job \in {s.job : s \in new}
    BY <1>1, <2>2
  <2> QED
    BY <2>1, <2>2
<1>8. ASSUME NEW s \in Sent'
      PROVE  /\ s.state.version = s.job.version /\ ~Settled(s.state)
             /\ At(s.job.id, s.job.version)' => s.state = entries'[s.job.id].state
  <2>1. CASE s \in Sent
    <3>1. s.job \in Tickets
      BY <2>1, Typed
    <3> QED
      BY <1>1, <1>6, <2>1, <3>1 DEF TicketsFit, At
  <2>2. CASE s \in new
    BY <1>1, <2>2 DEF Settled
  <2> QED
    BY <1>8, <2>1, <2>2
<1> QED
  BY <1>1, <1>5, <1>7, <1>8 DEF TicketsFit

\* Every step keeps the requests fitting their subscriptions.
LEMMA NextTickets == TypeOK /\ SubsInv /\ TicketsFit /\ [Next]_vars => TicketsFit'
<1> SUFFICES ASSUME TypeOK, SubsInv, TicketsFit, [Next]_vars PROVE TicketsFit'
  OBVIOUS
<1>once. RequestsAreOnce
  BY DEF SubsInv
<1>calm. ASSUME UNCHANGED <<entries, cancelled, asking, telling, jobs, running>>
         PROVE  TicketsFit'
  BY <1>calm, NoneMoves, TicketsStay
<1>1. CASE OpenWindow \/ Receive \/ Change
  BY <1>1, <1>calm DEF OpenWindow, Receive, Change, uiVars, engineVars
<1>2. CASE CloseWindow
  BY <1>2, TicketsOfEnded DEF CloseWindow, engineVars
<1>3. CASE Mount
  <2>1. Tickets' = Tickets /\ Sent' = Sent
    BY <1>3, MountStarts, NoneMoves
  <2>2. \A t \in Tickets \cup cancelled : t.id # next'
    BY <1>3, MountStarts, Typed DEF SubsInv, TicketsArePast
  <2>3. \A s \in Sent : s.job.id # next'
    BY <2>2, Typed
  <2> QED
    BY <1>3, <2>1, <2>2, <2>3, MountStarts DEF TicketsFit, At
<1>4. ASSUME NEW id \in Ids, Unmount(id) PROVE TicketsFit'
  BY <1>4, TicketsOfEnded DEF Unmount, engineVars
<1>5. ASSUME NEW id \in Ids, NEW params \in Params, Request(id, params) PROVE TicketsFit'
  <2>1. /\ RenewedAs({id}, {asking'}) /\ asking = None /\ asking' # None
        /\ UNCHANGED <<telling, jobs, running>>
    BY <1>5, RequestRenews
  <2>2. Tickets' = Tickets \cup {asking'.job} /\ Sent' = Sent \cup {asking'}
    BY <2>1 DEF Tickets, Asked, Told, Answering, ToSet, Sent
  <2>3. {asking'.job} = {s.job : s \in {asking'}}
    OBVIOUS
  <2>4. \A s, t \in telling' : s.job.id = t.job.id => s = t
    BY <2>1 DEF TicketsFit
  <2> QED
    BY <2>1, <2>2, <2>3, <2>4, TicketsOfRenewed
<1>6. CASE SendRequest
  <2>1. /\ asking # None /\ asking' = None /\ jobs' = Append(jobs, asking.job)
        /\ UNCHANGED <<entries, cancelled, telling, running>>
    BY <1>6 DEF SendRequest, engineVars
  <2>2. Asked = {asking.job} /\ Asked' = {}
    BY <2>1 DEF Asked
  <2>3. Tickets' = Tickets
    BY <1>once, <2>1, <2>2, Queued
  <2>4. Sent' \subseteq Sent
    BY <2>1 DEF Sent
  <2> QED
    BY <2>1, <2>3, <2>4, TicketsStay
<1>7. CASE Refresh
  <2>1. /\ RenewedAs(Stale, telling') /\ UNCHANGED <<asking, jobs, running>> /\ due
        /\ \A s, t \in telling' : s.job.id = t.job.id => s = t
    BY <1>7, RefreshRenews
  <2>2. telling = {}
    BY <2>1 DEF SubsInv
  <2>3. Tickets' = Tickets \cup {s.job : s \in telling'} /\ Sent' = Sent \cup telling'
    BY <2>1, <2>2 DEF Tickets, Asked, Told, Answering, ToSet, Sent
  <2> QED
    BY <2>1, <2>3, TicketsOfRenewed
<1>8. ASSUME NEW s \in telling, ShowRefresh(s) PROVE TicketsFit'
  BY <1>8, <1>calm DEF ShowRefresh
<1>9. ASSUME NEW s \in telling, SendRefresh(s) PROVE TicketsFit'
  <2>1. /\ jobs' = Append(jobs, s.job) /\ telling' = telling \ {s}
        /\ UNCHANGED <<entries, cancelled, asking, running>>
    BY <1>9 DEF SendRefresh
  <2>2. Asked' = Asked /\ s.job \in Told
    BY <2>1 DEF Asked, Told
  <2>3. Tickets' = Tickets
    BY <1>once, <2>1, <2>2, Queued
  <2>4. Sent' \subseteq Sent
    BY <2>1 DEF Sent
  <2> QED
    BY <2>1, <2>3, <2>4, TicketsStay
<1>10. CASE RunQuery
  <2>1. /\ jobs # <<>> /\ jobs' = Tail(jobs)
        /\ Superseded(Head(jobs)) => running' = running
        /\ ~Superseded(Head(jobs)) =>
              running' = running \cup {[job |-> Head(jobs), seen |-> field]}
        /\ UNCHANGED <<entries, cancelled, asking, telling>>
    BY <1>10 DEF RunQuery, engineVars
  <2>2. Tickets' \subseteq Tickets
    BY <1>once, <2>1, Taken
  <2>3. Sent' = Sent
    BY <2>1 DEF Sent
  <2> QED
    BY <2>1, <2>2, <2>3, TicketsStay
<1>11. ASSUME NEW r \in running, Answer(r) PROVE TicketsFit'
  <2>1. /\ running' = running \ {r} /\ UNCHANGED <<cancelled, asking, telling, jobs>>
    BY <1>11 DEF Answer, engineVars
  <2>2. Tickets' \subseteq Tickets /\ Sent' = Sent
    BY <2>1 DEF Tickets, Asked, Told, Answering, ToSet, Sent
  <2>3. CASE ~Current(r.job)
    BY <1>11, <2>1, <2>2, <2>3, TicketsStay DEF Answer
  <2>4. CASE Current(r.job)
    <3> DEFINE id == r.job.id
    <3>1. /\ id \in DOMAIN entries /\ DOMAIN entries' = DOMAIN entries
          /\ \A i \in DOMAIN entries : i # id => entries'[i] = entries[i]
          /\ entries[id].state.version = r.job.version
          /\ entries'[id].state.version = r.job.version
          /\ entries'[id].inFlight = None
          /\ entries'[id].params = entries[id].params
      BY <1>11, <2>4, AnswerSettles
    <3>2. \A s \in Sent : ~Same(s.job, r.job)
      <4>1. r.job \in Answering
        BY DEF Answering
      <4>2. \A s \in Sent : s.job \in Asked \cup Told
        BY DEF Sent, Asked, Told
      <4> QED
        BY <1>once, <4>1, <4>2 DEF RequestsAreOnce
    <3>3. \A s \in Sent' : At(s.job.id, s.job.version)' => s.state = entries'[s.job.id].state
      BY <2>2, <3>1, <3>2 DEF TicketsFit, At, Same
    <3>4. \A job \in Tickets' : At(job.id, job.version)' => job.params = entries'[job.id].params
      BY <2>2, <3>1 DEF TicketsFit, At
    <3>5. \A i \in DOMAIN entries' :
            /\ [id |-> i, version |-> entries'[i].state.version] \notin cancelled'
            /\ entries'[i].inFlight # None => entries'[i].params \in Params
      BY <2>1, <3>1 DEF TicketsFit
    <3> QED
      BY <2>1, <2>2, <3>3, <3>4, <3>5 DEF TicketsFit
  <2> QED
    BY <2>3, <2>4
<1>12. ASSUME NEW answer \in answers, Call(answer) PROVE TicketsFit'
  BY <1>12, <1>calm DEF Call, engineVars
<1>13. CASE UNCHANGED vars
  BY <1>13, <1>calm DEF vars, engineVars
<1> QED
  BY <1>1, <1>2, <1>3, <1>4, <1>5, <1>6, <1>7, <1>8, <1>9, <1>10, <1>11, <1>12,
     <1>13 DEF Next

-----------------------------------------------------------------------------
(* States on their way.                                                     *)

\* At first no state is on its way.
LEMMA InitStates == Init => StatesFit
<1> SUFFICES ASSUME Init PROVE StatesFit
  OBVIOUS
<1>1. answers = {} /\ DOMAIN inbox = {} /\ DOMAIN views = {}
  BY DEF Init
<1>2. ToSet(inbox) = {}
  BY <1>1 DEF ToSet
<1> QED
  BY <1>1, <1>2 DEF StatesFit

\* What the frontend has put into its inbox.
LEMMA InboxGrows ==
  ASSUME TypeOK, NEW post \in Post, inbox' = Append(inbox, post)
  PROVE  /\ ToSet(inbox)' = ToSet(inbox) \cup {post}
         /\ DOMAIN inbox = 1..Len(inbox) /\ Len(inbox) \in Nat
         /\ DOMAIN inbox' = 1..(Len(inbox) + 1)
         /\ \A i \in DOMAIN inbox : inbox'[i] = inbox[i]
         /\ inbox'[Len(inbox) + 1] = post
<1>1. inbox \in Seq(Post) /\ ToSet(inbox)' = ToSet(Append(inbox, post))
  BY DEF TypeOK, ToSet
<1> QED
  BY <1>1, Appended

\* What a state that is shown does to the views.
LEMMA Shown ==
  ASSUME TypeOK, NEW id, NEW state, views' = Show(id, state)
  PROVE  /\ DOMAIN views' = DOMAIN views
         /\ \A i \in DOMAIN views : i # id => views'[i] = views[i]
         /\ id \in DOMAIN views /\ state.version >= views[id].version => views'[id] = state
         /\ id \in DOMAIN views /\ ~(state.version >= views[id].version) => views'[id] = views[id]
BY DEF Show

\* Requests that are still to be shown announce what their subscription is in.
LEMMA SentFits ==
  ASSUME TypeOK, SubsInv, TicketsFit, NEW s \in Sent
  PROVE  Fits(s.job.id, s.state)
<1>1. s.state.version = s.job.version /\ ~Settled(s.state) /\ s.job \in Tickets
  BY Typed DEF TicketsFit
<1> QED
  BY <1>1 DEF Fits, SubsInv, TicketsArePast

\* Every step keeps the reported states fitting their subscriptions.
LEMMA NextStates ==
  TypeOK /\ SubsInv /\ TicketsFit /\ StatesFit /\ [Next]_vars => StatesFit'
<1> SUFFICES ASSUME TypeOK, SubsInv, TicketsFit, StatesFit, [Next]_vars PROVE StatesFit'
  OBVIOUS
<1> DEFINE posts == answers \cup ToSet(inbox)
<1>types. /\ next \in Nat /\ Ids \subseteq Nat
          /\ \A id \in DOMAIN entries : entries[id].state.version \in Nat
          /\ \A id \in DOMAIN views : views[id].version \in Nat
          /\ \A post \in posts : post.id \in Ids /\ post.state.version \in Nat /\ post \in Post
  BY Typed
\* The subscriptions go on or end, and what is shown or on its way was before.
<1>calm. ASSUME next' = next, DOMAIN entries' \subseteq DOMAIN entries,
                \A id \in DOMAIN entries' : entries'[id] = entries[id],
                answers' \subseteq answers, ToSet(inbox)' \subseteq posts,
                DOMAIN views' \subseteq DOMAIN views,
                \A id \in DOMAIN views' :
                    views'[id] = views[id] \/ Fits(id, views'[id])
         PROVE  StatesFit'
  BY <1>calm DEF StatesFit, Fits
<1>box. ASSUME inbox' = inbox PROVE ToSet(inbox)' = ToSet(inbox)
  BY <1>box DEF ToSet
<1>1. CASE OpenWindow \/ Change \/ RunQuery
  BY <1>1, <1>calm, <1>box DEF OpenWindow, Change, RunQuery, uiVars
<1>2. CASE CloseWindow
  BY <1>2, <1>calm, <1>box DEF CloseWindow, End
<1>3. CASE Mount
  <2>1. PICK new : new = next'
    OBVIOUS
  <2>2. /\ ToSet(inbox)' = ToSet(inbox) /\ answers' = answers
        /\ next' = new /\ new = next + 1 /\ DOMAIN entries' = DOMAIN entries \cup {new}
        /\ DOMAIN views' = DOMAIN views \cup {new}
        /\ \A id \in DOMAIN entries : entries'[id] = entries[id]
        /\ \A id \in DOMAIN views : views'[id] = views[id] /\ id # new
        /\ entries'[new].state = Idle /\ views'[new] = Idle
    BY <1>3, <1>box, <2>1, MountStarts
  <2>3. ASSUME NEW post \in posts
        PROVE  post.id <= next' /\ post.id # new /\ Fits(post.id, post.state)
    <3>1. post.id <= next /\ post.id \in Nat /\ Fits(post.id, post.state)
      BY <1>types DEF StatesFit
    <3> QED
      BY <1>types, <2>2, <3>1
  <2>4. Idle.version = 0 /\ ~Settled(Idle)
    BY DEF Idle, Settled
  <2>5. Fits(new, Idle)'
    BY <2>2, <2>4 DEF Fits
  <2>6. \A id, state : id # new /\ Fits(id, state) => Fits(id, state)'
    BY <2>2 DEF Fits
  <2> QED
    BY <2>2, <2>3, <2>5, <2>6 DEF StatesFit
<1>4. ASSUME NEW id \in Ids, Unmount(id) PROVE StatesFit'
  BY <1>4, <1>calm, <1>box DEF Unmount, End, uiVars
\* A state of an earlier version stays one.
<1>renewed. ASSUME NEW ids, NEW new, RenewedAs(ids, new),
                   UNCHANGED <<next, answers, inbox, views>>
            PROVE  StatesFit'
  <2>1. \A id \in DOMAIN entries' : id \in DOMAIN entries /\
           \/ entries'[id] = entries[id]
           \/ entries'[id].state.version = entries[id].state.version + 1
    BY <1>renewed DEF RenewedAs
  <2>2. \A id, state : state.version \in Nat /\ Fits(id, state) => Fits(id, state)'
    BY <2>1, <1>types DEF Fits
  <2>3. ToSet(inbox)' = ToSet(inbox)
    BY <1>renewed, <1>box
  <2> QED
    BY <1>renewed, <2>2, <2>3, <1>types DEF StatesFit
<1>5. ASSUME NEW id \in Ids, NEW params \in Params, Request(id, params) PROVE StatesFit'
  BY <1>5, <1>renewed, RequestRenews
<1>6. CASE SendRequest
  <2>1. /\ asking \in Sent /\ views' = Show(asking.job.id, asking.state)
        /\ UNCHANGED <<next, entries, answers, inbox>>
    BY <1>6 DEF SendRequest, Sent, uiVars
  <2> QED
    BY <2>1, <1>calm, <1>box, Shown, SentFits
<1>7. CASE Receive
  <2>1. /\ inbox # <<>> /\ inbox' = Tail(inbox)
        /\ views' = Show(Head(inbox).id, Head(inbox).state)
        /\ UNCHANGED <<next, entries, answers>>
    BY <1>7 DEF Receive, uiVars
  <2>2. Head(inbox) \in ToSet(inbox) /\ ToSet(inbox)' \subseteq ToSet(inbox)
    <3>1. ToSet(inbox) = ToSet(Tail(inbox)) \cup {Head(inbox)}
      BY <2>1, Tailed DEF TypeOK
    <3>2. ToSet(inbox)' = ToSet(Tail(inbox))
      BY <2>1 DEF ToSet
    <3> QED
      BY <3>1, <3>2
  <2>3. Fits(Head(inbox).id, Head(inbox).state)
    BY <2>2 DEF StatesFit
  <2> QED
    BY <2>1, <2>2, <2>3, <1>calm, Shown
<1>8. CASE Refresh
  BY <1>8, <1>renewed, RefreshRenews
<1>9. ASSUME NEW s \in telling, ShowRefresh(s) PROVE StatesFit'
  <2> DEFINE post == [id |-> s.job.id, state |-> s.state]
  <2>1. s \in Sent /\ post \in Post
    BY Typed DEF Sent, Post, Job
  <2>2. /\ inbox' = Append(inbox, post) /\ UNCHANGED <<next, entries, answers, views>>
    BY <1>9 DEF ShowRefresh, uiVars
  <2>3. ToSet(inbox)' = ToSet(inbox) \cup {post}
    BY <2>1, <2>2, InboxGrows
  <2>4. post.id <= next /\ Fits(post.id, post.state)
    BY <2>1, SentFits, Typed DEF SubsInv, TicketsArePast
  <2> QED
    BY <2>2, <2>3, <2>4 DEF StatesFit, Fits
<1>10. ASSUME NEW s \in telling, SendRefresh(s) PROVE StatesFit'
  BY <1>10, <1>calm, <1>box DEF SendRefresh, uiVars
<1>11. ASSUME NEW r \in running, Answer(r) PROVE StatesFit'
  <2>1. UNCHANGED <<next, inbox, views>>
    BY <1>11 DEF Answer, uiVars
  <2>2. CASE ~Current(r.job)
    BY <1>11, <1>calm, <1>box, <2>2 DEF Answer, uiVars
  <2>3. CASE Current(r.job)
    <3> DEFINE id == r.job.id
    <3>1. /\ id \in DOMAIN entries /\ DOMAIN entries' = DOMAIN entries
          /\ \A i \in DOMAIN entries : i # id => entries'[i] = entries[i]
          /\ entries[id].state.version = r.job.version
          /\ entries'[id].state.version = r.job.version
          /\ ~Settled(entries[id].state) /\ Settled(entries'[id].state)
          /\ answers' = answers \cup {PostOf(id)'}
      BY <1>11, <2>3, AnswerSettles
    <3>2. \A i, state : Fits(i, state) => Fits(i, state)'
      BY <3>1 DEF Fits
    <3>3. /\ PostOf(id)'.id = id /\ PostOf(id)'.state = entries'[id].state /\ id <= next
      BY <3>1, Typed DEF PostOf
    <3>4. PICK post : post = PostOf(id)'
      OBVIOUS
    <3>6. post.id <= next' /\ Settled(post.state) /\ Fits(post.id, post.state)'
      BY <2>1, <3>1, <3>3, <3>4, <1>types DEF Fits
    <3>5. ToSet(inbox)' = ToSet(inbox)
      BY <2>1, <1>box
    <3> QED
      BY <2>1, <3>1, <3>2, <3>4, <3>5, <3>6 DEF StatesFit
  <2> QED
    BY <2>2, <2>3
<1>12. ASSUME NEW answer \in answers, Call(answer) PROVE StatesFit'
  <2>1. /\ answers' = answers \ {answer} /\ inbox' = Append(inbox, answer)
        /\ UNCHANGED <<next, entries, views>> /\ answer \in Post
    BY <1>12, <1>types DEF Call, uiVars
  <2>2. ToSet(inbox)' = ToSet(inbox) \cup {answer}
    BY <2>1, InboxGrows
  <2> QED
    BY <2>1, <2>2, <1>calm
<1>13. CASE UNCHANGED vars
  BY <1>13, <1>calm, <1>box DEF vars, uiVars
<1> QED
  BY <1>1, <1>2, <1>3, <1>4, <1>5, <1>6, <1>7, <1>8, <1>9, <1>10, <1>11, <1>12,
     <1>13 DEF Next

-----------------------------------------------------------------------------
(* The last state comes last.                                               *)

\* At first no view waits for a state.
LEMMA InitLast == Init => LastComes
BY DEF Init, LastComes

\* A state of a subscription that did not change is still on its way when the
\* posts stay and nothing happens to what is to be sent.
LEMMA StillComing ==
  ASSUME NEW id, Coming(id), entries'[id].state = entries[id].state,
         answers \cup ToSet(inbox) \subseteq answers' \cup ToSet(inbox)',
         UNCHANGED <<asking, telling, shown>>
  PROVE  Coming(id)'
BY DEF Coming, PostOf, NextTold

\* Every step leaves the last state of a subscription shown or coming.
LEMMA NextLast ==
  TypeOK /\ SubsInv /\ TicketsFit /\ StatesFit /\ LastComes /\ [Next]_vars => LastComes'
<1> SUFFICES ASSUME TypeOK, SubsInv, TicketsFit, StatesFit, LastComes, [Next]_vars
             PROVE  LastComes'
  OBVIOUS
<1> DEFINE posts == answers \cup ToSet(inbox)
           Comes(id) == id \in DOMAIN entries \cap DOMAIN views
                           => views[id] = entries[id].state \/ Coming(id)
           Later(i) ==
             At(inbox[i].id, inbox[i].state.version) /\ inbox[i].state # entries[inbox[i].id].state =>
               \/ PostOf(inbox[i].id) \in answers
               \/ \E j \in DOMAIN inbox : j > i /\ inbox[j] = PostOf(inbox[i].id)
<1>types. /\ next \in Nat /\ Ids \subseteq Nat
          /\ \A id \in DOMAIN entries : id \in Ids /\ entries[id].state.version \in Nat
          /\ \A id \in DOMAIN views : views[id].version \in Nat
          /\ \A post \in posts : post.id \in Ids /\ post.state.version \in Nat /\ post \in Post
          /\ \A i \in DOMAIN inbox : inbox[i] \in ToSet(inbox)
          /\ DOMAIN inbox = 1..Len(inbox) /\ Len(inbox) \in Nat
  BY Typed, LenProperties DEF TypeOK, ToSet
<1>inv. (\A id : Comes(id)) /\ (\A i \in DOMAIN inbox : Later(i))
  BY DEF LastComes
<1>goal. ASSUME \A id : Comes(id)', \A i \in DOMAIN inbox' : Later(i)' PROVE LastComes'
  BY <1>goal DEF LastComes
<1>box. ASSUME inbox' = inbox PROVE ToSet(inbox)' = ToSet(inbox)
  BY <1>box DEF ToSet
\* Subscriptions and views go on or end, and nothing is on the move.
<1>calm. ASSUME UNCHANGED <<asking, telling, shown, answers, inbox>>,
                DOMAIN entries' \subseteq DOMAIN entries, DOMAIN views' \subseteq DOMAIN views,
                \A id \in DOMAIN entries' : entries'[id] = entries[id],
                \A id \in DOMAIN views' : views'[id] = views[id]
         PROVE  LastComes'
  <2>1. ASSUME NEW id PROVE Comes(id)'
    BY <1>calm, <1>inv, <1>box, StillComing
  <2>2. ASSUME NEW i \in DOMAIN inbox' PROVE Later(i)'
    BY <1>calm, <1>inv DEF At, PostOf
  <2> QED
    BY <1>goal, <2>1, <2>2
<1>1. CASE OpenWindow \/ Change \/ RunQuery
  BY <1>1, <1>calm DEF OpenWindow, Change, RunQuery, engineVars
<1>2. CASE CloseWindow
  BY <1>2, <1>calm DEF CloseWindow, End, engineVars
<1>3. CASE Mount
  <2>1. PICK new : new = next'
    OBVIOUS
  <2>2. /\ new = next + 1 /\ DOMAIN entries' = DOMAIN entries \cup {new}
        /\ DOMAIN views' = DOMAIN views \cup {new}
        /\ \A id \in DOMAIN entries : entries'[id] = entries[id]
        /\ \A id \in DOMAIN views : views'[id] = views[id]
        /\ entries'[new].state = Idle /\ views'[new] = Idle
        /\ UNCHANGED <<asking, telling, shown, answers, inbox>>
    BY <1>3, <2>1, MountStarts
  <2>3. ASSUME NEW i \in DOMAIN inbox PROVE inbox[i].id # new
    <3>1. inbox[i].id <= next /\ inbox[i].id \in Nat
      BY <1>types DEF StatesFit
    <3> QED
      BY <1>types, <2>2, <3>1
  <2>4. ASSUME NEW id PROVE Comes(id)'
    BY <1>inv, <1>box, <2>2, StillComing
  <2>5. ASSUME NEW i \in DOMAIN inbox' PROVE Later(i)'
    BY <1>inv, <2>2, <2>3 DEF At, PostOf
  <2> QED
    BY <1>goal, <2>4, <2>5
<1>4. ASSUME NEW id \in Ids, Unmount(id) PROVE LastComes'
  BY <1>4, <1>calm DEF Unmount, End, engineVars
\* No state on its way is of the version that a renewed subscription gets.
<1>renewed. ASSUME NEW ids, NEW new, RenewedAs(ids, new), UNCHANGED <<answers, inbox>>,
                   NEW i \in DOMAIN inbox'
            PROVE  Later(i)'
  <2>1. /\ DOMAIN entries' = DOMAIN entries
        /\ \A id \in ids : entries'[id].state.version = entries[id].state.version + 1
        /\ \A id \in DOMAIN entries \ ids : entries'[id] = entries[id]
    BY <1>renewed DEF RenewedAs
  <2>2. Fits(inbox[i].id, inbox[i].state) /\ inbox[i].state.version \in Nat
    BY <1>renewed, <1>types DEF StatesFit
  <2>3. At(inbox[i].id, inbox[i].state.version)' =>
           At(inbox[i].id, inbox[i].state.version) /\ inbox[i].id \notin ids
    BY <1>renewed, <1>types, <2>1, <2>2 DEF At, Fits
  <2>4. PICK id : id = inbox[i].id
    OBVIOUS
  <2>5. id \in DOMAIN entries \ ids => entries'[id] = entries[id] /\ PostOf(id)' = PostOf(id)
    BY <2>1 DEF PostOf
  <2> QED
    BY <1>renewed, <1>inv, <2>3, <2>4, <2>5 DEF At
<1>5. ASSUME NEW id \in Ids, NEW params \in Params, Request(id, params) PROVE LastComes'
  <2>1. /\ RenewedAs({id}, {asking'}) /\ asking = None /\ asking' # None
        /\ UNCHANGED <<telling, shown, answers, inbox, views>>
    BY <1>5, RequestRenews
  <2>2. /\ asking'.job.id = id /\ asking'.state = entries'[id].state
        /\ DOMAIN entries' = DOMAIN entries
        /\ \A i \in DOMAIN entries : i # id => entries'[i] = entries[i]
    BY <2>1 DEF RenewedAs
  <2>3. Coming(id)'
    BY <2>1, <2>2 DEF Coming
  <2>4. ASSUME NEW i \in DOMAIN entries, i # id, Coming(i) PROVE Coming(i)'
    BY <1>box, <2>1, <2>2, <2>4 DEF Coming, PostOf, NextTold
  <2>5. ASSUME NEW i PROVE Comes(i)'
    BY <1>inv, <2>1, <2>2, <2>3, <2>4
  <2> QED
    BY <1>goal, <1>renewed, <2>1, <2>5
<1>6. CASE SendRequest
  <2>1. /\ asking # None /\ asking \in Sent /\ views' = Show(asking.job.id, asking.state)
        /\ UNCHANGED <<entries, telling, shown, answers, inbox>>
    BY <1>6 DEF SendRequest, Sent, engineVars
  <2> DEFINE a == asking.job.id
  <2>2. Fits(a, asking.state)
    BY <2>1, SentFits
  <2>3. At(a, asking.state.version) => asking.state = entries[a].state
    BY <2>1 DEF TicketsFit
  <2>4. asking.state.version \in Nat
    BY <2>1, Typed DEF State
  <2>5. \A id \in DOMAIN views : Fits(id, views[id])
    BY DEF StatesFit
  <2>6. ASSUME NEW id, Coming(id), ~(id = a /\ asking.state = entries[id].state)
        PROVE  Coming(id)'
    BY <1>box, <2>1, <2>6 DEF Coming, PostOf, NextTold
  <2>7. ASSUME NEW id \in DOMAIN entries \cap DOMAIN views
        PROVE  views'[id] = entries[id].state \/ Coming(id)'
    <3>1. CASE id # a
      BY <1>inv, <2>1, <2>6, <2>7, <3>1, Shown
    <3>2. CASE id = a /\ asking.state = entries[id].state
      BY <1>types, <2>1, <2>5, <2>7, <3>2, Shown DEF Fits
    <3>3. CASE id = a /\ asking.state # entries[id].state
      <4>1. ~(asking.state.version >= entries[id].state.version)
        BY <1>types, <2>2, <2>3, <2>4, <2>7, <3>3 DEF Fits, At
      <4>2. views[id] = entries[id].state => views'[id] = views[id]
        BY <2>1, <2>7, <3>3, <4>1, Shown
      <4> QED
        BY <1>inv, <2>6, <2>7, <3>3, <4>2
    <3> QED
      BY <3>1, <3>2, <3>3
  <2>8. ASSUME NEW id PROVE Comes(id)'
    BY <2>1, <2>7, Shown
  <2>9. ASSUME NEW i \in DOMAIN inbox' PROVE Later(i)'
    BY <1>inv, <2>1 DEF At, PostOf
  <2> QED
    BY <1>goal, <2>8, <2>9
<1>7. CASE Receive
  <2> DEFINE p == Head(inbox)
  <2>1. /\ inbox # <<>> /\ inbox' = Tail(inbox) /\ views' = Show(p.id, p.state)
        /\ UNCHANGED <<entries, asking, telling, shown, answers>>
    BY <1>7 DEF Receive, engineVars
  <2>2. /\ 1 \in DOMAIN inbox /\ p = inbox[1]
        /\ ToSet(inbox) = ToSet(inbox)' \cup {p}
        /\ \A i \in DOMAIN inbox' : i \in Nat \ {0} /\ i + 1 \in DOMAIN inbox /\ inbox'[i] = inbox[i + 1]
        /\ \A i \in DOMAIN inbox : i > 1 => i - 1 \in DOMAIN inbox' /\ inbox'[i - 1] = inbox[i]
    <3>1. /\ DOMAIN inbox = 1..Len(inbox) /\ Len(inbox) \in Nat \ {0}
          /\ DOMAIN inbox' = 1..(Len(inbox) - 1) /\ p = inbox[1]
          /\ \A i \in 1..(Len(inbox) - 1) : inbox'[i] = inbox[i + 1]
          /\ ToSet(inbox) = ToSet(Tail(inbox)) \cup {p}
      BY <2>1, Tailed DEF TypeOK
    <3>2. ToSet(inbox)' = ToSet(Tail(inbox))
      BY <2>1 DEF ToSet
    <3> QED
      BY <3>1, <3>2
  <2>3. p \in posts /\ Fits(p.id, p.state) /\ p.state.version \in Nat /\ p \in Post
    BY <1>types, <2>2 DEF StatesFit
  <2> HIDE DEF p
  <2>4. \A id \in DOMAIN views : Fits(id, views[id])
    BY DEF StatesFit
  <2>5. ASSUME NEW id, Coming(id), p # PostOf(id) PROVE Coming(id)'
    BY <2>1, <2>2, <2>5 DEF Coming, PostOf, NextTold
  <2>6. ASSUME NEW id \in DOMAIN entries \cap DOMAIN views
        PROVE  views'[id] = entries[id].state \/ Coming(id)'
    <3>1. CASE p.id # id
      <4>1. p # PostOf(id)
        BY <3>1 DEF PostOf
      <4> QED
        BY <1>inv, <2>1, <2>5, <2>6, <3>1, <4>1, Shown
    <3>2. CASE p.id = id /\ p.state = entries[id].state
      BY <1>types, <2>1, <2>4, <2>6, <3>2, Shown DEF Fits
    <3>3. CASE p.id = id /\ p.state # entries[id].state /\ p.state.version # entries[id].state.version
      <4>1. ~(p.state.version >= entries[id].state.version)
        BY <1>types, <2>3, <2>6, <3>3 DEF Fits
      <4>2. views[id] = entries[id].state => views'[id] = views[id]
        BY <2>1, <2>6, <3>3, <4>1, Shown
      <4>3. p # PostOf(id)
        BY <3>3 DEF PostOf
      <4> QED
        BY <1>inv, <2>5, <2>6, <4>2, <4>3
    <3>4. CASE p.id = id /\ p.state # entries[id].state /\ p.state.version = entries[id].state.version
      <4>1. PostOf(id) \in answers \/ \E j \in DOMAIN inbox : j > 1 /\ inbox[j] = PostOf(id)
        BY <1>inv, <2>2, <2>6, <3>4 DEF At
      <4>2. ASSUME NEW j \in DOMAIN inbox, j > 1, inbox[j] = PostOf(id)
            PROVE  PostOf(id) \in ToSet(inbox)'
        BY <2>2, <4>2 DEF ToSet
      <4>3. PostOf(id)' = PostOf(id)
        BY <2>1 DEF PostOf
      <4> QED
        BY <2>1, <4>1, <4>2, <4>3 DEF Coming
    <3> QED
      BY <3>1, <3>2, <3>3, <3>4
  <2>7. ASSUME NEW id PROVE Comes(id)'
    BY <2>1, <2>6, Shown
  <2>8. ASSUME NEW i \in DOMAIN inbox' PROVE Later(i)'
    <3>1. Later(i + 1) /\ inbox'[i] = inbox[i + 1] /\ i \in Nat
      BY <1>inv, <2>2
    <3>2. PICK id : id = inbox'[i].id
      OBVIOUS
    <3>3. ASSUME NEW j \in DOMAIN inbox, j > i + 1, inbox[j] = PostOf(id)
          PROVE  \E m \in DOMAIN inbox' : m > i /\ inbox'[m] = PostOf(id)
      <4>1. j \in Nat /\ j > 1
        BY <1>types, <3>1, <3>3
      <4>2. j - 1 \in DOMAIN inbox' /\ inbox'[j - 1] = PostOf(id) /\ j - 1 > i
        BY <2>2, <3>1, <3>3, <4>1
      <4> QED
        BY <4>2
    <3>4. PostOf(id)' = PostOf(id)
      BY <2>1 DEF PostOf
    <3> QED
      BY <2>1, <3>1, <3>2, <3>3, <3>4 DEF At
  <2> QED
    BY <1>goal, <2>7, <2>8
<1>8. CASE Refresh
  <2>1. /\ RenewedAs(Stale, telling') /\ due /\ shown' = FALSE
        /\ UNCHANGED <<asking, answers, inbox, views>>
    BY <1>8, RefreshRenews
  <2>2. telling = {}
    BY <2>1 DEF SubsInv
  <2>3. /\ DOMAIN entries' = DOMAIN entries
        /\ \A id \in DOMAIN entries \ Stale : entries'[id] = entries[id]
        /\ \A id \in Stale : \E s \in telling' : s.job.id = id /\ s.state = entries'[id].state
    BY <2>1 DEF RenewedAs
  <2>4. \A id \in Stale : Coming(id)'
    BY <2>1, <2>3 DEF Coming
  <2>5. ASSUME NEW id \in DOMAIN entries \ Stale, Coming(id) PROVE Coming(id)'
    BY <1>box, <2>1, <2>2, <2>3, <2>5 DEF Coming, PostOf
  <2>6. ASSUME NEW id PROVE Comes(id)'
    BY <1>inv, <2>1, <2>3, <2>4, <2>5
  <2> QED
    BY <1>goal, <1>renewed, <2>1, <2>6
<1>9. ASSUME NEW s \in telling, ShowRefresh(s) PROVE LastComes'
  <2> DEFINE post == [id |-> s.job.id, state |-> s.state]
  <2>1. /\ NextTold(s) /\ shown' = TRUE /\ inbox' = Append(inbox, post)
        /\ UNCHANGED <<entries, asking, telling, answers, views>>
        /\ s \in Sent /\ post \in Post
    BY <1>9, Typed DEF ShowRefresh, Sent, Post, Job
  <2>2. /\ ToSet(inbox)' = ToSet(inbox) \cup {post}
        /\ DOMAIN inbox' = 1..(Len(inbox) + 1)
        /\ \A i \in DOMAIN inbox : i \in DOMAIN inbox' /\ inbox'[i] = inbox[i]
        /\ inbox'[Len(inbox) + 1] = post
    BY <1>types, <2>1, InboxGrows
  <2>3. At(post.id, post.state.version) => post.state = entries[post.id].state
    BY <2>1 DEF TicketsFit
  <2>4. ASSUME NEW t \in telling, NextTold(t) PROVE t = s
    <3>1. t.job.id \in Nat /\ s.job.id \in Nat
      BY <1>types, Typed DEF Sent
    <3>2. t.job.id = s.job.id
      BY <2>1, <2>4, <3>1 DEF NextTold
    <3> QED
      BY <3>2 DEF TicketsFit
  <2>5. ASSUME NEW id, Coming(id) PROVE Coming(id)'
    <3>1. PostOf(id)' = PostOf(id)
      BY <2>1 DEF PostOf
    <3>2. CASE PostOf(id) \in posts
      BY <2>1, <2>2, <3>1, <3>2 DEF Coming
    <3>3. CASE asking # None /\ asking.job.id = id /\ asking.state = entries[id].state
      BY <2>1, <3>3 DEF Coming
    <3>4. ASSUME NEW t \in telling, t.job.id = id, t.state = entries[id].state
          PROVE  Coming(id)'
      <4>1. CASE t = s
        <5>1. PostOf(id) = post
          BY <3>4, <4>1 DEF PostOf
        <5> QED
          BY <2>2, <3>1, <5>1 DEF Coming
      <4>2. CASE t # s
        BY <2>1, <2>4, <3>4, <4>2 DEF Coming, NextTold
      <4> QED
        BY <4>1, <4>2
    <3> QED
      BY <2>5, <3>2, <3>3, <3>4 DEF Coming
  <2> HIDE DEF post
  <2>6. ASSUME NEW id PROVE Comes(id)'
    BY <1>inv, <2>1, <2>5
  <2>7. ASSUME NEW i \in DOMAIN inbox' PROVE Later(i)'
    <3>1. CASE i \in DOMAIN inbox
      BY <1>inv, <2>1, <2>2, <3>1 DEF At, PostOf
    <3>2. CASE i = Len(inbox) + 1
      BY <2>1, <2>2, <2>3, <3>2 DEF At
    <3> QED
      BY <1>types, <2>2, <3>1, <3>2
  <2> QED
    BY <1>goal, <2>6, <2>7
<1>10. ASSUME NEW s \in telling, SendRefresh(s) PROVE LastComes'
  <2>1. /\ NextTold(s) /\ shown /\ shown' = FALSE /\ telling' = telling \ {s}
        /\ UNCHANGED <<entries, asking, answers, inbox, views>>
    BY <1>10 DEF SendRefresh
  <2>2. ASSUME NEW id, Coming(id) PROVE Coming(id)'
    BY <1>box, <2>1, <2>2 DEF Coming, PostOf
  <2>3. ASSUME NEW id PROVE Comes(id)'
    BY <1>inv, <2>1, <2>2
  <2>4. ASSUME NEW i \in DOMAIN inbox' PROVE Later(i)'
    BY <1>inv, <2>1 DEF At, PostOf
  <2> QED
    BY <1>goal, <2>3, <2>4
<1>11. ASSUME NEW r \in running, Answer(r) PROVE LastComes'
  <2>1. UNCHANGED <<asking, telling, shown, inbox, views>>
    BY <1>11 DEF Answer, engineVars
  <2>2. CASE ~Current(r.job)
    BY <1>11, <1>calm, <2>1, <2>2 DEF Answer
  <2>3. CASE Current(r.job)
    <3> DEFINE new == r.job.id
    <3>1. /\ new \in DOMAIN entries /\ DOMAIN entries' = DOMAIN entries
          /\ \A i \in DOMAIN entries : i # new => entries'[i] = entries[i]
          /\ answers' = answers \cup {PostOf(new)'}
      BY <1>11, <2>3, AnswerSettles
    <3> HIDE DEF new
    <3>2. Coming(new)'
      BY <3>1 DEF Coming
    <3>3. ASSUME NEW id \in DOMAIN entries, id # new, Coming(id) PROVE Coming(id)'
      BY <1>box, <2>1, <3>1, <3>3, StillComing
    <3>4. ASSUME NEW id PROVE Comes(id)'
      BY <1>inv, <2>1, <3>1, <3>2, <3>3
    <3>5. ASSUME NEW i \in DOMAIN inbox' PROVE Later(i)'
      <4>1. CASE inbox[i].id = new
        BY <2>1, <3>1, <4>1
      <4>2. CASE inbox[i].id # new
        BY <1>inv, <2>1, <3>1, <3>5, <4>2 DEF At, PostOf
      <4> QED
        BY <4>1, <4>2
    <3> QED
      BY <1>goal, <3>4, <3>5
  <2> QED
    BY <2>2, <2>3
<1>12. ASSUME NEW answer \in answers, Call(answer) PROVE LastComes'
  <2>1. /\ answers' = answers \ {answer} /\ inbox' = Append(inbox, answer)
        /\ UNCHANGED <<entries, asking, telling, shown, views>> /\ answer \in Post
    BY <1>12, <1>types DEF Call, engineVars
  <2>2. /\ ToSet(inbox)' = ToSet(inbox) \cup {answer}
        /\ DOMAIN inbox' = 1..(Len(inbox) + 1)
        /\ \A i \in DOMAIN inbox : i \in DOMAIN inbox' /\ inbox'[i] = inbox[i]
        /\ inbox'[Len(inbox) + 1] = answer
    BY <1>types, <2>1, InboxGrows
  <2>3. At(answer.id, answer.state.version) => answer.state = entries[answer.id].state
    BY DEF StatesFit, Fits, At
  <2>4. ASSUME NEW id PROVE Comes(id)'
    BY <1>inv, <2>1, <2>2, StillComing
  <2>5. ASSUME NEW i \in DOMAIN inbox' PROVE Later(i)'
    <3>1. CASE i \in DOMAIN inbox
      <4>1. PICK id : id = inbox[i].id
        OBVIOUS
      <4>2. PostOf(id)' = PostOf(id)
        BY <2>1 DEF PostOf
      <4>3. i < Len(inbox) + 1 /\ Len(inbox) + 1 \in DOMAIN inbox'
        BY <1>types, <2>2, <3>1
      <4> QED
        BY <1>inv, <2>1, <2>2, <3>1, <4>1, <4>2, <4>3 DEF At
    <3>2. CASE i = Len(inbox) + 1
      BY <2>1, <2>2, <2>3, <3>2 DEF At
    <3> QED
      BY <1>types, <2>2, <3>1, <3>2
  <2> QED
    BY <1>goal, <2>4, <2>5
<1>13. CASE UNCHANGED vars
  BY <1>13, <1>calm DEF vars, engineVars
<1> QED
  BY <1>1, <1>2, <1>3, <1>4, <1>5, <1>6, <1>7, <1>8, <1>9, <1>10, <1>11, <1>12,
     <1>13 DEF Next

-----------------------------------------------------------------------------
(* Answers.                                                                 *)

\* At first there are no answers.
LEMMA InitAnswers == Init => AnswersFit
BY DEF Init, AnswersFit

\* Every step keeps answers to the last parameters, current or about to be asked again.
LEMMA NextAnswers ==
  TypeOK /\ SubsInv /\ TicketsFit /\ AnswersFit /\ [Next]_vars => AnswersFit'
<1> SUFFICES ASSUME TypeOK, SubsInv, TicketsFit, AnswersFit, [Next]_vars
             PROVE  AnswersFit'
  OBVIOUS
<1>types. /\ next \in Nat
          /\ \A id \in DOMAIN entries :
                entries[id].state.version \in Nat /\ entries[id] \in Entry
          /\ \A r \in running : r.job \in Tickets /\ r.job.version \in Nat /\ r.job.id \in Nat
  BY Typed DEF Tickets, Answering
<1>past. \A r \in running :
            /\ r.job.id <= next
            /\ r.job.id \in DOMAIN entries => r.job.version <= entries[r.job.id].state.version
  BY <1>types DEF SubsInv, TicketsArePast
\* The field stays, no provider starts, and subscriptions go on or end.
<1>calm. ASSUME UNCHANGED <<field, due>>, running' \subseteq running,
                DOMAIN entries' \subseteq DOMAIN entries,
                \A id \in DOMAIN entries' : entries'[id] = entries[id]
         PROVE  AnswersFit'
  BY <1>calm DEF AnswersFit, At
<1>1. CASE OpenWindow \/ SendRequest \/ Receive
  BY <1>1, <1>calm DEF OpenWindow, SendRequest, Receive, engineVars
<1>2. CASE CloseWindow
  BY <1>2, <1>calm DEF CloseWindow, End, engineVars
<1>3. CASE Mount
  <2>1. PICK new : new = next'
    OBVIOUS
  <2>2. /\ new = next + 1 /\ DOMAIN entries' = DOMAIN entries \cup {new}
        /\ \A id \in DOMAIN entries : entries'[id] = entries[id]
        /\ entries'[new].state.phase # "ready" /\ UNCHANGED <<field, due, running>>
    BY <1>3, <2>1, MountStarts DEF Idle
  <2>3. \A r \in running : r.job.id # new
    BY <1>past, <1>types, <2>2
  <2> QED
    BY <2>2, <2>3 DEF AnswersFit, At
<1>4. ASSUME NEW id \in Ids, Unmount(id) PROVE AnswersFit'
  BY <1>4, <1>calm DEF Unmount, End, engineVars
\* A renewed subscription waits, and what runs for it is of an old version.
<1>renewed. ASSUME NEW ids, NEW new, RenewedAs(ids, new)
            PROVE  /\ DOMAIN entries' = DOMAIN entries
                   /\ \A id \in DOMAIN entries :
                        /\ id \in ids => entries'[id].state.phase # "ready"
                        /\ id \notin ids => entries'[id] = entries[id]
                   /\ \A r \in running : At(r.job.id, r.job.version)' =>
                        At(r.job.id, r.job.version) /\ r.job.id \notin ids
  BY <1>renewed, <1>types, <1>past DEF RenewedAs, At
<1>5. ASSUME NEW id \in Ids, NEW params \in Params, Request(id, params) PROVE AnswersFit'
  <2>1. RenewedAs({id}, {asking'}) /\ UNCHANGED <<field, due, running>>
    BY <1>5, RequestRenews
  <2> QED
    BY <1>renewed, <2>1 DEF AnswersFit, At
<1>6. CASE Change
  BY <1>6 DEF Change, AnswersFit, uiVars
<1>7. CASE Refresh
  <2>1. /\ RenewedAs(Stale, telling') /\ due' = FALSE /\ UNCHANGED <<field, running>>
    BY <1>7, RefreshRenews
  <2>2. None \notin Params
    BY QueryAssumption
  <2>3. ASSUME NEW id \in DOMAIN entries \ Stale, entries[id].state.phase = "ready"
        PROVE  entries[id].query \notin Reading
    <3>1. entries[id].params \in Params
      BY <2>3 DEF AnswersFit, Data
    <3> QED
      BY <2>2, <2>3, <3>1 DEF Stale
  <2>4. ASSUME NEW r \in running, At(r.job.id, r.job.version), r.job.id \notin Stale
        PROVE  entries[r.job.id].query \notin Reading
    <3>1. ~Superseded(r.job)
      BY <2>4 DEF TicketsFit, At, Superseded
    <3>2. entries[r.job.id].inFlight = r.job.version /\ r.job.version # None
      BY <1>types, <3>1, QueryAssumption DEF SubsInv, OneLiveRequest
    <3>3. entries[r.job.id].params \in Params
      BY <2>4, <3>2 DEF TicketsFit, At
    <3> QED
      BY <2>2, <2>4, <3>3 DEF Stale, At
  <2> QED
    BY <1>renewed, <2>1, <2>3, <2>4 DEF AnswersFit, At
<1>8. ASSUME NEW s \in telling, ShowRefresh(s) \/ SendRefresh(s) PROVE AnswersFit'
  BY <1>8, <1>calm DEF ShowRefresh, SendRefresh
<1>9. CASE RunQuery
  <2>1. /\ UNCHANGED <<entries, field, due>>
        /\ \A r \in running' : r \in running \/ r.seen = field
    BY <1>9 DEF RunQuery, engineVars
  <2> QED
    BY <2>1 DEF AnswersFit, At
<1>10. ASSUME NEW r \in running, Answer(r) PROVE AnswersFit'
  <2>1. running' = running \ {r} /\ UNCHANGED <<field, due>>
    BY <1>10 DEF Answer, engineVars
  <2>2. CASE ~Current(r.job)
    BY <1>10, <1>calm, <2>1, <2>2 DEF Answer
  <2>3. CASE Current(r.job)
    <3> DEFINE id == r.job.id
    <3>1. /\ id \in DOMAIN entries /\ DOMAIN entries' = DOMAIN entries
          /\ \A i \in DOMAIN entries : i # id => entries'[i] = entries[i]
          /\ entries[id].state.version = r.job.version
          /\ entries'[id].state.version = r.job.version
          /\ entries'[id].params = r.job.params
          /\ entries'[id].query = entries[id].query
          /\ entries'[id].state.phase = "ready" =>
                /\ entries'[id].state.data \in Data
                /\ entries'[id].state.data.params = r.job.params
                /\ entries'[id].state.data.seen = r.seen
      BY <1>10, <2>3, AnswerSettles
    <3>2. entries[id].query \in Reading /\ ~due => r.seen = field
      BY <3>1 DEF AnswersFit, At
    <3> HIDE DEF id
    <3>3. ASSUME NEW i \in DOMAIN entries', entries'[i].state.phase = "ready"
          PROVE  /\ entries'[i].state.data \in Data
                 /\ entries'[i].state.data.params = entries'[i].params
                 /\ entries'[i].query \in Reading /\ ~due' => entries'[i].state.data.seen = field'
      <4>1. CASE i = id
        BY <2>1, <3>1, <3>2, <3>3, <4>1
      <4>2. CASE i # id
        BY <2>1, <3>1, <3>3, <4>2 DEF AnswersFit
      <4> QED
        BY <4>1, <4>2
    <3>4. \A t \in running' : At(t.job.id, t.job.version)' =>
             /\ At(t.job.id, t.job.version)
             /\ entries'[t.job.id].query = entries[t.job.id].query
      BY <3>1 DEF At
    <3> QED
      BY <2>1, <3>3, <3>4 DEF AnswersFit
  <2> QED
    BY <2>2, <2>3
<1>11. ASSUME NEW answer \in answers, Call(answer) PROVE AnswersFit'
  BY <1>11, <1>calm DEF Call, engineVars
<1>12. CASE UNCHANGED vars
  BY <1>12, <1>calm DEF vars, engineVars
<1> QED
  BY <1>1, <1>2, <1>3, <1>4, <1>5, <1>6, <1>7, <1>8, <1>9, <1>10, <1>11, <1>12 DEF Next

-----------------------------------------------------------------------------
(* The theorems.                                                            *)

\* Types and views fit in every reachable state.
LEMMA ViewsInvariant == Spec => [](TypeOK /\ ViewsInv)
<1>1. Init => ViewsInv
  BY InitTickets, InitStates, InitLast, InitAnswers DEF ViewsInv
<1>2. TypeOK /\ SubsInv /\ ViewsInv /\ [Next]_vars => ViewsInv'
  BY NextTickets, NextStates, NextLast, NextAnswers DEF ViewsInv
<1> QED
  BY TypeCorrect, SubsKnow, <1>1, <1>2, PTL DEF Spec

\* Once nothing is on its way for a subscription, its view shows what the
\* session holds, in whatever order its states were reported.
THEOREM ViewsEndUpRight == Spec => []ViewsConverge
<1>1. ViewsInv => ViewsConverge
  <2> SUFFICES ASSUME ViewsInv, NEW id \in DOMAIN entries \cap DOMAIN views, Quiet(id)
               PROVE  views[id] = entries[id].state
    BY DEF ViewsConverge
  <2>1. views[id] = entries[id].state \/ Coming(id)
    BY DEF ViewsInv, LastComes
  <2>2. PostOf(id) \notin answers \cup ToSet(inbox)
    BY DEF Quiet, PostOf
  <2>3. asking # None => asking.job.id # id
    BY DEF Quiet, Tickets, Asked
  <2>4. \A s \in telling : s.job.id # id
    BY DEF Quiet, Tickets, Told
  <2> QED
    BY <2>1, <2>2, <2>3, <2>4 DEF Coming
<1> QED
  BY ViewsInvariant, <1>1, PTL

\* A ready view at the version of its session shows the answer to the last
\* parameters; and no change of the state it read is missed, whether it came
\* before, during or after the request.
THEOREM NoChangeIsMissed == Spec => []AnswersAreCurrent
<1>1. ViewsInv => AnswersAreCurrent
  <2> SUFFICES ASSUME ViewsInv, NEW id \in DOMAIN entries \cap DOMAIN views,
                      views[id].phase = "ready",
                      views[id].version = entries[id].state.version
               PROVE  /\ views[id].data.params = entries[id].params
                      /\ entries[id].query \in Reading /\ Quiet(id) /\ ~due
                            => views[id].data.seen = field
    BY DEF AnswersAreCurrent
  <2>1. views[id] = entries[id].state
    BY DEF ViewsInv, StatesFit, Fits, Settled
  <2> QED
    BY <2>1 DEF ViewsInv, AnswersFit
<1> QED
  BY ViewsInvariant, <1>1, PTL

=============================================================================
