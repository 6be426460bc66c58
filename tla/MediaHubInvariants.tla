------------------------- MODULE MediaHubInvariants -------------------------
(***************************************************************************)
(* What holds of MediaHub in every state: the types, and the invariants on *)
(* which the theorems of MediaHubProofs rest.                              *)
(***************************************************************************)
EXTENDS MediaHub

-----------------------------------------------------------------------------
(* The types.                                                              *)

PlayerRecords ==
    [source : Urls \cup {None}, version : 0 .. MaxVersion, of : Nat, request : Nat,
     status : {"none", "accepted", "answered"}, runner : BOOLEAN, load : Nat,
     lost : BOOLEAN]

Requests ==
    [request : Nat, player : PlayerIds, version : Nat,
     op : {"load", "unload", "control", "release"}, to : {"device", "router"}]

Reports ==
    [type : {"complete"}, request : Nat]
      \cup [type : {"observe"}, player : PlayerIds, version : Nat, load : Nat]

\* The states of a hub with the players D.
HubsOf(D) ==
    [players : [D -> PlayerRecords], executor : {"none", "device", "router"},
     pending : SUBSET [request : Nat, player : PlayerIds], next_request : Nat]

HubTyped ==
    /\ hub \in HubsOf(Existing)
    /\ Application \subseteq Existing /\ Existing \subseteq PlayerIds /\ IsFiniteSet(Existing)
    /\ \A w \in hub.pending : w.request \in 1 .. hub.next_request /\ w.player \in Existing

\* One at most hands over requests, and it has some.
SendingTyped ==
    /\ \A s \in sending : /\ s \in [by : Pages \cup {"device", "caller"}, requests : Seq(Requests)]
                          /\ s.requests # <<>>
    /\ \A s, t \in sending : s = t

\* Where the thread of a connection can be.
At == {"new", "check", "attach", "receive", "unclaim", "release", "detach", "forget",
       "compare", "drop", "gone"}
Steps == {<<at>> : at \in At} \cup ({"control"} \X Application)
             \cup ({"open"} \X Application \X Urls)

RouterTyped ==
    /\ router \in [executors : Seq(Pages), players : [PlayerIds -> Pages \cup {None}]]
    /\ thread \in [Pages -> Steps]
    /\ device \in BOOLEAN /\ raced \in BOOLEAN

ExecutorsTyped ==
    /\ inbox \in [Executors -> Seq(Requests)]
    /\ performing \in [Executors -> SUBSET Requests]
    /\ backend \in [Executors -> [PlayerIds -> [version : Nat, load : Nat]]]
    /\ outbox \in [Pages -> Seq(Reports)]

Typed == HubTyped /\ SendingTyped /\ RouterTyped /\ ExecutorsTyped

-----------------------------------------------------------------------------
(* Requests are numbered, and handed over and performed in that order.     *)

Rising(s) == \A i, j \in DOMAIN s : i < j => s[i].request < s[j].request
UpTo(s, n) == \A i \in DOMAIN s : s[i].request <= n
From(s, n) == \A i \in DOMAIN s : n < s[i].request

Numbered ==
    /\ \A p \in Existing : hub.players[p].load <= hub.next_request
    /\ \A s \in sending : Rising(s.requests) /\ UpTo(s.requests, hub.next_request)
    /\ \A e \in Executors :
          /\ Rising(inbox[e]) /\ UpTo(inbox[e], hub.next_request)
          /\ \A s \in sending : \A i \in DOMAIN inbox[e] : From(s.requests, inbox[e][i].request)
          /\ \A p \in PlayerIds :
                LET loaded == backend[e][p].load
                IN /\ loaded <= hub.next_request
                   /\ From(inbox[e], loaded)
                   /\ \A s \in sending : From(s.requests, loaded)

-----------------------------------------------------------------------------
(* The router and who runs the players.                                    *)

\* The thread of c is at one of these.
IsAt(c, steps) == thread[c][1] \in steps

\* The router knows page c.
Listed(c) == IsAt(c, {"check", "attach", "receive", "unclaim", "open", "control", "release",
                      "detach"})

Members ==
    /\ \A c \in Pages : Listed(c) <=> c \in Range(router.executors)
    /\ \A i, j \in DOMAIN router.executors :
          router.executors[i] = router.executors[j] => i = j

\* With pages in the router, someone runs the players or is about to; the router
\* runs them while it has pages, or is being given up, by one thread, and has none.
TakenOver ==
    ~raced =>
        /\ hub.executor = "none" /\ router.executors # <<>> =>
              \E c \in Pages : IsAt(c, {"check", "attach"})
        /\ hub.executor = "router" /\ router.executors = <<>> => GivingUp # {}
        /\ GivingUp # {} => router.executors = <<>>
        /\ \A c, d \in GivingUp : c = d
        /\ device => /\ hub.executor = "device"
                     /\ \A c \in Pages : ~IsAt(c, {"attach", "drop"})

\* Without pages, no page's player is left but until it is forgotten; without any
\* executor, nothing is accepted.
Unrun ==
    ~raced /\ router.executors = <<>> =>
        /\ \A p \in Existing : hub.players[p].runner => \E c \in Pages : IsAt(c, {"forget"})
        /\ hub.executor = "none" =>
              /\ \A c \in Pages : ~IsAt(c, {"forget"})
              /\ \A p \in Existing : hub.players[p].status # "accepted"

\* A page that is not connected has nothing.
Emptied ==
    \A c \in Pages : ~Connected(c) =>
        /\ inbox[c] = <<>> /\ performing[c] = {} /\ outbox[c] = <<>>
        /\ backend[c] = [p \in PlayerIds |-> NoElement]

-----------------------------------------------------------------------------
(* Who gets the requests about a player.                                   *)

\* The request i of s is about player p.
About(s, i, p) == s.requests[i].player = p

\* What a thread hands over is about a player as it is, for who runs it, or, about
\* a player that is gone, handed over by its page.
Addressed ==
    \A s \in sending : \A i \in DOMAIN s.requests :
        LET r == s.requests[i]
            player == hub.players[r.player]
        IN IF r.player \in Existing
           THEN /\ r.to = RunnerOf(hub, r.player)
                /\ r.op = "load" => r.request = player.load /\ r.version = player.version
                /\ r.op = "unload" => player.source = None
                /\ r.op # "release"
           ELSE s.by = r.player

\* The player of a window runs in its page alone.
Owned ==
    \A p \in Windows :
        /\ router.players[p] \in {p, None}
        /\ p \in Existing => IsAt(p, {"receive", "open", "control", "release"})
        /\ p \in Existing \/ (\E s \in sending : \E i \in DOMAIN s.requests : About(s, i, p)) =>
              router.players[p] = p /\ Listed(p)
        /\ \A e \in Pages \ {p} :
              /\ \A i \in DOMAIN inbox[e] : inbox[e][i].player # p
              /\ backend[e][p] = NoElement
              /\ \A i \in DOMAIN outbox[e] :
                    outbox[e][i].type = "observe" => outbox[e][i].player # p

-----------------------------------------------------------------------------
(* What waits is coming.                                                   *)

\* The newest request of p is on its way to who runs p, or with it.
ComingFor(p) ==
    LET player == hub.players[p]
    IN \/ \E s \in sending : \E i \in DOMAIN s.requests :
             s.requests[i].request = player.request /\ About(s, i, p)
       \/ \E e \in Executors : /\ player.runner => e # "device"
                               /\ \E r \in Handed(e) : r.request = player.request

Awaited ==
    ~raced => \A p \in Existing :
        hub.players[p].status = "accepted" /\ ~hub.players[p].lost =>
            /\ [request |-> hub.players[p].request, player |-> p] \in hub.pending
            /\ ComingFor(p)

-----------------------------------------------------------------------------
(* What is loaded, and what is said of it.                                 *)

\* Something about version v of p, loaded by request l, is old or current.
OldOrCurrent(p, v, l) ==
    \/ v < hub.players[p].version
    \/ v = hub.players[p].version /\ l = hub.players[p].load

Fresh ==
    \A p \in Existing \ reborn :
        /\ hub.players[p].of # 0 => hub.players[p].of = hub.players[p].load
        /\ \A e \in Executors :
              /\ backend[e][p].load # 0 =>
                    OldOrCurrent(p, backend[e][p].version, backend[e][p].load)
              /\ \A i \in DOMAIN inbox[e] :
                    inbox[e][i].player = p /\ inbox[e][i].op = "load" =>
                        OldOrCurrent(p, inbox[e][i].version, inbox[e][i].request)
        /\ \A c \in Pages : \A i \in DOMAIN outbox[c] :
              outbox[c][i].type = "observe" /\ outbox[c][i].player = p =>
                  OldOrCurrent(p, outbox[c][i].version, outbox[c][i].load)

\* Request r loads what p has now.
LoadsIt(r, p) ==
    /\ r.player = p /\ r.op = "load"
    /\ r.version = hub.players[p].version /\ r.request = hub.players[p].load

\* No request after the load of p's source changes what is loaded; who runs p
\* loaded it or will, unless the router chose another page since.
Loaded ==
    /\ \A p \in Existing : hub.players[p].source # None =>
          /\ RunnerOf(hub, p) # "none" => hub.players[p].load # 0
          /\ hub.players[p].load # 0 =>
                \A e \in Executors : \A i \in DOMAIN inbox[e] :
                    inbox[e][i].player = p /\ inbox[e][i].op # "control" =>
                        inbox[e][i].request <= hub.players[p].load
    /\ ~raced => \A p \in Existing \ moved :
          LET e == Holder(p)
          IN hub.players[p].source # None /\ e # None /\ (e \in Pages => Connected(e)) =>
                 \/ /\ backend[e][p].version = hub.players[p].version
                    /\ backend[e][p].load = hub.players[p].load
                 \/ \E i \in DOMAIN inbox[e] : LoadsIt(inbox[e][i], p)
                 \/ \E s \in sending : \E i \in DOMAIN s.requests : LoadsIt(s.requests[i], p)

-----------------------------------------------------------------------------
(* All of it.                                                              *)

Inductive ==
    /\ Typed /\ Members /\ TakenOver /\ Unrun /\ Emptied
    /\ Numbered /\ Addressed /\ Owned
    /\ Awaited /\ Fresh /\ Loaded

=============================================================================
