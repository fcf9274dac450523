------------------------- MODULE SubscriptionProofs -------------------------
(***************************************************************************)
(* The subscriptions for any number of subscribers, connections, drops and *)
(* reconnects: server ids always lead to the registration they were given  *)
(* to; until a connection reconnects or a call fails, no notification      *)
(* reaches anybody who gave up; and until a reconnect is refused or a call *)
(* fails, every lost subscription is on its way back.                      *)
(***************************************************************************)
EXTENDS Subscription, SequenceTheorems, TLAPS

-----------------------------------------------------------------------------
(* Types, and what a connection knows of its provider                      *)

Ids == [sid : Nat, reg : Regs]
CallType == [by : {"add", "loop"}, reg : Regs, loop : Nat] \cup [by : {"remove"}, reg : Regs, sid : Nat]
MsgType == [to : CallType \cup {Calling("tick", <<>>)}, sid : Nat]
ConnType == [sock : {"none", "connecting", "open", "closing"}, closed : BOOLEAN, tries : 0..MaxReconnects,
             regs : SUBSET Regs, route : SUBSET Ids]
WireType == [calls : SUBSET CallType, down : Seq(MsgType), subs : SUBSET Ids, issued : Nat]
ClientType == [pc : {"idle", "connect", "establish", "active", "removing", "done", "failed"}, on : 0..MaxConns, at : Nat]
LoopType == [pc : {"none", "timer", "connect", "run"}, on : 0..MaxConns, seen : SUBSET Regs, reg : Regs \cup {<<>>}]

Types ==
  /\ used \in 0..MaxConns /\ current \in 0..used
  /\ conn \in [Conns -> ConnType] /\ wire \in [Conns -> WireType] /\ sid \in [Regs -> Nat]
  /\ client \in [Subs -> ClientType] /\ loop \in [Loops -> LoopType]
  /\ faults \in [drops : Nat, others : Nat]

PastTypes == past \in [Conns -> SUBSET {"again", "ended", "error"}]

\* Whoever has a connection has one that was made; the others are as at first.
Fresh == [sock |-> "none", closed |-> FALSE, tries |-> 0, regs |-> {}, route |-> {}]
Placed ==
  /\ \A s \in Subs : client[s].pc # "idle" => client[s].on \in 1..used
  /\ \A k \in Loops : loop[k].pc # "none" => loop[k].on \in 1..used /\ k <= faults.drops
  /\ \A c \in Conns : c > used => conn[c] = Fresh

\* A connection's ids, and those on their way to it, are ids its provider issued,
\* to the registration they stand for; without a socket it has none.
Wired(cn, w) ==
  /\ cn.sock \in {"none", "connecting"} => w = NoWire /\ cn.route = {}
  /\ \A e \in cn.route : /\ 1 <= e.sid /\ e.sid <= w.issued
                         /\ \A f \in w.subs : f.sid = e.sid => f.reg = e.reg
  /\ \A f \in w.subs : 1 <= f.sid /\ f.sid <= w.issued
  /\ \A i \in 1..Len(w.down) :
       /\ w.down[i].sid <= w.issued
       /\ \A f \in w.subs : w.down[i].to.by \in {"add", "loop"} /\ f.sid = w.down[i].sid => f.reg = w.down[i].to.reg

Base ==
  /\ SubscriptionAssumption /\ Types /\ Placed
  /\ \A c \in Conns : Wired(conn[c], wire[c])
  /\ \A c \in Conns : (conn[c].sock = "closing" => conn[c].closed) /\ (conn[c].closed => current # c)

-----------------------------------------------------------------------------
(* Whose turn it is                                                        *)

\* A call, or its answer on the way, is of somebody who waits for just that.
CallOK(c, a) ==
  /\ a.by = "loop" => /\ a.loop \in Loops /\ loop[a.loop].pc = "run"
                      /\ loop[a.loop].on = c /\ loop[a.loop].reg = a.reg
  /\ a.by # "loop" => /\ client[a.reg[1]].pc = (IF a.by = "add" THEN "establish" ELSE "removing")
                      /\ client[a.reg[1]].on = c /\ client[a.reg[1]].at = a.reg[2]
Same(a, b) == \/ a.by = "loop" /\ b.by = "loop" /\ a.loop = b.loop
              \/ a.by # "loop" /\ b.by # "loop" /\ a.reg[1] = b.reg[1]

\* Nobody waits for two.
Turned(c, w) ==
  /\ \A a \in w.calls : CallOK(c, a)
  /\ \A a, b \in w.calls : Same(a, b) => a = b
  /\ \A i \in 1..Len(w.down) : w.down[i].to.by # "tick" =>
       /\ CallOK(c, w.down[i].to)
       /\ \A a \in w.calls : ~Same(a, w.down[i].to)
       /\ \A j \in 1..Len(w.down) : j # i /\ w.down[j].to.by # "tick" => ~Same(w.down[j].to, w.down[i].to)
Pending(w, a) == a \in w.calls \/ \E i \in 1..Len(w.down) : w.down[i].to = a /\ a.by # "tick"
Turns == \A c \in Conns : Turned(c, wire[c])

\* A subscription, and one under way, is among the live registrations; nobody
\* is on a connection that was closed, or they wait for it to fail.
Held ==
  /\ \A s \in Subs : client[s].pc = "active" => \A i \in 1..Filters[s] : <<s, i>> \in conn[client[s].on].regs
  /\ \A s \in Subs : client[s].pc = "connect" => client[s].at = 1
  /\ \A s \in Subs : client[s].pc = "establish" => \A i \in 1..client[s].at : <<s, i>> \in conn[client[s].on].regs
  /\ \A c \in Conns : conn[c].closed => conn[c].regs = {} /\ (conn[c].sock = "closing" \/ Waiting(c) = {})
  /\ \A k \in Loops : loop[k].pc \in {"timer", "connect"} => loop[k].seen = {}

\* Only connection c is touched.
Elsewhere(c) == \A d \in Conns \ {c} : conn'[d] = conn[d] /\ wire'[d] = wire[d]

LEMMA RegIs ==
  ASSUME SubscriptionAssumption
  PROVE  /\ \A r \in Regs : r[1] \in Subs /\ r[2] \in 1..Filters[r[1]] /\ r = <<r[1], r[2]>> /\ r # <<>>
         /\ \A s \in Subs : Filters[s] \in {1, 2} /\ \A i \in 1..Filters[s] : <<s, i>> \in Regs
<1>1. \A s \in Subs : Filters[s] \in {1, 2}
  BY DEF SubscriptionAssumption
<1>2. ASSUME NEW r \in Regs PROVE r[1] \in Subs /\ r[2] \in 1..Filters[r[1]] /\ r = <<r[1], r[2]>> /\ r # <<>>
  <2>1. PICK s \in Subs, i \in 1..2 : r = <<s, i>>
    BY DEF Regs
  <2>2. ~(i = 2 /\ Filters[s] = 1)
    BY <2>1 DEF Regs
  <2>3. i \in 1..Filters[s]
    BY <1>1, <2>2
  <2>4. r[1] = s /\ r[2] = i
    BY <2>1
  <2>. QED  BY <2>1, <2>3, <2>4
<1>3. ASSUME NEW s \in Subs, NEW i \in 1..Filters[s] PROVE <<s, i>> \in Regs
  <2>1. i \in 1..2 /\ ~(i = 2 /\ Filters[s] = 1)
    BY <1>1, <1>3
  <2>. QED  BY <2>1 DEF Regs
<1>. QED  BY <1>1, <1>2, <1>3

LEMMA Bounds ==
  ASSUME SubscriptionAssumption
  PROVE  MaxReconnects \in Nat /\ MaxConns \in Nat /\ MaxEvents \in Nat
BY DEF SubscriptionAssumption

LEMMA BaseTypes == ASSUME Base, PastTypes PROVE TypeOK /\ RoutesAreServed
<1>1. \A c \in Conns : conn[c].route \subseteq [sid : 1..wire[c].issued, reg : Regs]
  BY DEF Base, Types, ConnType, WireType, Wired, Ids
<1>2. TypeOK
  BY <1>1 DEF Base, Types, ConnType, WireType, ClientType, Wired, PastTypes, TypeOK
<1>3. ASSUME NEW c \in Conns, NEW e \in conn[c].route, NEW f \in wire[c].subs, f.sid = e.sid PROVE e = f
  <2>1. e \in Ids /\ f \in Ids
    BY DEF Base, Types, ConnType, WireType
  <2>2. e.reg = f.reg
    BY <1>3 DEF Base, Wired
  <2>3. e = [sid |-> e.sid, reg |-> e.reg] /\ f = [sid |-> f.sid, reg |-> f.reg]
    BY <2>1 DEF Ids
  <2>. QED  BY <1>3, <2>2, <2>3
<1>. QED  BY <1>2, <1>3 DEF RoutesAreServed

LEMMA InitBase == ASSUME SubscriptionAssumption, Init PROVE Base
<1>. USE Bounds
<1>1. NoWire \in WireType
  BY DEF NoWire, WireType
<1>2. NoLoop \in LoopType
  BY DEF NoLoop, Timer, LoopType
<1>3. Types
  BY <1>1, <1>2 DEF Init, Types, ConnType, ClientType
<1>4. \A c \in Conns : conn[c] = Fresh /\ wire[c] = NoWire
  BY DEF Init, Fresh
<1>5. Placed
  BY <1>4 DEF Init, Placed, NoLoop, Timer
<1>. QED  BY <1>3, <1>4, <1>5 DEF Base, Wired, NoWire, Fresh

LEMMA NewConn ==
  ASSUME Types, NEW c \in Conns, NEW x \in ConnType, conn' = [conn EXCEPT ![c] = x]
  PROVE  conn' \in [Conns -> ConnType] /\ conn'[c] = x /\ \A d \in Conns \ {c} : conn'[d] = conn[d]
BY DEF Types

LEMMA NewWire ==
  ASSUME Types, NEW c \in Conns, NEW x \in WireType, wire' = [wire EXCEPT ![c] = x]
  PROVE  wire' \in [Conns -> WireType] /\ wire'[c] = x /\ \A d \in Conns \ {c} : wire'[d] = wire[d]
BY DEF Types

LEMMA NewClient ==
  ASSUME Types, NEW s \in Subs, NEW x \in ClientType, client' = [client EXCEPT ![s] = x]
  PROVE  client' \in [Subs -> ClientType] /\ client'[s] = x /\ \A t \in Subs \ {s} : client'[t] = client[t]
BY DEF Types

LEMMA NewLoop ==
  ASSUME Types, NEW k \in Loops, NEW x \in LoopType, loop' = [loop EXCEPT ![k] = x]
  PROVE  loop' \in [Loops -> LoopType] /\ loop'[k] = x /\ \A j \in Loops \ {k} : loop'[j] = loop[j]
BY DEF Types

\* A step of one connection: what it becomes, and what else has to be said of the step.
Becomes(c, cn, w) ==
  /\ conn' = [conn EXCEPT ![c] = cn] /\ wire' = [wire EXCEPT ![c] = w] /\ Wired(cn, w)
  /\ (cn.sock = "closing" => cn.closed) /\ (cn.closed => current' # c)
Numbers(c) ==
  /\ used' \in 0..MaxConns /\ c <= used' /\ used <= used' /\ current' \in {0, current, c}
  /\ sid' \in [Regs -> Nat]
  /\ faults' \in [drops : Nat, others : Nat] /\ faults.drops <= faults'.drops
Clients(c) ==
  /\ client' \in [Subs -> ClientType]
  /\ \A s \in Subs : client'[s].pc # "idle" => client'[s].on = c \/ (client'[s].on = client[s].on /\ client[s].pc # "idle")
TheLoops(c) ==
  /\ loop' \in [Loops -> LoopType]
  /\ \A k \in Loops : loop'[k].pc # "none" => \/ loop'[k].on = c /\ k <= faults'.drops
                                              \/ loop'[k].on = loop[k].on /\ loop[k].pc # "none"

LEMMA StepBase ==
  ASSUME Base, NEW c \in Conns, NEW cn \in ConnType, NEW w \in WireType,
         Becomes(c, cn, w), Numbers(c), Clients(c), TheLoops(c)
  PROVE  Base' /\ conn'[c] = cn /\ wire'[c] = w /\ Elsewhere(c)
<1>. USE DEF Becomes, Numbers, Clients, TheLoops
<1>1. conn' \in [Conns -> ConnType] /\ conn'[c] = cn /\ \A d \in Conns \ {c} : conn'[d] = conn[d]
  BY NewConn DEF Base
<1>2. wire' \in [Conns -> WireType] /\ wire'[c] = w /\ \A d \in Conns \ {c} : wire'[d] = wire[d]
  BY NewWire DEF Base
<1>3. used \in Nat /\ used' \in Nat /\ c \in Nat /\ c >= 1 /\ current' \in 0..used'
  BY DEF Base, Types, Conns
<1>4. Types'
  BY <1>1, <1>2, <1>3 DEF Base, Types, Conns
<1>5. \A d \in Conns : Wired(conn'[d], wire'[d])
  BY <1>1, <1>2 DEF Base
<1>6. \A d \in Conns : (conn'[d].sock = "closing" => conn'[d].closed) /\ (conn'[d].closed => current' # d)
  BY <1>1 DEF Base, Conns
<1>7. \A d \in Conns : d > used' => conn'[d] = Fresh
  BY <1>1, <1>3 DEF Base, Placed, Conns
<1>8. \A s \in Subs : client'[s].pc # "idle" => client'[s].on \in 1..used'
  BY <1>3 DEF Base, Placed
<1>9. \A k \in Loops : loop'[k].pc # "none" => loop'[k].on \in 1..used' /\ k <= faults'.drops
  <2>1. \A k \in Loops : k \in Nat
    BY DEF Loops
  <2>2. faults.drops \in Nat /\ faults'.drops \in Nat
    BY DEF Base, Types
  <2>. QED  BY <1>3, <2>1, <2>2 DEF Base, Placed
<1>10. Placed'
  BY <1>7, <1>8, <1>9 DEF Placed
<1>. QED  BY <1>1, <1>2, <1>4, <1>5, <1>6, <1>10 DEF Base, Wired, SubscriptionAssumption, Elsewhere

-----------------------------------------------------------------------------
(* The steps                                                               *)

LEMMA VisitsTypes ==
  ASSUME SubscriptionAssumption, NEW l \in LoopType, NEW rs \in SUBSET Regs, NEW v \in Visits(l, rs)
  PROVE  /\ v \in LoopType /\ v.pc \in {"none", "run"} /\ (v.pc = "run" => v.on = l.on /\ v.reg \in rs)
         /\ \A r \in rs \ l.seen : v.pc = "run" /\ (r \notin v.seen \/ v.reg = r)
<1>1. NoLoop \in LoopType
  BY Bounds DEF NoLoop, Timer, LoopType
<1>2. ASSUME NEW r \in rs, v = [l EXCEPT !.pc = "run", !.reg = r, !.seen = @ \cup {r}]
      PROVE  v \in LoopType /\ v.pc = "run" /\ v.on = l.on /\ v.reg = r /\ v.seen = l.seen \cup {r}
  BY <1>2 DEF LoopType
<1>3. CASE rs \subseteq l.seen
  BY <1>1, <1>3 DEF Visits, NoLoop, Timer
<1>4. CASE ~(rs \subseteq l.seen)
  <2>1. PICK r \in rs : v = [l EXCEPT !.pc = "run", !.reg = r, !.seen = @ \cup {r}]
    BY <1>4 DEF Visits
  <2>. QED  BY <1>2, <2>1
<1>. QED  BY <1>3, <1>4

LEMMA CallsTypes ==
  ASSUME NEW ls \in [Loops -> LoopType], NEW ks \in SUBSET Loops, \A k \in ks : ls[k].pc = "run" => ls[k].reg \in Regs
  PROVE  CallsOf(ks, ls) \subseteq CallType
BY DEF CallsOf, CallType, Loops

LEMMA SubscribeStep ==
  ASSUME Base, NEW s \in Subs, Subscribe(s)
  PROVE  /\ Base' /\ client[s].pc = "idle" /\ UNCHANGED <<sid, loop, faults>>
         /\ client' \in [Subs -> ClientType] /\ \A t \in Subs \ {s} : client'[t] = client[t]
         /\ \E c \in Conns :
              /\ ~conn[c].closed /\ Elsewhere(c)
              /\ \/ /\ conn[c].sock = "open" /\ conn'[c] = [conn[c] EXCEPT !.regs = @ \cup {<<s, 1>>}]
                    /\ wire'[c] = [wire[c] EXCEPT !.calls = @ \cup {Calling("add", <<s, 1>>)}]
                    /\ client'[s] = [pc |-> "establish", on |-> c, at |-> 1]
                 \/ /\ conn[c].sock \in {"none", "connecting"} /\ conn'[c] = [conn[c] EXCEPT !.sock = "connecting"]
                    /\ wire'[c] = wire[c] /\ client'[s] = [pc |-> "connect", on |-> c, at |-> 1]
<1>. DEFINE c == IF current = 0 THEN used + 1 ELSE current
<1>0. <<s, 1>> \in Regs
  BY RegIs DEF Base
<1>1. /\ c \in Conns /\ current' = c /\ used' \in 0..MaxConns /\ c <= used' /\ used <= used'
      /\ ~conn[c].closed /\ conn[c].sock # "closing" /\ client[s].pc = "idle" /\ UNCHANGED <<sid, loop, faults>>
  <2>1. c \in Conns /\ current' = c /\ used' \in 0..MaxConns /\ c <= used' /\ used <= used'
    BY Bounds DEF Subscribe, Base, Types, Conns
  <2>2. CASE current = 0
    <3>1. c > used
      BY <2>2 DEF Base, Types
    <3>2. conn[c].sock = "none" /\ ~conn[c].closed
      BY <2>1, <3>1 DEF Base, Placed, Fresh
    <3>. QED  BY <2>1, <3>2 DEF Subscribe
  <2>3. CASE current # 0
    BY <2>1, <2>3 DEF Base, Subscribe
  <2>. QED  BY <2>2, <2>3
<1>2. ASSUME NEW cn \in ConnType, conn' = [conn EXCEPT ![c] = cn], NEW w \in WireType, wire' = [wire EXCEPT ![c] = w],
             NEW cl \in ClientType, client' = [client EXCEPT ![s] = cl], cl.on = c, ~cn.closed, cn.sock # "closing", Wired(cn, w)
      PROVE  /\ Base' /\ conn'[c] = cn /\ wire'[c] = w /\ Elsewhere(c)
             /\ client' \in [Subs -> ClientType] /\ client'[s] = cl /\ \A t \in Subs \ {s} : client'[t] = client[t]
  <2>. HIDE DEF c
  <2>1. client' \in [Subs -> ClientType] /\ client'[s] = cl /\ \A t \in Subs \ {s} : client'[t] = client[t]
    BY <1>2, NewClient DEF Base
  <2>2. Clients(c)
    BY <1>2, <2>1 DEF Clients
  <2>3. Numbers(c)
    BY <1>1 DEF Base, Types, Numbers
  <2>4. TheLoops(c)
    BY <1>1 DEF Base, Types, TheLoops
  <2>5. Becomes(c, cn, w)
    BY <1>1, <1>2 DEF Becomes
  <2>. QED  BY <1>1, <1>2, <2>1, <2>2, <2>3, <2>4, <2>5, StepBase
<1>3. c \in 0..MaxConns /\ conn[c] \in ConnType /\ wire[c] \in WireType /\ Wired(conn[c], wire[c])
  BY <1>1 DEF Base, Types, Conns
<1>4. CASE conn[c].sock = "open"
  <2>. DEFINE cn == [conn[c] EXCEPT !.regs = @ \cup {<<s, 1>>}]
              w == [wire[c] EXCEPT !.calls = @ \cup {Calling("add", <<s, 1>>)}]
              cl == [pc |-> "establish", on |-> c, at |-> 1]
  <2>1. conn' = [conn EXCEPT ![c] = cn] /\ wire' = [wire EXCEPT ![c] = w] /\ client' = [client EXCEPT ![s] = cl]
    BY <1>4 DEF Subscribe, Send
  <2>. HIDE DEF c
  <2>2. cn \in ConnType /\ w \in WireType /\ cl \in ClientType
    <3>1. cn \in ConnType BY <1>0, <1>3 DEF ConnType
    <3>2. Calling("add", <<s, 1>>) \in CallType BY <1>0 DEF CallType, Calling
    <3>3. w \in WireType BY <1>3, <3>2 DEF WireType
    <3>4. cl \in ClientType BY <1>3 DEF ClientType
    <3> QED BY <3>1, <3>3, <3>4
  <2>3. Wired(cn, w) /\ cn.sock = "open" /\ cl.on = c /\ ~cn.closed
    BY <1>1, <1>3, <1>4 DEF ConnType, WireType, Wired
  <2>4. /\ Base' /\ conn'[c] = cn /\ wire'[c] = w /\ Elsewhere(c)
        /\ client' \in [Subs -> ClientType] /\ client'[s] = cl /\ \A t \in Subs \ {s} : client'[t] = client[t]
    <3>. HIDE DEF cn, w, cl
    <3>. QED  BY <1>2, <2>1, <2>2, <2>3
  <2>. QED  BY <1>1, <1>4, <2>4
<1>5. CASE conn[c].sock # "open"
  <2>. DEFINE cn == [conn[c] EXCEPT !.sock = "connecting"]
              cl == [pc |-> "connect", on |-> c, at |-> 1]
  <2>1. conn' = [conn EXCEPT ![c] = cn] /\ wire' = wire /\ client' = [client EXCEPT ![s] = cl]
    BY <1>5 DEF Subscribe
  <2>. HIDE DEF c
  <2>2. cn \in ConnType /\ cl \in ClientType
    BY <1>3 DEF ConnType, ClientType
  <2>3. conn[c].sock \in {"none", "connecting"}
    BY <1>1, <1>3, <1>5 DEF ConnType
  <2>4. Wired(cn, wire[c]) /\ cn.sock # "closing" /\ cl.on = c /\ ~cn.closed
    BY <1>1, <1>3, <2>3 DEF ConnType, Wired
  <2>5. wire' = [wire EXCEPT ![c] = wire[c]]
    BY <1>1, <2>1 DEF Base, Types
  <2>6. /\ Base' /\ conn'[c] = cn /\ wire'[c] = wire[c] /\ Elsewhere(c)
        /\ client' \in [Subs -> ClientType] /\ client'[s] = cl /\ \A t \in Subs \ {s} : client'[t] = client[t]
    <3>. HIDE DEF cn, cl
    <3>. QED  BY <1>2, <1>3, <2>1, <2>2, <2>4, <2>5
  <2>. QED  BY <1>1, <2>3, <2>6
<1>. QED  BY <1>4, <1>5

\* What a lost or closed socket leaves of the others' calls.
LEMMA RejectedClients ==
  ASSUME Base, NEW c \in Conns, client' = Rejected(c)
  PROVE  /\ Clients(c)
         /\ \A s \in Subs : /\ client[s].on # c => client'[s] = client[s]
                            /\ client'[s].on = client[s].on /\ client'[s].at = client[s].at
                            /\ client'[s].pc = "idle" => client[s].pc = "idle"
                            /\ client'[s].pc = "active" <=> client[s].pc = "active"
                            /\ client[s].on = c => client'[s].pc \notin {"connect", "establish", "removing"}
<1>1. ASSUME NEW s \in Subs
      PROVE  /\ client'[s] \in ClientType /\ client'[s].on = client[s].on /\ client'[s].at = client[s].at
             /\ client[s].on # c => client'[s] = client[s]
             /\ client'[s].pc = "idle" => client[s].pc = "idle"
             /\ client'[s].pc = "active" <=> client[s].pc = "active"
             /\ client[s].on = c => client'[s].pc \notin {"connect", "establish", "removing"}
  <2>1. client[s] \in ClientType
    BY DEF Base, Types
  <2>2. CASE client[s].on # c
    BY <2>1, <2>2 DEF Rejected
  <2>3. CASE client[s].on = c /\ client[s].pc \in {"connect", "establish"}
    BY <2>1, <2>3 DEF Rejected, ClientType
  <2>4. CASE client[s].on = c /\ client[s].pc = "removing"
    BY <2>1, <2>4 DEF Rejected, ClientType
  <2>5. CASE client[s].on = c /\ client[s].pc \notin {"connect", "establish", "removing"}
    BY <2>1, <2>5 DEF Rejected, ClientType
  <2>. QED  BY <2>2, <2>3, <2>4, <2>5
<1>2. client' \in [Subs -> ClientType]
  BY <1>1 DEF Rejected
<1>3. Clients(c)
  BY <1>1, <1>2 DEF Clients, Base, Types
<1>. QED  BY <1>1, <1>3

LEMMA LoopValues ==
  ASSUME SubscriptionAssumption
  PROVE  NoLoop \in LoopType /\ NoLoop.pc = "none" /\ \A c \in Conns : Timer(c) \in LoopType
BY Bounds DEF NoLoop, Timer, LoopType, Conns

LEMMA WireValues ==
  NoWire \in WireType /\ NoWire.calls = {} /\ NoWire.down = <<>> /\ NoWire.subs = {} /\ NoWire.issued = 0
BY DEF NoWire, WireType

LEMMA OpenedConn ==
  ASSUME SubscriptionAssumption, NEW x \in ConnType
  PROVE  LET y == [x EXCEPT !.sock = "open", !.tries = 0] IN
         y \in ConnType /\ y.sock = "open" /\ y.closed = x.closed /\ y.tries = 0 /\ y.route = x.route
<1>1. 0 \in 0..MaxReconnects
  BY Bounds
<1>. QED  BY <1>1 DEF ConnType

LEMMA EndedLoops ==
  ASSUME Base, NEW c \in Conns
  PROVE  /\ Ended(c) \in [Loops -> LoopType]
         /\ \A k \in Loops : IF loop[k].on = c /\ loop[k].pc # "timer" THEN Ended(c)[k].pc = "none" ELSE Ended(c)[k] = loop[k]
BY LoopValues DEF Base, Types, Ended

\* Only a connection that was made has a socket.
LEMMA MadeBefore ==
  ASSUME Base, NEW c \in Conns, conn[c].sock # "none" PROVE c <= used
<1>1. ~(c > used)
  BY DEF Base, Placed, Fresh
<1>. QED  BY <1>1 DEF Base, Types, Conns

LEMMA OpenedStep ==
  ASSUME Base, NEW c \in Conns, Opened(c)
  PROVE  /\ Base' /\ conn[c].sock = "connecting" /\ Elsewhere(c) /\ UNCHANGED <<current, used, sid, faults>>
         /\ wire[c] = NoWire /\ conn'[c].sock = "open" /\ conn'[c].tries = 0
         /\ conn'[c].closed = conn[c].closed /\ conn'[c].route = conn[c].route /\ conn'[c].regs = conn[c].regs \cup {<<s, 1>> : s \in Waiting(c)}
         /\ client' = [s \in Subs |-> IF s \in Waiting(c) THEN [client[s] EXCEPT !.pc = "establish"] ELSE client[s]]
         /\ \A k \in Loops : IF loop[k].pc = "connect" /\ loop[k].on = c
                             THEN /\ loop'[k].pc \in {"none", "run"}
                                  /\ loop'[k].pc = "run" => loop'[k].on = c /\ loop'[k].reg \in conn'[c].regs
                                  /\ \A r \in conn[c].regs : loop'[k].pc = "run" /\ (r \notin loop'[k].seen \/ loop'[k].reg = r)
                             ELSE loop'[k] = loop[k]
         /\ wire'[c].down = <<>>
         /\ wire'[c].calls = {Calling("add", <<s, 1>>) : s \in Waiting(c)}
                                \cup CallsOf({k \in Loops : loop[k].pc = "connect" /\ loop[k].on = c}, loop')
<1>. DEFINE joining == {<<s, 1>> : s \in Waiting(c)}
            regs == conn[c].regs \cup joining
            ks == {k \in Loops : loop[k].pc = "connect" /\ loop[k].on = c}
            cn == [Opens(c) EXCEPT !.regs = regs]
            asks == {Calling("add", r) : r \in joining} \cup CallsOf(ks, loop')
            w == [wire[c] EXCEPT !.calls = @ \cup asks]
<1>3. conn[c].sock = "connecting" /\ UNCHANGED <<current, used, sid, faults>>
  BY DEF Opened
<1>4. conn[c] \in ConnType /\ wire[c] = NoWire /\ conn[c].route = {} /\ joining \subseteq Regs /\ regs \subseteq Regs
  <2>1. joining \subseteq Regs
    BY RegIs DEF Base, Waiting
  <2>. QED  BY <1>3, <2>1 DEF Base, Types, Wired, ConnType
<1>9. ASSUME asks \subseteq CallType
      PROVE  w \in WireType /\ w.calls = asks /\ w.down = <<>> /\ w.subs = {} /\ w.issued = 0
  <2>1. wire[c] \in WireType /\ wire[c].calls = {} /\ wire[c].down = <<>> /\ wire[c].subs = {} /\ wire[c].issued = 0
    BY <1>4, WireValues
  <2>. HIDE DEF joining, regs, ks, asks
  <2>. QED  BY <1>9, <2>1 DEF WireType
<1>10. /\ cn \in ConnType /\ cn.sock = "open" /\ cn.closed = conn[c].closed /\ cn.tries = 0 /\ cn.regs = regs
       /\ cn.route = conn[c].route
  <2>2. Opens(c) \in ConnType /\ Opens(c).sock = "open" /\ Opens(c).closed = conn[c].closed /\ Opens(c).tries = 0
        /\ Opens(c).route = conn[c].route
    BY <1>4, OpenedConn DEF Opens, Base
  <2>3. ASSUME NEW x \in ConnType, NEW rs \in SUBSET Regs
        PROVE  LET y == [x EXCEPT !.regs = rs] IN
               /\ y \in ConnType /\ y.regs = rs
               /\ y.sock = x.sock /\ y.closed = x.closed /\ y.tries = x.tries /\ y.route = x.route
    BY DEF ConnType
  <2>4. regs \in SUBSET Regs
    BY <1>4
  <2>. HIDE DEF regs
  <2>. QED  BY <2>2, <2>3, <2>4
<1>1. PICK seen \in {conn[c].regs, regs} : \E next \in [ks -> Visits(Timer(c), seen)] :
          /\ conn' = [conn EXCEPT ![c] = cn]
          /\ loop' = [k \in Loops |-> IF k \in ks THEN next[k] ELSE loop[k]]
          /\ wire' = [wire EXCEPT ![c] = w]
          /\ client' = [s \in Subs |-> IF s \in Waiting(c) THEN [client[s] EXCEPT !.pc = "establish"] ELSE client[s]]
  BY DEF Opened, Send
<1>2. PICK next \in [ks -> Visits(Timer(c), seen)] :
          /\ conn' = [conn EXCEPT ![c] = cn]
          /\ loop' = [k \in Loops |-> IF k \in ks THEN next[k] ELSE loop[k]]
          /\ wire' = [wire EXCEPT ![c] = w]
          /\ client' = [s \in Subs |-> IF s \in Waiting(c) THEN [client[s] EXCEPT !.pc = "establish"] ELSE client[s]]
  BY <1>1
<1>5. \A k \in Loops : IF k \in ks THEN /\ loop'[k] \in LoopType /\ loop'[k].pc \in {"none", "run"}
                                        /\ loop'[k].pc = "run" => loop'[k].on = c /\ loop'[k].reg \in regs
                                        /\ \A r \in conn[c].regs : loop'[k].pc = "run" /\ (r \notin loop'[k].seen \/ loop'[k].reg = r)
                       ELSE loop'[k] = loop[k]
  <2>1. ASSUME NEW k \in ks PROVE /\ next[k] \in LoopType /\ next[k].pc \in {"none", "run"}
                                  /\ next[k].pc = "run" => next[k].on = c /\ next[k].reg \in regs
                                  /\ \A r \in conn[c].regs : next[k].pc = "run" /\ (r \notin next[k].seen \/ next[k].reg = r)
    <3>1. next[k] \in Visits(Timer(c), seen) /\ Timer(c) \in LoopType /\ Timer(c).seen = {} /\ Timer(c).on = c
      BY LoopValues DEF Base, Timer
    <3>2. seen \in SUBSET Regs /\ conn[c].regs \subseteq seen /\ seen \subseteq regs
      BY <1>1, <1>4 DEF ConnType
    <3>. HIDE DEF ks, regs
    <3>. QED  BY <3>1, <3>2, VisitsTypes DEF Base
  <2>2. \A k \in Loops : loop'[k] = IF k \in ks THEN next[k] ELSE loop[k]
    BY <1>2
  <2>. HIDE DEF ks
  <2>. QED  BY <2>1, <2>2
<1>6. loop' \in [Loops -> LoopType]
  <2>1. \A k \in Loops : loop'[k] \in LoopType
    BY <1>5 DEF Base, Types
  <2>. QED  BY <1>2, <2>1
<1>7. TheLoops(c)
  BY <1>3, <1>5, <1>6 DEF TheLoops, Base, Placed
<1>8. asks \subseteq CallType
  <2>1. {Calling("add", r) : r \in joining} \subseteq CallType
    BY <1>4 DEF Calling, CallType
  <2>2. CallsOf(ks, loop') \subseteq CallType
    BY <1>4, <1>5, <1>6, CallsTypes
  <2>. QED  BY <2>1, <2>2
<1>11. Becomes(c, cn, w)
  <2>1. cn.closed => current' # c
    BY <1>3, <1>10 DEF Base
  <2>2. Wired(cn, w) /\ cn.sock = "open"
    <3>1. cn.sock = "open" /\ cn.route = {} /\ w.subs = {} /\ w.down = <<>>
      BY <1>4, <1>8, <1>9, <1>10
    <3>2. Len(w.down) = 0
      BY <3>1
    <3>. HIDE DEF cn, w
    <3>. QED  BY <3>1, <3>2 DEF Wired
  <2>. QED  BY <1>2, <2>1, <2>2 DEF Becomes
<1>12. Numbers(c)
  BY <1>3, MadeBefore DEF Numbers, Base, Types
<1>13. client' \in [Subs -> ClientType] /\ Clients(c)
  BY <1>2, <1>3 DEF Base, Types, ClientType, Clients, Waiting
<1>14. Base' /\ conn'[c] = cn /\ wire'[c] = w /\ Elsewhere(c)
  <2>. HIDE DEF cn, w
  <2>. QED  BY <1>7, <1>8, <1>9, <1>10, <1>11, <1>12, <1>13, StepBase
<1>15. {Calling("add", r) : r \in joining} = {Calling("add", <<s, 1>>) : s \in Waiting(c)}
  OBVIOUS
<1>16. /\ conn'[c].sock = "open" /\ conn'[c].tries = 0 /\ conn'[c].closed = conn[c].closed
       /\ conn'[c].route = conn[c].route /\ conn'[c].regs = regs /\ wire'[c].down = <<>> /\ wire'[c].calls = asks
  <2>. HIDE DEF cn, w, regs, asks
  <2>. QED  BY <1>4, <1>8, <1>9, <1>10, <1>14
<1>17. wire'[c].calls = {Calling("add", <<s, 1>>) : s \in Waiting(c)} \cup CallsOf(ks, loop')
  BY <1>15, <1>16
<1>. QED  BY <1>2, <1>3, <1>4, <1>5, <1>14, <1>16, <1>17

\* What a connection is left with when its socket is refused, dropped or closed.
Lost(c) ==
  /\ conn'[c].sock = "none" /\ conn'[c].route = {} /\ conn'[c].regs = conn[c].regs \ Leaving(c)
  /\ conn'[c].closed = conn[c].closed /\ wire'[c] = NoWire /\ Elsewhere(c) /\ UNCHANGED <<current, used>>
  /\ \A r \in Regs : client[r[1]].on # c => sid'[r] = sid[r]
  /\ \A s \in Subs : /\ client[s].on # c => client'[s] = client[s]
                     /\ client'[s].on = client[s].on /\ client'[s].at = client[s].at
                     /\ client'[s].pc = "active" <=> client[s].pc = "active"
                     /\ client[s].on = c => client'[s].pc \notin {"connect", "establish", "removing"}
  /\ \A k \in Loops : /\ loop[k].on # c /\ loop[k].pc # "none" => loop'[k] = loop[k]
                      /\ loop'[k].pc # "none" => \/ loop'[k] = loop[k]
                                                 \/ loop'[k] = Timer(c) /\ conn[c].tries < MaxReconnects

LEMMA ForgetsConn ==
  ASSUME Base, NEW c \in Conns
  PROVE  LET x == Forgets(c) IN
         /\ x \in ConnType /\ x.sock = "none" /\ x.route = {} /\ x.regs = conn[c].regs \ Leaving(c)
         /\ x.closed = conn[c].closed /\ x.tries = conn[c].tries /\ Wired(x, NoWire)
<1>. DEFINE gone == Leaving(c)
<1>1. conn[c] \in ConnType
  BY DEF Base, Types
<1>2. LET x == [conn[c] EXCEPT !.sock = "none", !.route = {}, !.regs = @ \ gone] IN
      /\ x \in ConnType /\ x.sock = "none" /\ x.route = {} /\ x.regs = conn[c].regs \ gone
      /\ x.closed = conn[c].closed /\ x.tries = conn[c].tries
  <2>. HIDE DEF gone
  <2>. QED  BY <1>1 DEF ConnType
<1>3. \A x : x.route = {} => Wired(x, NoWire)
  <2>1. Len(NoWire.down) = 0
    BY DEF NoWire
  <2>. QED  BY <2>1, WireValues DEF Wired
<1>. QED  BY <1>2, <1>3 DEF Forgets

LEMMA NulledSid ==
  ASSUME Base, NEW c \in Conns
  PROVE  Nulled(c) \in [Regs -> Nat] /\ \A r \in Regs : Nulled(c)[r] = IF client[r[1]].on = c THEN 0 ELSE sid[r]
BY DEF Base, Types, Nulled

LEMMA RefuseLost ==
  ASSUME Base, NEW c \in Conns, Refuse(c)
  PROVE  Base' /\ Lost(c) /\ UNCHANGED sid
<1>. DEFINE cn == Forgets(c)
<1>1. /\ conn[c].sock = "connecting" /\ conn' = [conn EXCEPT ![c] = cn] /\ client' = Rejected(c) /\ loop' = Ended(c)
      /\ faults' = [faults EXCEPT !.others = @ + 1] /\ UNCHANGED <<current, used, wire, sid>>
  BY DEF Refuse
<1>2. /\ cn \in ConnType /\ cn.sock = "none" /\ cn.route = {} /\ cn.regs = conn[c].regs \ Leaving(c)
      /\ cn.closed = conn[c].closed /\ cn.tries = conn[c].tries /\ Wired(cn, NoWire)
  BY ForgetsConn
<1>. HIDE DEF cn
<1>3. wire[c] = NoWire /\ wire' = [wire EXCEPT ![c] = NoWire] /\ NoWire \in WireType
  BY <1>1, WireValues DEF Base, Wired, Types
<1>4. Becomes(c, cn, NoWire)
  BY <1>1, <1>2, <1>3 DEF Becomes, Base
<1>5. Numbers(c)
  BY <1>1, MadeBefore DEF Numbers, Base, Types
<1>6. Clients(c)
  BY <1>1, RejectedClients
<1>7. TheLoops(c)
  BY <1>1, EndedLoops DEF TheLoops
<1>8. Base' /\ conn'[c] = cn /\ wire'[c] = NoWire /\ Elsewhere(c)
  BY <1>2, <1>3, <1>4, <1>5, <1>6, <1>7, StepBase
<1>9. \A k \in Loops : /\ loop[k].on # c /\ loop[k].pc # "none" => loop'[k] = loop[k]
                       /\ loop'[k].pc # "none" => loop'[k] = loop[k]
  BY <1>1, EndedLoops
<1>. QED  BY <1>1, <1>2, <1>8, <1>9, RejectedClients DEF Lost

LEMMA ClosedLost == ASSUME Base, NEW c \in Conns, Closed(c) PROVE Base' /\ Lost(c) /\ conn[c].sock = "closing"
<1>. DEFINE cn == Forgets(c)
<1>1. /\ conn[c].sock = "closing" /\ conn' = [conn EXCEPT ![c] = cn] /\ client' = Rejected(c) /\ loop' = Ended(c)
      /\ wire' = [wire EXCEPT ![c] = NoWire] /\ sid' = Nulled(c) /\ UNCHANGED <<current, used, faults>>
  BY DEF Closed
<1>2. /\ cn \in ConnType /\ cn.sock = "none" /\ cn.route = {} /\ cn.regs = conn[c].regs \ Leaving(c)
      /\ cn.closed = conn[c].closed /\ cn.tries = conn[c].tries /\ Wired(cn, NoWire)
  BY ForgetsConn
<1>. HIDE DEF cn
<1>3. NoWire \in WireType
  BY WireValues
<1>4. Becomes(c, cn, NoWire)
  BY <1>1, <1>2, <1>3 DEF Becomes, Base
<1>5. Numbers(c)
  BY <1>1, MadeBefore, NulledSid DEF Numbers, Base, Types
<1>6. Clients(c)
  BY <1>1, RejectedClients
<1>7. TheLoops(c)
  BY <1>1, EndedLoops DEF TheLoops
<1>8. Base' /\ conn'[c] = cn /\ wire'[c] = NoWire /\ Elsewhere(c)
  BY <1>2, <1>3, <1>4, <1>5, <1>6, <1>7, StepBase
<1>9. \A k \in Loops : /\ loop[k].on # c /\ loop[k].pc # "none" => loop'[k] = loop[k]
                       /\ loop'[k].pc # "none" => loop'[k] = loop[k]
  BY <1>1, EndedLoops
<1>. QED  BY <1>1, <1>2, <1>8, <1>9, RejectedClients, NulledSid DEF Lost

LEMMA DropLost ==
  ASSUME Base, NEW c \in Conns, Drop(c)
  PROVE  /\ Base' /\ Lost(c) /\ conn[c].sock = "open"
         /\ ~conn[c].closed /\ conn[c].regs # {} /\ conn[c].tries < MaxReconnects => \E k \in Loops : loop'[k] = Timer(c)
<1>. DEFINE again == ~conn[c].closed /\ conn[c].regs # {} /\ conn[c].tries < MaxReconnects
            k == faults.drops + 1
            cn == [Forgets(c) EXCEPT !.tries = IF again THEN @ + 1 ELSE @]
<1>1. /\ conn[c].sock = "open" /\ More /\ conn' = [conn EXCEPT ![c] = cn] /\ client' = Rejected(c)
      /\ loop' = IF again THEN [Ended(c) EXCEPT ![k] = Timer(c)] ELSE Ended(c)
      /\ wire' = [wire EXCEPT ![c] = NoWire] /\ sid' = Nulled(c)
      /\ faults' = [faults EXCEPT !.drops = @ + 1] /\ UNCHANGED <<current, used>>
  BY DEF Drop
<1>2. /\ cn \in ConnType /\ cn.sock = "none" /\ cn.route = {} /\ cn.regs = conn[c].regs \ Leaving(c)
      /\ cn.closed = conn[c].closed /\ Wired(cn, NoWire)
  <2>1. /\ Forgets(c) \in ConnType /\ Forgets(c).sock = "none" /\ Forgets(c).route = {}
        /\ Forgets(c).regs = conn[c].regs \ Leaving(c)
        /\ Forgets(c).closed = conn[c].closed /\ Forgets(c).tries = conn[c].tries
    BY ForgetsConn
  <2>2. conn[c].tries \in 0..MaxReconnects /\ MaxReconnects \in Nat
    BY Bounds DEF Base, Types, ConnType
  <2>3. (IF again THEN Forgets(c).tries + 1 ELSE Forgets(c).tries) \in 0..MaxReconnects
    BY <2>1, <2>2
  <2>. DEFINE n == IF again THEN Forgets(c).tries + 1 ELSE Forgets(c).tries
              x == Forgets(c)
  <2>. HIDE DEF n, x, again
  <2>4. ASSUME NEW y \in ConnType, NEW m \in 0..MaxReconnects
        PROVE  LET z == [y EXCEPT !.tries = m] IN
               z \in ConnType /\ z.sock = y.sock /\ z.route = y.route /\ z.regs = y.regs /\ z.closed = y.closed
    BY DEF ConnType
  <2>5. /\ cn \in ConnType /\ cn.sock = "none" /\ cn.route = {} /\ cn.regs = conn[c].regs \ Leaving(c)
        /\ cn.closed = conn[c].closed
    BY <2>1, <2>3, <2>4
  <2>6. Len(NoWire.down) = 0
    BY DEF NoWire
  <2>. QED  BY <2>5, <2>6, WireValues DEF Wired
<1>3. faults.drops \in Nat /\ k \in Loops /\ faults'.drops = k
      /\ faults' \in [drops : Nat, others : Nat]
  <2>1. faults.drops \in Nat /\ faults.others \in Nat /\ MaxEvents \in Nat
    BY Bounds DEF Base, Types
  <2>. QED  BY <1>1, <2>1 DEF More, Base, Types, Loops
<1>4. loop[k].pc = "none"
  <2>1. ~(k <= faults.drops)
    BY <1>3
  <2>. HIDE DEF k
  <2>. QED  BY <1>3, <2>1 DEF Base, Placed
<1>. HIDE DEF cn
<1>5. NoWire \in WireType /\ c <= used
  BY <1>1, WireValues, MadeBefore
<1>6. Becomes(c, cn, NoWire)
  BY <1>1, <1>2 DEF Becomes, Base
<1>7. Numbers(c)
  BY <1>1, <1>3, <1>5, NulledSid DEF Numbers, Base, Types
<1>8. Clients(c)
  BY <1>1, RejectedClients
<1>9. /\ loop' \in [Loops -> LoopType]
      /\ \A j \in Loops : /\ loop[j].on # c /\ loop[j].pc # "none" => loop'[j] = loop[j]
                          /\ loop'[j].pc # "none" => loop'[j] = loop[j] \/ (again /\ j = k /\ loop'[j] = Timer(c))
      /\ again => loop'[k] = Timer(c)
  <2>. HIDE DEF again, k
  <2>. QED  BY <1>1, <1>3, <1>4, EndedLoops, LoopValues DEF Base
<1>10. TheLoops(c)
  <2>1. Timer(c).on = c
    BY DEF Timer
  <2>2. k <= faults'.drops
    BY <1>3
  <2>. HIDE DEF again, k
  <2>. QED  BY <1>3, <1>9, <2>1, <2>2 DEF TheLoops
<1>11. Base' /\ conn'[c] = cn /\ wire'[c] = NoWire /\ Elsewhere(c)
  BY <1>2, <1>5, <1>6, <1>7, <1>8, <1>10, StepBase
<1>. QED  BY <1>1, <1>2, <1>3, <1>9, <1>11, RejectedClients, NulledSid DEF Lost

\* A message after the others, and the others after the first.
LEMMA AppendDown ==
  ASSUME NEW w \in WireType, NEW m \in MsgType
  PROVE  LET d == Append(w.down, m) IN
         /\ d \in Seq(MsgType) /\ Len(d) = Len(w.down) + 1 /\ d[Len(w.down) + 1] = m
         /\ \A i \in 1..Len(w.down) : d[i] = w.down[i]
<1>1. w.down \in Seq(MsgType)
  BY DEF WireType
<1>. QED  BY <1>1

LEMMA TailDown ==
  ASSUME NEW w \in WireType, w.down # <<>>
  PROVE  LET d == Tail(w.down) IN
         /\ d \in Seq(MsgType) /\ Len(d) = Len(w.down) - 1 /\ Len(d) \in Nat
         /\ Head(w.down) = w.down[1] /\ w.down[1] \in MsgType /\ 1 \in 1..Len(w.down)
         /\ \A i \in 1..Len(d) : d[i] = w.down[i + 1] /\ i + 1 \in 1..Len(w.down) /\ i + 1 # 1
<1>1. w.down \in Seq(MsgType)
  BY DEF WireType
<1>. QED  BY <1>1

\* What the provider does with a call.
LEMMA ServedWire ==
  ASSUME NEW w \in WireType, NEW cn \in ConnType, cn.sock = "open", Wired(cn, w), NEW call \in w.calls,
         NEW x \in WireType, NEW n \in Nat, x.down = Append(w.down, [to |-> call, sid |-> n]),
         \/ n = 0 /\ x.subs \subseteq w.subs /\ x.issued = w.issued
         \/ /\ n = w.issued + 1 /\ x.issued = n /\ x.subs = w.subs \cup {[sid |-> n, reg |-> call.reg]}
  PROVE  Wired(cn, x)
<1>. DEFINE m == [to |-> call, sid |-> n]
<1>1. m \in MsgType /\ m.to = call /\ m.sid = n
  BY DEF WireType, MsgType
<1>. HIDE DEF m
<1>2. /\ Len(x.down) = Len(w.down) + 1 /\ x.down[Len(w.down) + 1] = m
      /\ \A i \in 1..Len(w.down) : x.down[i] = w.down[i]
  BY <1>1, AppendDown DEF m
<1>3. Len(w.down) \in Nat /\ w.issued \in Nat
  BY DEF WireType
<1>4. n <= x.issued /\ w.issued <= x.issued
  BY <1>3
<1>5. \A f \in x.subs : f \in w.subs \/ (n = w.issued + 1 /\ f.sid = n /\ f.reg = call.reg)
  OBVIOUS
<1>6. \A f \in w.subs : f.sid \in Nat /\ 1 <= f.sid /\ f.sid <= w.issued
  BY DEF Wired, WireType, Ids
<1>7. ASSUME NEW i \in 1..Len(x.down)
      PROVE  /\ x.down[i].sid <= x.issued
             /\ \A f \in x.subs : x.down[i].to.by \in {"add", "loop"} /\ f.sid = x.down[i].sid => f.reg = x.down[i].to.reg
  <2>1. CASE i = Len(w.down) + 1
    BY <1>1, <1>2, <1>3, <1>4, <1>5, <1>6, <2>1
  <2>2. CASE i \in 1..Len(w.down)
    <3>0. w.down[i] \in MsgType
      BY <2>2 DEF WireType
    <3>1. x.down[i] = w.down[i] /\ w.down[i].sid <= w.issued /\ w.down[i].sid \in Nat
      BY <1>2, <2>2, <3>0 DEF Wired, MsgType
    <3>2. \A f \in w.subs : w.down[i].to.by \in {"add", "loop"} /\ f.sid = w.down[i].sid => f.reg = w.down[i].to.reg
      BY <2>2 DEF Wired
    <3>. QED  BY <1>3, <1>4, <1>5, <3>1, <3>2
  <2>. QED  BY <1>2, <1>3, <2>1, <2>2
<1>8. ASSUME NEW e \in cn.route
      PROVE  1 <= e.sid /\ e.sid <= x.issued /\ \A f \in x.subs : f.sid = e.sid => f.reg = e.reg
  <2>1. e.sid \in Nat /\ 1 <= e.sid /\ e.sid <= w.issued /\ \A f \in w.subs : f.sid = e.sid => f.reg = e.reg
    BY DEF Wired, ConnType, Ids
  <2>. QED  BY <1>3, <1>4, <1>5, <2>1
<1>9. \A f \in x.subs : 1 <= f.sid /\ f.sid <= x.issued
  BY <1>3, <1>4, <1>5, <1>6
<1>. QED  BY <1>7, <1>8, <1>9 DEF Wired

LEMMA ServeStep ==
  ASSUME Base, NEW c \in Conns, NEW call \in wire[c].calls, NEW ok \in BOOLEAN, Serve(c, call, ok)
  PROVE  /\ Base' /\ Elsewhere(c) /\ conn'[c] = conn[c] /\ UNCHANGED <<current, used, sid, client, loop>>
         /\ wire'[c].calls = wire[c].calls \ {call} /\ call \in CallType
         /\ \E n \in Nat : wire'[c].down = Append(wire[c].down, [to |-> call, sid |-> n])
<1>. DEFINE w == [wire[c] EXCEPT !.calls = @ \ {call}]
            new == wire[c].issued + 1
            x == CASE call.by = "remove" ->
                        [w EXCEPT !.subs = {e \in @ : e.sid # call.sid}, !.down = Append(w.down, [to |-> call, sid |-> 0])]
                   [] call.by # "remove" /\ ok ->
                        [w EXCEPT !.subs = @ \cup {[sid |-> new, reg |-> call.reg]}, !.issued = new,
                                  !.down = Append(w.down, [to |-> call, sid |-> new])]
                   [] OTHER -> [w EXCEPT !.down = Append(w.down, [to |-> call, sid |-> 0])]
<1>1. /\ conn[c].sock = "open" /\ (~ok => call.by # "remove" /\ More)
      /\ faults' = [faults EXCEPT !.others = IF ok THEN @ ELSE @ + 1] /\ UNCHANGED <<current, used, conn, sid, client, loop>>
      /\ wire' = [wire EXCEPT ![c] = x]
  BY DEF Serve
<1>2. wire[c] \in WireType /\ conn[c] \in ConnType /\ Wired(conn[c], wire[c]) /\ call \in CallType /\ faults.others \in Nat
  BY DEF Base, Types, WireType
<1>3. w \in WireType /\ w.calls = wire[c].calls \ {call} /\ w.down = wire[c].down /\ w.subs = wire[c].subs /\ w.issued = wire[c].issued
  BY <1>2 DEF WireType
<1>. HIDE DEF w
<1>4. \A n \in Nat : [to |-> call, sid |-> n] \in MsgType
  BY <1>2 DEF MsgType
<1>5. \A n \in Nat : Append(w.down, [to |-> call, sid |-> n]) \in Seq(MsgType)
  BY <1>3, <1>4, AppendDown
<1>6. new \in Nat /\ (call.by # "remove" => [sid |-> new, reg |-> call.reg] \in Ids)
  BY <1>2 DEF WireType, Ids, CallType
<1>7. ASSUME NEW d \in Seq(MsgType), NEW g \in SUBSET Ids
       PROVE  /\ LET z == [w EXCEPT !.subs = g, !.down = d] IN
                 z \in WireType /\ z.calls = w.calls /\ z.down = d /\ z.subs = g /\ z.issued = w.issued
              /\ LET v == [w EXCEPT !.down = d] IN
                 v \in WireType /\ v.calls = w.calls /\ v.down = d /\ v.subs = w.subs /\ v.issued = w.issued
  BY <1>3 DEF WireType
<1>8. w.subs \in SUBSET Ids
  BY <1>3 DEF WireType
<1>9. PICK n \in Nat : /\ x \in WireType /\ x.calls = w.calls /\ x.down = Append(w.down, [to |-> call, sid |-> n])
                       /\ \/ n = 0 /\ x.subs \subseteq w.subs /\ x.issued = w.issued
                          \/ n = w.issued + 1 /\ x.issued = n /\ x.subs = w.subs \cup {[sid |-> n, reg |-> call.reg]}
                       /\ call.by # "remove" /\ ok => n >= 1
  <2>1. CASE call.by = "remove"
    <3>. DEFINE g == {e \in w.subs : e.sid # call.sid}
                d == Append(w.down, [to |-> call, sid |-> 0])
    <3>1. x = [w EXCEPT !.subs = g, !.down = d]
      BY <2>1
    <3>2. g \in SUBSET Ids /\ g \subseteq w.subs /\ d \in Seq(MsgType)
      BY <1>5, <1>8
    <3>. HIDE DEF x, g, d
    <3>3. x \in WireType /\ x.calls = w.calls /\ x.down = d /\ x.subs = g /\ x.issued = w.issued
      BY <1>7, <3>1, <3>2
    <3>. QED  BY <2>1, <3>2, <3>3 DEF d
  <2>2. CASE call.by # "remove" /\ ok
    <3>. DEFINE g == w.subs \cup {[sid |-> new, reg |-> call.reg]}
                d == Append(w.down, [to |-> call, sid |-> new])
    <3>1. x = [w EXCEPT !.subs = g, !.issued = new, !.down = d]
      BY <2>2
    <3>2. g \in SUBSET Ids /\ d \in Seq(MsgType) /\ new \in Nat
      BY <1>5, <1>6, <1>8, <2>2
    <3>. HIDE DEF x, g, d, new
    <3>3. x \in WireType /\ x.calls = w.calls /\ x.down = d /\ x.subs = g /\ x.issued = new
      BY <1>3, <3>1, <3>2 DEF WireType
    <3>4. new = w.issued + 1 /\ new >= 1
      BY <1>2, <1>3 DEF new, WireType
    <3>. QED  BY <1>6, <3>3, <3>4 DEF d, g
  <2>3. CASE call.by # "remove" /\ ~ok
    <3>. DEFINE d == Append(w.down, [to |-> call, sid |-> 0])
    <3>1. x = [w EXCEPT !.down = d]
      BY <2>3
    <3>2. d \in Seq(MsgType)
      BY <1>5
    <3>. HIDE DEF x, d
    <3>3. x \in WireType /\ x.calls = w.calls /\ x.down = d /\ x.subs = w.subs /\ x.issued = w.issued
      BY <1>7, <1>8, <3>1, <3>2
    <3>. QED  BY <2>3, <3>3 DEF d
  <2>. QED  BY <2>1, <2>2, <2>3
<1>. HIDE DEF x
<1>10. Wired(conn[c], x)
  BY <1>1, <1>2, <1>3, <1>9, ServedWire
<1>11. conn' = [conn EXCEPT ![c] = conn[c]]
  BY <1>1 DEF Base, Types
<1>12. Becomes(c, conn[c], x)
  BY <1>1, <1>10, <1>11 DEF Becomes, Base
<1>13. Numbers(c) /\ Clients(c) /\ TheLoops(c)
  BY <1>1, MadeBefore DEF Numbers, Clients, TheLoops, Base, Types
<1>14. Base' /\ conn'[c] = conn[c] /\ wire'[c] = x /\ Elsewhere(c)
  BY <1>2, <1>9, <1>12, <1>13, StepBase
<1>. QED  BY <1>1, <1>2, <1>3, <1>9, <1>14

LEMMA TickStep ==
  ASSUME Base, NEW c \in Conns, NEW e \in wire[c].subs, Tick(c, e)
  PROVE  /\ Base' /\ Elsewhere(c) /\ conn'[c] = conn[c] /\ UNCHANGED <<current, used, sid, client, loop>>
         /\ wire'[c].calls = wire[c].calls
         /\ wire'[c].down = Append(wire[c].down, [to |-> Calling("tick", <<>>), sid |-> e.sid])
<1>. DEFINE m == [to |-> Calling("tick", <<>>), sid |-> e.sid]
            x == [wire[c] EXCEPT !.down = Append(@, m)]
<1>1. /\ conn[c].sock = "open" /\ faults' = [faults EXCEPT !.others = @ + 1] /\ UNCHANGED <<current, used, conn, sid, client, loop>>
      /\ wire' = [wire EXCEPT ![c] = x]
  BY DEF Tick
<1>2. wire[c] \in WireType /\ Wired(conn[c], wire[c]) /\ e.sid \in Nat /\ e.sid <= wire[c].issued
  <2>1. wire[c] \in WireType /\ Wired(conn[c], wire[c])
    BY DEF Base, Types
  <2>. QED  BY <2>1 DEF WireType, Ids, Wired
<1>3. m \in MsgType /\ m.sid = e.sid /\ m.to.by = "tick"
  BY <1>2 DEF MsgType, Calling
<1>. HIDE DEF m
<1>4. /\ Append(wire[c].down, m) \in Seq(MsgType)
      /\ Len(Append(wire[c].down, m)) = Len(wire[c].down) + 1 /\ Append(wire[c].down, m)[Len(wire[c].down) + 1] = m
      /\ \A i \in 1..Len(wire[c].down) : Append(wire[c].down, m)[i] = wire[c].down[i]
  BY <1>2, <1>3, AppendDown
<1>5. x \in WireType /\ x.calls = wire[c].calls /\ x.down = Append(wire[c].down, m) /\ x.subs = wire[c].subs /\ x.issued = wire[c].issued
  BY <1>2, <1>4 DEF WireType
<1>. HIDE DEF x
<1>6. Wired(conn[c], x)
  <2>1. Len(wire[c].down) \in Nat
    BY <1>2 DEF WireType
  <2>2. \A i \in 1..Len(x.down) : i \in 1..Len(wire[c].down) \/ i = Len(wire[c].down) + 1
    BY <1>4, <1>5, <2>1
  <2>. QED  BY <1>1, <1>2, <1>3, <1>4, <1>5, <2>2 DEF Wired
<1>7. conn' = [conn EXCEPT ![c] = conn[c]] /\ conn[c] \in ConnType
  BY <1>1 DEF Base, Types
<1>8. Becomes(c, conn[c], x)
  BY <1>1, <1>6, <1>7 DEF Becomes, Base
<1>9. Numbers(c) /\ Clients(c) /\ TheLoops(c)
  BY <1>1, MadeBefore DEF Numbers, Clients, TheLoops, Base, Types
<1>10. Base' /\ conn'[c] = conn[c] /\ wire'[c] = x /\ Elsewhere(c)
  BY <1>5, <1>7, <1>8, <1>9, StepBase
<1>. QED  BY <1>1, <1>5, <1>10 DEF m

LEMMA SameWire ==
  ASSUME NEW x \in WireType, NEW y \in WireType,
         x.calls = y.calls, x.down = y.down, x.subs = y.subs, x.issued = y.issued
  PROVE  x = y
<1>1. \A z \in WireType : z = [calls |-> z.calls, down |-> z.down, subs |-> z.subs, issued |-> z.issued]
  BY DEF WireType
<1>2. x = [calls |-> x.calls, down |-> x.down, subs |-> x.subs, issued |-> x.issued]
  BY <1>1
<1>3. y = [calls |-> y.calls, down |-> y.down, subs |-> y.subs, issued |-> y.issued]
  BY <1>1
<1>. QED  BY <1>2, <1>3

\* A connection whose wire has no new message, and whose only new id is the one it was just answered.
LEMMA LaterWired ==
  ASSUME NEW w \in WireType, NEW x \in WireType, NEW cn \in ConnType, NEW dn \in ConnType, Wired(cn, w),
         x.subs = w.subs, x.issued = w.issued, x.down = w.down \/ (w.down # <<>> /\ x.down = Tail(w.down)),
         dn.sock \in {"none", "connecting"} => x = NoWire /\ dn.route = {},
         \A e \in dn.route : \/ e \in cn.route
                             \/ /\ w.down # <<>> /\ Head(w.down).to.by \in {"add", "loop"}
                                /\ e.sid = Head(w.down).sid /\ e.reg = Head(w.down).to.reg /\ 1 <= e.sid
  PROVE  Wired(dn, x)
<1>1. ASSUME NEW i \in 1..Len(x.down) PROVE \E j \in 1..Len(w.down) : x.down[i] = w.down[j]
  <2>1. CASE x.down = w.down
    BY <2>1
  <2>2. CASE w.down # <<>> /\ x.down = Tail(w.down)
    BY <2>2, TailDown
  <2>. QED  BY <2>1, <2>2
<1>2. \A e \in cn.route : 1 <= e.sid /\ e.sid <= w.issued /\ \A f \in w.subs : f.sid = e.sid => f.reg = e.reg
  BY DEF Wired
<1>3. ASSUME w.down # <<>>
      PROVE  /\ Head(w.down).sid <= w.issued
             /\ \A f \in w.subs : Head(w.down).to.by \in {"add", "loop"} /\ f.sid = Head(w.down).sid => f.reg = Head(w.down).to.reg
  BY <1>3, TailDown DEF Wired
<1>4. \A e \in dn.route : 1 <= e.sid /\ e.sid <= w.issued /\ \A f \in w.subs : f.sid = e.sid => f.reg = e.reg
  BY <1>2, <1>3
<1>. QED  BY <1>1, <1>4 DEF Wired

LEMMA FireStep ==
  ASSUME Base, NEW k \in Loops, Fire(k)
  PROVE  /\ Base' /\ loop[k].pc = "timer" /\ UNCHANGED <<current, used, sid, client, faults>>
         /\ loop' \in [Loops -> LoopType] /\ \A j \in Loops \ {k} : loop'[j] = loop[j]
         /\ loop[k].on \in Conns /\ Elsewhere(loop[k].on)
         /\ LET c == loop[k].on IN
            \/ /\ conn[c].sock = "open" /\ conn'[c] = conn[c] /\ loop'[k] \in Visits(loop[k], conn[c].regs)
               /\ wire'[c].calls = wire[c].calls \cup CallsOf({k}, loop') /\ wire'[c].down = wire[c].down
            \/ /\ conn[c].sock \in {"none", "connecting"} /\ conn'[c] = [conn[c] EXCEPT !.sock = "connecting"]
               /\ wire'[c] = wire[c] /\ loop'[k] = [loop[k] EXCEPT !.pc = "connect"]
            \/ conn[c].sock = "closing" /\ conn'[c] = conn[c] /\ wire'[c] = wire[c] /\ loop'[k] = NoLoop
<1>. DEFINE c == loop[k].on
<1>1. /\ loop[k].pc = "timer" /\ UNCHANGED <<current, used, sid, client, faults>> /\ loop[k] \in LoopType
  BY DEF Fire, Base, Types
<1>2. c \in Conns /\ c <= used /\ conn[c] \in ConnType /\ wire[c] \in WireType /\ Wired(conn[c], wire[c]) /\ k <= faults.drops
  <2>1. c \in 1..used /\ k <= faults.drops
    BY <1>1 DEF Base, Placed
  <2>2. used \in 0..MaxConns /\ MaxConns \in Nat
    BY Bounds DEF Base, Types
  <2>. HIDE DEF c
  <2>3. c \in Conns /\ c <= used
    BY <2>1, <2>2 DEF Conns
  <2>. QED  BY <2>1, <2>3 DEF Base, Types
<1>3. ASSUME NEW cn \in ConnType, NEW w \in WireType, NEW l \in LoopType, l.pc # "none" => l.on = c,
             loop' = [loop EXCEPT ![k] = l], conn' = [conn EXCEPT ![c] = cn], wire' = [wire EXCEPT ![c] = w], Wired(cn, w),
             cn.closed = conn[c].closed, cn.sock = "closing" => conn[c].sock = "closing"
      PROVE  /\ Base' /\ loop' \in [Loops -> LoopType] /\ loop'[k] = l /\ \A j \in Loops \ {k} : loop'[j] = loop[j]
             /\ conn'[c] = cn /\ wire'[c] = w /\ Elsewhere(c)
  <2>. HIDE DEF c
  <2>1. loop' \in [Loops -> LoopType] /\ loop'[k] = l /\ \A j \in Loops \ {k} : loop'[j] = loop[j]
    BY <1>3, NewLoop DEF Base
  <2>2. TheLoops(c)
    BY <1>1, <1>2, <1>3, <2>1 DEF TheLoops
  <2>3. Numbers(c) /\ Clients(c)
    BY <1>1, <1>2 DEF Numbers, Clients, Base, Types
  <2>4. Becomes(c, cn, w)
    BY <1>1, <1>2, <1>3 DEF Becomes, Base
  <2>. QED  BY <1>2, <2>1, <2>2, <2>3, <2>4, StepBase
<1>4. /\ conn[c].sock = "open" => conn' = [conn EXCEPT ![c] = conn[c]]
      /\ conn[c].sock = "closing" => conn' = [conn EXCEPT ![c] = conn[c]] /\ wire' = [wire EXCEPT ![c] = wire[c]]
      /\ conn[c].sock \in {"none", "connecting"} => wire' = [wire EXCEPT ![c] = wire[c]]
  BY <1>1, <1>2 DEF Fire, Base, Types
<1>5. CASE conn[c].sock = "open"
  <2>1. PICK l \in Visits(loop[k], conn[c].regs) : loop' = [loop EXCEPT ![k] = l] /\ Send(c, CallsOf({k}, loop'))
    BY <1>5 DEF Fire
  <2>2. l \in LoopType /\ (l.pc = "run" => l.on = c /\ l.reg \in Regs) /\ l.pc \in {"none", "run"}
    <3>1. conn[c].regs \in SUBSET Regs
      BY <1>2 DEF ConnType
    <3>. QED  BY <1>1, <3>1, VisitsTypes DEF Base, ConnType
  <2>. DEFINE asks == CallsOf({k}, loop')
              w == [wire[c] EXCEPT !.calls = @ \cup asks]
  <2>3. wire' = [wire EXCEPT ![c] = w]
    BY <2>1 DEF Send
  <2>4. loop' \in [Loops -> LoopType] /\ loop'[k] = l
    BY <2>1, <2>2, NewLoop DEF Base
  <2>5. asks \subseteq CallType
    BY <2>2, <2>4, CallsTypes
  <2>. HIDE DEF c, asks
  <2>6. w \in WireType /\ w.calls = wire[c].calls \cup asks /\ w.down = wire[c].down /\ w.subs = wire[c].subs /\ w.issued = wire[c].issued
    BY <1>2, <2>5 DEF WireType
  <2>. HIDE DEF w
  <2>7. Wired(conn[c], w)
    BY <1>2, <1>5, <2>6, LaterWired
  <2>8. /\ Base' /\ loop' \in [Loops -> LoopType] /\ \A j \in Loops \ {k} : loop'[j] = loop[j]
        /\ conn'[c] = conn[c] /\ wire'[c] = w /\ Elsewhere(c)
    BY <1>2, <1>3, <1>4, <1>5, <2>1, <2>2, <2>3, <2>6, <2>7
  <2>. QED  BY <1>1, <1>2, <1>5, <2>1, <2>4, <2>6, <2>8 DEF c, asks
<1>6. CASE conn[c].sock \in {"none", "connecting"}
  <2>. DEFINE l == [loop[k] EXCEPT !.pc = "connect"]
              cn == [conn[c] EXCEPT !.sock = "connecting"]
  <2>1. loop' = [loop EXCEPT ![k] = l] /\ conn' = [conn EXCEPT ![c] = cn]
    BY <1>6 DEF Fire
  <2>2. l \in LoopType /\ l.on = c
    BY <1>1 DEF LoopType
  <2>. HIDE DEF c
  <2>3. cn \in ConnType /\ cn.sock = "connecting" /\ cn.closed = conn[c].closed /\ cn.route = conn[c].route
    BY <1>2 DEF ConnType
  <2>. HIDE DEF cn, l
  <2>4. Wired(cn, wire[c])
    BY <1>2, <1>6, <2>3, LaterWired DEF Wired
  <2>5. /\ Base' /\ loop' \in [Loops -> LoopType] /\ loop'[k] = l /\ \A j \in Loops \ {k} : loop'[j] = loop[j]
        /\ conn'[c] = cn /\ wire'[c] = wire[c] /\ Elsewhere(c)
    BY <1>2, <1>3, <1>4, <1>6, <2>1, <2>2, <2>3, <2>4
  <2>. QED  BY <1>1, <1>2, <1>6, <2>5 DEF c, cn, l
<1>7. CASE conn[c].sock = "closing"
  <2>1. loop' = [loop EXCEPT ![k] = NoLoop]
    BY <1>7 DEF Fire
  <2>. HIDE DEF c
  <2>2. /\ Base' /\ loop' \in [Loops -> LoopType] /\ loop'[k] = NoLoop /\ \A j \in Loops \ {k} : loop'[j] = loop[j]
        /\ conn'[c] = conn[c] /\ wire'[c] = wire[c] /\ Elsewhere(c)
    BY <1>2, <1>3, <1>4, <1>7, <2>1, LoopValues DEF Base
  <2>. QED  BY <1>1, <1>2, <1>7, <2>2 DEF c
<1>. QED  BY <1>2, <1>5, <1>6, <1>7 DEF ConnType

\* The filters of s that one stretch of removeAll() deletes.
Gone(s, i, j, r) == r[1] = s /\ r[2] \in i..j

\* What that stretch does: it stops at a filter the provider has to be told of,
\* or is done, and then closes an idle connection.
Deleted(s, i, c, j) ==
  /\ sid' \in [Regs -> Nat] /\ \A r \in Regs : sid'[r] = IF Gone(s, i, j, r) THEN 0 ELSE sid[r]
  /\ conn'[c].regs = {r \in conn[c].regs : ~Gone(s, i, j, r)}
  /\ conn'[c].route = {e \in conn[c].route : ~(Gone(s, i, j, e.reg) /\ e.sid = sid[e.reg])}
  /\ conn'[c].tries = conn[c].tries
  /\ client' \in [Subs -> ClientType] /\ client'[s].on = client[s].on /\ \A t \in Subs \ {s} : client'[t] = client[t]
Tells(s, i, c, j) ==
  /\ conn[c].sock = "open" /\ conn'[c].sock = "open" /\ conn'[c].closed = conn[c].closed /\ current' = current
  /\ j \in i..Filters[s] /\ client'[s].pc = "removing" /\ client'[s].at = j
  /\ wire'[c].calls = wire[c].calls \cup {[by |-> "remove", reg |-> <<s, j>>, sid |-> sid[<<s, j>>]]}
Finishes(s, c, j) ==
  /\ j = Filters[s] /\ client'[s].pc = "done" /\ wire'[c].calls = wire[c].calls
  /\ \/ conn'[c].regs = {} /\ conn'[c].sock = "closing" /\ conn'[c].closed /\ current' = 0
     \/ /\ conn'[c].regs # {} \/ conn[c].sock = "none"
        /\ conn'[c].sock = conn[c].sock /\ conn'[c].closed = conn[c].closed /\ current' = current
Removed(s, i, c, j) == Deleted(s, i, c, j) /\ (Tells(s, i, c, j) \/ Finishes(s, c, j))

LEMMA Smallest ==
  ASSUME NEW T, T \subseteq {1, 2}, T # {} PROVE Min(T) \in T
<1>1. \E x \in T : \A y \in T : x <= y
  <2>1. CASE 1 \in T
    BY <2>1
  <2>2. CASE 1 \notin T
    <3>1. 2 \in T /\ \A y \in T : y = 2
      BY <2>2
    <3>. QED  BY <3>1
  <2>. QED  BY <2>1, <2>2
<1>. QED  BY <1>1 DEF Min

\* Client s gives up its registrations from i on, while d are left to deliver.
Removes(s, i, c, d) ==
  /\ i \in Nat /\ 1 <= i /\ (d = wire[c].down \/ (wire[c].down # <<>> /\ d = Tail(wire[c].down)))
  /\ client[s].pc # "idle" /\ client[s].on = c /\ UNCHANGED <<used, loop, faults>> /\ RemoveAll(s, i, c, d)
AfterRemoval(s, i, c, d) == Base' /\ Elsewhere(c) /\ wire'[c].down = d /\ \E j \in Nat : Removed(s, i, c, j)

LEMMA RemoveAllStep ==
  ASSUME Base, NEW s \in Subs, NEW i, NEW c \in Conns, NEW d, Removes(s, i, c, d)
  PROVE  AfterRemoval(s, i, c, d)
<1>. SUFFICES ASSUME i \in Nat, 1 <= i, d = wire[c].down \/ (wire[c].down # <<>> /\ d = Tail(wire[c].down)),
                     client[s].pc # "idle", client[s].on = c, UNCHANGED <<used, loop, faults>>, RemoveAll(s, i, c, d)
              PROVE  Base' /\ Elsewhere(c) /\ wire'[c].down = d /\ \E j \in Nat : Removed(s, i, c, j)
  BY DEF Removes, AfterRemoval
<1>. DEFINE told == {j \in i..Filters[s] : sid[<<s, j>>] # 0 /\ conn[c].sock = "open"}
            j == IF told = {} THEN Filters[s] ELSE Min(told)
            gone == {r \in Regs : r[1] = s /\ r[2] \in i..j}
            rest == conn[c].regs \ gone
            idle == told = {} /\ Idle(c, rest)
            tell == {[by |-> "remove", reg |-> <<s, x>>, sid |-> sid[<<s, x>>]] : x \in told \cap {j}}
            route == Unrouted(c, gone)
            cn == [conn[c] EXCEPT !.regs = rest, !.route = route, !.closed = @ \/ idle, !.sock = IF idle THEN "closing" ELSE @]
            w == [wire[c] EXCEPT !.down = d, !.calls = @ \cup tell]
            cl == [client[s] EXCEPT !.pc = IF told = {} THEN "done" ELSE "removing", !.at = j]
<1>1. /\ sid' = [r \in Regs |-> IF r \in gone THEN 0 ELSE sid[r]] /\ current' = IF idle THEN 0 ELSE current
  BY DEF RemoveAll
<1>30. conn' = [conn EXCEPT ![c] = cn]
  BY DEF RemoveAll
<1>2. wire' = [wire EXCEPT ![c] = w] /\ client' = [client EXCEPT ![s] = cl]
  BY DEF RemoveAll
<1>3. /\ Filters[s] \in {1, 2} /\ conn[c] \in ConnType /\ wire[c] \in WireType /\ client[s] \in ClientType
      /\ sid \in [Regs -> Nat] /\ Wired(conn[c], wire[c])
  BY RegIs DEF Base, Types
<1>4. told \subseteq i..Filters[s] /\ told \subseteq {1, 2}
  BY <1>3
<1>5. (told # {} => j \in told) /\ (told = {} => j = Filters[s]) /\ j \in Nat
  <2>1. CASE told = {}
    <3>1. j = Filters[s]
      BY <2>1
    <3>. HIDE DEF told, j
    <3>. QED  BY <1>3, <2>1, <3>1
  <2>2. CASE told # {}
    <3>1. Min(told) \in told /\ Min(told) \in {1, 2}
      <4>. HIDE DEF told
      <4>. QED  BY <1>4, <2>2, Smallest
    <3>2. j = Min(told)
      BY <2>2
    <3>. HIDE DEF told, j
    <3>. QED  BY <2>2, <3>1, <3>2
  <2>. QED  BY <2>1, <2>2
<1>6. j \in told => conn[c].sock = "open" /\ <<s, j>> \in Regs /\ j \in i..Filters[s] /\ sid[<<s, j>>] \in Nat
  <2>1. ASSUME j \in told PROVE conn[c].sock = "open" /\ j \in i..Filters[s] /\ j \in 1..Filters[s]
    BY <1>3, <1>4, <2>1
  <2>. HIDE DEF told, j
  <2>. QED  BY <1>3, <2>1, RegIs DEF Base
<1>. HIDE DEF told, j
<1>7. (j \in told => tell = {[by |-> "remove", reg |-> <<s, j>>, sid |-> sid[<<s, j>>]]}) /\ (j \notin told => tell = {})
  OBVIOUS
<1>8. tell \subseteq CallType
  <2>. DEFINE a == [by |-> "remove", reg |-> <<s, j>>, sid |-> sid[<<s, j>>]]
  <2>1. j \in told => a \in CallType
    BY <1>6 DEF CallType
  <2>. HIDE DEF a, tell
  <2>. QED  BY <1>7, <2>1 DEF a
<1>9. rest \subseteq Regs /\ rest = {r \in conn[c].regs : ~Gone(s, i, j, r)}
  BY <1>3 DEF Gone, ConnType
<1>10. route = {e \in conn[c].route : ~(Gone(s, i, j, e.reg) /\ e.sid = sid[e.reg])} /\ route \subseteq conn[c].route
       /\ route \subseteq Ids
  <2>1. conn[c].route \subseteq Ids /\ \A e \in Ids : e.reg \in Regs
    BY <1>3 DEF ConnType, Ids
  <2>. QED  BY <2>1 DEF Gone, Unrouted
<1>11. \A r \in Regs : r \in gone <=> Gone(s, i, j, r)
  BY DEF Gone
<1>12. idle => told = {} /\ rest = {} /\ conn[c].sock # "none"
  BY DEF Idle
<1>13. ~idle => told # {} \/ rest # {} \/ conn[c].sock = "none"
  BY DEF Idle
<1>14. idle \in BOOLEAN
  BY DEF Idle
<1>15. sid' \in [Regs -> Nat] /\ \A r \in Regs : sid'[r] = IF Gone(s, i, j, r) THEN 0 ELSE sid[r]
  BY <1>1, <1>3, <1>11
<1>16. /\ cn \in ConnType /\ cn.regs = rest /\ cn.route = route /\ cn.closed = (conn[c].closed \/ idle)
       /\ cn.sock = (IF idle THEN "closing" ELSE conn[c].sock) /\ cn.tries = conn[c].tries
  <2>. HIDE DEF rest, route, idle
  <2>. QED  BY <1>3, <1>9, <1>10, <1>14 DEF ConnType
<1>17. d \in Seq(MsgType)
  BY <1>3, TailDown DEF WireType
<1>18. w \in WireType /\ w.calls = wire[c].calls \cup tell /\ w.down = d /\ w.subs = wire[c].subs /\ w.issued = wire[c].issued
  <2>. HIDE DEF tell
  <2>. QED  BY <1>3, <1>8, <1>17 DEF WireType
<1>19. cl \in ClientType /\ cl.pc = (IF told = {} THEN "done" ELSE "removing") /\ cl.at = j /\ cl.on = client[s].on
  BY <1>3, <1>5 DEF ClientType
<1>. HIDE DEF gone, rest, idle, tell, route, cn, w, cl
<1>20. Wired(cn, w)
  <2>1. \A e \in cn.route : e \in conn[c].route
    BY <1>10, <1>16
  <2>2. ASSUME cn.sock \in {"none", "connecting"} PROVE w = NoWire /\ cn.route = {}
    <3>1. conn[c].sock \in {"none", "connecting"}
      BY <1>16, <2>2
    <3>2. wire[c] = NoWire /\ conn[c].route = {} /\ wire[c].calls = {} /\ wire[c].down = <<>>
      BY <1>3, <3>1, WireValues DEF Wired
    <3>3. w.calls = {} /\ w.down = <<>>
      BY <1>6, <1>7, <1>18, <3>1, <3>2
    <3>4. w.subs = {} /\ w.issued = 0
      BY <1>18, <3>2, WireValues
    <3>5. w = NoWire
      <4>1. w \in WireType /\ NoWire \in WireType
        BY <1>18, WireValues
      <4>2. w.calls = NoWire.calls /\ w.down = NoWire.down /\ w.subs = NoWire.subs /\ w.issued = NoWire.issued
        BY <3>3, <3>4, WireValues
      <4>. QED  BY <4>1, <4>2, SameWire
    <3>6. cn.route = {}
      BY <2>1, <3>2
    <3>. QED  BY <3>5, <3>6
  <2>. QED  BY <1>3, <1>16, <1>18, <2>1, <2>2, LaterWired
<1>21. Becomes(c, cn, w)
  <2>1. cn.closed => current' # c
    <3>1. c # 0 /\ (conn[c].closed => current # c)
      BY DEF Base, Conns
    <3>. QED  BY <1>1, <1>14, <1>16, <3>1
  <2>2. cn.sock = "closing" => cn.closed
    <3>1. conn[c].sock = "closing" => conn[c].closed
      BY DEF Base
    <3>. QED  BY <1>14, <1>16, <3>1
  <2>. QED  BY <1>2, <1>20, <1>30, <2>1, <2>2 DEF Becomes
<1>22. Numbers(c)
  <2>1. c <= used
    BY DEF Base, Placed
  <2>. QED  BY <1>1, <1>15, <2>1 DEF Numbers, Base, Types
<1>23. client' \in [Subs -> ClientType] /\ client'[s] = cl /\ \A t \in Subs \ {s} : client'[t] = client[t]
  BY <1>2, <1>19, NewClient DEF Base
<1>24. Clients(c) /\ TheLoops(c)
  BY <1>19, <1>23 DEF Clients, TheLoops, Base, Types
<1>25. Base' /\ conn'[c] = cn /\ wire'[c] = w /\ Elsewhere(c)
  BY <1>16, <1>18, <1>21, <1>22, <1>24, StepBase
<1>26. Deleted(s, i, c, j)
  BY <1>9, <1>10, <1>15, <1>16, <1>19, <1>23, <1>25 DEF Deleted
<1>27. ASSUME told # {} PROVE Removed(s, i, c, j)
  <2>1. ~idle /\ j \in told
    BY <1>5, <1>12, <1>27
  <2>2. conn'[c].sock = conn[c].sock /\ conn'[c].closed = conn[c].closed /\ current' = current
    BY <1>1, <1>3, <1>16, <1>25, <2>1 DEF ConnType
  <2>3. /\ client'[s].pc = "removing" /\ client'[s].at = j
        /\ wire'[c].calls = wire[c].calls \cup {[by |-> "remove", reg |-> <<s, j>>, sid |-> sid[<<s, j>>]]}
    BY <1>7, <1>18, <1>19, <1>23, <1>25, <1>27, <2>1
  <2>4. Tells(s, i, c, j)
    BY <1>6, <2>1, <2>2, <2>3 DEF Tells
  <2>. QED  BY <1>26, <2>4 DEF Removed
<1>28. ASSUME told = {} PROVE Removed(s, i, c, j)
  <2>1. client'[s].pc = "done" /\ wire'[c].calls = wire[c].calls /\ j = Filters[s]
    BY <1>5, <1>7, <1>18, <1>19, <1>23, <1>25, <1>28
  <2>2. CASE idle
    <3>1. conn'[c].regs = {} /\ conn'[c].sock = "closing" /\ conn'[c].closed /\ current' = 0
      BY <1>1, <1>12, <1>16, <1>25, <2>2
    <3>2. Finishes(s, c, j)
      BY <2>1, <3>1 DEF Finishes
    <3>. QED  BY <1>26, <3>2 DEF Removed
  <2>3. CASE ~idle
    <3>1. conn'[c].regs # {} \/ conn[c].sock = "none"
      BY <1>13, <1>16, <1>25, <1>28, <2>3
    <3>2. conn'[c].sock = conn[c].sock /\ conn'[c].closed = conn[c].closed /\ current' = current
      BY <1>1, <1>3, <1>16, <1>25, <2>3 DEF ConnType
    <3>3. Finishes(s, c, j)
      BY <2>1, <3>1, <3>2 DEF Finishes
    <3>. QED  BY <1>26, <3>3 DEF Removed
  <2>. QED  BY <2>2, <2>3
<1>29. Removed(s, i, c, j)
  BY <1>27, <1>28
<1>. QED  BY <1>5, <1>18, <1>25, <1>29

\* The message a connection handles next, and what is left of its wire.
LEMMA HeadOf ==
  ASSUME Base, NEW c \in Conns, Turned(c, wire[c]), wire[c].down # <<>>
  PROVE  LET m == Head(wire[c].down) IN
         /\ m \in MsgType /\ m = wire[c].down[1] /\ 1 \in 1..Len(wire[c].down)
         /\ m.to.by # "tick" => CallOK(c, m.to) /\ m.to \in CallType
         /\ m.to.by \in {"tick", "add", "loop", "remove"}
         /\ Tail(wire[c].down) \in Seq(MsgType)
<1>1. wire[c] \in WireType
  BY DEF Base, Types
<1>2. /\ Head(wire[c].down) = wire[c].down[1] /\ wire[c].down[1] \in MsgType /\ 1 \in 1..Len(wire[c].down)
      /\ Tail(wire[c].down) \in Seq(MsgType)
  BY <1>1, TailDown
<1>3. wire[c].down[1].to.by # "tick" => CallOK(c, wire[c].down[1].to)
  BY <1>2 DEF Turned
<1>4. wire[c].down[1].to \in CallType \cup {Calling("tick", <<>>)}
  BY <1>2 DEF MsgType
<1>5. wire[c].down[1].to.by # "tick" => wire[c].down[1].to \in CallType
  BY <1>4 DEF Calling
<1>6. wire[c].down[1].to.by \in {"tick", "add", "loop", "remove"}
  BY <1>4 DEF Calling, CallType
<1>. QED  BY <1>2, <1>3, <1>5, <1>6

LEMMA TickedStep ==
  ASSUME Base, Turns, NEW c \in Conns, Deliver(c), Head(wire[c].down).to.by = "tick"
  PROVE  /\ Base' /\ Elsewhere(c) /\ conn'[c] = conn[c] /\ UNCHANGED <<current, used, sid, client, loop, faults>>
         /\ wire[c].down # <<>> /\ wire'[c].calls = wire[c].calls /\ wire'[c].down = Tail(wire[c].down)
<1>. DEFINE x == [wire[c] EXCEPT !.down = Tail(@)]
<1>1. /\ conn[c].sock = "open" /\ wire[c].down # <<>> /\ UNCHANGED <<current, used, conn, sid, client, loop, faults>>
      /\ wire' = [wire EXCEPT ![c] = x]
  BY DEF Deliver
<1>2. wire[c] \in WireType /\ Wired(conn[c], wire[c]) /\ Tail(wire[c].down) \in Seq(MsgType) /\ conn[c] \in ConnType
  BY <1>1, HeadOf DEF Base, Types, Turns
<1>3. x \in WireType /\ x.calls = wire[c].calls /\ x.down = Tail(wire[c].down) /\ x.subs = wire[c].subs /\ x.issued = wire[c].issued
  BY <1>2 DEF WireType
<1>. HIDE DEF x
<1>4. Wired(conn[c], x)
  BY <1>1, <1>2, <1>3, LaterWired
<1>5. conn' = [conn EXCEPT ![c] = conn[c]]
  BY <1>1 DEF Base, Types
<1>6. Becomes(c, conn[c], x)
  BY <1>1, <1>4, <1>5 DEF Becomes, Base
<1>7. Numbers(c) /\ Clients(c) /\ TheLoops(c)
  BY <1>1, MadeBefore DEF Numbers, Clients, TheLoops, Base, Types
<1>8. Base' /\ conn'[c] = conn[c] /\ wire'[c] = x /\ Elsewhere(c)
  BY <1>2, <1>3, <1>6, <1>7, StepBase
<1>. QED  BY <1>1, <1>3, <1>8

\* The routes with a new one for id n.
Rerouted(c, r, n) == {e \in conn[c].route : e.sid # n} \cup {[sid |-> n, reg |-> r]}
Answered(c, r, n, more) == [conn[c] EXCEPT !.route = Rerouted(c, r, n), !.regs = @ \cup more]

\* An answered call: the id is kept, and the route with it.
LEMMA AnsweredConn ==
  ASSUME Base, NEW c \in Conns, NEW r \in Regs, NEW n \in Nat, NEW more \in SUBSET Regs,
         NEW w \in WireType, conn[c].sock = "open", wire[c].down # <<>>, n >= 1,
         Head(wire[c].down).to.by \in {"add", "loop"}, Head(wire[c].down).to.reg = r, Head(wire[c].down).sid = n,
         w.down = Tail(wire[c].down), w.subs = wire[c].subs, w.issued = wire[c].issued
  PROVE  LET cn == Answered(c, r, n, more) IN
         /\ cn \in ConnType /\ Wired(cn, w) /\ cn.route = Rerouted(c, r, n) /\ cn.regs = conn[c].regs \cup more
         /\ cn.sock = conn[c].sock /\ cn.closed = conn[c].closed /\ cn.tries = conn[c].tries
<1>. DEFINE cn == Answered(c, r, n, more)
<1>1. conn[c] \in ConnType /\ wire[c] \in WireType /\ Wired(conn[c], wire[c])
  BY DEF Base, Types
<1>2. Rerouted(c, r, n) \subseteq Ids
  BY <1>1 DEF Rerouted, Ids, ConnType
<1>3. /\ cn \in ConnType /\ cn.route = Rerouted(c, r, n) /\ cn.regs = conn[c].regs \cup more
      /\ cn.sock = conn[c].sock /\ cn.closed = conn[c].closed /\ cn.tries = conn[c].tries
  BY <1>1, <1>2 DEF ConnType, Answered
<1>. HIDE DEF cn
<1>4. \A e \in cn.route : \/ e \in conn[c].route
                            \/ /\ wire[c].down # <<>> /\ Head(wire[c].down).to.by \in {"add", "loop"}
                               /\ e.sid = Head(wire[c].down).sid /\ e.reg = Head(wire[c].down).to.reg /\ 1 <= e.sid
  BY <1>3 DEF Rerouted
<1>5. Wired(cn, w)
  BY <1>1, <1>3, <1>4, LaterWired
<1>. QED  BY <1>3, <1>5 DEF cn

LEMMA AddedStep ==
  ASSUME Base, Turns, NEW c \in Conns, Deliver(c), Head(wire[c].down).to.by = "add"
  PROVE  LET m == Head(wire[c].down)
             s == m.to.reg[1]
             i == m.to.reg[2]
             last == i = Filters[s] IN
         /\ Base' /\ Elsewhere(c) /\ conn[c].sock = "open" /\ wire[c].down # <<>> /\ UNCHANGED <<current, used, loop, faults>>
         /\ m.to \in CallType /\ m.to.reg \in Regs /\ m.sid \in Nat /\ s \in Subs
         /\ client[s].pc = "establish" /\ client[s].on = c /\ client[s].at = i
         /\ client' \in [Subs -> ClientType] /\ client'[s].on = c /\ \A t \in Subs \ {s} : client'[t] = client[t]
         /\ conn'[c].sock = "open" /\ conn'[c].closed = conn[c].closed /\ conn'[c].tries = conn[c].tries
         /\ wire'[c].down = Tail(wire[c].down)
         /\ \/ /\ m.sid = 0 /\ client'[s].pc = "failed" /\ UNCHANGED sid /\ conn'[c] = conn[c] /\ wire'[c].calls = wire[c].calls
            \/ /\ m.sid >= 1 /\ sid' = [sid EXCEPT ![m.to.reg] = m.sid] /\ conn'[c].route = Rerouted(c, m.to.reg, m.sid)
               /\ \/ /\ last /\ client'[s].pc = "active" /\ conn'[c].regs = conn[c].regs /\ wire'[c].calls = wire[c].calls
                  \/ /\ ~last /\ client'[s].pc = "establish" /\ client'[s].at = i + 1 /\ <<s, i + 1>> \in Regs
                     /\ conn'[c].regs = conn[c].regs \cup {<<s, i + 1>>}
                     /\ wire'[c].calls = wire[c].calls \cup {Calling("add", <<s, i + 1>>)}
<1>. DEFINE m == Head(wire[c].down)
            r == m.to.reg
            s == r[1]
            i == r[2]
            last == i = Filters[s]
<1>1. conn[c].sock = "open" /\ wire[c].down # <<>> /\ Added(c, m) /\ UNCHANGED <<current, used, loop, faults>>
  BY DEF Deliver, Added
<1>2. m \in MsgType /\ m.to \in CallType /\ CallOK(c, m.to) /\ Tail(wire[c].down) \in Seq(MsgType)
  BY <1>1, HeadOf DEF Turns
<1>3. r \in Regs /\ m.sid \in Nat
  BY <1>2 DEF MsgType, CallType
<1>4. s \in Subs /\ i \in 1..Filters[s] /\ Filters[s] \in {1, 2} /\ r = <<s, i>>
  BY <1>3, RegIs DEF Base
<1>5. client[s].pc = "establish" /\ client[s].on = c /\ client[s].at = i
  BY <1>2 DEF CallOK
<1>6. wire[c] \in WireType /\ conn[c] \in ConnType /\ Wired(conn[c], wire[c]) /\ client[s] \in ClientType /\ c <= used
  BY <1>1, <1>4, MadeBefore DEF Base, Types
<1>7. ASSUME NEW cn \in ConnType, NEW w \in WireType, NEW cl \in ClientType, Wired(cn, w), cl.on = c,
             conn' = [conn EXCEPT ![c] = cn], wire' = [wire EXCEPT ![c] = w], client' = [client EXCEPT ![s] = cl],
             cn.sock = "open", cn.closed = conn[c].closed, sid' \in [Regs -> Nat]
      PROVE  /\ Base' /\ Elsewhere(c) /\ conn'[c] = cn /\ wire'[c] = w
             /\ client' \in [Subs -> ClientType] /\ client'[s] = cl /\ \A t \in Subs \ {s} : client'[t] = client[t]
  <2>. HIDE DEF s, i, r, last, m
  <2>1. client' \in [Subs -> ClientType] /\ client'[s] = cl /\ \A t \in Subs \ {s} : client'[t] = client[t]
    BY <1>4, <1>7, NewClient DEF Base
  <2>2. Clients(c) /\ TheLoops(c)
    BY <1>1, <1>7, <2>1 DEF Clients, TheLoops, Base, Types
  <2>3. Numbers(c)
    BY <1>1, <1>6, <1>7 DEF Numbers, Base, Types
  <2>4. Becomes(c, cn, w)
    BY <1>1, <1>7 DEF Becomes, Base
  <2>. QED  BY <1>7, <2>1, <2>2, <2>3, <2>4, StepBase
<1>8. CASE m.sid = 0
  <2>. DEFINE w == [wire[c] EXCEPT !.down = Tail(@)]
              cl == [client[s] EXCEPT !.pc = "failed"]
  <2>1. wire' = [wire EXCEPT ![c] = w] /\ client' = [client EXCEPT ![s] = cl] /\ UNCHANGED <<sid, conn>>
    BY <1>1, <1>8 DEF Added
  <2>2. cl \in ClientType /\ cl.on = c /\ cl.pc = "failed"
    BY <1>5, <1>6 DEF ClientType
  <2>3. w \in WireType /\ w.calls = wire[c].calls /\ w.down = Tail(wire[c].down) /\ w.subs = wire[c].subs /\ w.issued = wire[c].issued
    BY <1>2, <1>6 DEF WireType
  <2>. HIDE DEF w, cl
  <2>4. Wired(conn[c], w)
    BY <1>1, <1>6, <2>3, LaterWired
  <2>5. conn' = [conn EXCEPT ![c] = conn[c]] /\ sid' \in [Regs -> Nat]
    BY <2>1 DEF Base, Types
  <2>6. /\ Base' /\ Elsewhere(c) /\ conn'[c] = conn[c] /\ wire'[c] = w
        /\ client' \in [Subs -> ClientType] /\ client'[s] = cl /\ \A t \in Subs \ {s} : client'[t] = client[t]
    BY <1>1, <1>6, <1>7, <2>1, <2>2, <2>3, <2>4, <2>5
  <2>. HIDE DEF s, i, r, last, m
  <2>. QED  BY ZenonT(60), <1>1, <1>2, <1>3, <1>4, <1>5, <1>8, <2>1, <2>2, <2>3, <2>6 DEF s, i, r, last, m
<1>9. CASE m.sid # 0
  <2>. DEFINE more == IF last THEN {} ELSE {<<s, i + 1>>}
              asks == IF last THEN {} ELSE {Calling("add", <<s, i + 1>>)}
              w == [wire[c] EXCEPT !.down = Tail(@), !.calls = @ \cup asks]
              cl == [client[s] EXCEPT !.pc = IF last THEN "active" ELSE @, !.at = IF last THEN i ELSE i + 1]
              cn == Answered(c, r, m.sid, more)
  <2>1. wire' = [wire EXCEPT ![c] = w] /\ client' = [client EXCEPT ![s] = cl] /\ sid' = [sid EXCEPT ![r] = m.sid]
    BY ZenonT(60), <1>1, <1>9 DEF Added
  <2>2. conn' = [conn EXCEPT ![c].route = {e \in @ : e.sid # m.sid} \cup {[sid |-> m.sid, reg |-> m.to.reg]},
                             ![c].regs = IF last THEN @ ELSE @ \cup {<<s, i + 1>>}]
    BY <1>1, <1>9 DEF Added
  <2>3. ~last => i + 1 \in 1..Filters[s] /\ <<s, i + 1>> \in Regs
    <3>1. ~last => i + 1 \in 1..Filters[s]
      BY <1>4
    <3>. HIDE DEF s, i, r, last, m
    <3>. QED  BY <1>4, <3>1, RegIs DEF Base
  <2>. HIDE DEF s, i, last, m
  <2>4. (last => more = {} /\ asks = {}) /\ (~last => more = {<<s, i + 1>>} /\ asks = {Calling("add", <<s, i + 1>>)})
    OBVIOUS
  <2>5. more \subseteq Regs /\ asks \subseteq CallType
    BY <2>3, <2>4 DEF Calling, CallType
  <2>6. i \in Nat /\ i + 1 \in Nat
    BY <1>4
  <2>7. cl \in ClientType /\ cl.on = c /\ (last => cl.pc = "active") /\ (~last => cl.pc = "establish" /\ cl.at = i + 1)
    BY <1>5, <1>6, <2>6 DEF ClientType
  <2>. HIDE DEF asks, more
  <2>8. /\ w \in WireType /\ w.calls = wire[c].calls \cup asks /\ w.down = Tail(wire[c].down)
        /\ w.subs = wire[c].subs /\ w.issued = wire[c].issued
    BY <1>2, <1>6, <2>5 DEF WireType
  <2>. HIDE DEF w, cl
  <2>9. m.sid >= 1 /\ Head(wire[c].down).to.by \in {"add", "loop"} /\ Head(wire[c].down).to.reg = r /\ Head(wire[c].down).sid = m.sid
    BY <1>3, <1>9 DEF m, r
  <2>10. /\ cn \in ConnType /\ Wired(cn, w) /\ cn.route = Rerouted(c, r, m.sid) /\ cn.regs = conn[c].regs \cup more
         /\ cn.sock = conn[c].sock /\ cn.closed = conn[c].closed /\ cn.tries = conn[c].tries
    BY <1>1, <1>3, <2>5, <2>8, <2>9, AnsweredConn
  <2>11. conn' = [conn EXCEPT ![c] = cn]
    <3>1. conn' = [conn EXCEPT ![c].route = Rerouted(c, r, m.sid), ![c].regs = conn[c].regs \cup more]
      BY <2>2, <2>4 DEF Rerouted, r
    <3>. QED  BY <3>1 DEF Answered
  <2>12. sid' \in [Regs -> Nat]
    BY <1>3, <2>1 DEF Base, Types
  <2>. HIDE DEF cn
  <2>13. /\ Base' /\ Elsewhere(c) /\ conn'[c] = cn /\ wire'[c] = w
         /\ client' \in [Subs -> ClientType] /\ client'[s] = cl /\ \A t \in Subs \ {s} : client'[t] = client[t]
    BY <1>1, <1>7, <2>1, <2>7, <2>8, <2>10, <2>11, <2>12
  <2>14. \/ last /\ client'[s].pc = "active" /\ conn'[c].regs = conn[c].regs /\ wire'[c].calls = wire[c].calls
         \/ /\ ~last /\ client'[s].pc = "establish" /\ client'[s].at = i + 1 /\ <<s, i + 1>> \in Regs
            /\ conn'[c].regs = conn[c].regs \cup {<<s, i + 1>>}
            /\ wire'[c].calls = wire[c].calls \cup {Calling("add", <<s, i + 1>>)}
    BY <2>3, <2>4, <2>7, <2>8, <2>10, <2>13
  <2>. QED  BY ZenonT(60), <1>1, <1>2, <1>3, <1>4, <1>5, <2>1, <2>7, <2>8, <2>9, <2>10, <2>13, <2>14 DEF s, i, last, m
<1>. QED  BY ZenonT(60), <1>8, <1>9

LEMMA ReestablishedStep ==
  ASSUME Base, Turns, NEW c \in Conns, Deliver(c), Head(wire[c].down).to.by = "loop"
  PROVE  LET m == Head(wire[c].down)
             k == m.to.loop IN
         /\ Base' /\ Elsewhere(c) /\ conn[c].sock = "open" /\ wire[c].down # <<>> /\ UNCHANGED <<current, used, client, faults>>
         /\ m.to \in CallType /\ m.to.reg \in Regs /\ m.sid \in Nat
         /\ k \in Loops /\ loop[k].pc = "run" /\ loop[k].on = c /\ loop[k].reg = m.to.reg
         /\ loop' \in [Loops -> LoopType] /\ \A j \in Loops \ {k} : loop'[j] = loop[j]
         /\ conn'[c].sock = "open" /\ conn'[c].closed = conn[c].closed /\ conn'[c].tries = conn[c].tries
         /\ conn'[c].regs = conn[c].regs
         /\ wire'[c].down = Tail(wire[c].down) /\ wire'[c].calls = wire[c].calls \cup CallsOf({k}, loop')
         /\ \/ m.sid = 0 /\ loop'[k] = NoLoop /\ UNCHANGED sid /\ conn'[c] = conn[c]
            \/ /\ m.sid >= 1 /\ sid' = [sid EXCEPT ![m.to.reg] = m.sid] /\ conn'[c].route = Rerouted(c, m.to.reg, m.sid)
               /\ loop'[k] \in Visits(loop[k], conn[c].regs)
<1>. DEFINE m == Head(wire[c].down)
            r == m.to.reg
            k == m.to.loop
            asks == CallsOf({k}, loop')
            w == [wire[c] EXCEPT !.down = Tail(@), !.calls = @ \cup asks]
<1>1. conn[c].sock = "open" /\ wire[c].down # <<>> /\ Reestablished(c, m) /\ UNCHANGED <<current, used, client, faults>>
  BY DEF Deliver, Reestablished
<1>2. m \in MsgType /\ m.to \in CallType /\ CallOK(c, m.to) /\ Tail(wire[c].down) \in Seq(MsgType)
  BY <1>1, HeadOf DEF Turns
<1>3. r \in Regs /\ m.sid \in Nat
  BY <1>2 DEF MsgType, CallType
<1>4. k \in Loops /\ loop[k].pc = "run" /\ loop[k].on = c /\ loop[k].reg = r
  BY <1>2 DEF CallOK
<1>5. wire[c] \in WireType /\ conn[c] \in ConnType /\ Wired(conn[c], wire[c]) /\ loop[k] \in LoopType /\ c <= used
  BY <1>1, <1>4, MadeBefore DEF Base, Types
<1>6. wire' = [wire EXCEPT ![c] = w]
  BY <1>1 DEF Reestablished
<1>7. ASSUME NEW cn \in ConnType, NEW l \in LoopType, l.pc \in {"none", "run"}, l.pc = "run" => l.on = c /\ l.reg \in Regs,
             Wired(conn[c], w) => Wired(cn, w), loop' = [loop EXCEPT ![k] = l],
             conn' = [conn EXCEPT ![c] = cn], cn.sock = "open", cn.closed = conn[c].closed, sid' \in [Regs -> Nat],
             w \in WireType => Wired(cn, w)
      PROVE  /\ Base' /\ Elsewhere(c) /\ conn'[c] = cn
             /\ wire'[c].down = Tail(wire[c].down) /\ wire'[c].calls = wire[c].calls \cup CallsOf({k}, loop')
             /\ loop' \in [Loops -> LoopType] /\ loop'[k] = l /\ \A j \in Loops \ {k} : loop'[j] = loop[j]
  <2>. HIDE DEF k, r, m
  <2>1. loop' \in [Loops -> LoopType] /\ loop'[k] = l /\ \A j \in Loops \ {k} : loop'[j] = loop[j]
    BY <1>4, <1>7, NewLoop DEF Base
  <2>2. asks \subseteq CallType
    BY <1>4, <1>7, <2>1, CallsTypes
  <2>. HIDE DEF asks
  <2>3. w \in WireType /\ w.calls = wire[c].calls \cup asks /\ w.down = Tail(wire[c].down)
    BY <1>2, <1>5, <2>2 DEF WireType
  <2>. HIDE DEF w
  <2>4. TheLoops(c)
    BY <1>1, <1>4, <1>7, <2>1 DEF TheLoops, Base, Placed
  <2>5. Clients(c) /\ Numbers(c)
    BY <1>1, <1>5, <1>7 DEF Clients, Numbers, Base, Types
  <2>6. Becomes(c, cn, w)
    BY <1>1, <1>6, <1>7, <2>3 DEF Becomes, Base
  <2>7. Base' /\ Elsewhere(c) /\ conn'[c] = cn /\ wire'[c] = w
    BY <1>7, <2>3, <2>4, <2>5, <2>6, StepBase
  <2>. QED  BY <2>1, <2>3, <2>7 DEF asks
<1>8. w.down = Tail(wire[c].down) /\ w.subs = wire[c].subs /\ w.issued = wire[c].issued
  BY <1>5 DEF WireType
<1>9. CASE m.sid = 0
  <2>1. loop' = [loop EXCEPT ![k] = NoLoop] /\ UNCHANGED <<sid, conn>>
    BY <1>1, <1>9 DEF Reestablished
  <2>. HIDE DEF k, r, m, w
  <2>2. conn' = [conn EXCEPT ![c] = conn[c]] /\ sid' \in [Regs -> Nat]
    BY <2>1 DEF Base, Types
  <2>3. w \in WireType => Wired(conn[c], w)
    BY <1>1, <1>5, <1>8, LaterWired
  <2>4. /\ Base' /\ Elsewhere(c) /\ conn'[c] = conn[c]
        /\ wire'[c].down = Tail(wire[c].down) /\ wire'[c].calls = wire[c].calls \cup CallsOf({k}, loop')
        /\ loop' \in [Loops -> LoopType] /\ loop'[k] = NoLoop /\ \A j \in Loops \ {k} : loop'[j] = loop[j]
    BY <1>1, <1>5, <1>7, <2>1, <2>2, <2>3, LoopValues DEF Base
  <2>. QED  BY <1>1, <1>2, <1>3, <1>4, <1>9, <2>1, <2>4 DEF k, r, m
<1>10. CASE m.sid # 0
  <2>1. PICK l \in Visits(loop[k], conn[c].regs) : loop' = [loop EXCEPT ![k] = l] /\ Established(c, r, m.sid)
    BY <1>1, <1>10 DEF Reestablished
  <2>. DEFINE cn == Answered(c, r, m.sid, {})
  <2>2. conn[c].regs \in SUBSET Regs
    BY <1>5 DEF ConnType
  <2>3. l \in LoopType /\ (l.pc = "run" => l.on = c /\ l.reg \in Regs) /\ l.pc \in {"none", "run"}
    BY <1>4, <1>5, <2>2, VisitsTypes DEF Base
  <2>4. conn' = [conn EXCEPT ![c] = cn] /\ sid' = [sid EXCEPT ![r] = m.sid]
    <3>1. conn' = [conn EXCEPT ![c].route = Rerouted(c, r, m.sid)] /\ sid' = [sid EXCEPT ![r] = m.sid]
      BY <2>1 DEF Established, Rerouted
    <3>2. [conn[c] EXCEPT !.route = Rerouted(c, r, m.sid)] = cn
      BY <1>5 DEF Answered, ConnType
    <3>. HIDE DEF cn, r, m
    <3>. QED  BY <3>1, <3>2
  <2>5. sid' \in [Regs -> Nat]
    BY <1>3, <2>4 DEF Base, Types
  <2>6. m.sid >= 1 /\ Head(wire[c].down).to.by \in {"add", "loop"} /\ Head(wire[c].down).to.reg = r /\ Head(wire[c].down).sid = m.sid
    BY <1>3, <1>10
  <2>. HIDE DEF k, r, m, w
  <2>8. w \in WireType
    <3>1. loop' \in [Loops -> LoopType] /\ loop'[k] = l
      BY <1>4, <2>1, <2>3, NewLoop DEF Base
    <3>2. asks \subseteq CallType
      BY <1>4, <2>3, <3>1, CallsTypes
    <3>. HIDE DEF asks
    <3>. QED  BY <1>2, <1>5, <3>2 DEF w, WireType
  <2>7. /\ cn \in ConnType /\ Wired(cn, w) /\ cn.route = Rerouted(c, r, m.sid) /\ cn.regs = conn[c].regs \cup {}
        /\ cn.sock = conn[c].sock /\ cn.closed = conn[c].closed /\ cn.tries = conn[c].tries
    <3>1. PICK more \in SUBSET Regs : more = {}
      OBVIOUS
    <3>2. LET x == Answered(c, r, m.sid, more) IN
          /\ x \in ConnType /\ Wired(x, w) /\ x.route = Rerouted(c, r, m.sid) /\ x.regs = conn[c].regs \cup more
          /\ x.sock = conn[c].sock /\ x.closed = conn[c].closed /\ x.tries = conn[c].tries
      BY <1>1, <1>3, <1>8, <2>6, <2>8, AnsweredConn
    <3>. QED  BY <3>1, <3>2
  <2>. HIDE DEF cn
  <2>9. /\ Base' /\ Elsewhere(c) /\ conn'[c] = cn
        /\ wire'[c].down = Tail(wire[c].down) /\ wire'[c].calls = wire[c].calls \cup CallsOf({k}, loop')
        /\ loop' \in [Loops -> LoopType] /\ loop'[k] = l /\ \A j \in Loops \ {k} : loop'[j] = loop[j]
    BY <1>1, <1>7, <2>1, <2>3, <2>4, <2>5, <2>7, <2>8
  <2>. QED  BY ZenonT(60), <1>1, <1>2, <1>3, <1>4, <2>1, <2>4, <2>6, <2>7, <2>8, <2>9 DEF k, r, m
<1>. QED  BY <1>9, <1>10

LEMMA RemovedStep ==
  ASSUME Base, Turns, NEW c \in Conns, Deliver(c), Head(wire[c].down).to.by = "remove"
  PROVE  LET m == Head(wire[c].down)
             s == m.to.reg[1]
             i == m.to.reg[2] + 1 IN
         /\ Base' /\ Elsewhere(c) /\ conn[c].sock = "open" /\ wire[c].down # <<>> /\ UNCHANGED <<used, loop, faults>>
         /\ m.to \in CallType /\ m.to.reg \in Regs /\ s \in Subs /\ i \in Nat /\ 1 <= i
         /\ client[s].pc = "removing" /\ client[s].on = c /\ client[s].at = m.to.reg[2]
         /\ wire'[c].down = Tail(wire[c].down) /\ \E j \in Nat : Removed(s, i, c, j)
<1>. DEFINE m == Head(wire[c].down)
            r == m.to.reg
            s == r[1]
            i == r[2] + 1
            d == Tail(wire[c].down)
<1>1. conn[c].sock = "open" /\ wire[c].down # <<>> /\ RemoveAll(s, i, c, d) /\ UNCHANGED <<used, loop, faults>>
  BY DEF Deliver
<1>2. m \in MsgType /\ m.to \in CallType /\ CallOK(c, m.to)
  BY <1>1, HeadOf DEF Turns
<1>3. r \in Regs
  BY <1>2 DEF CallType
<1>4. s \in Subs /\ r[2] \in 1..Filters[s] /\ Filters[s] \in {1, 2}
  BY <1>3, RegIs DEF Base
<1>5. i \in Nat /\ 1 <= i
  BY <1>4
<1>6. client[s].pc = "removing" /\ client[s].on = c /\ client[s].at = r[2]
  BY <1>2 DEF CallOK
<1>. HIDE DEF m, r, s, i, d
<1>7. Base' /\ Elsewhere(c) /\ wire'[c].down = d /\ \E j \in Nat : Removed(s, i, c, j)
  <2>1. d = wire[c].down \/ (wire[c].down # <<>> /\ d = Tail(wire[c].down))
    BY <1>1 DEF d
  <2>2. Removes(s, i, c, d)
    BY <1>1, <1>5, <1>6, <2>1 DEF Removes
  <2>3. AfterRemoval(s, i, c, d)
    BY <1>4, <2>2, RemoveAllStep
  <2>. QED  BY <2>3 DEF AfterRemoval
<1>. QED  BY <1>1, <1>2, <1>3, <1>4, <1>5, <1>6, <1>7 DEF m, r, s, i, d

LEMMA UnsubscribeStep ==
  ASSUME Base, NEW s \in Subs, Unsubscribe(s)
  PROVE  /\ Base' /\ client[s].pc = "active" /\ client[s].on \in Conns /\ UNCHANGED <<used, loop, faults>>
         /\ Elsewhere(client[s].on) /\ wire'[client[s].on].down = wire[client[s].on].down
         /\ \E j \in Nat : Removed(s, 1, client[s].on, j)
<1>. DEFINE c == client[s].on
            d == wire[c].down
<1>1. client[s].pc = "active" /\ RemoveAll(s, 1, c, d) /\ UNCHANGED <<used, loop, faults>>
  BY DEF Unsubscribe
<1>2. c \in 1..used /\ used \in 0..MaxConns
  BY <1>1 DEF Base, Placed, Types
<1>. HIDE DEF c, d
<1>3. c \in Conns
  BY <1>2, Bounds DEF Base, Conns
<1>4. Base' /\ Elsewhere(c) /\ wire'[c].down = d /\ \E j \in Nat : Removed(s, 1, c, j)
  <2>1. client[s].pc # "idle" /\ client[s].on = c /\ d = wire[c].down /\ 1 \in Nat /\ 1 <= 1
    BY <1>1 DEF c, d
  <2>2. Removes(s, 1, c, d)
    BY <1>1, <2>1 DEF Removes
  <2>3. AfterRemoval(s, 1, c, d)
    BY <1>3, <2>2, RemoveAllStep
  <2>. QED  BY <2>3 DEF AfterRemoval
<1>. QED  BY <1>1, <1>3, <1>4 DEF c, d

-----------------------------------------------------------------------------
(* Nobody waits for two                                                    *)

LEMMA PendingTypes ==
  ASSUME SubscriptionAssumption, NEW w \in WireType, NEW a, Pending(w, a)
  PROVE  a \in CallType /\ a.by \in {"add", "loop", "remove"} /\ a.reg \in Regs /\ a.reg[1] \in Subs
<1>1. a \in CallType
  <2>1. CASE a \in w.calls
    BY <2>1 DEF WireType
  <2>2. CASE a \notin w.calls
    <3>1. PICK i \in 1..Len(w.down) : w.down[i].to = a /\ a.by # "tick"
      BY <2>2 DEF Pending
    <3>2. w.down[i] \in MsgType
      BY DEF WireType
    <3>3. a \in CallType \cup {Calling("tick", <<>>)}
      BY <3>1, <3>2 DEF MsgType
    <3>. QED  BY <3>1, <3>3 DEF Calling
  <2>. QED  BY <2>1, <2>2
<1>2. a.by \in {"add", "loop", "remove"} /\ a.reg \in Regs
  BY <1>1 DEF CallType
<1>. QED  BY <1>1, <1>2, RegIs

LEMMA PendingOK == ASSUME NEW c, NEW w, Turned(c, w), NEW a, Pending(w, a) PROVE CallOK(c, a)
BY DEF Turned, Pending

LEMMA OneTurned ==
  ASSUME Base, Turns, NEW c \in Conns, Turned(c, wire[c])', Elsewhere(c),
         \A s \in Subs : client[s].on # c /\ client[s].pc \in {"establish", "removing"} => client'[s] = client[s],
         \A k \in Loops : loop[k].on # c /\ loop[k].pc = "run" => loop'[k] = loop[k]
  PROVE  Turns'
<1>1. ASSUME NEW d \in Conns \ {c} PROVE Turned(d, wire[d])'
  <2>1. wire[d] \in WireType /\ wire'[d] = wire[d] /\ Turned(d, wire[d])
    BY DEF Base, Types, Elsewhere, Turns
  <2>2. ASSUME NEW a, Pending(wire[d], a) PROVE CallOK(d, a)'
    <3>1. CallOK(d, a)
      BY <2>1, <2>2, PendingOK
    <3>2. a.reg[1] \in Subs /\ a.by \in {"add", "loop", "remove"}
      BY <2>1, <2>2, PendingTypes DEF Base
    <3>3. CASE a.by = "loop"
      BY <3>1, <3>3 DEF CallOK
    <3>4. CASE a.by # "loop"
      BY <3>1, <3>2, <3>4 DEF CallOK
    <3>. QED  BY <3>3, <3>4
  <2>. QED  BY <2>1, <2>2 DEF Turned, Pending
<1>. QED  BY <1>1 DEF Turns

LEMMA Asks ==
  ASSUME NEW c, NEW v, NEW N, Turned(c, v), wire'[c].calls = v.calls \cup N, wire'[c].down = v.down,
         \A a : Pending(v, a) => CallOK(c, a)' /\ \A n \in N : ~Same(a, n),
         \A n \in N : CallOK(c, n)', \A n, p \in N : Same(n, p) => n = p
  PROVE  Turned(c, wire[c])'
<1>1. \A a, b : Same(a, b) => Same(b, a)
  BY DEF Same
<1>2. \A a \in v.calls : Pending(v, a)
  BY DEF Pending
<1>3. \A i \in 1..Len(v.down) : v.down[i].to.by # "tick" => Pending(v, v.down[i].to)
  BY DEF Pending
<1>4. \A a \in v.calls \cup N : CallOK(c, a)'
  BY <1>2
<1>5. \A a, b \in v.calls \cup N : Same(a, b) => a = b
  BY <1>1, <1>2 DEF Turned
<1>6. ASSUME NEW i \in 1..Len(v.down), v.down[i].to.by # "tick"
      PROVE  /\ CallOK(c, v.down[i].to)' /\ \A a \in v.calls \cup N : ~Same(a, v.down[i].to)
             /\ \A j \in 1..Len(v.down) : j # i /\ v.down[j].to.by # "tick" => ~Same(v.down[j].to, v.down[i].to)
  <2>1. CallOK(c, v.down[i].to)' /\ \A a \in N : ~Same(a, v.down[i].to)
    BY <1>1, <1>3, <1>6
  <2>2. /\ \A a \in v.calls : ~Same(a, v.down[i].to)
        /\ \A j \in 1..Len(v.down) : j # i /\ v.down[j].to.by # "tick" => ~Same(v.down[j].to, v.down[i].to)
    BY <1>6 DEF Turned
  <2>. QED  BY <2>1, <2>2
<1>. QED  BY <1>4, <1>5, <1>6 DEF Turned

LEMMA TailTurned ==
  ASSUME NEW c, NEW w \in WireType, Turned(c, w), w.down # <<>>, NEW v, v.calls = w.calls, v.down = Tail(w.down)
  PROVE  /\ Turned(c, v) /\ \A a : Pending(v, a) => Pending(w, a)
         /\ Head(w.down).to.by # "tick" => \A a : Pending(v, a) => ~Same(a, Head(w.down).to)
<1>1. /\ Head(w.down) = w.down[1] /\ 1 \in 1..Len(w.down) /\ Len(v.down) \in Nat
      /\ \A i \in 1..Len(v.down) : v.down[i] = w.down[i + 1] /\ i + 1 \in 1..Len(w.down) /\ i + 1 # 1
  BY TailDown
<1>2. \A i, j \in 1..Len(v.down) : i # j => i + 1 # j + 1
  BY <1>1
<1>3. \A a \in v.calls : CallOK(c, a) /\ \A b \in v.calls : Same(a, b) => a = b
  BY DEF Turned
<1>4. ASSUME NEW i \in 1..Len(v.down), v.down[i].to.by # "tick"
      PROVE  /\ CallOK(c, v.down[i].to) /\ \A a \in v.calls : ~Same(a, v.down[i].to)
             /\ \A j \in 1..Len(v.down) : j # i /\ v.down[j].to.by # "tick" => ~Same(v.down[j].to, v.down[i].to)
  BY <1>1, <1>2, <1>4 DEF Turned
<1>5. ASSUME NEW a, Pending(v, a)
      PROVE  Pending(w, a) /\ (Head(w.down).to.by # "tick" => ~Same(a, Head(w.down).to))
  <2>1. CASE a \in v.calls
    BY <1>1, <2>1 DEF Turned, Pending
  <2>2. CASE a \notin v.calls
    <3>1. PICK i \in 1..Len(v.down) : v.down[i].to = a /\ a.by # "tick"
      BY <1>5, <2>2 DEF Pending
    <3>2. i + 1 \in 1..Len(w.down) /\ i + 1 # 1 /\ w.down[i + 1].to = a
      BY <1>1, <3>1
    <3>3. Pending(w, a)
      BY <3>1, <3>2 DEF Pending
    <3>4. Head(w.down).to.by # "tick" => ~Same(a, Head(w.down).to)
      BY <1>1, <3>1, <3>2 DEF Turned
    <3>. QED  BY <3>3, <3>4
  <2>. QED  BY <2>1, <2>2
<1>6. Turned(c, v)
  BY <1>3, <1>4 DEF Turned
<1>. QED  BY <1>5, <1>6

\* One subscriber goes on, and asks at most one thing; nothing of his was pending.
LEMMA AskClient ==
  ASSUME SubscriptionAssumption, NEW c, NEW v \in WireType, NEW s, NEW N, Turned(c, v),
         wire'[c].calls = v.calls \cup N, wire'[c].down = v.down,
         \A a : Pending(v, a) /\ a.by # "loop" => a.reg[1] # s,
         \A t \in Subs \ {s} : client'[t] = client[t], loop' = loop,
         \A n \in N : n.by # "loop" /\ n.reg[1] = s /\ CallOK(c, n)', \A n, p \in N : n = p
  PROVE  Turned(c, wire[c])'
<1>1. ASSUME NEW a, Pending(v, a) PROVE CallOK(c, a)' /\ \A n \in N : ~Same(a, n)
  <2>1. CallOK(c, a) /\ a.reg[1] \in Subs /\ (a.by # "loop" => a.reg[1] # s)
    BY <1>1, PendingOK, PendingTypes
  <2>2. CallOK(c, a)'
    BY <2>1 DEF CallOK
  <2>3. \A n \in N : ~Same(a, n)
    BY <2>1 DEF Same
  <2>. QED  BY <2>2, <2>3
<1>. QED  BY <1>1, Asks

\* The same of one loop.
LEMMA AskLoop ==
  ASSUME SubscriptionAssumption, NEW c \in Conns, NEW v \in WireType, NEW k \in Loops, Turned(c, v),
         wire'[c].calls = v.calls \cup CallsOf({k}, loop'), wire'[c].down = v.down,
         \A a : Pending(v, a) /\ a.by = "loop" => a.loop # k,
         \A j \in Loops \ {k} : loop'[j] = loop[j], client' = client,
         loop'[k].pc = "run" => loop'[k].on = c
  PROVE  Turned(c, wire[c])'
<1>. DEFINE N == CallsOf({k}, loop')
<1>1. ASSUME NEW n \in N PROVE n.by = "loop" /\ n.loop = k /\ n.reg = loop'[k].reg /\ loop'[k].pc = "run"
                               /\ n = [by |-> "loop", reg |-> loop'[k].reg, loop |-> k]
  BY DEF CallsOf
<1>. HIDE DEF N
<1>2. ASSUME NEW a, Pending(v, a) PROVE CallOK(c, a)' /\ \A n \in N : ~Same(a, n)
  <2>1. CallOK(c, a) /\ (a.by = "loop" => a.loop # k)
    BY <1>2, PendingOK
  <2>2. CallOK(c, a)'
    BY <2>1 DEF CallOK
  <2>3. \A n \in N : ~Same(a, n)
    BY <1>1, <2>1 DEF Same
  <2>. QED  BY <2>2, <2>3
<1>3. \A n \in N : CallOK(c, n)'
  BY <1>1 DEF CallOK
<1>4. \A n, p \in N : Same(n, p) => n = p
  BY <1>1
<1>5. wire'[c].calls = v.calls \cup N
  BY DEF N
<1>. QED  BY <1>2, <1>3, <1>4, <1>5, Asks

\* Whoever does not wait for an answer has no call under way.
LEMMA FreeClient ==
  ASSUME NEW c, NEW w, Turned(c, w), NEW s, client[s].pc \notin {"establish", "removing"}
  PROVE  \A a : Pending(w, a) /\ a.by # "loop" => a.reg[1] # s
BY PendingOK DEF CallOK

LEMMA FreeLoop ==
  ASSUME NEW c, NEW w, Turned(c, w), NEW k, loop[k].pc # "run"
  PROVE  \A a : Pending(w, a) /\ a.by = "loop" => a.loop # k
BY PendingOK DEF CallOK

LEMMA NothingTurned == ASSUME NEW c, wire'[c] = NoWire PROVE Turned(c, wire[c])'
<1>1. wire'[c].calls = {} /\ wire'[c].down = <<>> /\ Len(<<>>) = 0
  BY WireValues
<1>. QED  BY <1>1 DEF Turned

LEMMA SubscribeTurns == ASSUME Base, Turns, NEW s \in Subs, Subscribe(s) PROVE Turns'
<1>1. /\ client[s].pc = "idle" /\ UNCHANGED <<sid, loop, faults>> /\ \A t \in Subs \ {s} : client'[t] = client[t]
      /\ \E c \in Conns :
           /\ ~conn[c].closed /\ Elsewhere(c)
           /\ \/ /\ conn[c].sock = "open" /\ conn'[c] = [conn[c] EXCEPT !.regs = @ \cup {<<s, 1>>}]
                 /\ wire'[c] = [wire[c] EXCEPT !.calls = @ \cup {Calling("add", <<s, 1>>)}]
                 /\ client'[s] = [pc |-> "establish", on |-> c, at |-> 1]
              \/ /\ conn[c].sock \in {"none", "connecting"} /\ conn'[c] = [conn[c] EXCEPT !.sock = "connecting"]
                 /\ wire'[c] = wire[c] /\ client'[s] = [pc |-> "connect", on |-> c, at |-> 1]
  BY SubscribeStep
<1>2. PICK c \in Conns :
           /\ ~conn[c].closed /\ Elsewhere(c)
           /\ \/ /\ conn[c].sock = "open" /\ conn'[c] = [conn[c] EXCEPT !.regs = @ \cup {<<s, 1>>}]
                 /\ wire'[c] = [wire[c] EXCEPT !.calls = @ \cup {Calling("add", <<s, 1>>)}]
                 /\ client'[s] = [pc |-> "establish", on |-> c, at |-> 1]
              \/ /\ conn[c].sock \in {"none", "connecting"} /\ conn'[c] = [conn[c] EXCEPT !.sock = "connecting"]
                 /\ wire'[c] = wire[c] /\ client'[s] = [pc |-> "connect", on |-> c, at |-> 1]
  BY <1>1
<1>3. wire[c] \in WireType /\ Turned(c, wire[c])
  BY DEF Base, Types, Turns
<1>4. \A a : Pending(wire[c], a) /\ a.by # "loop" => a.reg[1] # s
  BY <1>1, <1>3, FreeClient
<1>5. Turned(c, wire[c])'
  <2>1. PICK N : /\ wire'[c].calls = wire[c].calls \cup N /\ wire'[c].down = wire[c].down
                 /\ \A n \in N : n.by # "loop" /\ n.reg[1] = s /\ CallOK(c, n)'
                 /\ \A n, p \in N : n = p
    <3>1. CASE wire'[c] = wire[c]
      <4>. DEFINE N == {}
      <4>1. wire'[c].calls = wire[c].calls \cup N /\ wire'[c].down = wire[c].down
        BY <3>1
      <4>2. \A n \in N : FALSE
        OBVIOUS
      <4>. HIDE DEF N
      <4>. QED  BY <4>1, <4>2
    <3>2. CASE /\ wire'[c] = [wire[c] EXCEPT !.calls = @ \cup {Calling("add", <<s, 1>>)}]
               /\ client'[s] = [pc |-> "establish", on |-> c, at |-> 1]
      <4>1. Calling("add", <<s, 1>>).by = "add" /\ Calling("add", <<s, 1>>).reg = <<s, 1>>
        BY DEF Calling
      <4>. DEFINE N == {Calling("add", <<s, 1>>)}
      <4>2. wire'[c].calls = wire[c].calls \cup N /\ wire'[c].down = wire[c].down
        BY <1>3, <3>2 DEF WireType
      <4>3. CallOK(c, Calling("add", <<s, 1>>))'
        BY <3>2, <4>1 DEF CallOK
      <4>4. \A n \in N : n.by # "loop" /\ n.reg[1] = s /\ CallOK(c, n)'
        BY <4>1, <4>3
      <4>5. \A n, p \in N : n = p
        OBVIOUS
      <4>. HIDE DEF N
      <4>. QED  BY <4>2, <4>4, <4>5
    <3>. QED  BY <1>2, <3>1, <3>2
  <2>. QED  BY <1>1, <1>3, <1>4, <2>1, AskClient DEF Base
<1>. QED  BY <1>1, <1>2, <1>5, OneTurned

LEMMA LostTurns == ASSUME Base, Turns, NEW c \in Conns, Lost(c) PROVE Turns'
<1>1. Turned(c, wire[c])'
  BY NothingTurned DEF Lost
<1>. QED  BY <1>1, OneTurned DEF Lost

LEMMA OpenedTurns == ASSUME Base, Turns, Held, NEW c \in Conns, Opened(c) PROVE Turns'
<1>. DEFINE ks == {k \in Loops : loop[k].pc = "connect" /\ loop[k].on = c}
            adds == {Calling("add", <<s, 1>>) : s \in Waiting(c)}
            asks == CallsOf(ks, loop')
<1>1. /\ Elsewhere(c)
      /\ client' = [s \in Subs |-> IF s \in Waiting(c) THEN [client[s] EXCEPT !.pc = "establish"] ELSE client[s]]
      /\ \A k \in Loops : IF loop[k].pc = "connect" /\ loop[k].on = c
                          THEN loop'[k].pc = "run" => loop'[k].on = c
                          ELSE loop'[k] = loop[k]
      /\ wire'[c].down = <<>> /\ wire'[c].calls = adds \cup asks
  BY ZenonT(60), OpenedStep
<1>2. ASSUME NEW s \in Waiting(c)
      PROVE  s \in Subs /\ client'[s].pc = "establish" /\ client'[s].on = c /\ client'[s].at = 1
  <2>1. s \in Subs /\ client[s].pc = "connect" /\ client[s].on = c /\ client[s] \in ClientType /\ client[s].at = 1
    BY DEF Waiting, Base, Types, Held
  <2>. QED  BY <1>1, <2>1 DEF ClientType
<1>3. ASSUME NEW a \in adds
      PROVE  a.by = "add" /\ a.reg[1] \in Waiting(c) /\ a.reg[2] = 1 /\ a = Calling("add", <<a.reg[1], 1>>)
  <2>1. PICK s \in Waiting(c) : a = Calling("add", <<s, 1>>)
    OBVIOUS
  <2>. HIDE DEF adds
  <2>. QED  BY <2>1 DEF Calling
<1>4. ASSUME NEW a \in asks
      PROVE  a.loop \in ks /\ a.by = "loop" /\ a.reg = loop'[a.loop].reg /\ loop'[a.loop].pc = "run"
             /\ a = [by |-> "loop", reg |-> loop'[a.loop].reg, loop |-> a.loop]
  BY DEF CallsOf
<1>5. \A k \in ks : k \in Loops /\ (loop'[k].pc = "run" => loop'[k].on = c)
  BY <1>1
<1>. HIDE DEF adds, asks, ks
<1>6. \A a \in adds \cup asks : CallOK(c, a)'
  BY <1>2, <1>3, <1>4, <1>5 DEF CallOK
<1>7. \A a, b \in adds \cup asks : Same(a, b) => a = b
  BY <1>3, <1>4 DEF Same
<1>8. Turned(c, wire[c])'
  <2>1. Len(wire'[c].down) = 0
    BY <1>1
  <2>. QED  BY <1>1, <1>6, <1>7, <2>1 DEF Turned
<1>9. \A s \in Subs : client[s].on # c /\ client[s].pc \in {"establish", "removing"} => client'[s] = client[s]
  BY <1>1 DEF Waiting
<1>10. \A k \in Loops : loop[k].on # c /\ loop[k].pc = "run" => loop'[k] = loop[k]
  BY <1>1
<1>. QED  BY <1>1, <1>8, <1>9, <1>10, OneTurned

LEMMA FireTurns == ASSUME Base, Turns, NEW k \in Loops, Fire(k) PROVE Turns'
<1>0. PICK c \in Conns : c = loop[k].on
  BY FireStep
<1>1. /\ loop[k].pc = "timer" /\ UNCHANGED client /\ \A j \in Loops \ {k} : loop'[j] = loop[j]
      /\ Elsewhere(c)
      /\ \/ /\ conn[c].sock = "open" /\ loop'[k] \in Visits(loop[k], conn[c].regs)
            /\ wire'[c].calls = wire[c].calls \cup CallsOf({k}, loop') /\ wire'[c].down = wire[c].down
         \/ wire'[c] = wire[c]
  BY <1>0, FireStep
<1>2. wire[c] \in WireType /\ Turned(c, wire[c]) /\ loop[k] \in LoopType /\ conn[c].regs \in SUBSET Regs
  BY <1>1 DEF Base, Types, Turns, ConnType
<1>3. \A a : Pending(wire[c], a) /\ a.by = "loop" => a.loop # k
  BY <1>1, <1>2, FreeLoop
<1>4. SubscriptionAssumption /\ client' = client /\ \A j \in Loops \ {k} : loop'[j] = loop[j]
  BY <1>1 DEF Base
<1>5. ASSUME wire'[c] = wire[c] PROVE Turned(c, wire[c])'
  <2>. DEFINE N == {}
  <2>1. ASSUME NEW a, Pending(wire[c], a) PROVE CallOK(c, a)'
    <3>1. CallOK(c, a) /\ (a.by = "loop" => a.loop # k)
      BY <1>2, <1>3, <2>1, PendingOK
    <3>. QED  BY <1>4, <3>1 DEF CallOK
  <2>2. wire'[c].calls = wire[c].calls \cup N /\ wire'[c].down = wire[c].down
    BY <1>5
  <2>3. \A n \in N : FALSE
    OBVIOUS
  <2>. HIDE DEF N
  <2>. QED  BY <1>2, <2>1, <2>2, <2>3, Asks
<1>6. ASSUME loop'[k] \in Visits(loop[k], conn[c].regs),
             wire'[c].calls = wire[c].calls \cup CallsOf({k}, loop'), wire'[c].down = wire[c].down
      PROVE  Turned(c, wire[c])'
  <2>1. loop'[k].pc = "run" => loop'[k].on = c
    BY <1>2, <1>4, <1>6, <1>0, VisitsTypes
  <2>. QED  BY <1>1, <1>2, <1>3, <1>4, <1>6, <2>1, AskLoop
<1>7. Turned(c, wire[c])'
  BY <1>1, <1>5, <1>6
<1>8. \A j \in Loops : loop[j].on # c /\ loop[j].pc = "run" => loop'[j] = loop[j]
  BY <1>1
<1>9. Elsewhere(c)
  BY <1>1
<1>. QED  BY <1>4, <1>7, <1>8, <1>9, OneTurned

LEMMA ServeTurns ==
  ASSUME Base, Turns, NEW c \in Conns, NEW call \in wire[c].calls, NEW ok \in BOOLEAN, Serve(c, call, ok) PROVE Turns'
<1>1. Elsewhere(c) /\ UNCHANGED <<client, loop>> /\ wire'[c].calls = wire[c].calls \ {call} /\ call \in CallType
  BY ServeStep
<1>2. PICK n \in Nat : wire'[c].down = Append(wire[c].down, [to |-> call, sid |-> n])
  BY ServeStep
<1>. DEFINE m == [to |-> call, sid |-> n]
            w == wire[c]
            x == wire'[c]
            z == Len(wire[c].down) + 1
<1>3. w \in WireType /\ Turned(c, w) /\ m \in MsgType /\ m.to = call
  BY <1>1 DEF Base, Types, Turns, MsgType
<1>4. /\ Len(x.down) = z /\ x.down[z] = m /\ z - 1 \in Nat
      /\ \A i \in 1..(z - 1) : x.down[i] = w.down[i]
  <2>. HIDE DEF m
  <2>1. Len(wire[c].down) \in Nat
    BY <1>3 DEF WireType
  <2>. QED  BY <1>2, <1>3, <2>1, AppendDown DEF m
<1>5. call \in w.calls /\ x.calls = w.calls \ {call} /\ Len(w.down) = z - 1
  BY <1>1, <1>4 DEF WireType
<1>. HIDE DEF m, x, w, z
<1>6. \A a \in x.calls : a \in w.calls /\ CallOK(c, a) /\ ~Same(a, call) /\ ~Same(call, a) /\ \A b \in x.calls : Same(a, b) => a = b
  BY <1>3, <1>5 DEF Turned, Same
<1>7. CallOK(c, call)
  BY <1>3, <1>5 DEF Turned
<1>8. ASSUME NEW i \in 1..z, x.down[i].to.by # "tick"
      PROVE  /\ CallOK(c, x.down[i].to)
             /\ \A a \in x.calls : ~Same(a, x.down[i].to)
             /\ \A j \in 1..z : j # i /\ x.down[j].to.by # "tick" => ~Same(x.down[j].to, x.down[i].to)
  <2>1. CASE i = z
    <3>1. \A j \in 1..(z - 1) : w.down[j].to.by # "tick" => ~Same(call, w.down[j].to)
      BY <1>3, <1>5 DEF Turned
    <3>2. \A j \in 1..z : j # i => j \in 1..(z - 1)
      BY <1>4, <2>1
    <3>3. \A a : Same(a, call) <=> Same(call, a)
      BY DEF Same
    <3>. QED  BY <1>3, <1>4, <1>6, <1>7, <2>1, <3>1, <3>2, <3>3
  <2>2. CASE i \in 1..(z - 1)
    <3>1. x.down[i] = w.down[i]
      BY <1>4, <2>2
    <3>2. /\ CallOK(c, w.down[i].to) /\ ~Same(call, w.down[i].to)
          /\ \A a \in w.calls : ~Same(a, w.down[i].to)
          /\ \A j \in 1..(z - 1) : j # i /\ w.down[j].to.by # "tick" => ~Same(w.down[j].to, w.down[i].to)
      BY <1>3, <1>5, <1>8, <2>2, <3>1 DEF Turned
    <3>3. \A j \in 1..z : (j \in 1..(z - 1) /\ x.down[j] = w.down[j]) \/ x.down[j].to = call
      BY <1>3, <1>4
    <3>. QED  BY <1>6, <3>1, <3>2, <3>3
  <2>. QED  BY <1>4, <2>1, <2>2
<1>9. Turned(c, x)
  BY <1>4, <1>6, <1>8 DEF Turned
<1>10. Turned(c, wire[c])'
  BY <1>1, <1>9 DEF Turned, CallOK, x
<1>. QED  BY <1>1, <1>10, OneTurned

LEMMA TickTurns == ASSUME Base, Turns, NEW c \in Conns, NEW e \in wire[c].subs, Tick(c, e) PROVE Turns'
<1>. DEFINE m == [to |-> Calling("tick", <<>>), sid |-> e.sid]
            w == wire[c]
            x == wire'[c]
            z == Len(wire[c].down) + 1
<1>1. /\ Elsewhere(c) /\ UNCHANGED <<client, loop>> /\ x.calls = w.calls /\ x.down = Append(w.down, m)
  BY TickStep
<1>2. w \in WireType /\ Turned(c, w) /\ e.sid \in Nat
  BY DEF Base, Types, Turns, WireType, Ids
<1>3. m \in MsgType /\ m.to.by = "tick"
  BY <1>2 DEF MsgType, Calling
<1>4. /\ Len(x.down) = z /\ x.down[z] = m /\ z - 1 \in Nat
      /\ \A i \in 1..(z - 1) : x.down[i] = w.down[i]
  <2>. HIDE DEF m
  <2>1. Len(wire[c].down) \in Nat
    BY <1>2 DEF WireType
  <2>. QED  BY <1>1, <1>2, <1>3, <2>1, AppendDown
<1>5. Len(w.down) = z - 1
  BY <1>4 DEF WireType
<1>. HIDE DEF m, x, w, z
<1>6. \A i \in 1..z : x.down[i].to.by # "tick" => i \in 1..(z - 1) /\ x.down[i] = w.down[i]
  BY <1>3, <1>4
<1>7. Turned(c, x)
  BY <1>1, <1>2, <1>4, <1>5, <1>6 DEF Turned
<1>8. Turned(c, wire[c])'
  BY <1>1, <1>7 DEF Turned, CallOK, x
<1>. QED  BY <1>1, <1>8, OneTurned

\* A stretch of removeAll() asks at most once.
LEMMA RemovedTurns ==
  ASSUME Base, Turns, NEW s \in Subs, NEW i \in Nat, NEW j \in Nat, NEW c \in Conns, NEW v \in WireType, Turned(c, v),
         v.calls = wire[c].calls, wire'[c].down = v.down, Removed(s, i, c, j), Elsewhere(c), loop' = loop, client[s].on = c,
         \A a : Pending(v, a) /\ a.by # "loop" => a.reg[1] # s
  PROVE  Turns'
<1>1. client'[s].on = c /\ \A t \in Subs \ {s} : client'[t] = client[t]
  BY DEF Removed, Deleted
<1>2. PICK N : /\ wire'[c].calls = v.calls \cup N
               /\ \A n \in N : n.by # "loop" /\ n.reg[1] = s /\ CallOK(c, n)'
               /\ \A n, p \in N : n = p
  <2>1. CASE Tells(s, i, c, j)
    <3>. DEFINE call == [by |-> "remove", reg |-> <<s, j>>, sid |-> sid[<<s, j>>]]
                N == {call}
    <3>1. wire'[c].calls = v.calls \cup N /\ client'[s].pc = "removing" /\ client'[s].at = j
      BY <2>1 DEF Tells
    <3>2. call.by = "remove" /\ call.reg = <<s, j>> /\ call.reg[1] = s /\ call.reg[2] = j
      OBVIOUS
    <3>3. \A n \in N : n = call
      OBVIOUS
    <3>. HIDE DEF call, N
    <3>4. \A n \in N : n.by # "loop" /\ n.reg[1] = s /\ CallOK(c, n)'
      BY <1>1, <3>1, <3>2, <3>3 DEF CallOK
    <3>. QED  BY <3>1, <3>3, <3>4
  <2>2. CASE Finishes(s, c, j)
    <3>. DEFINE N == {}
    <3>1. wire'[c].calls = v.calls \cup N
      BY <2>2 DEF Finishes
    <3>2. \A n \in N : FALSE
      OBVIOUS
    <3>. HIDE DEF N
    <3>. QED  BY <3>1, <3>2
  <2>. QED  BY <2>1, <2>2 DEF Removed
<1>3. SubscriptionAssumption
  BY DEF Base
<1>4. Turned(c, wire[c])'
  BY <1>1, <1>2, <1>3, AskClient
<1>5. \A t \in Subs : client[t].on # c /\ client[t].pc \in {"establish", "removing"} => client'[t] = client[t]
  BY <1>1
<1>6. \A k \in Loops : loop[k].on # c /\ loop[k].pc = "run" => loop'[k] = loop[k]
  OBVIOUS
<1>. QED  BY <1>4, <1>5, <1>6, OneTurned

LEMMA UnsubscribeTurns == ASSUME Base, Turns, NEW s \in Subs, Unsubscribe(s) PROVE Turns'
<1>0. PICK c \in Conns : c = client[s].on
  BY UnsubscribeStep
<1>1. /\ client[s].pc = "active" /\ UNCHANGED <<used, loop, faults>> /\ Elsewhere(c) /\ wire'[c].down = wire[c].down
  BY <1>0, UnsubscribeStep
<1>2. PICK j \in Nat : Removed(s, 1, c, j)
  BY <1>0, UnsubscribeStep
<1>3. wire[c] \in WireType /\ Turned(c, wire[c]) /\ 1 \in Nat
  BY DEF Base, Types, Turns
<1>4. \A a : Pending(wire[c], a) /\ a.by # "loop" => a.reg[1] # s
  BY <1>1, <1>3, FreeClient
<1>. QED  BY <1>0, <1>1, <1>2, <1>3, <1>4, RemovedTurns

\* The wire of a connection that has handled its first message.
LEMMA Handled ==
  ASSUME Base, Turns, NEW c \in Conns, wire[c].down # <<>>
  PROVE  LET v == [wire[c] EXCEPT !.down = Tail(@)]
             to == Head(wire[c].down).to IN
         /\ v \in WireType /\ Turned(c, v) /\ v.calls = wire[c].calls /\ v.down = Tail(wire[c].down)
         /\ to.by # "tick" => \A a : Pending(v, a) => ~Same(a, to)
<1>. DEFINE v == [wire[c] EXCEPT !.down = Tail(@)]
<1>1. wire[c] \in WireType /\ Turned(c, wire[c]) /\ Tail(wire[c].down) \in Seq(MsgType)
  BY HeadOf DEF Base, Types, Turns
<1>2. v \in WireType /\ v.calls = wire[c].calls /\ v.down = Tail(wire[c].down)
  BY <1>1 DEF WireType
<1>. HIDE DEF v
<1>3. Turned(c, v) /\ (Head(wire[c].down).to.by # "tick" => \A a : Pending(v, a) => ~Same(a, Head(wire[c].down).to))
  BY <1>1, <1>2, TailTurned
<1>. QED  BY <1>2, <1>3 DEF v

LEMMA DeliverTurns == ASSUME Base, Turns, NEW c \in Conns, Deliver(c) PROVE Turns'
<1>. DEFINE m == Head(wire[c].down)
<1>1. wire[c].down # <<>>
  BY DEF Deliver
<1>2. PICK v \in WireType : /\ Turned(c, v) /\ v.calls = wire[c].calls /\ v.down = Tail(wire[c].down)
                            /\ m.to.by # "tick" => \A a : Pending(v, a) => ~Same(a, m.to)
  BY <1>1, Handled
<1>3. m.to.by \in {"tick", "add", "loop", "remove"} /\ SubscriptionAssumption
  BY <1>1, HeadOf DEF Turns, Base
<1>4. ASSUME m.to.by = "tick" PROVE Turns'
  <2>0. Elsewhere(c) /\ UNCHANGED <<client, loop>> /\ wire'[c].calls = wire[c].calls /\ wire'[c].down = Tail(wire[c].down)
    BY <1>4, ZenonT(60), TickedStep
  <2>1. Elsewhere(c) /\ UNCHANGED <<client, loop>> /\ wire'[c].calls = v.calls /\ wire'[c].down = v.down
    BY <1>2, <2>0
  <2>2. Turned(c, wire[c])'
    <3>1. \A a : CallOK(c, a) => CallOK(c, a)'
      BY <2>1 DEF CallOK
    <3>2. Turned(c, v)
      BY <1>2
    <3>. QED  BY <2>1, <3>1, <3>2 DEF Turned
  <2>. QED  BY <2>1, <2>2, OneTurned
<1>5. ASSUME m.to.by = "add" PROVE Turns'
  <2>. DEFINE who == m.to.reg[1]
  <2>1. PICK s \in Subs : s = who
    BY <1>5, AddedStep
  <2>2. PICK i : i = m.to.reg[2]
    OBVIOUS
  <2>3. /\ Elsewhere(c) /\ UNCHANGED loop /\ client[s].pc = "establish" /\ client[s].on = c
        /\ client'[s].on = c /\ \A t \in Subs \ {s} : client'[t] = client[t]
        /\ wire'[c].down = v.down
        /\ \/ wire'[c].calls = wire[c].calls
           \/ /\ client'[s].pc = "establish" /\ client'[s].at = i + 1
              /\ wire'[c].calls = wire[c].calls \cup {Calling("add", <<s, i + 1>>)}
    BY <1>2, <1>5, <2>1, <2>2, AddedStep
  <2>4. \A a : Pending(v, a) /\ a.by # "loop" => a.reg[1] # s
    BY <1>2, <1>5, <2>1 DEF Same
  <2>5. PICK N : /\ wire'[c].calls = v.calls \cup N
                 /\ \A n \in N : n.by # "loop" /\ n.reg[1] = s /\ CallOK(c, n)'
                 /\ \A n, p \in N : n = p
    <3>1. CASE wire'[c].calls = wire[c].calls
      <4>. DEFINE N == {}
      <4>1. wire'[c].calls = v.calls \cup N
        BY <1>2, <3>1
      <4>2. \A n \in N : FALSE
        OBVIOUS
      <4>. HIDE DEF N
      <4>. QED  BY <4>1, <4>2
    <3>2. CASE /\ client'[s].pc = "establish" /\ client'[s].at = i + 1
               /\ wire'[c].calls = wire[c].calls \cup {Calling("add", <<s, i + 1>>)}
      <4>. DEFINE call == Calling("add", <<s, i + 1>>)
                  N == {call}
      <4>1. wire'[c].calls = v.calls \cup N
        BY <1>2, <3>2
      <4>2. call.by = "add" /\ call.reg[1] = s /\ call.reg[2] = i + 1
        BY DEF Calling
      <4>3. \A n \in N : n = call
        OBVIOUS
      <4>. HIDE DEF call, N
      <4>4. \A n \in N : n.by # "loop" /\ n.reg[1] = s /\ CallOK(c, n)'
        BY <2>3, <3>2, <4>2, <4>3 DEF CallOK
      <4>. QED  BY <4>1, <4>3, <4>4
    <3>. QED  BY <2>3, <3>1, <3>2
  <2>6. Turned(c, wire[c])'
    BY <1>2, <1>3, <2>3, <2>4, <2>5, AskClient
  <2>7. \A t \in Subs : client[t].on # c /\ client[t].pc \in {"establish", "removing"} => client'[t] = client[t]
    BY <2>3
  <2>8. \A k \in Loops : loop[k].on # c /\ loop[k].pc = "run" => loop'[k] = loop[k]
    BY <2>3
  <2>. QED  BY <2>3, <2>6, <2>7, <2>8, OneTurned
<1>6. ASSUME m.to.by = "remove" PROVE Turns'
  <2>1. PICK s \in Subs, i \in Nat : s = m.to.reg[1] /\ i = m.to.reg[2] + 1
    BY <1>6, RemovedStep
  <2>2. /\ Elsewhere(c) /\ UNCHANGED loop /\ client[s].on = c /\ wire'[c].down = v.down
        /\ \E j \in Nat : Removed(s, i, c, j)
    BY <1>2, <1>6, <2>1, RemovedStep
  <2>3. PICK j \in Nat : Removed(s, i, c, j)
    BY <2>2
  <2>4. \A a : Pending(v, a) /\ a.by # "loop" => a.reg[1] # s
    BY <1>2, <1>6, <2>1 DEF Same
  <2>. HIDE DEF m
  <2>. QED  BY <1>2, <2>2, <2>3, <2>4, RemovedTurns
<1>7. ASSUME m.to.by = "loop" PROVE Turns'
  <2>1. PICK k \in Loops : k = m.to.loop
    BY <1>7, ReestablishedStep
  <2>2. /\ Elsewhere(c) /\ client' = client /\ loop[k].pc = "run" /\ loop[k].on = c
        /\ loop' \in [Loops -> LoopType] /\ \A j \in Loops \ {k} : loop'[j] = loop[j]
        /\ wire'[c].down = v.down /\ wire'[c].calls = v.calls \cup CallsOf({k}, loop')
    BY <1>2, <1>7, <2>1, ReestablishedStep
  <2>3. loop'[k].pc = "run" => loop'[k].on = c
    <3>1. loop'[k] = NoLoop \/ loop'[k] \in Visits(loop[k], conn[c].regs)
      BY <1>7, <2>1, ReestablishedStep
    <3>2. loop[k] \in LoopType /\ conn[c].regs \in SUBSET Regs
      BY DEF Base, Types, ConnType
    <3>. QED  BY <1>3, <2>2, <3>1, <3>2, VisitsTypes, LoopValues
  <2>4. \A a : Pending(v, a) /\ a.by = "loop" => a.loop # k
    BY <1>2, <1>7, <2>1 DEF Same
  <2>5. Turned(c, wire[c])'
    BY <1>2, <1>3, <2>2, <2>3, <2>4, AskLoop
  <2>6. \A j \in Loops : loop[j].on # c /\ loop[j].pc = "run" => loop'[j] = loop[j]
    BY <2>2
  <2>. QED  BY <2>2, <2>5, <2>6, OneTurned
<1>. QED  BY <1>3, <1>4, <1>5, <1>6, <1>7


-----------------------------------------------------------------------------
(* Live registrations, and what closes a connection                        *)

HeldBy(s) ==
  /\ client[s].pc = "active" => \A i \in 1..Filters[s] : <<s, i>> \in conn[client[s].on].regs
  /\ client[s].pc = "connect" => client[s].at = 1
  /\ client[s].pc = "establish" => \A i \in 1..client[s].at : <<s, i>> \in conn[client[s].on].regs
Shut(c) == conn[c].closed => conn[c].regs = {} /\ (conn[c].sock = "closing" \/ Waiting(c) = {})

LEMMA HeldParts == Held <=> /\ \A s \in Subs : HeldBy(s)
                            /\ \A c \in Conns : Shut(c)
                            /\ \A k \in Loops : loop[k].pc \in {"timer", "connect"} => loop[k].seen = {}
BY DEF Held, HeldBy, Shut

LEMMA OnConn == ASSUME Base, NEW s \in Subs, client[s].pc # "idle" PROVE client[s].on \in Conns
<1>1. client[s].on \in 1..used /\ used \in 0..MaxConns
  BY DEF Base, Placed, Types
<1>. QED  BY <1>1, Bounds DEF Base, Conns

\* Only somebody on connection c can notice a step of it.
LEMMA StepHeld ==
  ASSUME Base, Held, NEW c \in Conns, Elsewhere(c), Shut(c)',
         \A s \in Subs : HeldBy(s)' \/ (client'[s] = client[s] /\ client[s].on # c),
         \A s \in Subs : client'[s].pc = "connect" => client'[s].on = c \/ client'[s] = client[s],
         \A k \in Loops : loop'[k].pc \in {"timer", "connect"} => loop'[k].seen = {}
  PROVE  Held'
<1>1. ASSUME NEW s \in Subs PROVE HeldBy(s)'
  <2>1. CASE client'[s] = client[s] /\ client[s].on # c
    <3>1. client[s].pc # "idle" => conn'[client[s].on] = conn[client[s].on]
      BY <2>1, OnConn DEF Elsewhere
    <3>. QED  BY <2>1, <3>1 DEF Held, HeldBy
  <2>. QED  BY <2>1
<1>2. ASSUME NEW d \in Conns, d # c PROVE Shut(d)'
  <2>1. conn'[d] = conn[d]
    BY <1>2 DEF Elsewhere
  <2>2. Waiting(d)' \subseteq Waiting(d)
    BY <1>2 DEF Waiting
  <2>. QED  BY <2>1, <2>2 DEF Held, Shut
<1>3. (\A s \in Subs : HeldBy(s)') /\ (\A d \in Conns : Shut(d)')
  BY <1>1, <1>2
<1>. QED  BY <1>3 DEF Held, HeldBy, Shut, Conns, Loops

\* Nobody loses a registration by a step that adds some.
LEMMA MoreHeld ==
  ASSUME Base, Held, NEW c \in Conns, Elsewhere(c), conn[c].regs \subseteq conn'[c].regs,
         NEW s \in Subs, client'[s] = client[s]
  PROVE  HeldBy(s)'
<1>1. client[s].pc # "idle" => conn[client[s].on].regs \subseteq conn'[client[s].on].regs
  BY OnConn DEF Elsewhere
<1>. QED  BY <1>1 DEF Held, HeldBy

\* A step that changes no client, and neither the registrations nor the closing of a connection.
LEMMA QuietHeld ==
  ASSUME Base, Held, NEW c \in Conns, Elsewhere(c), client' = client,
         conn'[c].regs = conn[c].regs, conn'[c].closed = conn[c].closed,
         conn[c].sock = "closing" => conn'[c].sock = "closing",
         \A k \in Loops : loop'[k].pc \in {"timer", "connect"} => loop'[k].seen = {}
  PROVE  Held'
<1>1. \A s \in Subs : HeldBy(s)'
  BY MoreHeld
<1>2. Shut(c)'
  <2>1. Waiting(c)' = Waiting(c)
    BY DEF Waiting
  <2>. QED  BY <2>1 DEF Held, Shut
<1>3. \A s \in Subs : client'[s].pc = "connect" => client'[s].on = c \/ client'[s] = client[s]
  OBVIOUS
<1>. QED  BY <1>1, <1>2, <1>3, StepHeld

LEMMA SubscribeHeld == ASSUME Base, Held, NEW s \in Subs, Subscribe(s) PROVE Held'
<1>1. client[s].pc = "idle" /\ loop' = loop /\ \A t \in Subs \ {s} : client'[t] = client[t]
  BY SubscribeStep
<1>2. PICK c \in Conns :
        /\ ~conn[c].closed /\ Elsewhere(c)
        /\ \/ /\ conn[c].sock = "open" /\ conn'[c] = [conn[c] EXCEPT !.regs = @ \cup {<<s, 1>>}]
              /\ wire'[c] = [wire[c] EXCEPT !.calls = @ \cup {Calling("add", <<s, 1>>)}]
              /\ client'[s] = [pc |-> "establish", on |-> c, at |-> 1]
           \/ /\ conn[c].sock \in {"none", "connecting"} /\ conn'[c] = [conn[c] EXCEPT !.sock = "connecting"]
              /\ wire'[c] = wire[c] /\ client'[s] = [pc |-> "connect", on |-> c, at |-> 1]
  BY SubscribeStep
<1>3. conn[c] \in ConnType
  BY DEF Base, Types
<1>4. conn[c].regs \subseteq conn'[c].regs /\ conn'[c].closed = FALSE
  BY <1>2, <1>3 DEF ConnType
<1>5. HeldBy(s)'
  <2>1. CASE client'[s] = [pc |-> "establish", on |-> c, at |-> 1] /\ conn'[c] = [conn[c] EXCEPT !.regs = @ \cup {<<s, 1>>}]
    <3>1. conn'[c].regs = conn[c].regs \cup {<<s, 1>>}
      BY <1>3, <2>1 DEF ConnType
    <3>2. client'[s].pc = "establish" /\ client'[s].on = c /\ client'[s].at = 1
      BY <2>1
    <3>3. \A i \in 1..1 : <<s, i>> \in conn'[c].regs
      BY <3>1
    <3>. QED  BY <3>2, <3>3 DEF HeldBy
  <2>2. CASE client'[s] = [pc |-> "connect", on |-> c, at |-> 1]
    BY <2>2 DEF HeldBy
  <2>. QED  BY <1>2, <2>1, <2>2
<1>6. \A t \in Subs : HeldBy(t)'
  BY <1>1, <1>2, <1>4, <1>5, MoreHeld
<1>7. client'[s].on = c
  BY <1>2
<1>. QED  BY <1>1, <1>2, <1>4, <1>6, <1>7, StepHeld DEF Shut, Held

LEMMA OpenedHeld == ASSUME Base, Held, NEW c \in Conns, Opened(c) PROVE Held'
<1>1. /\ conn[c].sock = "connecting" /\ Elsewhere(c) /\ conn'[c].closed = conn[c].closed
      /\ conn'[c].regs = conn[c].regs \cup {<<s, 1>> : s \in Waiting(c)}
  BY OpenedStep
<1>2. client' = [s \in Subs |-> IF s \in Waiting(c) THEN [client[s] EXCEPT !.pc = "establish"] ELSE client[s]]
  BY OpenedStep
<1>3. \A k \in Loops : IF loop[k].pc = "connect" /\ loop[k].on = c THEN loop'[k].pc \in {"none", "run"} ELSE loop'[k] = loop[k]
  BY OpenedStep
<1>4. ASSUME NEW s \in Waiting(c) PROVE HeldBy(s)' /\ client'[s].pc = "establish"
  <2>1. s \in Subs /\ client[s] \in ClientType /\ client[s].pc = "connect" /\ client[s].on = c /\ client[s].at = 1
    BY DEF Waiting, Base, Types, Held
  <2>2. client'[s].pc = "establish" /\ client'[s].on = c /\ client'[s].at = 1
    BY <1>2, <2>1 DEF ClientType
  <2>3. <<s, 1>> \in conn'[c].regs
    BY <1>1
  <2>. QED  BY <2>2, <2>3 DEF HeldBy
<1>5. ASSUME NEW s \in Subs, s \notin Waiting(c) PROVE HeldBy(s)' /\ client'[s] = client[s]
  <2>1. client'[s] = client[s]
    BY <1>2, <1>5
  <2>2. conn[c].regs \subseteq conn'[c].regs
    BY <1>1
  <2>. QED  BY <1>1, <2>1, <2>2, MoreHeld
<1>6. Shut(c)'
  <2>1. ASSUME conn'[c].closed PROVE Waiting(c) = {} /\ conn'[c].regs = {}
    <3>1. Waiting(c) = {} /\ conn[c].regs = {}
      BY <1>1, <2>1 DEF Held
    <3>. QED  BY <1>1, <3>1
  <2>2. Waiting(c)' \subseteq Waiting(c)
    BY <1>4, <1>5 DEF Waiting
  <2>. QED  BY <2>1, <2>2 DEF Shut
<1>7. \A s \in Subs : HeldBy(s)' /\ (client'[s].pc = "connect" => client'[s] = client[s])
  BY <1>4, <1>5
<1>8. \A k \in Loops : loop'[k].pc \in {"timer", "connect"} => loop'[k].seen = {}
  BY <1>3 DEF Held
<1>. QED  BY <1>1, <1>6, <1>7, <1>8, StepHeld

LEMMA LostHeld == ASSUME Base, Held, NEW c \in Conns, Lost(c) PROVE Held'
<1>1. ASSUME NEW s \in Subs PROVE HeldBy(s)' \/ (client'[s] = client[s] /\ client[s].on # c)
  <2>1. CASE client[s].on = c
    <3>1. client'[s].pc \notin {"connect", "establish", "removing"} /\ client'[s].on = c
      BY <2>1 DEF Lost
    <3>2. ASSUME client'[s].pc = "active", NEW i \in 1..Filters[s] PROVE <<s, i>> \in conn'[c].regs
      <4>1. client[s].pc = "active"
        BY <3>2 DEF Lost
      <4>2. <<s, i>> \in conn[c].regs
        BY <2>1, <4>1 DEF Held
      <4>3. <<s, i>> \notin Leaving(c)
        BY <4>1 DEF Leaving
      <4>. QED  BY <4>2, <4>3 DEF Lost
    <3>. QED  BY <3>1, <3>2 DEF HeldBy
  <2>2. CASE client[s].on # c
    BY <2>2 DEF Lost
  <2>. QED  BY <2>1, <2>2
<1>2. \A s \in Subs : client'[s].pc = "connect" => client'[s] = client[s] /\ client'[s].on # c
  BY DEF Lost
<1>3. Shut(c)'
  <2>1. Waiting(c)' = {}
    BY <1>2 DEF Waiting
  <2>. QED  BY <2>1 DEF Lost, Shut, Held
<1>4. \A k \in Loops : loop'[k].pc \in {"timer", "connect"} => loop'[k].seen = {}
  <2>1. Timer(c).seen = {}
    BY DEF Timer
  <2>2. \A k \in Loops : loop'[k].pc # "none" => loop'[k] = loop[k] \/ loop'[k] = Timer(c)
    BY DEF Lost
  <2>. QED  BY <2>1, <2>2 DEF Held
<1>5. Elsewhere(c)
  BY DEF Lost
<1>. QED  BY <1>1, <1>2, <1>3, <1>4, <1>5, StepHeld

LEMMA FireHeld == ASSUME Base, Held, NEW k \in Loops, Fire(k) PROVE Held'
<1>0. PICK c \in Conns : c = loop[k].on
  BY FireStep
<1>1. /\ loop[k].pc = "timer" /\ UNCHANGED client /\ Elsewhere(c) /\ \A j \in Loops \ {k} : loop'[j] = loop[j]
      /\ loop[k] \in LoopType /\ loop[k].seen = {} /\ conn[c] \in ConnType
  BY ZenonT(60), <1>0, FireStep DEF Base, Types, Held
<1>2. \/ conn'[c] = conn[c] /\ (loop'[k] \in Visits(loop[k], conn[c].regs) \/ loop'[k] = NoLoop)
      \/ /\ conn[c].sock \in {"none", "connecting"} /\ conn'[c] = [conn[c] EXCEPT !.sock = "connecting"]
         /\ loop'[k] = [loop[k] EXCEPT !.pc = "connect"]
  BY <1>0, FireStep
<1>3. loop'[k].pc \in {"timer", "connect"} => loop'[k].seen = {}
  <2>1. CASE loop'[k] \in Visits(loop[k], conn[c].regs) \/ loop'[k] = NoLoop
    <3>1. conn[c].regs \in SUBSET Regs /\ SubscriptionAssumption
      BY <1>1 DEF ConnType, Base
    <3>2. loop'[k].pc \in {"none", "run"}
      BY <1>1, <2>1, <3>1, VisitsTypes, LoopValues
    <3>. QED  BY <3>2
  <2>2. CASE loop'[k] = [loop[k] EXCEPT !.pc = "connect"]
    BY <1>1, <2>2 DEF LoopType
  <2>. QED  BY <1>2, <2>1, <2>2
<1>4. /\ conn'[c].regs = conn[c].regs /\ conn'[c].closed = conn[c].closed
      /\ conn[c].sock = "closing" => conn'[c].sock = "closing"
  BY <1>1, <1>2 DEF ConnType
<1>5. \A j \in Loops : loop'[j].pc \in {"timer", "connect"} => loop'[j].seen = {}
  BY <1>1, <1>3 DEF Held
<1>. QED  BY <1>1, <1>4, <1>5, QuietHeld

LEMMA ServeHeld ==
  ASSUME Base, Held, NEW c \in Conns, NEW call \in wire[c].calls, NEW ok \in BOOLEAN, Serve(c, call, ok)
  PROVE  Held'
<1>1. Elsewhere(c) /\ conn'[c] = conn[c] /\ UNCHANGED <<client, loop>>
  BY ServeStep
<1>. QED  BY <1>1, QuietHeld DEF Held

LEMMA TickHeld == ASSUME Base, Held, NEW c \in Conns, NEW e \in wire[c].subs, Tick(c, e) PROVE Held'
<1>1. Elsewhere(c) /\ conn'[c] = conn[c] /\ UNCHANGED <<client, loop>>
  BY TickStep
<1>. QED  BY <1>1, QuietHeld DEF Held

LEMMA RemovedHeld ==
  ASSUME Base, Held, NEW s \in Subs, NEW i \in Nat, NEW c \in Conns, NEW j \in Nat, Elsewhere(c), client[s].on = c,
         client[s].pc # "connect", UNCHANGED loop, Removed(s, i, c, j)
  PROVE  Held'
<1>1. /\ conn'[c].regs = {r \in conn[c].regs : ~Gone(s, i, j, r)} /\ client'[s].pc \in {"done", "removing"}
      /\ \A t \in Subs \ {s} : client'[t] = client[t]
  BY DEF Removed, Deleted, Tells, Finishes
<1>2. ASSUME NEW t \in Subs \ {s}, client[t].on = c PROVE HeldBy(t)'
  <2>1. client'[t] = client[t]
    BY <1>1
  <2>2. \A n \in Nat : <<t, n>> \in conn[c].regs => <<t, n>> \in conn'[c].regs
    BY <1>1 DEF Gone
  <2>3. HeldBy(t) /\ client[t].at \in Nat /\ Filters[t] \in Nat
    <3>1. HeldBy(t)
      BY HeldParts
    <3>2. Filters[t] \in Nat
      BY RegIs DEF Base
    <3>3. client[t] \in ClientType
      BY DEF Base, Types
    <3>. QED  BY <3>1, <3>2, <3>3 DEF ClientType
  <2>. QED  BY <1>2, <2>1, <2>2, <2>3 DEF HeldBy
<1>3. HeldBy(s)'
  BY <1>1 DEF HeldBy
<1>4. \A t \in Subs : HeldBy(t)' \/ (client'[t] = client[t] /\ client[t].on # c)
  BY <1>1, <1>2, <1>3
<1>5. Shut(c)'
  <2>1. Waiting(c)' \subseteq Waiting(c)
    BY <1>1 DEF Waiting
  <2>2. conn'[c].regs \subseteq conn[c].regs
    BY <1>1
  <2>3. Shut(c)
    BY DEF Held, Shut
  <2>4. \/ conn'[c].sock = conn[c].sock /\ conn'[c].closed = conn[c].closed
        \/ conn'[c].regs = {} /\ conn'[c].sock = "closing"
    BY DEF Removed, Tells, Finishes
  <2>. QED  BY <2>1, <2>2, <2>3, <2>4 DEF Shut
<1>6. \A t \in Subs : client'[t].pc = "connect" => client'[t].on = c \/ client'[t] = client[t]
  BY <1>1
<1>. QED  BY <1>4, <1>5, <1>6, StepHeld DEF Held

LEMMA UnsubscribeHeld == ASSUME Base, Held, NEW s \in Subs, Unsubscribe(s) PROVE Held'
<1>1. PICK c \in Conns : c = client[s].on
  BY UnsubscribeStep
<1>2. client[s].pc = "active" /\ UNCHANGED loop /\ Elsewhere(c) /\ \E j \in Nat : Removed(s, 1, c, j)
  BY <1>1, UnsubscribeStep
<1>3. PICK j \in Nat : Removed(s, 1, c, j)
  BY <1>2
<1>. QED  BY <1>1, <1>2, <1>3, RemovedHeld

LEMMA AddedHeld ==
  ASSUME Base, Turns, Held, NEW c \in Conns, Deliver(c), Head(wire[c].down).to.by = "add" PROVE Held'
<1>. DEFINE r == Head(wire[c].down).to.reg
<1>0. PICK i : i = r[2]
  OBVIOUS
<1>1. PICK s \in Subs : s = r[1]
  BY AddedStep
<1>2. r \in Regs /\ r = <<s, i>> /\ i \in 1..Filters[s] /\ Filters[s] \in {1, 2}
  <2>1. r \in Regs
    BY AddedStep
  <2>2. r = <<r[1], r[2]>> /\ r[2] \in 1..Filters[r[1]]
    BY <2>1, RegIs DEF Base
  <2>. HIDE DEF r
  <2>. QED  BY <1>0, <1>1, <2>1, <2>2, RegIs DEF Base
<1>3. /\ Elsewhere(c) /\ conn[c].sock = "open" /\ UNCHANGED loop
      /\ client[s].pc = "establish" /\ client[s].on = c /\ client[s].at = i
      /\ client'[s].on = c /\ \A t \in Subs \ {s} : client'[t] = client[t]
      /\ conn'[c].closed = conn[c].closed
      /\ \/ client'[s].pc = "failed" /\ conn'[c].regs = conn[c].regs
         \/ i = Filters[s] /\ client'[s].pc = "active" /\ conn'[c].regs = conn[c].regs
         \/ client'[s].pc = "establish" /\ client'[s].at = i + 1 /\ conn'[c].regs = conn[c].regs \cup {<<s, i + 1>>}
  BY <1>0, <1>1, AddedStep
<1>. HIDE DEF r
<1>4. \A n \in 1..i : <<s, n>> \in conn[c].regs
  BY <1>3 DEF Held
<1>5. HeldBy(s)'
  <2>1. CASE client'[s].pc = "failed"
    BY <2>1 DEF HeldBy
  <2>2. CASE i = Filters[s] /\ client'[s].pc = "active" /\ conn'[c].regs = conn[c].regs
    BY <1>3, <1>4, <2>2 DEF HeldBy
  <2>3. CASE client'[s].pc = "establish" /\ client'[s].at = i + 1 /\ conn'[c].regs = conn[c].regs \cup {<<s, i + 1>>}
    <3>1. \A n \in 1..(i + 1) : n \in 1..i \/ n = i + 1
      BY <1>2
    <3>2. \A n \in 1..(i + 1) : <<s, n>> \in conn'[c].regs
      BY <1>4, <2>3, <3>1
    <3>. QED  BY <1>3, <2>3, <3>2 DEF HeldBy
  <2>. QED  BY <1>3, <2>1, <2>2, <2>3
<1>6. \A t \in Subs \ {s} : HeldBy(t)'
  <2>1. conn[c].regs \subseteq conn'[c].regs
    BY <1>3
  <2>. QED  BY <1>3, <2>1, MoreHeld
<1>7. ~conn[c].closed
  <2>1. conn[c].regs # {}
    BY <1>2, <1>4
  <2>. QED  BY <2>1 DEF Held
<1>8. Shut(c)' /\ \A t \in Subs : client'[t].pc = "connect" => client'[t].on = c \/ client'[t] = client[t]
  BY <1>3, <1>7 DEF Shut
<1>. QED  BY <1>3, <1>5, <1>6, <1>8, StepHeld DEF Held

LEMMA DeliverHeld == ASSUME Base, Turns, Held, NEW c \in Conns, Deliver(c) PROVE Held'
<1>. DEFINE m == Head(wire[c].down)
<1>1. m.to.by \in {"tick", "add", "loop", "remove"}
  BY HeadOf DEF Turns, Deliver
<1>2. ASSUME m.to.by = "tick" PROVE Held'
  <2>1. Elsewhere(c) /\ conn'[c] = conn[c] /\ UNCHANGED <<client, loop>>
    BY <1>2, TickedStep
  <2>. QED  BY <2>1, QuietHeld DEF Held
<1>3. ASSUME m.to.by = "remove" PROVE Held'
  <2>1. PICK s \in Subs, i \in Nat : s = m.to.reg[1] /\ i = m.to.reg[2] + 1
    BY <1>3, RemovedStep
  <2>2. /\ Elsewhere(c) /\ UNCHANGED loop /\ client[s].on = c /\ client[s].pc = "removing"
        /\ \E j \in Nat : Removed(s, i, c, j)
    BY <1>3, <2>1, RemovedStep
  <2>3. PICK j \in Nat : Removed(s, i, c, j)
    BY <2>2
  <2>. QED  BY <2>2, <2>3, RemovedHeld
<1>4. ASSUME m.to.by = "loop" PROVE Held'
  <2>1. PICK k \in Loops : k = m.to.loop
    BY <1>4, ReestablishedStep
  <2>2. /\ Elsewhere(c) /\ client' = client /\ \A j \in Loops \ {k} : loop'[j] = loop[j]
        /\ conn'[c].regs = conn[c].regs /\ conn'[c].closed = conn[c].closed
        /\ conn[c].sock = "open" /\ loop[k].pc = "run"
        /\ loop'[k] = NoLoop \/ loop'[k] \in Visits(loop[k], conn[c].regs)
    BY <1>4, <2>1, ReestablishedStep
  <2>3. loop'[k].pc \in {"none", "run"}
    <3>1. loop[k] \in LoopType /\ conn[c].regs \in SUBSET Regs /\ SubscriptionAssumption
      BY DEF Base, Types, ConnType
    <3>. QED  BY <2>2, <3>1, VisitsTypes, LoopValues
  <2>4. \A j \in Loops : loop'[j].pc \in {"timer", "connect"} => loop'[j].seen = {}
    BY <2>2, <2>3 DEF Held
  <2>. QED  BY <2>2, <2>4, QuietHeld
<1>. QED  BY <1>1, <1>2, <1>3, <1>4, AddedHeld

-----------------------------------------------------------------------------
(* The invariant for any drops, refusals and errors                        *)

General == Base /\ Turns /\ Held

LEMMA InitGeneral == ASSUME SubscriptionAssumption, Init PROVE General
<1>1. \A c \in Conns : wire[c].calls = {} /\ Len(wire[c].down) = 0
  BY DEF Init, NoWire
<1>2. Turns
  BY <1>1 DEF Turns, Turned
<1>3. (\A s \in Subs : client[s].pc = "idle") /\ (\A c \in Conns : ~conn[c].closed) /\ \A k \in Loops : loop[k].pc = "none"
  BY DEF Init, NoLoop, Timer
<1>4. Held
  BY <1>3 DEF Held
<1>. QED  BY <1>2, <1>4, InitBase DEF General

LEMMA StepGeneral == ASSUME General, Next PROVE General'
<1>. USE DEF General
<1>1. ASSUME NEW s \in Subs, Subscribe(s) PROVE General'
  BY <1>1, SubscribeStep, SubscribeTurns, SubscribeHeld
<1>2. ASSUME NEW s \in Subs, Unsubscribe(s) PROVE General'
  BY <1>2, UnsubscribeStep, UnsubscribeTurns, UnsubscribeHeld
<1>3. ASSUME NEW k \in Loops, Fire(k) PROVE General'
  BY <1>3, FireStep, FireTurns, FireHeld
<1>4. ASSUME NEW c \in Conns, Opened(c) PROVE General'
  BY <1>4, OpenedStep, OpenedTurns, OpenedHeld
<1>5. ASSUME NEW c \in Conns, Refuse(c) \/ Drop(c) \/ Closed(c) PROVE General'
  <2>1. Base' /\ Lost(c)
    BY <1>5, RefuseLost, DropLost, ClosedLost
  <2>. QED  BY <2>1, LostTurns, LostHeld
<1>6. ASSUME NEW c \in Conns, Deliver(c) PROVE General'
  <2>1. Head(wire[c].down).to.by \in {"tick", "add", "loop", "remove"}
    BY <1>6, HeadOf DEF Turns, Deliver
  <2>2. Base'
    BY <1>6, <2>1, TickedStep, AddedStep, ReestablishedStep, RemovedStep
  <2>. QED  BY <1>6, <2>2, DeliverTurns, DeliverHeld
<1>7. ASSUME NEW c \in Conns, NEW call \in wire[c].calls, NEW ok \in BOOLEAN, Serve(c, call, ok) PROVE General'
  BY <1>7, ServeStep, ServeTurns, ServeHeld
<1>8. ASSUME NEW c \in Conns, NEW e \in wire[c].subs, Tick(c, e) PROVE General'
  BY <1>8, TickStep, TickTurns, TickHeld
<1>. QED  BY <1>1, <1>2, <1>3, <1>4, <1>5, <1>6, <1>7, <1>8 DEF Next

LEMMA KeepsGeneral == ASSUME General, [Next]_vars PROVE General'
<1>1. ASSUME UNCHANGED vars PROVE General'
  BY <1>1 DEF vars, General, Base, Types, Placed, Turns, Turned, CallOK, Held, Waiting, SubscriptionAssumption
<1>. QED  BY <1>1, StepGeneral

\* Nobody leaves the connection he has.
LEMMA ClientsStay ==
  ASSUME General, Next, NEW s \in Subs, client[s].pc # "idle" PROVE client'[s].pc # "idle" /\ client'[s].on = client[s].on
<1>. DEFINE Stays == client'[s].pc # "idle" /\ client'[s].on = client[s].on
<1>. USE DEF General
<1>1. ASSUME NEW t \in Subs, Subscribe(t) PROVE Stays
  BY <1>1, SubscribeStep
<1>2. ASSUME NEW t \in Subs, NEW c \in Conns, NEW i, NEW j, client[t].on = c, Removed(t, i, c, j) PROVE Stays
  BY <1>2 DEF Removed, Deleted, Tells, Finishes
<1>3. ASSUME NEW t \in Subs, Unsubscribe(t) PROVE Stays
  BY <1>2, <1>3, UnsubscribeStep
<1>4. ASSUME NEW c \in Conns, Opened(c) PROVE Stays
  <2>1. client' = [t \in Subs |-> IF t \in Waiting(c) THEN [client[t] EXCEPT !.pc = "establish"] ELSE client[t]]
    BY <1>4, OpenedStep
  <2>2. client[s] \in ClientType
    BY DEF Base, Types
  <2>. QED  BY <2>1, <2>2 DEF ClientType
<1>5. ASSUME NEW c \in Conns, Refuse(c) \/ Drop(c) \/ Closed(c) PROVE Stays
  <2>1. client' = Rejected(c)
    BY <1>5 DEF Refuse, Drop, Closed
  <2>. QED  BY <2>1, RejectedClients
<1>6. ASSUME NEW c \in Conns, Deliver(c) PROVE Stays
  <2>. DEFINE m == Head(wire[c].down)
  <2>1. m.to.by \in {"tick", "add", "loop", "remove"}
    BY <1>6, HeadOf DEF Turns, Deliver
  <2>2. CASE m.to.by = "tick"
    BY <1>6, <2>2, TickedStep
  <2>3. CASE m.to.by = "loop"
    BY <1>6, <2>3, ReestablishedStep
  <2>4. CASE m.to.by = "add"
    <3>1. PICK t \in Subs : t = m.to.reg[1]
      BY <1>6, <2>4, AddedStep
    <3>2. /\ client[t].on = c /\ client'[t].on = c /\ \A u \in Subs \ {t} : client'[u] = client[u]
          /\ client'[t].pc \in {"failed", "active", "establish"}
      BY <1>6, <2>4, <3>1, AddedStep
    <3>. QED  BY <3>2
  <2>5. CASE m.to.by = "remove"
    <3>1. PICK t \in Subs, i \in Nat : t = m.to.reg[1] /\ i = m.to.reg[2] + 1
      BY <1>6, <2>5, RemovedStep
    <3>2. client[t].on = c /\ \E j \in Nat : Removed(t, i, c, j)
      BY <1>6, <2>5, <3>1, RemovedStep
    <3>. QED  BY <1>2, <3>2
  <2>. QED  BY <2>1, <2>2, <2>3, <2>4, <2>5
<1>7. ASSUME NEW c \in Conns, NEW call \in wire[c].calls, NEW ok \in BOOLEAN, Serve(c, call, ok) PROVE Stays
  BY <1>7, ServeStep
<1>8. ASSUME NEW c \in Conns, NEW e \in wire[c].subs, Tick(c, e) PROVE Stays
  BY <1>8, TickStep
<1>9. ASSUME NEW k \in Loops, Fire(k) PROVE Stays
  BY <1>9, FireStep
<1>. QED  BY <1>1, <1>3, <1>4, <1>5, <1>6, <1>7, <1>8, <1>9 DEF Next

\* The history of a connection only grows.
LEMMA PastGrows ==
  ASSUME Base, PastTypes, Next PROVE PastTypes' /\ \A c \in Conns : past[c] \subseteq past'[c]
<1>1. ASSUME NEW c \in Conns, NEW w \in {"again", "ended", "error"}, Mark(c, w)
      PROVE  PastTypes' /\ \A d \in Conns : past[d] \subseteq past'[d]
  BY <1>1 DEF Mark, PastTypes
<1>2. ASSUME UNCHANGED past PROVE PastTypes' /\ \A d \in Conns : past[d] \subseteq past'[d]
  BY <1>2 DEF PastTypes
<1>3. ASSUME NEW k \in Loops, Fire(k) PROVE loop[k].on \in Conns /\ Mark(loop[k].on, "again")
  BY <1>3, FireStep DEF Fire
<1>4. ASSUME NEW s \in Subs, Subscribe(s) \/ Unsubscribe(s) PROVE UNCHANGED past
  BY <1>4 DEF Subscribe, Unsubscribe
<1>5. ASSUME NEW c \in Conns, Opened(c) \/ Drop(c) \/ Closed(c) \/ Deliver(c) PROVE UNCHANGED past
  BY <1>5 DEF Opened, Drop, Closed, Deliver
<1>6. ASSUME NEW c \in Conns, Refuse(c) PROVE UNCHANGED past \/ Mark(c, "ended")
  BY <1>6 DEF Refuse
<1>7. ASSUME NEW c \in Conns, NEW call \in wire[c].calls, NEW ok \in BOOLEAN, Serve(c, call, ok)
      PROVE  UNCHANGED past \/ Mark(c, "error")
  BY <1>7 DEF Serve
<1>8. ASSUME NEW c \in Conns, NEW e \in wire[c].subs, Tick(c, e) PROVE UNCHANGED past
  BY <1>8 DEF Tick
<1>. QED  BY <1>1, <1>2, <1>3, <1>4, <1>5, <1>6, <1>7, <1>8 DEF Next

\* However sockets open, are refused, drop and answer: a server id leads to the registration the provider of this very
\* socket gave it to, and every state is of the declared types (adapters/subscription.ts:117-336).
THEOREM RoutesStayServed == ASSUME SubscriptionAssumption PROVE Spec => [](TypeOK /\ RoutesAreServed)
<1>. DEFINE I == General /\ PastTypes
<1>1. Init => I
  BY InitGeneral DEF Init, PastTypes
<1>2. I /\ [Next]_vars => I'
  <2>1. ASSUME I, UNCHANGED vars PROVE PastTypes'
    BY <2>1 DEF vars, PastTypes
  <2>. QED  BY <2>1, KeepsGeneral, PastGrows DEF General
<1>3. I => TypeOK /\ RoutesAreServed
  BY BaseTypes DEF General
<1>. QED  BY <1>1, <1>2, <1>3, PTL DEF Spec

-----------------------------------------------------------------------------
(* What the history says of a connection                                   *)

Counts(w) == \A i \in 1..Len(w.down) : w.down[i].to.by \in {"add", "loop"} => w.down[i].sid >= 1

\* Only connection c is touched, its subscribers, their ids and its loops.
OnlyOn(c) ==
  /\ Elsewhere(c)
  /\ \A s \in Subs : client[s].on # c /\ client[s].pc # "idle" => client'[s] = client[s]
  /\ \A r \in Regs : client[r[1]].on # c => sid'[r] = sid[r]
  /\ \A k \in Loops : loop[k].on # c /\ loop[k].pc # "none" => loop'[k] = loop[k]

\* A reestablish() that ran on a connection is in its history; whoever is
\* registered on a connection, or subscribed again on it, has that connection.
On(r, c) == client[r[1]].pc # "idle" /\ client[r[1]].on = c
Noted ==
  /\ PastTypes
  /\ \A k \in Loops : loop[k].pc \in {"connect", "run"} => "again" \in past[loop[k].on]
  /\ \A k \in Loops : loop[k].pc = "run" => loop[k].reg \in Regs /\ On(loop[k].reg, loop[k].on)
  /\ \A c \in Conns : \A r \in conn[c].regs : On(r, c)

LEMMA InitNoted == ASSUME SubscriptionAssumption, Init PROVE Noted
<1>1. \A k \in Loops : loop[k].pc = "none"
  BY DEF Init, NoLoop, Timer
<1>2. \A c \in Conns : conn[c].regs = {}
  BY DEF Init
<1>. QED  BY <1>1, <1>2 DEF Init, Noted, PastTypes

\* Where a reestablish() that goes on was before, and what it visits now.
LEMMA LoopsGoOn ==
  ASSUME General, Next, NEW k \in Loops, loop'[k].pc \in {"connect", "run"}, loop'[k] # loop[k]
  PROVE  LET c == loop'[k].on IN
         /\ c \in Conns /\ loop[k].on = c
         /\ loop[k].pc \in {"connect", "run"} \/ (loop[k].pc = "timer" /\ Mark(c, "again"))
         /\ loop'[k].pc = "run" => loop'[k].reg \in conn'[c].regs
<1>. DEFINE GoesOn == LET c == loop'[k].on IN
              /\ c \in Conns /\ loop[k].on = c
              /\ loop[k].pc \in {"connect", "run"} \/ (loop[k].pc = "timer" /\ Mark(c, "again"))
              /\ loop'[k].pc = "run" => loop'[k].reg \in conn'[c].regs
<1>. USE DEF General
<1>0. SubscriptionAssumption /\ loop[k] \in LoopType /\ NoLoop.pc = "none" /\ \A c \in Conns : Timer(c).pc = "timer"
  BY DEF Base, Types, NoLoop, Timer
<1>1. ASSUME NEW s \in Subs, Subscribe(s) \/ Unsubscribe(s) PROVE GoesOn
  BY <1>1, SubscribeStep, UnsubscribeStep
<1>2. ASSUME NEW c \in Conns, Opened(c) PROVE GoesOn
  BY <1>2, OpenedStep
<1>3. ASSUME NEW c \in Conns, Refuse(c) \/ Drop(c) \/ Closed(c) PROVE GoesOn
  <2>1. Lost(c)
    BY <1>3, RefuseLost, DropLost, ClosedLost
  <2>. QED  BY <1>0, <2>1 DEF Lost
<1>4. ASSUME NEW j \in Loops, Fire(j) PROVE GoesOn
  <2>0. PICK c \in Conns : c = loop[j].on
    BY <1>4, FireStep
  <2>1. Mark(c, "again") /\ loop[j].pc = "timer" /\ \A i \in Loops \ {j} : loop'[i] = loop[i]
    BY <1>4, <2>0, FireStep DEF Fire
  <2>2. j = k /\ conn[c] \in ConnType
    BY <2>1 DEF Base, Types
  <2>3. \/ conn'[c] = conn[c] /\ loop'[k] \in Visits(loop[k], conn[c].regs)
        \/ loop'[k] = [loop[k] EXCEPT !.pc = "connect"]
        \/ loop'[k] = NoLoop
    BY <1>4, <2>0, <2>2, FireStep
  <2>4. CASE conn'[c] = conn[c] /\ loop'[k] \in Visits(loop[k], conn[c].regs)
    <3>1. loop'[k].pc = "run" => loop'[k].on = loop[k].on /\ loop'[k].reg \in conn[c].regs
      BY <1>0, <2>2, <2>4, VisitsTypes DEF ConnType
    <3>2. loop'[k].pc \in {"none", "run"}
      BY <1>0, <2>2, <2>4, VisitsTypes DEF ConnType
    <3>. QED  BY <2>0, <2>1, <2>2, <2>4, <3>1, <3>2
  <2>5. CASE loop'[k] = [loop[k] EXCEPT !.pc = "connect"]
    <3>1. loop'[k].pc = "connect" /\ loop'[k].on = loop[k].on
      BY <1>0, <2>5 DEF LoopType
    <3>. QED  BY <2>0, <2>1, <2>2, <3>1
  <2>. QED  BY <1>0, <2>3, <2>4, <2>5
<1>5. ASSUME NEW c \in Conns, Deliver(c) PROVE GoesOn
  <2>. DEFINE m == Head(wire[c].down)
  <2>1. m.to.by \in {"tick", "add", "loop", "remove"}
    BY <1>5, HeadOf DEF Turns, Deliver
  <2>2. ASSUME m.to.by # "loop" PROVE UNCHANGED loop
    BY <1>5, <2>1, <2>2, TickedStep, AddedStep, RemovedStep
  <2>3. CASE m.to.by = "loop"
    <3>1. PICK j \in Loops : j = m.to.loop
      BY <1>5, <2>3, ReestablishedStep
    <3>2. /\ loop[j].pc = "run" /\ loop[j].on = c /\ conn'[c].regs = conn[c].regs /\ \A i \in Loops \ {j} : loop'[i] = loop[i]
          /\ loop'[j] = NoLoop \/ loop'[j] \in Visits(loop[j], conn[c].regs)
      BY <1>5, <2>3, <3>1, ReestablishedStep
    <3>3. j = k /\ conn[c].regs \in SUBSET Regs
      BY <3>2 DEF Base, Types, ConnType
    <3>4. loop'[k] \in Visits(loop[k], conn[c].regs)
      BY <1>0, <3>2, <3>3
    <3>5. loop'[k].pc \in {"none", "run"} /\ (loop'[k].pc = "run" => loop'[k].on = loop[k].on /\ loop'[k].reg \in conn[c].regs)
      BY <1>0, <3>3, <3>4, VisitsTypes
    <3>. QED  BY <3>2, <3>3, <3>5
  <2>. QED  BY <2>2, <2>3
<1>6. ASSUME NEW c \in Conns, NEW call \in wire[c].calls, NEW ok \in BOOLEAN, Serve(c, call, ok) PROVE GoesOn
  BY <1>6, ServeStep
<1>7. ASSUME NEW c \in Conns, NEW e \in wire[c].subs, Tick(c, e) PROVE GoesOn
  BY <1>7, TickStep
<1>. QED  BY <1>1, <1>2, <1>3, <1>4, <1>5, <1>6, <1>7 DEF Next

\* A connection registers only those who have it.
LEMMA RegistersOwn ==
  ASSUME General, Noted, Next, NEW c \in Conns, NEW r \in conn'[c].regs PROVE r \in conn[c].regs \/ On(r, c)'
<1>. DEFINE Own == r \in conn[c].regs \/ On(r, c)'
<1>. USE DEF General
<1>0. r \in Regs => r[1] \in Subs
  BY RegIs DEF Base
<1>1. ASSUME NEW s \in Subs, Subscribe(s) PROVE Own
  <2>1. PICK d \in Conns :
          /\ Elsewhere(d)
          /\ \/ conn'[d] = [conn[d] EXCEPT !.regs = @ \cup {<<s, 1>>}] /\ client'[s] = [pc |-> "establish", on |-> d, at |-> 1]
             \/ conn'[d] = [conn[d] EXCEPT !.sock = "connecting"]
    BY <1>1, SubscribeStep
  <2>2. conn[c] \in ConnType /\ conn[d] \in ConnType
    BY DEF Base, Types
  <2>3. CASE c # d
    BY <2>1, <2>3 DEF Elsewhere
  <2>4. CASE c = d
    <3>1. conn'[c].regs = conn[c].regs
          \/ (conn'[c].regs = conn[c].regs \cup {<<s, 1>>} /\ client'[s].pc = "establish" /\ client'[s].on = c)
      BY <2>1, <2>2, <2>4 DEF ConnType
    <3>. QED  BY <3>1 DEF On
  <2>. QED  BY <2>3, <2>4
<1>2. ASSUME NEW t \in Subs, NEW d \in Conns, NEW i, NEW j, Elsewhere(d), Removed(t, i, d, j) PROVE Own
  BY <1>2 DEF Removed, Deleted, Elsewhere
<1>3. ASSUME NEW s \in Subs, Unsubscribe(s) PROVE Own
  <2>1. PICK d \in Conns : d = client[s].on
    BY <1>3, UnsubscribeStep
  <2>. QED  BY <1>2, <1>3, <2>1, UnsubscribeStep
<1>4. ASSUME NEW d \in Conns, Opened(d) PROVE Own
  <2>1. Elsewhere(d) /\ conn'[d].regs = conn[d].regs \cup {<<s, 1>> : s \in Waiting(d)}
    BY <1>4, OpenedStep
  <2>2. client' = [s \in Subs |-> IF s \in Waiting(d) THEN [client[s] EXCEPT !.pc = "establish"] ELSE client[s]]
    BY <1>4, OpenedStep
  <2>3. ASSUME NEW s \in Waiting(d) PROVE client'[s].pc = "establish" /\ client'[s].on = d
    <3>1. s \in Subs /\ client[s] \in ClientType /\ client[s].on = d
      BY DEF Waiting, Base, Types
    <3>. QED  BY <2>2, <3>1 DEF ClientType
  <2>4. CASE c # d
    BY <2>1, <2>4 DEF Elsewhere
  <2>5. CASE c = d
    BY <2>1, <2>3, <2>5 DEF On
  <2>. QED  BY <2>4, <2>5
<1>5. ASSUME NEW d \in Conns, Refuse(d) \/ Drop(d) \/ Closed(d) PROVE Own
  <2>1. Lost(d)
    BY <1>5, RefuseLost, DropLost, ClosedLost
  <2>. QED  BY <2>1 DEF Lost, Elsewhere
<1>6. ASSUME NEW k \in Loops, Fire(k) PROVE Own
  <2>0. PICK d \in Conns : d = loop[k].on
    BY <1>6, FireStep
  <2>1. Elsewhere(d) /\ (conn'[d] = conn[d] \/ conn'[d] = [conn[d] EXCEPT !.sock = "connecting"])
    BY <1>6, <2>0, FireStep
  <2>2. conn[d] \in ConnType
    BY DEF Base, Types
  <2>3. conn'[d].regs = conn[d].regs
    BY <2>1, <2>2 DEF ConnType
  <2>. QED  BY <2>1, <2>3 DEF Elsewhere
<1>7. ASSUME NEW d \in Conns, Deliver(d) PROVE Own
  <2>. DEFINE m == Head(wire[d].down)
  <2>1. m.to.by \in {"tick", "add", "loop", "remove"}
    BY <1>7, HeadOf DEF Turns, Deliver
  <2>2. CASE m.to.by = "tick"
    BY <1>7, <2>2, TickedStep DEF Elsewhere
  <2>3. CASE m.to.by = "loop"
    <3>1. Elsewhere(d) /\ conn'[d].regs = conn[d].regs
      BY <1>7, <2>3, ReestablishedStep
    <3>. QED  BY <3>1 DEF Elsewhere
  <2>4. CASE m.to.by = "add"
    <3>1. PICK t \in Subs, i \in {m.to.reg[2]} : t = m.to.reg[1] /\ i = m.to.reg[2]
      BY <1>7, <2>4, AddedStep
    <3>2. /\ Elsewhere(d) /\ client'[t].on = d
          /\ \/ conn'[d].regs = conn[d].regs
             \/ client'[t].pc = "establish" /\ conn'[d].regs = conn[d].regs \cup {<<t, i + 1>>}
      BY ZenonT(60), <1>7, <2>4, <3>1, AddedStep
    <3>. QED  BY <3>2 DEF Elsewhere, On
  <2>5. CASE m.to.by = "remove"
    <3>1. PICK t \in Subs, i \in Nat : t = m.to.reg[1] /\ i = m.to.reg[2] + 1
      BY <1>7, <2>5, RemovedStep
    <3>2. Elsewhere(d) /\ \E j \in Nat : Removed(t, i, d, j)
      BY <1>7, <2>5, <3>1, RemovedStep
    <3>. QED  BY <1>2, <3>2
  <2>. QED  BY <2>1, <2>2, <2>3, <2>4, <2>5
<1>8. ASSUME NEW d \in Conns, NEW call \in wire[d].calls, NEW ok \in BOOLEAN, Serve(d, call, ok) PROVE Own
  BY <1>8, ServeStep DEF Elsewhere
<1>9. ASSUME NEW d \in Conns, NEW e \in wire[d].subs, Tick(d, e) PROVE Own
  BY <1>9, TickStep DEF Elsewhere
<1>. QED  BY <1>1, <1>3, <1>4, <1>5, <1>6, <1>7, <1>8, <1>9 DEF Next

LEMMA KeepsNoted == ASSUME General, Noted, [Next]_vars PROVE Noted'
<1>0. ASSUME UNCHANGED vars PROVE Noted'
  BY <1>0 DEF vars, Noted, PastTypes, On
<1>. SUFFICES ASSUME Next PROVE Noted'
  BY <1>0
<1>1. PastTypes' /\ \A c \in Conns : past[c] \subseteq past'[c]
  BY PastGrows DEF General, Noted
<1>2. ASSUME NEW r \in Regs, NEW c, On(r, c) PROVE On(r, c)'
  <2>1. r[1] \in Subs
    BY RegIs DEF General, Base
  <2>. QED  BY <1>2, <2>1, ClientsStay DEF On
<1>3. ASSUME NEW c \in Conns PROVE \A r \in conn'[c].regs : r \in Regs /\ On(r, c)'
  <2>1. conn'[c].regs \subseteq Regs /\ conn[c].regs \subseteq Regs
    BY KeepsGeneral DEF General, Base, Types, ConnType, Conns
  <2>. QED  BY <1>2, <2>1, RegistersOwn DEF Noted
<1>4. ASSUME NEW k \in Loops, loop'[k].pc \in {"connect", "run"} PROVE "again" \in past'[loop'[k].on]
  <2>0. loop[k].pc # "none" => loop[k].on \in Conns
    <3>1. loop[k].pc # "none" => loop[k].on \in 1..used
      BY DEF General, Base, Placed
    <3>2. used \in 0..MaxConns /\ MaxConns \in Nat
      BY Bounds DEF General, Base, Types
    <3>. QED  BY <3>1, <3>2 DEF Conns
  <2>1. CASE loop'[k] = loop[k]
    BY <1>1, <1>4, <2>0, <2>1 DEF Noted
  <2>2. CASE loop'[k] # loop[k]
    <3>1. /\ loop'[k].on \in Conns /\ loop[k].on = loop'[k].on
          /\ loop[k].pc \in {"connect", "run"} \/ Mark(loop'[k].on, "again")
      BY <1>4, <2>2, LoopsGoOn
    <3>2. CASE loop[k].pc \in {"connect", "run"}
      BY <1>1, <3>1, <3>2 DEF Noted
    <3>3. CASE Mark(loop'[k].on, "again")
      BY <3>1, <3>3 DEF Noted, PastTypes, Mark
    <3>. QED  BY <3>1, <3>2, <3>3
  <2>. QED  BY <2>1, <2>2
<1>5. ASSUME NEW k \in Loops, loop'[k].pc = "run" PROVE loop'[k].reg \in Regs /\ On(loop[k].reg, loop[k].on)'
  <2>1. CASE loop'[k] = loop[k]
    BY <1>2, <1>5, <2>1 DEF Noted, On
  <2>2. CASE loop'[k] # loop[k]
    <3>1. loop'[k].on \in Conns /\ loop'[k].reg \in conn'[loop'[k].on].regs
      BY <1>5, <2>2, LoopsGoOn
    <3>. QED  BY <1>3, <3>1 DEF On
  <2>. QED  BY <2>1, <2>2
<1>. QED  BY <1>1, <1>3, <1>4, <1>5 DEF Noted, Conns, Loops, On

LEMMA TailCounts ==
  ASSUME NEW w \in WireType, NEW x, Counts(w), w.down # <<>>, x.down = Tail(w.down) PROVE Counts(x)
BY TailDown DEF Counts

LEMMA ServeCounts ==
  ASSUME General, PastTypes, NEW c \in Conns, Counts(wire[c]), "error" \notin past'[c],
         NEW call \in wire[c].calls, NEW ok \in BOOLEAN, Serve(c, call, ok)
  PROVE  Counts(wire[c])'
<1>1. wire[c] \in WireType /\ call \in CallType
  BY ServeStep DEF General, Base, Types
<1>2. PICK n \in Nat : wire'[c].down = Append(wire[c].down, [to |-> call, sid |-> n]) /\ (call.by # "remove" => n >= 1)
  <2>1. CASE call.by = "remove"
    BY <2>1, ServeStep DEF General
  <2>2. CASE call.by # "remove"
    <3>1. ok
      BY DEF Serve, Mark, PastTypes
    <3>. DEFINE w == [wire[c] EXCEPT !.calls = @ \ {call}]
                new == wire[c].issued + 1
                x == [w EXCEPT !.subs = @ \cup {[sid |-> new, reg |-> call.reg]}, !.issued = new,
                               !.down = Append(w.down, [to |-> call, sid |-> new])]
    <3>2. wire' = [wire EXCEPT ![c] = x]
      BY <2>2, <3>1 DEF Serve
    <3>3. w.down = wire[c].down /\ new \in Nat /\ new >= 1
      BY <1>1 DEF WireType
    <3>4. w \in [calls : SUBSET CallType, down : Seq(MsgType), subs : SUBSET Ids, issued : Nat]
      BY <1>1 DEF WireType
    <3>. HIDE DEF w, new
    <3>5. x.down = Append(w.down, [to |-> call, sid |-> new])
      BY <3>4
    <3>. HIDE DEF x
    <3>6. wire'[c] = x
      BY <3>2 DEF General, Base, Types
    <3>. QED  BY <3>3, <3>5, <3>6
  <2>. QED  BY <2>1, <2>2
<1>. DEFINE m == [to |-> call, sid |-> n]
<1>3. m \in MsgType /\ m.to.by = call.by /\ m.sid = n
  BY <1>1 DEF MsgType
<1>4. wire'[c].down = Append(wire[c].down, m) /\ wire[c].down \in Seq(MsgType)
  BY <1>1, <1>2 DEF WireType
<1>. HIDE DEF m
<1>5. \A i \in 1..Len(wire'[c].down) : wire'[c].down[i] = m \/ \E j \in 1..Len(wire[c].down) : wire'[c].down[i] = wire[c].down[j]
  BY <1>3, <1>4, AppendDown
<1>. QED  BY <1>2, <1>3, <1>5 DEF Counts

LEMMA TickCounts ==
  ASSUME General, NEW c \in Conns, Counts(wire[c]), NEW e \in wire[c].subs, Tick(c, e)
  PROVE  Counts(wire[c])'
<1>. DEFINE m == [to |-> Calling("tick", <<>>), sid |-> e.sid]
<1>1. wire[c] \in WireType /\ wire'[c].down = Append(wire[c].down, m)
  BY TickStep DEF General, Base, Types
<1>2. m.to.by = "tick" /\ m \in MsgType
  <2>1. e.sid \in Nat
    BY <1>1 DEF WireType, Ids
  <2>. QED  BY <2>1 DEF Calling, MsgType
<1>3. wire[c].down \in Seq(MsgType)
  BY <1>1 DEF WireType
<1>. HIDE DEF m
<1>4. \A i \in 1..Len(wire'[c].down) : wire'[c].down[i] = m \/ \E j \in 1..Len(wire[c].down) : wire'[c].down[i] = wire[c].down[j]
  BY <1>1, <1>2, <1>3, AppendDown
<1>. QED  BY <1>2, <1>4 DEF Counts

-----------------------------------------------------------------------------
(* Until a connection has reconnected, or a call on it has failed          *)

\* A route is of a registration whose id was not given up.
RoutedTo(c, e) ==
  LET s == e.reg[1] IN
  /\ e.reg \in conn[c].regs /\ sid[e.reg] = e.sid /\ client[s].on = c
  /\ \/ client[s].pc = "active"
     \/ client[s].pc = "establish" /\ e.reg[2] < client[s].at
     \/ client[s].pc = "removing" /\ e.reg[2] > client[s].at
Leaves(c) == \E s \in Subs : client[s].on = c /\ client[s].pc = "removing"
Tidy(c) ==
  /\ Counts(wire[c])
  /\ \A e \in conn[c].route : RoutedTo(c, e)
  /\ conn[c].sock = "connecting" => Waiting(c) # {}
  /\ conn[c].sock = "open" /\ conn[c].regs = {} => Leaves(c)
TidyInv == \A c \in Conns : Undisturbed(c) => Tidy(c)
Grows == \A c \in Conns : past[c] \subseteq past'[c]

LEMMA StepTidy ==
  ASSUME General, TidyInv, Grows, NEW c \in Conns, OnlyOn(c), Undisturbed(c)' => Tidy(c)'
  PROVE  TidyInv'
<1>1. ASSUME NEW d \in Conns, d # c, Undisturbed(d)' PROVE Tidy(d)'
  <2>0. Tidy(d)
    BY <1>1 DEF TidyInv, Grows, Undisturbed
  <2>1. conn'[d] = conn[d] /\ wire'[d] = wire[d] /\ Tidy(d) /\ conn[d] \in ConnType
    BY <1>1, <2>0 DEF OnlyOn, Elsewhere, General, Base, Types
  <2>2. \A s \in Subs : client[s].on = d /\ client[s].pc # "idle" => client'[s] = client[s]
    BY <1>1 DEF OnlyOn
  <2>3. ASSUME NEW e \in conn[d].route PROVE RoutedTo(d, e)'
    <3>1. RoutedTo(d, e) /\ e.reg \in Regs
      BY <2>1 DEF Tidy, ConnType, Ids
    <3>2. e.reg[1] \in Subs
      BY <3>1, RegIs DEF General, Base
    <3>3. client'[e.reg[1]] = client[e.reg[1]] /\ sid'[e.reg] = sid[e.reg]
      BY <1>1, <2>2, <3>1, <3>2 DEF RoutedTo, OnlyOn
    <3>. QED  BY <2>1, <3>1, <3>3 DEF RoutedTo
  <2>4. Waiting(d) \subseteq Waiting(d)'
    BY <2>2 DEF Waiting
  <2>5. Leaves(d) => Leaves(d)'
    BY <2>2 DEF Leaves
  <2>6. Counts(wire[d])'
    BY <2>1 DEF Tidy, Counts
  <2>7. conn'[d].sock = "connecting" => Waiting(d)' # {}
    BY <2>1, <2>4 DEF Tidy
  <2>8. conn'[d].sock = "open" /\ conn'[d].regs = {} => Leaves(d)'
    BY <2>1, <2>5 DEF Tidy
  <2>9. \A e \in conn'[d].route : RoutedTo(d, e)'
    BY <2>1, <2>3
  <2>. QED  BY <2>6, <2>7, <2>8, <2>9 DEF Tidy
<1>2. \A d \in Conns : Undisturbed(d)' => Tidy(d)'
  BY <1>1
<1>. QED  BY <1>2 DEF TidyInv, Conns

\* A step of a connection that leaves its clients, routes and registrations.
LEMMA QuietTidy ==
  ASSUME General, TidyInv, Grows, NEW c \in Conns, Elsewhere(c), conn'[c] = conn[c], UNCHANGED <<sid, client, loop>>,
         Undisturbed(c)' /\ Counts(wire[c]) => Counts(wire[c])'
  PROVE  TidyInv'
<1>1. OnlyOn(c)
  BY DEF OnlyOn
<1>. SUFFICES ASSUME Undisturbed(c)', Tidy(c) PROVE Tidy(c)'
  BY <1>1, StepTidy DEF TidyInv, Grows, Undisturbed
<1>2. Waiting(c)' = Waiting(c)
  BY DEF Waiting
<1>3. Leaves(c)' <=> Leaves(c)
  BY DEF Leaves
<1>4. \A e \in conn'[c].route : RoutedTo(c, e)'
  BY DEF RoutedTo, Tidy
<1>. QED  BY <1>2, <1>3, <1>4 DEF Tidy

LEMMA SubscribeTidy == ASSUME General, TidyInv, Grows, NEW s \in Subs, Subscribe(s) PROVE TidyInv'
<1>1. client[s].pc = "idle" /\ UNCHANGED <<sid, loop>> /\ \A t \in Subs \ {s} : client'[t] = client[t]
  BY SubscribeStep DEF General
<1>2. PICK c \in Conns :
        /\ Elsewhere(c)
        /\ \/ /\ conn[c].sock = "open" /\ conn'[c] = [conn[c] EXCEPT !.regs = @ \cup {<<s, 1>>}]
              /\ wire'[c] = [wire[c] EXCEPT !.calls = @ \cup {Calling("add", <<s, 1>>)}]
              /\ client'[s] = [pc |-> "establish", on |-> c, at |-> 1]
           \/ /\ conn[c].sock \in {"none", "connecting"} /\ conn'[c] = [conn[c] EXCEPT !.sock = "connecting"]
              /\ wire'[c] = wire[c] /\ client'[s] = [pc |-> "connect", on |-> c, at |-> 1]
  BY SubscribeStep DEF General
<1>10. OnlyOn(c)
  BY <1>1, <1>2 DEF OnlyOn
<1>. SUFFICES ASSUME Tidy(c) PROVE Tidy(c)'
  BY <1>10, StepTidy DEF TidyInv, Grows, Undisturbed
<1>3. conn[c] \in ConnType /\ wire[c] \in WireType
  BY DEF General, Base, Types
<1>4. /\ conn'[c].route = conn[c].route /\ conn[c].regs \subseteq conn'[c].regs /\ wire'[c].down = wire[c].down
      /\ \/ conn'[c].sock = "open" /\ conn'[c].regs = conn[c].regs \cup {<<s, 1>>}
         \/ conn'[c].sock = "connecting" /\ client'[s].pc = "connect" /\ client'[s].on = c
  BY <1>2, <1>3 DEF ConnType, WireType
<1>5. \A e \in conn'[c].route : RoutedTo(c, e)'
  <2>1. ASSUME NEW e \in conn[c].route PROVE RoutedTo(c, e)'
    <3>1. RoutedTo(c, e) /\ e.reg \in Regs
      BY <1>3 DEF Tidy, ConnType, Ids
    <3>2. e.reg[1] \in Subs /\ e.reg[1] # s
      BY <1>1, <3>1, RegIs DEF General, Base, RoutedTo
    <3>3. client'[e.reg[1]] = client[e.reg[1]] /\ sid'[e.reg] = sid[e.reg]
      BY <1>1, <3>2
    <3>. QED  BY <1>4, <3>1, <3>3 DEF RoutedTo
  <2>. QED  BY <1>4, <2>1
<1>6. conn'[c].sock = "connecting" => Waiting(c)' # {}
  BY <1>4 DEF Waiting
<1>7. conn'[c].sock = "open" => conn'[c].regs # {}
  BY <1>4
<1>8. Counts(wire[c])'
  BY <1>3, <1>4 DEF Tidy, Counts
<1>. QED  BY <1>5, <1>6, <1>7, <1>8 DEF Tidy

LEMMA OpenedTidy == ASSUME General, TidyInv, Grows, NEW c \in Conns, Opened(c) PROVE TidyInv'
<1>1. /\ conn[c].sock = "connecting" /\ Elsewhere(c) /\ UNCHANGED sid /\ conn'[c].route = conn[c].route
      /\ conn'[c].regs = conn[c].regs \cup {<<s, 1>> : s \in Waiting(c)} /\ wire'[c].down = <<>> /\ conn'[c].sock = "open"
  BY OpenedStep DEF General
<1>2. client' = [s \in Subs |-> IF s \in Waiting(c) THEN [client[s] EXCEPT !.pc = "establish"] ELSE client[s]]
  BY OpenedStep DEF General
<1>3. \A k \in Loops : IF loop[k].pc = "connect" /\ loop[k].on = c THEN TRUE ELSE loop'[k] = loop[k]
  BY OpenedStep DEF General
<1>7. OnlyOn(c)
  BY <1>1, <1>2, <1>3 DEF OnlyOn, Waiting
<1>. SUFFICES ASSUME Tidy(c) PROVE Tidy(c)'
  BY <1>7, StepTidy DEF TidyInv, Grows, Undisturbed
<1>4. conn[c].route = {}
  BY <1>1 DEF General, Base, Wired
<1>5. conn'[c].regs # {}
  <2>1. PICK s : s \in Waiting(c)
    BY <1>1 DEF Tidy
  <2>2. <<s, 1>> \in {<<t, 1>> : t \in Waiting(c)}
    BY <2>1
  <2>. QED  BY <1>1, <2>2
<1>. QED  BY <1>1, <1>4, <1>5 DEF Tidy, Counts

LEMMA LostTidy == ASSUME General, TidyInv, Grows, NEW c \in Conns, Lost(c) PROVE TidyInv'
<1>1. conn'[c].sock = "none" /\ conn'[c].route = {} /\ wire'[c] = NoWire
  BY DEF Lost
<1>2. NoWire.down = <<>>
  BY DEF NoWire
<1>3. Tidy(c)'
  BY <1>1, <1>2 DEF Tidy, Counts
<1>4. OnlyOn(c)
  BY DEF OnlyOn, Lost
<1>. QED  BY <1>3, <1>4, StepTidy

\* A reestablish() runs on a connection that is disturbed from here on.
LEMMA FireTidy ==
  ASSUME General, Noted, TidyInv, Grows, NEW k \in Loops, Fire(k) PROVE TidyInv'
<1>. USE DEF General
<1>1. PICK c \in Conns : c = loop[k].on
  BY FireStep
<1>2. Elsewhere(c) /\ UNCHANGED <<sid, client>> /\ \A j \in Loops \ {k} : loop'[j] = loop[j]
  BY <1>1, FireStep
<1>3. OnlyOn(c)
  BY <1>1, <1>2 DEF OnlyOn
<1>4. "again" \in past'[c]
  BY <1>1 DEF Fire, Mark, Noted, PastTypes
<1>. QED  BY <1>3, <1>4, StepTidy DEF Undisturbed

LEMMA ReestablishedTidy ==
  ASSUME General, Noted, TidyInv, Grows, NEW c \in Conns, Deliver(c), Head(wire[c].down).to.by = "loop" PROVE TidyInv'
<1>. USE DEF General
<1>. DEFINE m == Head(wire[c].down)
            r == m.to.reg
            n == m.sid
<1>1. PICK k \in Loops : k = m.to.loop
  BY ReestablishedStep
<1>2. /\ Elsewhere(c) /\ UNCHANGED client /\ r \in Regs /\ loop[k].pc = "run" /\ loop[k].on = c /\ loop[k].reg = r
      /\ \A j \in Loops \ {k} : loop'[j] = loop[j]
      /\ UNCHANGED sid \/ sid' = [sid EXCEPT ![r] = n]
  BY <1>1, ReestablishedStep
<1>. HIDE DEF m, r, n
<1>3. client[r[1]].on = c
  BY <1>2 DEF Noted, On
<1>4. OnlyOn(c)
  BY <1>2, <1>3 DEF OnlyOn, Base, Types
<1>5. "again" \in past'[c]
  BY <1>2 DEF Noted, Grows
<1>. QED  BY <1>4, <1>5, StepTidy DEF Undisturbed

LEMMA AddedTidy ==
  ASSUME General, TidyInv, Grows, NEW c \in Conns, Deliver(c), Head(wire[c].down).to.by = "add" PROVE TidyInv'
<1>. USE DEF General
<1>. DEFINE m == Head(wire[c].down)
            r == m.to.reg
            n == m.sid
<1>0. PICK i : i = r[2]
  OBVIOUS
<1>1. PICK s \in Subs : s = r[1]
  BY ZenonT(60), AddedStep
<1>2. /\ Elsewhere(c) /\ conn[c].sock = "open" /\ wire[c].down # <<>> /\ UNCHANGED loop
      /\ r \in Regs /\ client[s].pc = "establish" /\ client[s].on = c /\ client[s].at = i
      /\ client'[s].on = c /\ \A t \in Subs \ {s} : client'[t] = client[t]
      /\ conn'[c].sock = "open" /\ wire'[c].down = Tail(wire[c].down) /\ n \in Nat
  BY <1>0, <1>1, AddedStep
<1>3. wire[c] \in WireType /\ conn[c] \in ConnType /\ sid \in [Regs -> Nat]
  BY DEF Base, Types
<1>6. r = <<s, i>> /\ i \in 1..Filters[s] /\ Filters[s] \in {1, 2} /\ r[1] = s /\ r[2] = i
  BY <1>0, <1>1, <1>2, RegIs DEF Base
<1>11. OnlyOn(c)
  <2>1. \A t \in Subs : client[t].on # c => client'[t] = client[t]
    BY <1>2
  <2>2. UNCHANGED sid \/ sid' = [sid EXCEPT ![r] = n]
    BY AddedStep
  <2>. HIDE DEF m, r, n
  <2>3. \A q \in Regs : client[q[1]].on # c => sid'[q] = sid[q]
    BY <1>2, <1>3, <1>6, <2>2
  <2>. QED  BY <1>2, <2>1, <2>3 DEF OnlyOn
<1>. SUFFICES ASSUME Tidy(c) PROVE Tidy(c)'
  BY <1>11, StepTidy DEF TidyInv, Grows, Undisturbed
<1>4. n >= 1
  BY <1>2, <1>3, TailDown DEF Tidy, Counts
<1>5. /\ sid' = [sid EXCEPT ![r] = n] /\ conn'[c].route = Rerouted(c, r, n)
      /\ conn[c].regs \subseteq conn'[c].regs
      /\ \/ client'[s].pc = "active"
         \/ client'[s].pc = "establish" /\ client'[s].at = i + 1
  <2>1. \/ n = 0
        \/ /\ sid' = [sid EXCEPT ![r] = n] /\ conn'[c].route = Rerouted(c, r, n)
           /\ \/ client'[s].pc = "active" /\ conn'[c].regs = conn[c].regs
              \/ /\ client'[s].pc = "establish" /\ client'[s].at = i + 1
                 /\ conn'[c].regs = conn[c].regs \cup {<<s, i + 1>>}
    BY ZenonT(60), <1>0, <1>1, AddedStep
  <2>. HIDE DEF m, r, n
  <2>. QED  BY <1>4, <2>1
<1>7. r \in conn[c].regs
  <2>1. <<s, i>> \in conn[c].regs
    BY <1>2, <1>6 DEF Held
  <2>. QED  BY <1>6, <2>1
<1>. HIDE DEF m, r, n
<1>8. ASSUME NEW e \in conn'[c].route PROVE RoutedTo(c, e)'
  <2>1. CASE e \in conn[c].route
    <3>1. RoutedTo(c, e) /\ e.reg \in Regs
      BY <1>3, <2>1 DEF Tidy, ConnType, Ids
    <3>2. e.reg[1] \in Subs /\ e.reg[2] \in {1, 2} /\ e.reg = <<e.reg[1], e.reg[2]>>
      <4>1. e.reg[1] \in Subs /\ e.reg[2] \in 1..Filters[e.reg[1]] /\ Filters[e.reg[1]] \in {1, 2} /\ e.reg = <<e.reg[1], e.reg[2]>>
        BY <3>1, RegIs DEF Base
      <4>. QED  BY <4>1
    <3>3. CASE e.reg[1] = s
      <4>1. e.reg[2] < i
        BY <1>2, <3>1, <3>3 DEF RoutedTo
      <4>2. e.reg # r
        BY <1>6, <3>2, <4>1
      <4>3. sid'[e.reg] = sid[e.reg]
        BY <1>3, <1>5, <3>1, <4>2
      <4>4. e.reg[2] < i + 1
        BY <1>6, <3>2, <4>1
      <4>5. e.reg \in conn'[c].regs
        BY <1>5, <3>1 DEF RoutedTo
      <4>. QED  BY <1>2, <1>5, <3>1, <3>3, <4>3, <4>4, <4>5 DEF RoutedTo
    <3>4. CASE e.reg[1] # s
      <4>1. e.reg # r
        BY <1>6, <3>4
      <4>2. sid'[e.reg] = sid[e.reg] /\ client'[e.reg[1]] = client[e.reg[1]] /\ e.reg \in conn'[c].regs
        BY <1>2, <1>3, <1>5, <3>1, <3>2, <3>4, <4>1 DEF RoutedTo
      <4>. QED  BY <3>1, <4>2 DEF RoutedTo
    <3>. QED  BY <3>3, <3>4
  <2>2. CASE e = [sid |-> n, reg |-> r]
    <3>1. e.reg = r /\ e.sid = n /\ e.reg[1] = s /\ e.reg[2] = i
      BY <1>6, <2>2
    <3>2. sid'[e.reg] = e.sid /\ e.reg \in conn'[c].regs
      BY <1>2, <1>3, <1>5, <1>7, <3>1
    <3>3. i < i + 1
      BY <1>6
    <3>. QED  BY <1>2, <1>5, <3>1, <3>2, <3>3 DEF RoutedTo
  <2>. QED  BY <1>5, <2>1, <2>2 DEF Rerouted
<1>9. Counts(wire[c])'
  BY <1>2, <1>3, TailCounts DEF Tidy, Counts
<1>. QED  BY <1>2, <1>5, <1>7, <1>8, <1>9 DEF Tidy

LEMMA RemovedTidy ==
  ASSUME General, TidyInv, Grows, NEW s \in Subs, NEW i \in Nat, NEW c \in Conns, NEW j \in Nat, Elsewhere(c),
         Counts(wire[c]) => Counts(wire[c])', client[s].on = c, UNCHANGED loop, Removed(s, i, c, j),
         (client[s].pc = "active" /\ i = 1) \/ (client[s].pc = "removing" /\ i = client[s].at + 1)
  PROVE  TidyInv'
<1>. USE DEF General
<1>1. /\ sid' \in [Regs -> Nat] /\ \A r \in Regs : sid'[r] = IF Gone(s, i, j, r) THEN 0 ELSE sid[r]
      /\ conn'[c].regs = {r \in conn[c].regs : ~Gone(s, i, j, r)}
      /\ conn'[c].route = {e \in conn[c].route : ~(Gone(s, i, j, e.reg) /\ e.sid = sid[e.reg])}
      /\ client'[s].on = c /\ \A t \in Subs \ {s} : client'[t] = client[t]
  BY DEF Removed, Deleted
<1>8. OnlyOn(c)
  <2>1. \A t \in Subs : client[t].on # c => client'[t] = client[t]
    BY <1>1
  <2>2. \A q \in Regs : client[q[1]].on # c => sid'[q] = sid[q]
    BY <1>1 DEF Gone
  <2>. QED  BY <2>1, <2>2 DEF OnlyOn
<1>. SUFFICES ASSUME Tidy(c) PROVE Tidy(c)'
  BY <1>8, StepTidy DEF TidyInv, Grows, Undisturbed
<1>2. \/ conn'[c].sock = "open" /\ client'[s].pc = "removing" /\ client'[s].at = j
      \/ /\ j = Filters[s]
         /\ conn'[c].sock = "closing" \/ (conn'[c].sock = conn[c].sock /\ (conn'[c].regs # {} \/ conn[c].sock = "none"))
  BY DEF Removed, Tells, Finishes
<1>3. conn[c] \in ConnType /\ client[s] \in ClientType
  BY DEF Base, Types
<1>4. ASSUME NEW e \in conn'[c].route PROVE RoutedTo(c, e)'
  <2>1. e \in conn[c].route /\ ~(Gone(s, i, j, e.reg) /\ e.sid = sid[e.reg])
    BY <1>1
  <2>2. RoutedTo(c, e) /\ e.reg \in Regs
    BY <1>3, <2>1 DEF Tidy, ConnType, Ids
  <2>3. ~Gone(s, i, j, e.reg)
    BY <2>1, <2>2 DEF RoutedTo
  <2>4. sid'[e.reg] = sid[e.reg] /\ e.reg \in conn'[c].regs
    BY <1>1, <2>2, <2>3 DEF RoutedTo
  <2>5. e.reg[1] \in Subs /\ e.reg[2] \in 1..Filters[e.reg[1]] /\ Filters[e.reg[1]] \in {1, 2}
    BY <2>2, RegIs DEF Base
  <2>6. CASE e.reg[1] = s
    <3>1. e.reg[2] >= i
      <4>1. client[s].at \in Nat /\ e.reg[2] \in Nat /\ e.reg[2] >= 1
        BY <1>3, <2>5 DEF ClientType
      <4>2. (client[s].pc = "active" /\ i = 1) \/ (client[s].pc = "removing" /\ i = client[s].at + 1 /\ e.reg[2] > client[s].at)
        BY <2>2, <2>6 DEF RoutedTo
      <4>. QED  BY <4>1, <4>2
    <3>2. e.reg[2] > j
      BY <2>3, <2>5, <2>6, <3>1 DEF Gone
    <3>3. j # Filters[s]
      BY <2>5, <2>6, <3>2
    <3>. QED  BY <1>1, <1>2, <2>2, <2>4, <2>6, <3>2, <3>3 DEF RoutedTo
  <2>7. CASE e.reg[1] # s
    <3>1. client'[e.reg[1]] = client[e.reg[1]]
      BY <1>1, <2>5, <2>7
    <3>. QED  BY <2>2, <2>4, <3>1 DEF RoutedTo
  <2>. QED  BY <2>6, <2>7
<1>5. conn'[c].sock = "connecting" => Waiting(c)' # {}
  <2>1. Waiting(c) \subseteq Waiting(c)'
    BY <1>1 DEF Waiting
  <2>. QED  BY <1>2, <1>3, <2>1 DEF Tidy
<1>6. conn'[c].sock = "open" /\ conn'[c].regs = {} => Leaves(c)'
  BY <1>1, <1>2 DEF Leaves
<1>. QED  BY <1>4, <1>5, <1>6 DEF Tidy

LEMMA UnsubscribeTidy == ASSUME General, TidyInv, Grows, NEW s \in Subs, Unsubscribe(s) PROVE TidyInv'
<1>1. PICK c \in Conns : c = client[s].on
  BY UnsubscribeStep DEF General
<1>2. /\ client[s].pc = "active" /\ UNCHANGED loop /\ Elsewhere(c) /\ wire'[c].down = wire[c].down
      /\ \E j \in Nat : Removed(s, 1, c, j)
  BY <1>1, UnsubscribeStep DEF General
<1>3. PICK j \in Nat : Removed(s, 1, c, j)
  BY <1>2
<1>4. Counts(wire[c]) => Counts(wire[c])'
  BY <1>2 DEF Counts
<1>. QED  BY <1>1, <1>2, <1>3, <1>4, RemovedTidy

LEMMA DeliverTidy == ASSUME General, Noted, TidyInv, Grows, NEW c \in Conns, Deliver(c) PROVE TidyInv'
<1>. USE DEF General
<1>. DEFINE m == Head(wire[c].down)
<1>1. m.to.by \in {"tick", "add", "loop", "remove"} /\ wire[c] \in WireType
  BY HeadOf DEF Turns, Deliver, Base, Types
<1>2. ASSUME m.to.by = "tick" PROVE TidyInv'
  <2>1. /\ Elsewhere(c) /\ conn'[c] = conn[c] /\ UNCHANGED <<sid, client, loop>>
        /\ wire[c].down # <<>> /\ wire'[c].down = Tail(wire[c].down)
    BY <1>2, TickedStep
  <2>2. Counts(wire[c]) => Counts(wire[c])'
    BY <1>1, <2>1, TailCounts DEF Counts
  <2>. QED  BY <2>1, <2>2, QuietTidy
<1>3. ASSUME m.to.by = "remove" PROVE TidyInv'
  <2>1. PICK s \in Subs, i \in Nat : s = m.to.reg[1] /\ i = m.to.reg[2] + 1
    BY <1>3, RemovedStep
  <2>2. /\ Elsewhere(c) /\ UNCHANGED loop /\ client[s].on = c /\ client[s].pc = "removing" /\ client[s].at = m.to.reg[2]
        /\ wire[c].down # <<>> /\ wire'[c].down = Tail(wire[c].down)
        /\ \E j \in Nat : Removed(s, i, c, j)
    BY <1>3, <2>1, RemovedStep
  <2>3. PICK j \in Nat : Removed(s, i, c, j)
    BY <2>2
  <2>4. Counts(wire[c]) => Counts(wire[c])'
    BY <1>1, <2>2, TailCounts DEF Counts
  <2>. QED  BY ZenonT(60), <2>1, <2>2, <2>3, <2>4, RemovedTidy
<1>. QED  BY <1>1, <1>2, <1>3, AddedTidy, ReestablishedTidy

LEMMA InitTidy == ASSUME Init PROVE TidyInv
<1>1. \A c \in Conns : wire[c].down = <<>> /\ conn[c].route = {} /\ conn[c].sock = "none"
  BY DEF Init, NoWire
<1>. QED  BY <1>1 DEF TidyInv, Tidy, Counts

LEMMA KeepsTidy == ASSUME General, Noted, TidyInv, [Next]_vars PROVE TidyInv'
<1>. USE DEF General
<1>1. ASSUME UNCHANGED vars PROVE TidyInv'
  BY <1>1 DEF vars, TidyInv, Undisturbed, Tidy, RoutedTo, Counts, Leaves, Waiting
<1>. SUFFICES ASSUME Next PROVE TidyInv'
  BY <1>1
<1>2. PastTypes /\ Grows
  BY PastGrows DEF Noted, Grows
<1>3. ASSUME NEW c \in Conns, Refuse(c) \/ Drop(c) \/ Closed(c) PROVE TidyInv'
  <2>1. Lost(c)
    BY <1>3, RefuseLost, DropLost, ClosedLost
  <2>. QED  BY <1>2, <2>1, LostTidy
<1>4. ASSUME NEW c \in Conns, NEW call \in wire[c].calls, NEW ok \in BOOLEAN, Serve(c, call, ok) PROVE TidyInv'
  <2>1. Elsewhere(c) /\ conn'[c] = conn[c] /\ UNCHANGED <<sid, client, loop>>
    BY <1>4, ServeStep
  <2>2. Undisturbed(c)' /\ Counts(wire[c]) => Counts(wire[c])'
    BY <1>2, <1>4, ServeCounts DEF Undisturbed
  <2>. QED  BY <1>2, <2>1, <2>2, QuietTidy
<1>5. ASSUME NEW c \in Conns, NEW e \in wire[c].subs, Tick(c, e) PROVE TidyInv'
  <2>1. Elsewhere(c) /\ conn'[c] = conn[c] /\ UNCHANGED <<sid, client, loop>>
    BY <1>5, TickStep
  <2>2. Counts(wire[c]) => Counts(wire[c])'
    BY <1>5, TickCounts
  <2>. QED  BY <1>2, <2>1, <2>2, QuietTidy
<1>. QED  BY <1>2, <1>3, <1>4, <1>5, SubscribeTidy, UnsubscribeTidy, OpenedTidy, FireTidy, DeliverTidy DEF Next

LEMMA TidyMeans == ASSUME General, TidyInv PROVE TicksAreWanted /\ SubscribedOnce /\ IdleSocketCloses
<1>1. ASSUME NEW c \in Conns, Undisturbed(c), NEW e \in conn[c].route
      PROVE  Wants(e.reg[1]) /\ e.reg \in conn[c].regs /\ sid[e.reg] = e.sid
  <2>1. RoutedTo(c, e)
    BY <1>1 DEF TidyInv, Tidy
  <2>. QED  BY <2>1 DEF RoutedTo, Wants
<1>2. IdleSocketCloses
  BY DEF TidyInv, Tidy, Leaves, IdleSocketCloses
<1>3. ASSUME NEW c \in Conns, Undisturbed(c), NEW e \in conn[c].route, NEW f \in conn[c].route, e.reg = f.reg PROVE e = f
  <2>1. e \in Ids /\ f \in Ids
    BY DEF General, Base, Types, ConnType
  <2>2. e.sid = f.sid
    BY <1>1, <1>3
  <2>. QED  BY <1>3, <2>1, <2>2 DEF Ids
<1>. QED  BY <1>1, <1>2, <1>3 DEF TicksAreWanted, SubscribedOnce

\* Until a connection has reconnected, or a call on it has failed, a notification reaches only a registration that still is
\* one, of a subscription that was not given up, each registration is subscribed once, and no open socket serves nobody
\* (adapters/subscription.ts:206-336).
THEOREM NoticesStayWanted ==
  ASSUME SubscriptionAssumption PROVE Spec => [](TicksAreWanted /\ SubscribedOnce /\ IdleSocketCloses)
<1>. DEFINE I == General /\ Noted /\ TidyInv
<1>1. Init => I
  BY InitGeneral, InitNoted, InitTidy
<1>2. I /\ [Next]_vars => I'
  BY KeepsGeneral, KeepsNoted, KeepsTidy
<1>3. I => TicksAreWanted /\ SubscribedOnce /\ IdleSocketCloses
  BY TidyMeans
<1>. QED  BY <1>1, <1>2, <1>3, PTL DEF Spec

-----------------------------------------------------------------------------
(* Until the socket of a reconnect was refused, or a call failed           *)

\* Loop k of connection c has yet to be at registration r, or is at it.
Revisited(c, k, r) ==
  /\ loop[k].on = c
  /\ loop[k].pc \in {"timer", "connect"} \/ (loop[k].pc = "run" /\ (r \notin loop[k].seen \/ loop[k].reg = r))
Known(s) == client[s].pc = "establish" => \A i \in 1..Filters[s] : i < client[s].at => sid[<<s, i>>] # 0
Awaited(s, i) == sid[<<s, i>>] # 0 \/ \E k \in Loops : Revisited(client[s].on, k, <<s, i>>)
Back(s) == MaxReconnects # 0 /\ client[s].pc = "active" /\ Persists(client[s].on) => \A i \in 1..Filters[s] : Awaited(s, i)
FirstTry(c) == ("error" \notin past[c] => Counts(wire[c])) /\ (conn[c].sock = "open" => conn[c].tries = 0)
ReconInv == (\A c \in Conns : FirstTry(c)) /\ \A s \in Subs : Known(s) /\ Back(s)

LEMMA StepRecon ==
  ASSUME General, ReconInv, Grows, NEW c \in Conns, Elsewhere(c), FirstTry(c)',
         \A s \in Subs : (Known(s) /\ Back(s))' \/ (OnlyOn(c) /\ client[s].on # c /\ client'[s] = client[s])
  PROVE  ReconInv'
<1>1. ASSUME NEW d \in Conns, d # c PROVE FirstTry(d)'
  <2>1. conn'[d] = conn[d] /\ wire'[d] = wire[d] /\ FirstTry(d)
    BY <1>1 DEF Elsewhere, ReconInv
  <2>. QED  BY <2>1 DEF FirstTry, Counts, Grows
<1>2. ASSUME NEW s \in Subs, OnlyOn(c), client[s].on # c, client'[s] = client[s] PROVE (Known(s) /\ Back(s))'
  <2>1. ASSUME NEW i \in 1..Filters[s] PROVE sid'[<<s, i>>] = sid[<<s, i>>]
    <3>1. <<s, i>> \in Regs /\ <<s, i>>[1] = s
      BY RegIs DEF General, Base
    <3>. QED  BY <1>2, <3>1 DEF OnlyOn
  <2>2. Known(s)'
    BY <1>2, <2>1 DEF ReconInv, Known
  <2>3. ASSUME NEW i \in 1..Filters[s], Awaited(s, i) PROVE Awaited(s, i)'
    <3>1. ASSUME NEW k \in Loops, Revisited(client[s].on, k, <<s, i>>) PROVE Revisited(client[s].on, k, <<s, i>>)'
      <4>1. loop[k].on # c /\ loop[k].pc # "none"
        BY <1>2, <3>1 DEF Revisited
      <4>2. loop'[k] = loop[k]
        BY <1>2, <4>1 DEF OnlyOn
      <4>. QED  BY <1>2, <3>1, <4>2 DEF Revisited
    <3>. QED  BY <2>1, <2>3, <3>1 DEF Awaited, Loops
  <2>4. Back(s)'
    <3>1. client[s].pc = "active" /\ Persists(client[s].on)' => Persists(client[s].on)
      BY <1>2, OnConn DEF General, Grows, Persists
    <3>. QED  BY <1>2, <2>3, <3>1 DEF ReconInv, Back, Persists
  <2>. QED  BY <2>2, <2>4
<1>3. (\A d \in Conns : FirstTry(d)') /\ \A s \in Subs : (Known(s) /\ Back(s))'
  BY <1>1, <1>2
<1>. QED  BY <1>3 DEF ReconInv, Conns

\* A subscriber whom a step leaves, who loses no id and whose loops go on.
LEMMA StaysBack ==
  ASSUME General, ReconInv, Grows, NEW s \in Subs, client'[s] = client[s],
         \A r \in Regs : r[1] = s /\ sid[r] # 0 => sid'[r] # 0,
         \A i \in 1..Filters[s] : client[s].pc = "active" =>
           sid'[<<s, i>>] # 0 \/ \A k \in Loops : Revisited(client[s].on, k, <<s, i>>) => Revisited(client[s].on, k, <<s, i>>)'
  PROVE  (Known(s) /\ Back(s))'
<1>1. ASSUME NEW i \in 1..Filters[s], sid[<<s, i>>] # 0 PROVE sid'[<<s, i>>] # 0
  <2>1. <<s, i>> \in Regs /\ <<s, i>>[1] = s
    BY RegIs DEF General, Base
  <2>. QED  BY <1>1, <2>1
<1>2. Known(s)'
  BY <1>1 DEF ReconInv, Known
<1>3. ASSUME MaxReconnects # 0, client[s].pc = "active", Persists(client[s].on)', NEW i \in 1..Filters[s]
      PROVE  Awaited(s, i)'
  <2>0. Persists(client[s].on)
    BY <1>3, OnConn DEF General, Grows, Persists
  <2>1. Awaited(s, i)
    BY <1>3, <2>0 DEF ReconInv, Back
  <2>2. CASE sid[<<s, i>>] # 0
    BY <1>1, <2>2 DEF Awaited
  <2>3. CASE sid[<<s, i>>] = 0
    <3>1. PICK k \in Loops : Revisited(client[s].on, k, <<s, i>>)
      BY <2>1, <2>3 DEF Awaited
    <3>2. sid'[<<s, i>>] # 0 \/ Revisited(client[s].on, k, <<s, i>>)'
      BY <1>3, <3>1
    <3>. QED  BY <3>2 DEF Awaited, Loops
  <2>. QED  BY <2>2, <2>3
<1>4. Back(s)'
  BY <1>3 DEF Back, Persists
<1>. QED  BY <1>2, <1>4

\* A step of a connection's wire alone.
LEMMA QuietRecon ==
  ASSUME General, ReconInv, Grows, NEW c \in Conns, Elsewhere(c), conn'[c] = conn[c], UNCHANGED <<sid, client, loop>>,
         "error" \notin past'[c] /\ Counts(wire[c]) => Counts(wire[c])'
  PROVE  ReconInv'
<1>1. FirstTry(c)'
  BY DEF FirstTry, ReconInv, Grows
<1>2. \A s \in Subs : (Known(s) /\ Back(s))'
  BY StaysBack DEF Revisited
<1>. QED  BY <1>1, <1>2, StepRecon

LEMMA SubscribeRecon == ASSUME General, ReconInv, Grows, NEW s \in Subs, Subscribe(s) PROVE ReconInv'
<1>1. client[s].pc = "idle" /\ UNCHANGED <<sid, loop>> /\ \A t \in Subs \ {s} : client'[t] = client[t]
  BY SubscribeStep DEF General
<1>2. PICK c \in Conns :
        /\ Elsewhere(c)
        /\ \/ /\ conn[c].sock = "open" /\ conn'[c] = [conn[c] EXCEPT !.regs = @ \cup {<<s, 1>>}]
              /\ wire'[c] = [wire[c] EXCEPT !.calls = @ \cup {Calling("add", <<s, 1>>)}]
              /\ client'[s] = [pc |-> "establish", on |-> c, at |-> 1]
           \/ /\ conn[c].sock \in {"none", "connecting"} /\ conn'[c] = [conn[c] EXCEPT !.sock = "connecting"]
              /\ wire'[c] = wire[c] /\ client'[s] = [pc |-> "connect", on |-> c, at |-> 1]
  BY SubscribeStep DEF General
<1>3. conn[c] \in ConnType /\ wire[c] \in WireType /\ FirstTry(c) /\ Filters[s] \in {1, 2}
  BY RegIs DEF General, Base, Types, ReconInv
<1>4. /\ wire'[c].down = wire[c].down /\ conn'[c].tries = conn[c].tries
      /\ conn'[c].sock = "open" => conn[c].sock = "open"
      /\ client'[s].pc # "active" /\ client'[s].at = 1
  BY <1>2, <1>3 DEF ConnType, WireType
<1>5. FirstTry(c)'
  BY <1>3, <1>4 DEF FirstTry, Counts, Grows
<1>6. (Known(s) /\ Back(s))'
  BY <1>3, <1>4 DEF Known, Back
<1>7. ASSUME NEW t \in Subs \ {s} PROVE (Known(t) /\ Back(t))'
  BY <1>1, StaysBack DEF Revisited
<1>. QED  BY <1>2, <1>5, <1>6, <1>7, StepRecon

LEMMA OpenedRecon == ASSUME General, ReconInv, Grows, NEW c \in Conns, Opened(c) PROVE ReconInv'
<1>1. /\ conn[c].sock = "connecting" /\ Elsewhere(c) /\ UNCHANGED sid
      /\ wire'[c].down = <<>> /\ conn'[c].sock = "open" /\ conn'[c].tries = 0
  BY OpenedStep DEF General
<1>2. client' = [s \in Subs |-> IF s \in Waiting(c) THEN [client[s] EXCEPT !.pc = "establish"] ELSE client[s]]
  BY OpenedStep DEF General
<1>3. \A k \in Loops : IF loop[k].pc = "connect" /\ loop[k].on = c
                       THEN \A r \in conn[c].regs : /\ loop'[k].pc = "run" /\ loop'[k].on = c
                                                    /\ r \notin loop'[k].seen \/ loop'[k].reg = r
                       ELSE loop'[k] = loop[k]
  BY OpenedStep DEF General
<1>4. FirstTry(c)'
  BY <1>1 DEF FirstTry, Counts
<1>5. ASSUME NEW s \in Waiting(c) PROVE s \in Subs /\ (Known(s) /\ Back(s))'
  <2>1. s \in Subs /\ client[s] \in ClientType /\ client[s].at = 1
    BY DEF Waiting, General, Base, Types, Held
  <2>2. client'[s].pc = "establish" /\ client'[s].at = 1 /\ Filters[s] \in {1, 2}
    BY <1>2, <2>1, RegIs DEF ClientType, General, Base
  <2>. QED  BY <2>1, <2>2 DEF Known, Back
<1>6. ASSUME NEW s \in Subs, s \notin Waiting(c) PROVE (Known(s) /\ Back(s))'
  <2>1. client'[s] = client[s]
    BY <1>2, <1>6
  <2>2. ASSUME client[s].pc = "active", NEW i \in 1..Filters[s], NEW k \in Loops, Revisited(client[s].on, k, <<s, i>>)
        PROVE  Revisited(client[s].on, k, <<s, i>>)'
    <3>1. <<s, i>> \in conn[client[s].on].regs
      BY <2>2 DEF General, Held
    <3>2. CASE loop[k].pc = "connect" /\ loop[k].on = c
      <4>1. client[s].on = c
        BY <2>2, <3>2 DEF Revisited
      <4>. QED  BY <1>3, <2>1, <3>1, <3>2, <4>1 DEF Revisited
    <3>3. CASE ~(loop[k].pc = "connect" /\ loop[k].on = c)
      BY <1>3, <2>1, <2>2, <3>3 DEF Revisited
    <3>. QED  BY <3>2, <3>3
  <2>. QED  BY <1>1, <2>1, <2>2, StaysBack
<1>. QED  BY <1>1, <1>4, <1>5, <1>6, StepRecon

LEMMA LostRecon ==
  ASSUME General, PastTypes, ReconInv, Grows, NEW c \in Conns, Refuse(c) \/ Drop(c) \/ Closed(c) PROVE ReconInv'
<1>. USE DEF General
<1>1. Lost(c)
  BY RefuseLost, DropLost, ClosedLost
<1>2. /\ Elsewhere(c) /\ conn'[c].sock = "none" /\ wire'[c] = NoWire
      /\ \A r \in Regs : client[r[1]].on # c => sid'[r] = sid[r]
      /\ \A s \in Subs : client[s].on # c => client'[s] = client[s]
      /\ \A k \in Loops : loop[k].on # c /\ loop[k].pc # "none" => loop'[k] = loop[k]
  BY <1>1 DEF Lost
<1>3. FirstTry(c)'
  <2>1. NoWire.down = <<>>
    BY DEF NoWire
  <2>. QED  BY <1>2, <2>1 DEF FirstTry, Counts
<1>4. OnlyOn(c)
  BY <1>2 DEF OnlyOn
<1>5. ASSUME NEW s \in Subs, client[s].on = c PROVE (Known(s) /\ Back(s))'
  <2>1. client'[s].pc # "establish" /\ client'[s].on = c /\ (client'[s].pc = "active" => client[s].pc = "active")
    BY <1>1, <1>5 DEF Lost
  <2>2. ASSUME client[s].pc = "active", MaxReconnects # 0, Drop(c) PROVE \E k \in Loops : loop'[k] = Timer(c)
    <3>1. <<s, 1>> \in conn[c].regs
      <4>1. 1 \in 1..Filters[s]
        BY RegIs DEF Base
      <4>. QED  BY <1>5, <2>2, <4>1 DEF Held
    <3>2. ~conn[c].closed /\ conn[c].regs # {}
      BY <3>1 DEF Held
    <3>3. conn[c].tries < MaxReconnects
      <4>1. conn[c].tries = 0
        BY <2>2, DropLost DEF ReconInv, FirstTry
      <4>. QED  BY <2>2, <4>1, Bounds DEF Base
    <3>. QED  BY <2>2, <3>2, <3>3, DropLost
  <2>3. ASSUME NEW k \in Loops, loop'[k] = Timer(c), NEW i PROVE Revisited(client[s].on, k, <<s, i>>)'
    BY <1>5, <2>1, <2>3 DEF Revisited, Timer
  <2>4. ASSUME client[s].pc = "active" PROVE ~Closed(c)
    <3>1. <<s, 1>> \in conn[c].regs
      <4>1. 1 \in 1..Filters[s]
        BY RegIs DEF Base
      <4>. QED  BY <1>5, <2>4, <4>1 DEF Held
    <3>2. ~conn[c].closed
      BY <3>1 DEF Held
    <3>. QED  BY <3>2, ClosedLost DEF Base
  <2>5. ASSUME Refuse(c), client[s].pc = "active", MaxReconnects # 0, Persists(c)', NEW i \in 1..Filters[s] PROVE Awaited(s, i)'
    <3>1. "ended" \notin past'[c]
      BY <2>5 DEF Persists
    <3>2. loop' = loop /\ sid' = sid
      BY <2>5, <3>1 DEF Refuse, Mark, PastTypes
    <3>3. Persists(c)
      BY <2>5 DEF Persists, Grows
    <3>4. Awaited(s, i)
      BY <1>5, <2>5, <3>3 DEF ReconInv, Back
    <3>. QED  BY <1>5, <2>1, <3>2, <3>4 DEF Awaited, Revisited, Loops
  <2>6. Back(s)'
    <3>. SUFFICES ASSUME MaxReconnects # 0, client'[s].pc = "active", Persists(c)', NEW i \in 1..Filters[s]
                  PROVE  Awaited(s, i)'
      BY <2>1 DEF Back, Persists
    <3>1. client[s].pc = "active"
      BY <2>1
    <3>2. CASE Refuse(c)
      BY <2>5, <3>1, <3>2
    <3>3. CASE Drop(c)
      BY <2>2, <2>3, <3>1, <3>3 DEF Awaited, Loops
    <3>. QED  BY <2>4, <3>1, <3>2, <3>3
  <2>. QED  BY <2>1, <2>6 DEF Known
<1>. QED  BY <1>2, <1>3, <1>4, <1>5, StepRecon

LEMMA FireRecon == ASSUME General, ReconInv, Grows, NEW k \in Loops, Fire(k) PROVE ReconInv'
<1>. USE DEF General
<1>0. PICK c \in Conns : c = loop[k].on
  BY FireStep
<1>1. /\ loop[k].pc = "timer" /\ UNCHANGED <<sid, client>> /\ Elsewhere(c) /\ \A j \in Loops \ {k} : loop'[j] = loop[j]
      /\ loop[k] \in LoopType /\ loop[k].seen = {} /\ conn[c] \in ConnType /\ SubscriptionAssumption
  BY ZenonT(60), <1>0, FireStep DEF Base, Types, Held
<1>2. \/ conn'[c] = conn[c] /\ wire'[c].down = wire[c].down /\ loop'[k] \in Visits(loop[k], conn[c].regs)
      \/ /\ conn'[c] = [conn[c] EXCEPT !.sock = "connecting"] /\ wire'[c] = wire[c]
         /\ loop'[k] = [loop[k] EXCEPT !.pc = "connect"]
      \/ conn[c].sock = "closing" /\ conn'[c] = conn[c] /\ wire'[c] = wire[c]
  BY <1>0, FireStep
<1>3. FirstTry(c)'
  <2>1. /\ wire'[c].down = wire[c].down /\ conn'[c].tries = conn[c].tries
        /\ conn'[c].sock = "open" => conn[c].sock = "open"
    BY <1>1, <1>2 DEF ConnType
  <2>. QED  BY <2>1 DEF FirstTry, Counts, ReconInv, Grows
<1>4. ASSUME NEW s \in Subs, client[s].pc = "active", NEW i \in 1..Filters[s],
             NEW j \in Loops, Revisited(client[s].on, j, <<s, i>>)
      PROVE  Revisited(client[s].on, j, <<s, i>>)'
  <2>1. CASE j # k
    BY <1>1, <1>4, <2>1 DEF Revisited
  <2>2. CASE j = k
    <3>1. client[s].on = c /\ client'[s].on = c
      BY <1>0, <1>1, <1>4, <2>2 DEF Revisited
    <3>2. <<s, i>> \in conn[c].regs
      BY <1>4, <3>1 DEF Held
    <3>3. conn[c].sock # "closing"
      BY <3>2 DEF Held, Base
    <3>4. CASE loop'[k] \in Visits(loop[k], conn[c].regs)
      <4>1. conn[c].regs \in SUBSET Regs /\ <<s, i>> \in conn[c].regs \ loop[k].seen
        BY <1>1, <3>2 DEF ConnType
      <4>2. /\ loop'[k].pc = "run" /\ (<<s, i>> \notin loop'[k].seen \/ loop'[k].reg = <<s, i>>)
            /\ loop'[k].on = loop[k].on
        BY <1>1, <3>4, <4>1, VisitsTypes
      <4>. QED  BY <1>0, <2>2, <3>1, <4>2 DEF Revisited
    <3>5. CASE loop'[k] = [loop[k] EXCEPT !.pc = "connect"]
      <4>1. loop'[k].pc = "connect" /\ loop'[k].on = c
        BY <1>0, <1>1, <3>5 DEF LoopType
      <4>. QED  BY <2>2, <3>1, <4>1 DEF Revisited
    <3>. QED  BY <1>2, <3>3, <3>4, <3>5
  <2>. QED  BY <2>1, <2>2
<1>5. \A s \in Subs : (Known(s) /\ Back(s))'
  BY <1>1, <1>4, StaysBack
<1>. QED  BY <1>1, <1>3, <1>5, StepRecon

LEMMA AddedRecon ==
  ASSUME General, ReconInv, Grows, NEW c \in Conns, Deliver(c), Head(wire[c].down).to.by = "add" PROVE ReconInv'
<1>. USE DEF General
<1>. DEFINE m == Head(wire[c].down)
            r == m.to.reg
            n == m.sid
<1>0. PICK i : i = r[2]
  OBVIOUS
<1>1. PICK s \in Subs : s = r[1]
  BY AddedStep
<1>2. /\ Elsewhere(c) /\ conn[c].sock = "open" /\ wire[c].down # <<>> /\ UNCHANGED loop
      /\ r \in Regs /\ client[s].pc = "establish" /\ client[s].on = c /\ client[s].at = i
      /\ \A t \in Subs \ {s} : client'[t] = client[t]
      /\ conn'[c].tries = conn[c].tries /\ wire'[c].down = Tail(wire[c].down) /\ n \in Nat
  BY <1>0, <1>1, AddedStep
<1>3. wire[c] \in WireType /\ sid \in [Regs -> Nat] /\ FirstTry(c)
  BY DEF Base, Types, ReconInv
<1>5. \/ client'[s].pc = "failed" /\ UNCHANGED sid
      \/ /\ n >= 1 /\ sid' = [sid EXCEPT ![r] = n]
         /\ \/ i = Filters[s] /\ client'[s].pc = "active"
            \/ client'[s].pc = "establish" /\ client'[s].at = i + 1
  BY ZenonT(60), <1>0, <1>1, AddedStep
<1>6. r = <<s, i>> /\ i \in 1..Filters[s] /\ Filters[s] \in {1, 2} /\ r[1] = s
  BY <1>0, <1>1, <1>2, RegIs DEF Base
<1>. HIDE DEF m, r, n
<1>7. ASSUME n >= 1, sid' = [sid EXCEPT ![r] = n], NEW j \in 1..Filters[s], j <= i PROVE sid'[<<s, j>>] # 0
  <2>1. <<s, j>> \in Regs
    BY RegIs DEF Base
  <2>2. CASE j = i
    <3>1. sid'[r] = n
      BY <1>2, <1>3, <1>7
    <3>. QED  BY <1>6, <1>7, <2>2, <3>1
  <2>3. CASE j # i
    <3>1. sid[<<s, j>>] # 0
      <4>1. j < i
        BY <1>6, <1>7, <2>3
      <4>. QED  BY <1>2, <4>1 DEF ReconInv, Known
    <3>2. <<s, j>> # r
      BY <1>6, <2>3
    <3>. QED  BY <1>3, <1>7, <2>1, <3>1, <3>2
  <2>. QED  BY <2>2, <2>3
<1>8. (Known(s) /\ Back(s))'
  <2>0. CASE client'[s].pc = "failed"
    BY <2>0 DEF Known, Back
  <2>1. CASE n >= 1 /\ sid' = [sid EXCEPT ![r] = n] /\ i = Filters[s] /\ client'[s].pc = "active"
    <3>1. \A j \in 1..Filters[s] : sid'[<<s, j>>] # 0
      BY <1>6, <1>7, <2>1
    <3>. QED  BY <2>1, <3>1 DEF Known, Back, Awaited
  <2>2. CASE n >= 1 /\ sid' = [sid EXCEPT ![r] = n] /\ client'[s].pc = "establish" /\ client'[s].at = i + 1
    <3>1. \A j \in 1..Filters[s] : j < i + 1 => sid'[<<s, j>>] # 0
      BY <1>6, <1>7, <2>2
    <3>. QED  BY <2>2, <3>1 DEF Known, Back
  <2>. QED  BY <1>5, <2>0, <2>1, <2>2
<1>9. \A q \in Regs : q[1] # s => sid'[q] = sid[q]
  BY <1>3, <1>5, <1>6
<1>10. \A t \in Subs \ {s} : (Known(t) /\ Back(t))'
  BY <1>2, <1>9, StaysBack DEF Revisited
<1>11. FirstTry(c)'
  <2>1. Counts(wire[c]) => Counts(wire[c])'
    BY <1>2, <1>3, TailCounts DEF Counts
  <2>. QED  BY <1>2, <1>3, <2>1 DEF FirstTry, Grows
<1>. QED  BY <1>2, <1>8, <1>10, <1>11, StepRecon

LEMMA ReestablishedRecon ==
  ASSUME General, ReconInv, Grows, NEW c \in Conns, Deliver(c), Head(wire[c].down).to.by = "loop" PROVE ReconInv'
<1>. USE DEF General
<1>. DEFINE m == Head(wire[c].down)
            r == m.to.reg
            n == m.sid
<1>1. PICK k \in Loops : k = m.to.loop
  BY ReestablishedStep
<1>2. /\ Elsewhere(c) /\ conn[c].sock = "open" /\ wire[c].down # <<>> /\ UNCHANGED client
      /\ r \in Regs /\ loop[k].pc = "run" /\ loop[k].on = c /\ loop[k].reg = r
      /\ \A j \in Loops \ {k} : loop'[j] = loop[j]
      /\ conn'[c].tries = conn[c].tries /\ wire'[c].down = Tail(wire[c].down) /\ n \in Nat
  BY <1>1, ReestablishedStep
<1>3. wire[c] \in WireType /\ sid \in [Regs -> Nat] /\ FirstTry(c) /\ loop[k] \in LoopType /\ conn[c].regs \in SUBSET Regs
  BY DEF Base, Types, ConnType, ReconInv
<1>4. n = 0 => "error" \in past[c]
  BY <1>2, <1>3, TailDown DEF FirstTry, Counts
<1>5. (n = 0 /\ UNCHANGED sid) \/ (n >= 1 /\ sid' = [sid EXCEPT ![r] = n] /\ loop'[k] \in Visits(loop[k], conn[c].regs))
  BY <1>1, ReestablishedStep
<1>. HIDE DEF m, r, n
<1>6. \A q \in Regs : q # r => sid'[q] = sid[q]
  BY <1>2, <1>3, <1>5
<1>7. \A q \in Regs : sid[q] # 0 => sid'[q] # 0
  BY <1>2, <1>3, <1>5
<1>8. ASSUME n >= 1, NEW s \in Subs, client[s].pc = "active", NEW i \in 1..Filters[s], sid'[<<s, i>>] = 0,
             NEW j \in Loops, Revisited(client[s].on, j, <<s, i>>)
      PROVE  Revisited(client[s].on, j, <<s, i>>)'
  <2>1. CASE j # k
    BY <1>2, <1>8, <2>1 DEF Revisited
  <2>2. CASE j = k
    <3>1. client[s].on = c /\ client'[s].on = c
      BY <1>2, <1>8, <2>2 DEF Revisited
    <3>2. <<s, i>> # r
      BY <1>2, <1>3, <1>5, <1>8
    <3>3. <<s, i>> \in conn[c].regs \ loop[k].seen
      BY <1>2, <1>8, <2>2, <3>1, <3>2 DEF Revisited, Held
    <3>4. /\ loop'[k].pc = "run" /\ (<<s, i>> \notin loop'[k].seen \/ loop'[k].reg = <<s, i>>)
          /\ loop'[k].on = loop[k].on
      BY <1>3, <1>5, <1>8, <3>3, VisitsTypes DEF Base
    <3>. QED  BY <1>2, <2>2, <3>1, <3>4 DEF Revisited
  <2>. QED  BY <2>1, <2>2
<1>9. ASSUME NEW s \in Subs PROVE (Known(s) /\ Back(s))'
  <2>1. CASE n >= 1
    BY <1>2, <1>7, <1>8, <2>1, StaysBack
  <2>2. CASE n = 0 /\ client[s].pc = "active" /\ client[s].on = c
    <3>1. ~Persists(c)'
      BY <1>4, <2>2 DEF Persists, Grows
    <3>. QED  BY <1>2, <2>2, <3>1 DEF Known, Back, Persists
  <2>3. CASE n = 0 /\ ~(client[s].pc = "active" /\ client[s].on = c)
    <3>1. \A i \in 1..Filters[s], j \in Loops : client[s].pc = "active" /\ Revisited(client[s].on, j, <<s, i>>)
                                                => Revisited(client[s].on, j, <<s, i>>)'
      BY <1>2, <2>3 DEF Revisited
    <3>. QED  BY <1>2, <1>7, <3>1, StaysBack
  <2>. QED  BY <1>2, <2>1, <2>2, <2>3
<1>10. FirstTry(c)'
  <2>1. Counts(wire[c]) => Counts(wire[c])'
    BY <1>2, <1>3, TailCounts DEF Counts
  <2>. QED  BY <1>2, <1>3, <2>1 DEF FirstTry, Grows
<1>. QED  BY <1>2, <1>9, <1>10, StepRecon

LEMMA RemovedRecon ==
  ASSUME General, ReconInv, Grows, NEW s \in Subs, NEW i \in Nat, NEW c \in Conns, NEW j \in Nat, Elsewhere(c),
         Counts(wire[c]) => Counts(wire[c])', client[s].on = c, UNCHANGED loop, Removed(s, i, c, j)
  PROVE  ReconInv'
<1>1. /\ \A r \in Regs : sid'[r] = IF Gone(s, i, j, r) THEN 0 ELSE sid[r]
      /\ conn'[c].tries = conn[c].tries /\ client'[s].pc \in {"done", "removing"}
      /\ \A t \in Subs \ {s} : client'[t] = client[t]
      /\ conn'[c].sock = "open" => conn[c].sock = "open"
  BY DEF Removed, Deleted, Tells, Finishes
<1>2. FirstTry(c)'
  BY <1>1 DEF FirstTry, ReconInv, Grows
<1>3. (Known(s) /\ Back(s))'
  BY <1>1 DEF Known, Back
<1>4. \A q \in Regs : q[1] # s => sid'[q] = sid[q]
  BY <1>1 DEF Gone
<1>5. \A t \in Subs \ {s} : (Known(t) /\ Back(t))'
  BY <1>1, <1>4, StaysBack DEF Revisited
<1>. QED  BY <1>2, <1>3, <1>5, StepRecon

LEMMA UnsubscribeRecon == ASSUME General, ReconInv, Grows, NEW s \in Subs, Unsubscribe(s) PROVE ReconInv'
<1>1. PICK c \in Conns : c = client[s].on
  BY UnsubscribeStep DEF General
<1>2. /\ UNCHANGED loop /\ Elsewhere(c) /\ wire'[c].down = wire[c].down /\ \E j \in Nat : Removed(s, 1, c, j)
  BY <1>1, UnsubscribeStep DEF General
<1>3. PICK j \in Nat : Removed(s, 1, c, j)
  BY <1>2
<1>4. Counts(wire[c]) => Counts(wire[c])'
  BY <1>2 DEF Counts
<1>. QED  BY <1>1, <1>2, <1>3, <1>4, RemovedRecon

LEMMA DeliverRecon == ASSUME General, ReconInv, Grows, NEW c \in Conns, Deliver(c) PROVE ReconInv'
<1>. USE DEF General
<1>. DEFINE m == Head(wire[c].down)
<1>1. m.to.by \in {"tick", "add", "loop", "remove"} /\ wire[c] \in WireType
  BY HeadOf DEF Turns, Deliver, Base, Types
<1>2. ASSUME m.to.by = "tick" PROVE ReconInv'
  <2>1. /\ Elsewhere(c) /\ conn'[c] = conn[c] /\ UNCHANGED <<sid, client, loop>>
        /\ wire[c].down # <<>> /\ wire'[c].down = Tail(wire[c].down)
    BY <1>2, TickedStep
  <2>2. Counts(wire[c]) => Counts(wire[c])'
    BY <1>1, <2>1, TailCounts DEF Counts
  <2>. QED  BY <2>1, <2>2, QuietRecon
<1>3. ASSUME m.to.by = "remove" PROVE ReconInv'
  <2>1. PICK s \in Subs, i \in Nat : s = m.to.reg[1] /\ i = m.to.reg[2] + 1
    BY <1>3, RemovedStep
  <2>2. /\ Elsewhere(c) /\ UNCHANGED loop /\ client[s].on = c
        /\ wire[c].down # <<>> /\ wire'[c].down = Tail(wire[c].down)
        /\ \E j \in Nat : Removed(s, i, c, j)
    BY <1>3, <2>1, RemovedStep
  <2>3. PICK j \in Nat : Removed(s, i, c, j)
    BY <2>2
  <2>4. Counts(wire[c]) => Counts(wire[c])'
    BY <1>1, <2>2, TailCounts DEF Counts
  <2>. QED  BY <2>1, <2>2, <2>3, <2>4, RemovedRecon
<1>. QED  BY <1>1, <1>2, <1>3, AddedRecon, ReestablishedRecon

LEMMA InitRecon == ASSUME Init PROVE ReconInv
<1>1. (\A c \in Conns : wire[c].down = <<>> /\ conn[c].sock = "none") /\ \A s \in Subs : client[s].pc = "idle"
  BY DEF Init, NoWire
<1>. QED  BY <1>1 DEF ReconInv, FirstTry, Counts, Known, Back

LEMMA KeepsRecon == ASSUME General, Noted, ReconInv, [Next]_vars PROVE ReconInv'
<1>. USE DEF General
<1>1. ASSUME UNCHANGED vars PROVE ReconInv'
  BY <1>1 DEF vars, ReconInv, FirstTry, Counts, Known, Back, Persists, Awaited, Revisited
<1>. SUFFICES ASSUME Next PROVE ReconInv'
  BY <1>1
<1>2. PastTypes /\ Grows
  BY PastGrows DEF Noted, Grows
<1>3. ASSUME NEW c \in Conns, NEW call \in wire[c].calls, NEW ok \in BOOLEAN, Serve(c, call, ok) PROVE ReconInv'
  <2>1. Elsewhere(c) /\ conn'[c] = conn[c] /\ UNCHANGED <<sid, client, loop>>
    BY <1>3, ServeStep
  <2>2. "error" \notin past'[c] /\ Counts(wire[c]) => Counts(wire[c])'
    BY <1>2, <1>3, ServeCounts
  <2>. QED  BY <1>2, <2>1, <2>2, QuietRecon
<1>4. ASSUME NEW c \in Conns, NEW e \in wire[c].subs, Tick(c, e) PROVE ReconInv'
  <2>1. Elsewhere(c) /\ conn'[c] = conn[c] /\ UNCHANGED <<sid, client, loop>>
    BY <1>4, TickStep
  <2>2. Counts(wire[c]) => Counts(wire[c])'
    BY <1>4, TickCounts
  <2>. QED  BY <1>2, <2>1, <2>2, QuietRecon
<1>. QED  BY <1>2, <1>3, <1>4, SubscribeRecon, UnsubscribeRecon, OpenedRecon, LostRecon, FireRecon, DeliverRecon DEF Next

LEMMA ReconMeans == ASSUME General, ReconInv PROVE OnItsWay
<1>. SUFFICES ASSUME NEW s \in Subs, client[s].pc = "active", Persists(client[s].on), conn[client[s].on].tries < MaxReconnects,
                     NEW i \in 1..Filters[s], sid[<<s, i>>] = 0
              PROVE  \E k \in Loops : loop[k].on = client[s].on /\ loop[k].pc # "none"
  BY DEF OnItsWay
<1>1. MaxReconnects # 0
  <2>1. client[s].on \in Conns
    BY OnConn DEF General
  <2>2. conn[client[s].on].tries \in 0..MaxReconnects /\ MaxReconnects \in Nat
    BY <2>1, Bounds DEF General, Base, Types, ConnType
  <2>. QED  BY <2>2
<1>2. PICK k \in Loops : Revisited(client[s].on, k, <<s, i>>)
  BY <1>1 DEF ReconInv, Back, Awaited
<1>. QED  BY <1>2 DEF Revisited

\* While attempts remain, a subscription that lost its server id is on its way to a new one, however often the socket
\* drops and in whatever order the registrations are visited, unless the socket of a reconnect was refused or a call
\* failed (adapters/subscription.ts:146-204).
THEOREM LostSubscriptionsReturn == ASSUME SubscriptionAssumption PROVE Spec => []OnItsWay
<1>. DEFINE I == General /\ Noted /\ ReconInv
<1>1. Init => I
  BY InitGeneral, InitNoted, InitRecon
<1>2. I /\ [Next]_vars => I'
  BY KeepsGeneral, KeepsNoted, KeepsRecon
<1>3. I => OnItsWay
  BY ReconMeans
<1>. QED  BY <1>1, <1>2, <1>3, PTL DEF Spec
=============================================================================
