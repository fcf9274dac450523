--------------------------- MODULE ServicesProofs ---------------------------
(***************************************************************************)
(* The services around the wallet for every number of transactions,        *)
(* questions, reads and faults, one part after the other, and then the     *)
(* composition: a step of one part leaves the others alone.                *)
(***************************************************************************)
EXTENDS Services, FiniteSetTheorems, SequenceTheorems, TLAPS

-----------------------------------------------------------------------------
(* Gossip: lists of tips and counts of connections                         *)

RoomObject == [tips : Seq(Tips), peers : Nat]
At(w) == {l \in ends : l[1] = w}

\* unshift of a tip that is not there.
LEMMA UnshiftedOnce ==
  ASSUME NEW s \in Seq(Tips), NEW t \in Tips, t \notin ToSet(s), IsInjective(s)
  PROVE  /\ <<t>> \o s \in Seq(Tips)
         /\ t \in ToSet(<<t>> \o s) /\ ToSet(s) \subseteq ToSet(<<t>> \o s)
         /\ IsInjective(<<t>> \o s)
<1> DEFINE u == <<t>> \o s
<1>1. u \in Seq(Tips) /\ Len(u) = Len(s) + 1 /\ Len(s) \in Nat OBVIOUS
<1>2. DOMAIN u = 1..(Len(s) + 1) /\ DOMAIN s = 1..Len(s) BY <1>1
<1>3. u[1] = t /\ \A i \in 1..Len(s) : u[i + 1] = s[i] BY <1>1
<1>4. t \in ToSet(u) BY <1>2, <1>3, <1>1 DEF ToSet
<1>5. ToSet(s) \subseteq ToSet(u)
  <2> SUFFICES ASSUME NEW i \in 1..Len(s) PROVE s[i] \in ToSet(u) BY <1>2 DEF ToSet
  <2>1. i + 1 \in DOMAIN u /\ u[i + 1] = s[i] BY <1>1, <1>2, <1>3
  <2> QED BY <2>1 DEF ToSet
<1>6. IsInjective(u)
  <2> SUFFICES ASSUME NEW i \in DOMAIN u, NEW j \in DOMAIN u, u[i] = u[j] PROVE i = j BY DEF IsInjective
  <2>1. \A k \in DOMAIN u : k # 1 => k - 1 \in DOMAIN s /\ u[k] = s[k - 1]
    <3> SUFFICES ASSUME NEW k \in DOMAIN u, k # 1 PROVE k - 1 \in DOMAIN s /\ u[k] = s[k - 1] OBVIOUS
    <3>1. k - 1 \in 1..Len(s) /\ (k - 1) + 1 = k BY <1>1, <1>2
    <3> QED BY <3>1, <1>2, <1>3
  <2>2. \A k \in DOMAIN s : s[k] # t BY DEF ToSet
  <2>3. CASE i = 1 \/ j = 1 BY <2>1, <2>2, <2>3, <1>3
  <2>4. CASE i # 1 /\ j # 1
    <3>1. i - 1 = j - 1 BY <2>1, <2>4 DEF IsInjective
    <3> QED BY <3>1, <1>1, <1>2
  <2> QED BY <2>3, <2>4
<1> QED BY <1>1, <1>4, <1>5, <1>6

\* A room lists a tip: it keeps what it listed, and lists nothing twice.
LEMMA UnshiftKeeps ==
  ASSUME swarm \in [Swarms -> RoomObject], ListedOnce, NEW w \in Swarms, NEW t \in Tips
  PROVE  /\ Unshift(w, t) \in [Swarms -> RoomObject]
         /\ t \in ToSet(Unshift(w, t)[w].tips)
         /\ \A v \in Swarms : /\ ToSet(swarm[v].tips) \subseteq ToSet(Unshift(w, t)[v].tips)
                              /\ Unshift(w, t)[v].peers = swarm[v].peers
                              /\ IsInjective(Unshift(w, t)[v].tips)
<1>1. CASE t \in ToSet(swarm[w].tips) BY <1>1 DEF Unshift, ListedOnce
<1>2. CASE t \notin ToSet(swarm[w].tips)
  <2> DEFINE u == <<t>> \o swarm[w].tips
  <2>1. swarm[w].tips \in Seq(Tips) /\ IsInjective(swarm[w].tips) BY DEF RoomObject, ListedOnce
  <2>2. /\ u \in Seq(Tips) /\ t \in ToSet(u)
        /\ ToSet(swarm[w].tips) \subseteq ToSet(u) /\ IsInjective(u)
    BY <1>2, <2>1, UnshiftedOnce
  <2>3. Unshift(w, t) = [swarm EXCEPT ![w].tips = u] BY <1>2 DEF Unshift
  <2> HIDE DEF u
  <2>4. Unshift(w, t)[w].tips = u /\ Unshift(w, t)[w].peers = swarm[w].peers BY <2>3 DEF RoomObject
  <2>5. \A v \in Swarms \ {w} : Unshift(w, t)[v] = swarm[v] BY <2>3
  <2>6. Unshift(w, t) \in [Swarms -> RoomObject] BY <2>2, <2>3 DEF RoomObject
  <2> QED BY <2>2, <2>4, <2>5, <2>6 DEF ListedOnce
<1> QED BY <1>1, <1>2

-----------------------------------------------------------------------------
(* The invariant                                                           *)

Types ==
  /\ made \in [Nodes -> Nat] /\ room \in [Nodes -> Nat]
  /\ \A n \in Nodes : room[n] <= made[n] /\ made[n] <= MaxSwarms
  /\ swarm \in [Swarms -> RoomObject]
  /\ pc \in [Requests -> {"idle", "load", "flush", "ok", "failed"}] /\ obj \in [Requests -> Nat]
  /\ ends \subseteq Links /\ IsFiniteSet(ends)
  /\ sent \in [Links -> Seq(Tips)]
  /\ acked \in [Nodes -> SUBSET Tips]

\* The map lists the room made last, and a request holds one that was made.
InHand == /\ room = made
          /\ \A q \in Requests : pc[q] = "flush" => obj[q] \in 1..made[q.node]

AckedIsHeld == \A n \in Nodes : acked[n] \subseteq Held(n)

GInv == Types /\ InHand /\ ListedOnce /\ AckedIsHeld /\ PeersAreConnections

\* A room that a sidecar made is among the room objects.
LEMMA IsMade ==
  ASSUME Types, NEW n \in Nodes, NEW i \in 1..made[n] PROVE <<n, i>> \in Swarms
<1>1. made[n] \in Nat /\ made[n] <= MaxSwarms /\ MaxSwarms \in Nat BY GossipAssumption DEF Types
<1>2. i \in 1..MaxSwarms BY <1>1
<1> QED BY <1>2 DEF Swarms

\* What is held is listed, as long as there is one room to hold it.
LEMMA OneRoomListsAll == ASSUME GInv PROVE GossipIsSound
<1>1. ASSUME NEW n \in Nodes, made[n] <= 1 PROVE acked[n] \subseteq Listed(n)
  <2>1. made[n] \in Nat /\ room[n] = made[n] /\ acked[n] \subseteq Held(n)
    BY DEF GInv, Types, InHand, AckedIsHeld
  <2>2. CASE made[n] = 0
    <3>1. 1..made[n] = {} BY <2>2
    <3> QED BY <2>1, <3>1 DEF Held
  <2>3. CASE made[n] = 1
    <3>1. 1..made[n] = {1} BY <2>3
    <3> QED BY <2>1, <2>3, <3>1 DEF Held, Listed
  <2> QED BY <1>1, <2>1, <2>2, <2>3
<1> QED BY <1>1 DEF GInv, AckedIsHeld, GossipIsSound, AnnouncedIsKept

\* Lists that only grow keep what was announced in them.
LEMMA GrownLists ==
  ASSUME GInv, UNCHANGED <<made, acked>>,
         \A v \in Swarms : ToSet(swarm[v].tips) \subseteq ToSet(swarm'[v].tips)
  PROVE  AckedIsHeld'
<1> SUFFICES ASSUME NEW n \in Nodes, NEW t \in acked[n] PROVE t \in Held(n)' BY DEF AckedIsHeld
<1>1. PICK i \in 1..made[n] : t \in ToSet(swarm[<<n, i>>].tips) BY DEF GInv, AckedIsHeld, Held
<1>2. <<n, i>> \in Swarms BY IsMade DEF GInv
<1> QED BY <1>1, <1>2 DEF Held

-----------------------------------------------------------------------------
(* The steps                                                               *)

\* The rest of a handler lists the tip in the room it holds.
LEMMA HandledKeeps ==
  ASSUME GInv, NEW q \in Requests, NEW i \in 1..made[q.node], Handled(q, i), UNCHANGED <<room, made, ends>>
  PROVE  GInv'
<1> DEFINE n == q.node
           w == <<n, i>>
<1>0. n \in Nodes /\ q.tip \in Tips \cup {NoTip} BY GossipAssumption
<1>1. w \in Swarms /\ i \in Nat BY <1>0, IsMade DEF GInv, Types
<1>2. pc' = [pc EXCEPT ![q] = "ok"] /\ obj' = [obj EXCEPT ![q] = i] BY DEF Handled
<1>3. InHand' BY <1>2 DEF GInv, Types, InHand
<1>4. /\ pc' \in [Requests -> {"idle", "load", "flush", "ok", "failed"}]
      /\ obj' \in [Requests -> Nat]
  BY <1>1, <1>2 DEF GInv, Types
<1>5. CASE q.tip = NoTip
  <2>1. UNCHANGED <<swarm, sent, acked>> BY <1>5 DEF Handled
  <2>2. Types' BY <1>4, <2>1 DEF GInv, Types
  <2> QED BY <1>3, <2>1, <2>2 DEF GInv, ListedOnce, AckedIsHeld, Held, PeersAreConnections
<1>6. CASE q.tip # NoTip
  <2>0. q.tip \in Tips BY <1>0, <1>6
  <2>1. /\ swarm' = Unshift(w, q.tip) /\ sent' = Broadcast(n, q.tip)
        /\ acked' = [acked EXCEPT ![n] = @ \cup {q.tip}]
    BY <1>6 DEF Handled
  <2>2. /\ swarm' \in [Swarms -> RoomObject] /\ q.tip \in ToSet(swarm'[w].tips)
        /\ \A v \in Swarms : /\ ToSet(swarm[v].tips) \subseteq ToSet(swarm'[v].tips)
                             /\ swarm'[v].peers = swarm[v].peers /\ IsInjective(swarm'[v].tips)
    BY <1>1, <2>0, <2>1, UnshiftKeeps DEF GInv, Types
  <2>3. sent' \in [Links -> Seq(Tips)]
    <3>1. \A l \in Links : sent[l] \in Seq(Tips) /\ Append(sent[l], q.tip) \in Seq(Tips)
      BY <2>0 DEF GInv, Types
    <3> QED BY <2>1, <3>1 DEF Broadcast
  <2>4. acked' \in [Nodes -> SUBSET Tips] BY <2>0, <2>1 DEF GInv, Types
  <2>5. Types' BY <1>4, <2>2, <2>3, <2>4 DEF GInv, Types
  <2>6. ASSUME NEW m \in Nodes, NEW t \in acked'[m] PROVE t \in Held(m)'
    <3>1. CASE m = n /\ t = q.tip BY <2>2, <3>1 DEF Held
    <3>2. CASE t \in acked[m]
      <4>1. PICK k \in 1..made[m] : t \in ToSet(swarm[<<m, k>>].tips) BY <3>2 DEF GInv, AckedIsHeld, Held
      <4>2. <<m, k>> \in Swarms BY IsMade DEF GInv
      <4> QED BY <2>2, <4>1, <4>2 DEF Held
    <3> QED BY <1>0, <2>1, <2>6, <3>1, <3>2 DEF GInv, Types
  <2> QED BY <1>3, <2>2, <2>5, <2>6 DEF GInv, AckedIsHeld, PeersAreConnections, ListedOnce
<1> QED BY <1>5, <1>6

LEMMA JoinRoomKeeps ==
  ASSUME GInv, NEW q \in Requests, JoinRoom(q) PROVE GInv'
<1>0. q.node \in Nodes BY GossipAssumption
<1>1. CASE room[q.node] # 0
  <2>1. room[q.node] \in 1..made[q.node] BY <1>0, <1>1 DEF GInv, Types, InHand
  <2> QED BY <1>1, <2>1, HandledKeeps DEF JoinRoom
<1>2. CASE room[q.node] = 0
  <2>1. pc' = [pc EXCEPT ![q] = "load"] /\ UNCHANGED <<obj, swarm, sent, acked, room, made, ends>>
    BY <1>2 DEF JoinRoom
  <2>2. Types' BY <2>1 DEF GInv, Types
  <2>3. InHand' BY <2>1 DEF GInv, Types, InHand
  <2> QED BY <2>1, <2>2, <2>3 DEF GInv, ListedOnce, AckedIsHeld, Held, PeersAreConnections
<1> QED BY <1>1, <1>2

LEMMA LoadedKeeps ==
  ASSUME GInv, NEW q \in Requests, Loaded(q) PROVE GInv'
<1> DEFINE n == q.node
           i == made[n] + 1
<1>0. n \in Nodes BY GossipAssumption
<1>1. /\ made' = [made EXCEPT ![n] = i] /\ room' = [room EXCEPT ![n] = i]
      /\ pc' = [pc EXCEPT ![q] = "flush"] /\ obj' = [obj EXCEPT ![q] = i]
      /\ UNCHANGED <<swarm, ends, sent, acked>> /\ pc[q] = "load" /\ made[n] < MaxSwarms
  BY DEF Loaded
<1>2. made[n] \in Nat /\ i \in Nat /\ i # 0 /\ i <= MaxSwarms
  <2>1. made[n] \in Nat /\ MaxSwarms \in Nat BY <1>0, GossipAssumption DEF GInv, Types
  <2> QED BY <1>1, <2>1
<1>4. made' \in [Nodes -> Nat] /\ room' \in [Nodes -> Nat] /\ made'[n] = i /\ room'[n] = i
  BY <1>0, <1>1, <1>2 DEF GInv, Types
<1>5. \A m \in Nodes \ {n} : made'[m] = made[m] /\ room'[m] = room[m] BY <1>1 DEF GInv, Types
<1>6. ASSUME NEW m \in Nodes PROVE room'[m] <= made'[m] /\ made'[m] <= MaxSwarms
  <2> HIDE DEF n
  <2>1. CASE m = n BY <1>2, <1>4, <2>1
  <2>2. CASE m # n BY <1>5, <2>2 DEF GInv, Types
  <2> QED BY <2>1, <2>2
<1>7. Types' BY <1>1, <1>2, <1>4, <1>6 DEF GInv, Types
<1>8. \A m \in Nodes : 1..made[m] \subseteq 1..made'[m]
  <2> SUFFICES ASSUME NEW m \in Nodes PROVE 1..made[m] \subseteq 1..made'[m] OBVIOUS
  <2> HIDE DEF n
  <2>1. CASE m = n BY <1>2, <1>4, <2>1
  <2>2. CASE m # n BY <1>5, <2>2
  <2> QED BY <2>1, <2>2
<1>9. InHand'
  <2>1. room' = made' BY <1>1 DEF GInv, InHand
  <2>2. ASSUME NEW a \in Requests, pc'[a] = "flush" PROVE obj'[a] \in 1..made'[a.node]
    <3>1. CASE a = q
      <4>1. obj'[a] = i /\ made'[a.node] = i BY <1>1, <1>4, <3>1 DEF GInv, Types
      <4> HIDE DEF i, n
      <4> QED BY <1>2, <4>1
    <3>2. CASE a # q
      <4>1. pc[a] = "flush" /\ obj'[a] = obj[a] BY <1>1, <2>2, <3>2 DEF GInv, Types
      <4>2. a.node \in Nodes BY GossipAssumption
      <4> QED BY <1>8, <4>1, <4>2 DEF GInv, InHand
    <3> QED BY <3>1, <3>2
  <2> QED BY <2>1, <2>2 DEF InHand
<1>10. AckedIsHeld' BY <1>1, <1>8 DEF GInv, AckedIsHeld, Held
<1> QED BY <1>1, <1>7, <1>9, <1>10 DEF GInv, ListedOnce, PeersAreConnections

LEMMA LoadFailsKeeps ==
  ASSUME GInv, NEW q \in Requests, LoadFails(q) PROVE GInv'
<1>1. pc' = [pc EXCEPT ![q] = "failed"] /\ UNCHANGED <<room, swarm, made, obj, ends, sent, acked>>
  BY DEF LoadFails
<1>2. Types' BY <1>1 DEF GInv, Types
<1>3. InHand' BY <1>1 DEF GInv, Types, InHand
<1> QED BY <1>1, <1>2, <1>3 DEF GInv, ListedOnce, AckedIsHeld, Held, PeersAreConnections

LEMMA FlushedKeeps ==
  ASSUME GInv, NEW q \in Requests, Flushed(q) PROVE GInv'
<1>1. pc[q] = "flush" /\ Handled(q, obj[q]) /\ UNCHANGED <<room, made, ends>> BY DEF Flushed
<1>2. obj[q] \in 1..made[q.node] BY <1>1 DEF GInv, InHand
<1> QED BY <1>1, <1>2, HandledKeeps

\* A step that leaves the requests and the map alone.
LEMMA RequestsStand ==
  ASSUME InHand, UNCHANGED <<room, made, pc, obj>> PROVE InHand'
BY DEF InHand

LEMMA ConnectedKeeps ==
  ASSUME GInv, NEW l \in Links, Connected(l) PROVE GInv'
<1>1. /\ l \notin ends /\ ends' = ends \cup {l} /\ swarm' = [swarm EXCEPT ![l[1]].peers = @ + 1]
      /\ sent' = [sent EXCEPT ![l] = Shared(l[1])] /\ UNCHANGED <<room, made, pc, obj, acked>>
  BY DEF Connected
<1>2. l[1] \in Swarms BY DEF Links
<1>3. /\ swarm' \in [Swarms -> RoomObject]
      /\ \A w \in Swarms : swarm'[w].tips = swarm[w].tips
      /\ \A w \in Swarms : swarm'[w].peers = IF w = l[1] THEN swarm[w].peers + 1 ELSE swarm[w].peers
  <2>1. swarm \in [Swarms -> RoomObject] BY DEF GInv, Types
  <2> DEFINE v == l[1]
             new == [swarm[v] EXCEPT !.peers = @ + 1]
  <2>2. swarm[v] \in RoomObject BY <1>2, <2>1
  <2>3. new \in RoomObject /\ new.tips = swarm[v].tips /\ new.peers = swarm[v].peers + 1
    BY <2>2 DEF RoomObject
  <2>4. swarm' = [swarm EXCEPT ![v] = new] BY <1>1
  <2> HIDE DEF new, v
  <2>5. \A w \in Swarms : swarm'[w] = IF w = v THEN new ELSE swarm[w] BY <2>1, <2>4
  <2>6. swarm' \in [Swarms -> RoomObject] BY <2>1, <2>3, <2>4
  <2>7. v = l[1] BY DEF v
  <2> QED BY <2>3, <2>5, <2>6, <2>7
<1>4. Shared(l[1]) \in Seq(Tips)
  <2>1. swarm[l[1]].tips \in Seq(Tips) /\ Recent \in Nat BY <1>2, GossipAssumption DEF GInv, Types, RoomObject
  <2> HIDE DEF GInv
  <2>2. \A s \in Seq(Tips) : \A k \in 0..Len(s) : SubSeq(s, 1, k) \in Seq(Tips) OBVIOUS
  <2>3. Len(swarm[l[1]].tips) \in Nat BY <2>1
  <2> QED BY <2>1, <2>2, <2>3 DEF Shared
<1>5. IsFiniteSet(ends') /\ ends' \subseteq Links BY <1>1, FS_AddElement DEF GInv, Types
<1>6. Types' BY <1>1, <1>3, <1>4, <1>5 DEF GInv, Types
<1>7. ASSUME NEW w \in Swarms PROVE swarm'[w].peers = Cardinality({k \in ends' : k[1] = w})
  <2>1. swarm[w].peers = Cardinality(At(w)) BY DEF GInv, PeersAreConnections, At
  <2>2. CASE w = l[1]
    <3>1. {k \in ends' : k[1] = w} = At(w) \cup {l} /\ l \notin At(w) BY <1>1, <2>2 DEF At
    <3>2. IsFiniteSet(At(w)) BY FS_Subset DEF GInv, Types, At
    <3>3. Cardinality(At(w) \cup {l}) = Cardinality(At(w)) + 1 BY <3>1, <3>2, FS_AddElement
    <3> QED BY <1>3, <2>1, <2>2, <3>1, <3>3
  <2>3. CASE w # l[1]
    <3>1. {k \in ends' : k[1] = w} = At(w) BY <1>1, <2>3 DEF At
    <3> QED BY <1>3, <2>1, <2>3, <3>1
  <2> QED BY <2>2, <2>3
<1>8. AckedIsHeld' BY <1>1, <1>3, GrownLists
<1>9. ListedOnce' BY <1>3 DEF GInv, ListedOnce
<1>10. InHand' BY <1>1, RequestsStand DEF GInv
<1> QED BY <1>6, <1>7, <1>8, <1>9, <1>10 DEF GInv, PeersAreConnections

LEMMA ReceivedKeeps ==
  ASSUME GInv, NEW l \in Links, Received(l) PROVE GInv'
<1>1. /\ sent[l] # <<>> /\ sent' = [sent EXCEPT ![l] = Tail(@)] /\ swarm' = Unshift(l[2], Head(sent[l]))
      /\ UNCHANGED <<room, made, pc, obj, ends, acked>>
  BY DEF Received
<1>2. sent[l] \in Seq(Tips) BY DEF GInv, Types
<1>3. Head(sent[l]) \in Tips /\ Tail(sent[l]) \in Seq(Tips) BY <1>1, <1>2
<1>4. l[2] \in Swarms BY DEF Links
<1>5. /\ swarm' \in [Swarms -> RoomObject]
      /\ \A v \in Swarms : /\ ToSet(swarm[v].tips) \subseteq ToSet(swarm'[v].tips)
                           /\ swarm'[v].peers = swarm[v].peers /\ IsInjective(swarm'[v].tips)
  BY <1>1, <1>3, <1>4, UnshiftKeeps DEF GInv, Types
<1>6. Types' BY <1>1, <1>3, <1>5 DEF GInv, Types
<1>7. AckedIsHeld' BY <1>1, <1>5, GrownLists
<1>8. ListedOnce' /\ PeersAreConnections'
  BY <1>1, <1>5 DEF GInv, PeersAreConnections, ListedOnce
<1>9. InHand' BY <1>1, RequestsStand DEF GInv
<1> QED BY <1>6, <1>7, <1>8, <1>9 DEF GInv

\* Closed connections are counted out, each once.
LEMMA CountedOut ==
  ASSUME GInv, NEW w \in Swarms, NEW gone
  PROVE  Counted(w, {l \in gone \cap ends : l[1] = w}) = Cardinality({l \in ends \ gone : l[1] = w})
<1> DEFINE lost == {l \in gone \cap ends : l[1] = w}
<1>1. IsFiniteSet(At(w)) /\ swarm[w].peers = Cardinality(At(w))
  BY FS_Subset DEF GInv, Types, At, PeersAreConnections
<1>2. {l \in ends \ gone : l[1] = w} = At(w) \ gone /\ At(w) \cap gone = lost BY Zenon DEF At
<1> HIDE DEF lost
<1>3. Cardinality(At(w) \ gone) = Cardinality(At(w)) - Cardinality(At(w) \cap gone) BY <1>1, FS_Difference
<1>4. IsFiniteSet(lost) /\ Cardinality(lost) <= Cardinality(At(w)) BY <1>1, <1>2, FS_Intersection
<1>5. Cardinality(At(w)) \in Nat /\ Cardinality(lost) \in Nat BY <1>1, <1>4, FS_CardinalityType
<1>6. Counted(w, lost) = Cardinality(At(w)) - Cardinality(lost) BY <1>1, <1>4, <1>5 DEF Counted
<1> QED BY <1>2, <1>3, <1>6 DEF lost

LEMMA CloseKeeps ==
  ASSUME GInv, NEW l \in Links, Close(l) PROVE GInv'
<1> DEFINE gone == {l, <<l[2], l[1]>>}
<1>1. /\ ends' = ends \ gone /\ sent' = Dropped(gone) /\ UNCHANGED <<room, made, pc, obj, acked>>
      /\ swarm' = [w \in Swarms |-> [swarm[w] EXCEPT !.peers = Counted(w, {k \in gone \cap ends : k[1] = w})]]
  BY DEF Close, Cut
<1> HIDE DEF gone
<1>2. ends' \subseteq Links /\ IsFiniteSet(ends') BY <1>1, FS_Difference DEF GInv, Types
<1>3. ASSUME NEW w \in Swarms
      PROVE  /\ swarm'[w].tips = swarm[w].tips
             /\ swarm'[w].peers = Cardinality({k \in ends' : k[1] = w})
             /\ swarm'[w] \in RoomObject
  <2>1. Counted(w, {k \in gone \cap ends : k[1] = w}) = Cardinality({k \in ends' : k[1] = w})
    BY <1>1, CountedOut
  <2>2. Cardinality({k \in ends' : k[1] = w}) \in Nat
    <3>1. IsFiniteSet({k \in ends' : k[1] = w}) BY <1>2, FS_Subset
    <3> QED BY <3>1, FS_CardinalityType
  <2>3. swarm[w] \in RoomObject BY DEF GInv, Types
  <2>4. swarm'[w] = [swarm[w] EXCEPT !.peers = Cardinality({k \in ends' : k[1] = w})] BY <1>1, <2>1
  <2> QED BY <2>2, <2>3, <2>4 DEF RoomObject
<1>4. swarm' \in [Swarms -> RoomObject]
  <2>1. DOMAIN swarm' = Swarms /\ swarm' = [w \in Swarms |-> swarm'[w]] BY <1>1
  <2> QED BY <1>3, <2>1
<1>5. sent' \in [Links -> Seq(Tips)] BY <1>1 DEF GInv, Types, Dropped
<1>6. Types' BY <1>1, <1>2, <1>4, <1>5 DEF GInv, Types
<1>7. AckedIsHeld' BY <1>1, <1>3, GrownLists
<1>8. ListedOnce' /\ PeersAreConnections'
  BY <1>3 DEF GInv, PeersAreConnections, ListedOnce
<1>9. InHand' BY <1>1, RequestsStand DEF GInv
<1> QED BY <1>6, <1>7, <1>8, <1>9 DEF GInv

LEMMA RestartKeeps ==
  ASSUME GInv, NEW n \in Nodes, Restart(n) PROVE GInv'
<1> DEFINE gone == {l \in Links : l[1][1] = n \/ l[2][1] = n}
<1>1. /\ room' = [room EXCEPT ![n] = 0] /\ made' = [made EXCEPT ![n] = 0] /\ acked' = [acked EXCEPT ![n] = {}]
      /\ ends' = ends \ gone /\ sent' = Dropped(gone) /\ obj' = obj
      /\ swarm' = [w \in Swarms |->
           IF w[1] = n THEN [tips |-> <<>>, peers |-> 0]
           ELSE [swarm[w] EXCEPT !.peers = Counted(w, {k \in gone \cap ends : k[1] = w})]]
      /\ pc' = [q \in Requests |-> IF q.node = n /\ pc[q] \in {"load", "flush"} THEN "failed" ELSE pc[q]]
  BY DEF Restart
<1>2. \A w \in Swarms : w[1] = n => {k \in ends' : k[1] = w} = {} BY <1>1 DEF GInv, Types
<1> HIDE DEF gone
<1>3. ends' \subseteq Links /\ IsFiniteSet(ends') BY <1>1, FS_Difference DEF GInv, Types
<1>4. ASSUME NEW w \in Swarms
      PROVE  /\ swarm'[w].tips = IF w[1] = n THEN <<>> ELSE swarm[w].tips
             /\ swarm'[w].peers = Cardinality({k \in ends' : k[1] = w})
             /\ swarm'[w] \in RoomObject
  <2>1. CASE w[1] = n
    <3>1. swarm'[w] = [tips |-> <<>>, peers |-> 0] BY <1>1, <2>1
    <3>2. Cardinality({k \in ends' : k[1] = w}) = 0 BY <1>2, <2>1, FS_EmptySet
    <3> QED BY <2>1, <3>1, <3>2 DEF RoomObject
  <2>2. CASE w[1] # n
    <3>1. Counted(w, {k \in gone \cap ends : k[1] = w}) = Cardinality({k \in ends' : k[1] = w})
      BY <1>1, CountedOut
    <3>2. Cardinality({k \in ends' : k[1] = w}) \in Nat
      <4>1. IsFiniteSet({k \in ends' : k[1] = w}) BY <1>3, FS_Subset
      <4> QED BY <4>1, FS_CardinalityType
    <3>3. swarm[w] \in RoomObject BY DEF GInv, Types
    <3>4. swarm'[w] = [swarm[w] EXCEPT !.peers = Cardinality({k \in ends' : k[1] = w})] BY <1>1, <2>2, <3>1
    <3> QED BY <2>2, <3>2, <3>3, <3>4 DEF RoomObject
  <2> QED BY <2>1, <2>2
<1>5. swarm' \in [Swarms -> RoomObject]
  <2>1. DOMAIN swarm' = Swarms /\ swarm' = [w \in Swarms |-> swarm'[w]] BY <1>1
  <2> QED BY <1>4, <2>1
<1>6. sent' \in [Links -> Seq(Tips)] BY <1>1 DEF GInv, Types, Dropped
<1>7. /\ room' \in [Nodes -> Nat] /\ made' \in [Nodes -> Nat] /\ acked' \in [Nodes -> SUBSET Tips]
      /\ \A m \in Nodes : room'[m] <= made'[m] /\ made'[m] <= MaxSwarms
  BY <1>1, GossipAssumption DEF GInv, Types
<1>8. pc' \in [Requests -> {"idle", "load", "flush", "ok", "failed"}] BY <1>1 DEF GInv, Types
<1>9. Types' BY <1>1, <1>3, <1>5, <1>6, <1>7, <1>8 DEF GInv, Types
<1>10. InHand'
  <2>1. room' = made' BY <1>1 DEF GInv, InHand
  <2>2. ASSUME NEW q \in Requests, pc'[q] = "flush" PROVE obj'[q] \in 1..made'[q.node]
    <3>1. pc[q] = "flush" /\ q.node # n BY <1>1, <2>2
    <3>2. made'[q.node] = made[q.node] BY <1>1, <3>1, GossipAssumption DEF GInv, Types
    <3> QED BY <1>1, <3>1, <3>2 DEF GInv, InHand
  <2> QED BY <2>1, <2>2 DEF InHand
<1>11. ASSUME NEW m \in Nodes, NEW t \in acked'[m] PROVE t \in Held(m)'
  <2>1. m # n /\ acked'[m] = acked[m] /\ made'[m] = made[m] BY <1>1, <1>11 DEF GInv, Types
  <2>2. PICK i \in 1..made[m] : t \in ToSet(swarm[<<m, i>>].tips)
    BY <1>11, <2>1 DEF GInv, AckedIsHeld, Held
  <2>3. <<m, i>> \in Swarms BY IsMade DEF GInv
  <2>4. swarm'[<<m, i>>].tips = swarm[<<m, i>>].tips BY <1>4, <2>1, <2>3
  <2> QED BY <2>1, <2>2, <2>4 DEF Held
<1>12. ListedOnce'
  <2>1. IsInjective(<<>>) BY DEF IsInjective
  <2> QED BY <1>4, <2>1 DEF GInv, ListedOnce
<1>13. PeersAreConnections' BY <1>4 DEF PeersAreConnections
<1> QED BY <1>9, <1>10, <1>11, <1>12, <1>13 DEF GInv, AckedIsHeld

-----------------------------------------------------------------------------
(* Theorems                                                                *)

LEMMA InitGInv == Init => GInv
<1> SUFFICES ASSUME Init PROVE GInv OBVIOUS
<1>1. Types BY FS_EmptySet, GossipAssumption DEF Init, Types, RoomObject
<1>2. InHand BY DEF Init, InHand
<1>3. ListedOnce BY DEF Init, ListedOnce, IsInjective
<1>4. PeersAreConnections
  <2> SUFFICES ASSUME NEW w \in Swarms PROVE swarm[w].peers = Cardinality({l \in ends : l[1] = w})
    BY DEF PeersAreConnections
  <2>1. {l \in ends : l[1] = w} = {} BY DEF Init
  <2>2. swarm[w].peers = 0 BY DEF Init
  <2> QED BY <2>1, <2>2, FS_EmptySet
<1>5. AckedIsHeld BY DEF Init, AckedIsHeld
<1> QED BY <1>1, <1>2, <1>3, <1>4, <1>5 DEF GInv

LEMMA NextGInv == ASSUME GInv, [Next]_vars PROVE GInv'
<1>1. ASSUME UNCHANGED <<room, swarm, made, pc, obj, ends, sent, acked>> PROVE GInv'
  BY <1>1 DEF GInv, Types, InHand, ListedOnce, AckedIsHeld, Held, PeersAreConnections
<1>2. CASE UNCHANGED vars BY <1>1, <1>2 DEF vars
<1>3. ASSUME NEW q \in Requests, Join(q) \/ Announce(q) PROVE GInv'
  BY <1>3, JoinRoomKeeps DEF Join, Announce
<1>4. ASSUME NEW q \in Requests, Loaded(q) PROVE GInv' BY <1>4, LoadedKeeps
<1>5. ASSUME NEW q \in Requests, LoadFails(q) PROVE GInv' BY <1>5, LoadFailsKeeps
<1>6. ASSUME NEW q \in Requests, Flushed(q) PROVE GInv' BY <1>6, FlushedKeeps
<1>7. ASSUME NEW l \in Links, Connected(l) PROVE GInv' BY <1>7, ConnectedKeeps
<1>8. ASSUME NEW l \in Links, Received(l) PROVE GInv' BY <1>8, ReceivedKeeps
<1>9. ASSUME NEW l \in Links, Close(l) PROVE GInv' BY <1>9, CloseKeeps
<1>10. ASSUME NEW n \in Nodes, Restart(n) PROVE GInv' BY <1>10, RestartKeeps
<1>11. ASSUME NEW t \in Tips, Post(t) PROVE GInv' BY <1>1, <1>11 DEF Post
<1>12. ASSUME NEW n \in Nodes, Poll(n) PROVE GInv' BY <1>1, <1>12 DEF Poll
<1>13. ASSUME NEW n \in Nodes, NEW ok \in BOOLEAN, Got(n, ok) PROVE GInv' BY <1>1, <1>13 DEF Got
<1> QED BY <1>2, <1>3, <1>4, <1>5, <1>6, <1>7, <1>8, <1>9, <1>10, <1>11, <1>12, <1>13 DEF Next

\* Invariant of the sidecars: the map lists the room made last and a request
\* holds one that was made, a list has no tip twice, peers are open connections,
\* and every acknowledged tip is in a room the sidecar made.
THEOREM GossipInvariant == Spec => []GInv
<1>1. Init => GInv BY InitGInv
<1>2. GInv /\ [Next]_vars => GInv' BY NextGInv
<1> QED BY <1>1, <1>2, PTL DEF Spec

\* However many machines, requests at once, connections, closings and restarts
\* there are, a sidecar keeps what it acknowledged, lists it to its page unless
\* two joins overlapped, and counts its connections (server.mjs, rooms,
\* broadcast and the peer counter).
THEOREM GossipAlwaysSound == Spec => []GossipIsSound
<1>1. GInv => GossipIsSound BY OneRoomListsAll
<1> QED BY <1>1, GossipInvariant, PTL

\* What a page shows is on the board, and what is under way has a connection.
Posted == /\ shown \in [Nodes -> SUBSET board]
          /\ \A l \in Links : sent[l] # <<>> => l \in ends

LEMMA LinksAreFinite == IsFiniteSet(Links)
<1>0. MaxSwarms \in Int /\ 1 \in Int
  BY GossipAssumption
<1>1. IsFiniteSet(1..MaxSwarms)
  BY <1>0, FS_Interval
<1>2. IsFiniteSet(Swarms)
  BY <1>1, FS_Product, GossipAssumption DEF Swarms
<1>3. IsFiniteSet(Swarms \X Swarms) /\ Links \subseteq Swarms \X Swarms
  BY <1>2, FS_Product DEF Links
<1>. QED  BY <1>3, FS_Subset

LEMMA GossipTypes == ASSUME GInv, Posted PROVE TypeOK
<1>1. \A n \in Nodes : made[n] \in 0..MaxSwarms /\ room[n] \in 0..made[n]
  BY GossipAssumption DEF GInv, Types
<1>2. ASSUME NEW w \in Swarms PROVE ToSet(swarm[w].tips) \subseteq Tips /\ swarm[w].peers \in 0..Cardinality(Links)
  <2>1. swarm[w] \in RoomObject
    BY DEF GInv, Types
  <2>2. swarm[w].tips \in Seq(Tips)
    BY <2>1 DEF RoomObject
  <2>3. ToSet(swarm[w].tips) \subseteq Tips
    BY <2>2 DEF ToSet
  <2>. DEFINE local == {l \in ends : l[1] = w}
  <2>4. local \subseteq Links
    BY DEF GInv, Types
  <2>5. swarm[w].peers = Cardinality(local)
    BY DEF GInv, PeersAreConnections
  <2>. HIDE DEF local
  <2>6. Cardinality(local) \in Nat /\ Cardinality(Links) \in Nat /\ Cardinality(local) <= Cardinality(Links)
    BY <2>4, LinksAreFinite, FS_Subset, FS_CardinalityType
  <2>. QED  BY <2>3, <2>5, <2>6
<1>. QED  BY <1>1, <1>2 DEF GInv, Types, Posted, TypeOK

LEMMA PostedKeeps == ASSUME Types, Posted, [Next]_vars PROVE Posted'
<1>. USE DEF Posted
<1>1. ASSUME NEW n \in Nodes, NEW t PROVE \A l \in Links : Broadcast(n, t)[l] # <<>> => l \in ends
  BY DEF Broadcast
<1>2. ASSUME NEW q, NEW i, Handled(q, i), ends' = ends, UNCHANGED pageVars, q \in Requests PROVE Posted'
  BY <1>1, <1>2, GossipAssumption DEF Handled, pageVars
<1>3. ASSUME NEW q \in Requests, Join(q) \/ Announce(q) \/ Loaded(q) \/ LoadFails(q) \/ Flushed(q) PROVE Posted'
  <2>1. CASE JoinRoom(q) \/ Flushed(q)
    <3>1. Handled(q, room[q.node]) \/ Handled(q, obj[q]) \/ UNCHANGED sent
      BY <2>1 DEF JoinRoom, Flushed
    <3>2. ends' = ends /\ UNCHANGED pageVars
      BY <2>1 DEF JoinRoom, Flushed
    <3>. QED  BY <1>2, <3>1, <3>2 DEF pageVars
  <2>2. CASE Loaded(q) \/ LoadFails(q)
    BY <2>2 DEF Loaded, LoadFails, pageVars
  <2>. QED  BY <1>3, <2>1, <2>2 DEF Join, Announce
<1>4. ASSUME NEW l \in Links, Connected(l) PROVE Posted'
  BY <1>4 DEF Connected, pageVars, Types
<1>5. ASSUME NEW l \in Links, Received(l) PROVE Posted'
  BY <1>5 DEF Received, pageVars, Types
<1>6. ASSUME NEW l \in Links, Close(l) PROVE Posted'
  BY <1>6 DEF Close, Cut, Dropped, pageVars
<1>7. ASSUME NEW n \in Nodes, Restart(n) PROVE Posted'
  <2>. DEFINE gone == {l \in Links : l[1][1] = n \/ l[2][1] = n}
  <2>1. ends' = ends \ gone /\ sent' = Dropped(gone) /\ UNCHANGED pageVars
    BY <1>7 DEF Restart
  <2>. HIDE DEF gone
  <2>. QED  BY <2>1 DEF Dropped, pageVars
<1>8. ASSUME NEW t \in Tips, Post(t) PROVE Posted'
  BY <1>8 DEF Post
<1>9. ASSUME NEW n \in Nodes, Poll(n) \/ \E ok \in BOOLEAN : Got(n, ok) PROVE Posted'
  <2>1. shown' = shown \/ shown' = [shown EXCEPT ![n] = board]
    BY <1>9 DEF Poll, Got
  <2>2. UNCHANGED <<board, ends, sent>>
    BY <1>9 DEF Poll, Got
  <2>3. shown' \in [Nodes -> SUBSET board]
    BY <2>1
  <2>. QED  BY <2>2, <2>3
<1>10. CASE UNCHANGED vars
  BY <1>10 DEF vars
<1>. QED  BY <1>3, <1>4, <1>5, <1>6, <1>7, <1>8, <1>9, <1>10 DEF Next

-----------------------------------------------------------------------------
(* The status poll                                                         *)

\* A transaction is asked about at most once a round, and a settled status on
\* its way is what the chain made of the transaction.
TxInv ==
  /\ Tx!TypeOK /\ Tx!StatusIsTrue
  /\ \A t \in Txs : toAsk[t] <= rounds + 1
  /\ \A m \in answers : m.status \in Tx!Final => m.status = txMined[m.tx]

LEMMA InitTxInv == Tx!Init => TxInv
BY ServicesAssumption DEF Tx!Init, TxInv, Tx!TypeOK, Tx!StatusIsTrue, Tx!Final, Tx!StatusAssumption

LEMMA WatchKeeps ==
  ASSUME TxInv, Tx!Watch, unlocked' \in BOOLEAN, txFaults' \in 0..StatusFaults,
         status' \in [Txs -> {"none", "pending"} \cup Tx!Final], UNCHANGED <<txMined, old>>,
         \A t \in Txs : status'[t] \in Tx!Final => status'[t] = txMined[t]
  PROVE  TxInv'
<1>1. watched' \subseteq Pollable /\ Pollable \subseteq Txs
  BY ServicesAssumption DEF Tx!Watch, Tx!StatusAssumption
<1>2. toAsk' = [t \in Txs |-> IF t \in watched' THEN 1 ELSE 0]
  BY DEF Tx!Watch, Tx!Once
<1>3. answers' = {} /\ rounds' = 0
  BY DEF Tx!Watch
<1>4. (Tx!TypeOK)'
  BY <1>1, <1>2, <1>3, ServicesAssumption DEF TxInv, Tx!TypeOK, Tx!StatusAssumption
<1>5. \A t \in Txs : toAsk'[t] <= rounds' + 1
  BY <1>2, <1>3
<1>. QED
  BY <1>3, <1>4, <1>5 DEF TxInv, Tx!StatusIsTrue

LEMMA TxKeeps == ASSUME TxInv, [Tx!Next]_tx PROVE TxInv'
<1>. USE ServicesAssumption DEF Tx!StatusAssumption
<1>1. CASE UNCHANGED tx
  BY <1>1 DEF tx, TxInv, Tx!TypeOK, Tx!StatusIsTrue, Tx!Final
<1>2. CASE Tx!Tick
  <2>1. toAsk' = [t \in Txs |-> toAsk[t] + (IF t \in watched THEN 1 ELSE 0)]
    BY <1>2 DEF Tx!Tick, Tx!Once
  <2>. QED
    BY <1>2, <2>1 DEF Tx!Tick, TxInv, Tx!TypeOK, Tx!StatusIsTrue, Tx!Final
<1>3. CASE Tx!Lock
  BY <1>3, WatchKeeps DEF Tx!Lock, TxInv, Tx!TypeOK, Tx!StatusIsTrue
<1>4. CASE Tx!Unlock
  BY <1>4, WatchKeeps DEF Tx!Unlock, TxInv, Tx!TypeOK, Tx!StatusIsTrue
<1>5. CASE Tx!Reset
  BY <1>5, WatchKeeps DEF Tx!Reset, TxInv, Tx!TypeOK, Tx!StatusIsTrue, Tx!Final
<1>6. ASSUME NEW t \in Txs, Tx!Broadcast(t) PROVE TxInv'
  BY <1>6, WatchKeeps DEF Tx!Broadcast, TxInv, Tx!TypeOK, Tx!StatusIsTrue, Tx!Final
<1>7. ASSUME NEW t \in Txs, Tx!Age(t) PROVE TxInv'
  BY <1>7 DEF Tx!Age, TxInv, Tx!TypeOK, Tx!StatusIsTrue, Tx!Final
<1>8. ASSUME NEW t \in Txs, NEW s \in Tx!Final, Tx!Mine(t, s) PROVE TxInv'
  BY <1>8 DEF Tx!Mine, TxInv, Tx!TypeOK, Tx!StatusIsTrue, Tx!Final
<1>9. ASSUME NEW t \in Txs, NEW failing \in BOOLEAN, Tx!Ask(t, failing) PROVE TxInv'
  <2>1. t \in watched
    BY <1>9 DEF Tx!Ask, TxInv, Tx!TypeOK
  <2>. QED
    BY <1>9, <2>1 DEF Tx!Ask, Tx!Status, TxInv, Tx!TypeOK, Tx!StatusIsTrue, Tx!Final
<1>10. ASSUME NEW m \in answers, Tx!Answered(m) PROVE TxInv'
  <2>1. CASE m.status \in Tx!Final
    BY <1>10, <2>1, WatchKeeps DEF Tx!Answered, TxInv, Tx!TypeOK, Tx!StatusIsTrue, Tx!Final
  <2>2. CASE m.status \notin Tx!Final
    BY <1>10, <2>2 DEF Tx!Answered, TxInv, Tx!TypeOK, Tx!StatusIsTrue
  <2>. QED  BY <2>1, <2>2
<1>. QED
  BY <1>1, <1>2, <1>3, <1>4, <1>5, <1>6, <1>7, <1>8, <1>9, <1>10 DEF Tx!Next

-----------------------------------------------------------------------------
(* The coach                                                               *)

\* Questions under way, and those that are past the loading of the model.
Active == {"check", "import", "load", "complete"}
Past == {q \in Leaver!Questions : stage[q] \in {"complete", "answered", "refused"}}

\* The tab puts the questions one after the other, and shows no answer while
\* it waits.
SidecarNow ==
  /\ up \in BOOLEAN /\ qvac \in BOOLEAN
  /\ loads \in Nat /\ loaded \subseteq 1..loads /\ modelId \in loaded \cup {0}
  /\ stage \in [Leaver!Questions -> Leaver!Stages]
TabNow ==
  /\ busy \in BOOLEAN /\ error \in BOOLEAN /\ answer \in {0, mine}
  /\ ~(error /\ answer # 0) /\ (busy => answer = 0)
  /\ asked \in Nat /\ mount \in Nat /\ mine \in Nat
  /\ asked <= MaxQuestions /\ mount <= asked /\ mine <= asked
  /\ (mine # 0 => mount < mine) /\ (mine = 0 => mount = asked)

\* Of the questions of the mounted tab only the last may be under way, and the
\* tab waits for it.
LastOnly ==
  /\ Leaver!BusyWithMine
  /\ \A q \in Leaver!Questions : /\ q > asked => stage[q] = "idle"
                                 /\ q > mount /\ stage[q] \in Active => q = mine
CoachNow == SidecarNow /\ TabNow /\ LastOnly

\* Each question loads at most one model.
CoachInv == CoachNow /\ loads <= Cardinality(Past)

LEMMA PastIsFinite == IsFiniteSet(Past) /\ Cardinality(Past) <= MaxQuestions
<1>1. IsFiniteSet(1..MaxQuestions) /\ Cardinality(1..MaxQuestions) = MaxQuestions
  BY FS_Interval, ServicesAssumption DEF Leaver!CoachAssumption
<1>2. Past \in SUBSET (1..MaxQuestions)
  BY DEF Past, Leaver!Questions
<1>. HIDE DEF Past
<1>. QED  BY <1>1, <1>2, FS_Subset

LEMMA CoachTypes == ASSUME CoachInv PROVE Leaver!TypeOK /\ Leaver!BusyWithMine
<1>1. Cardinality(Past) <= MaxQuestions /\ Cardinality(Past) \in Nat /\ MaxQuestions \in Nat
  BY PastIsFinite, FS_CardinalityType, ServicesAssumption DEF Leaver!CoachAssumption
<1>2. loads \in 0..MaxQuestions
  <2>. HIDE DEF Past
  <2>. QED  BY <1>1 DEF CoachInv, CoachNow, SidecarNow, TabNow
<1>3. asked \in 0..MaxQuestions /\ (busy => mine # 0)
  BY <1>1 DEF CoachInv, CoachNow, TabNow, LastOnly, Leaver!BusyWithMine
<1>4. mine \in {0} \cup (mount + 1)..asked /\ mount \in 0..asked
  BY DEF CoachInv, CoachNow, SidecarNow, TabNow
<1>. QED  BY <1>1, <1>2, <1>3, <1>4 DEF CoachInv, CoachNow, SidecarNow, TabNow, LastOnly, Leaver!TypeOK, Leaver!Questions

LEMMA PastGrows ==
  ASSUME CoachInv, Past \subseteq Past', loads' = loads, CoachNow'
  PROVE  CoachInv'
<1>1. IsFiniteSet(Past')
  <2>1. Past' \subseteq 1..MaxQuestions
    BY DEF Past, Leaver!Questions
  <2>2. IsFiniteSet(1..MaxQuestions)
    BY FS_Interval, ServicesAssumption DEF Leaver!CoachAssumption
  <2>. QED  BY <2>1, <2>2, FS_Subset
<1>. HIDE DEF Past
<1>2. Cardinality(Past) <= Cardinality(Past') /\ Cardinality(Past) \in Nat /\ Cardinality(Past') \in Nat
  BY <1>1, FS_Subset, FS_CardinalityType
<1>3. loads' <= Cardinality(Past')
  BY <1>2 DEF CoachInv, CoachNow, SidecarNow, TabNow
<1>. QED  BY <1>3 DEF CoachInv

LEMMA InitCoachInv == Leaver!Init => CoachInv
<1>. SUFFICES ASSUME Leaver!Init PROVE CoachInv
  OBVIOUS
<1>. USE ServicesAssumption DEF Leaver!Init, Leaver!Questions, Leaver!CoachAssumption
<1>1. Past = {}
  BY DEF Past
<1>2. SidecarNow
  BY DEF SidecarNow, Leaver!Stages
<1>3. TabNow
  <2>1. busy = FALSE /\ error = FALSE /\ answer = 0 /\ mine = 0 /\ mount = 0 /\ asked = 0
    OBVIOUS
  <2>2. 0 <= MaxQuestions
    OBVIOUS
  <2>3. /\ busy \in BOOLEAN /\ error \in BOOLEAN /\ answer \in {0, mine}
        /\ ~(error /\ answer # 0) /\ (busy => answer = 0)
    BY <2>1
  <2>4. /\ asked \in Nat /\ mount \in Nat /\ mine \in Nat
        /\ asked <= MaxQuestions /\ mount <= asked /\ mine <= asked
        /\ (mine # 0 => mount < mine) /\ (mine = 0 => mount = asked)
    BY <2>1, <2>2
  <2>. QED  BY <2>3, <2>4 DEF TabNow
<1>4. LastOnly
  BY DEF LastOnly, Leaver!BusyWithMine, Active
<1>5. loads = 0 /\ Cardinality(Past) = 0
  BY <1>1, FS_EmptySet
<1>. QED  BY <1>2, <1>3, <1>4, <1>5 DEF CoachInv, CoachNow

LEMMA CoachKeepsNow ==
  ASSUME CoachInv, [Leaver!Next]_coach
  PROVE  CoachNow' /\ (loads' = loads => Past \subseteq Past')
<1>. USE ServicesAssumption DEF Leaver!Questions, Leaver!CoachAssumption, CoachInv
<1>1. CASE UNCHANGED coach
  BY <1>1 DEF coach, CoachNow, SidecarNow, TabNow, LastOnly, Past, Leaver!BusyWithMine
<1>. USE DEF Leaver!tab, Leaver!sidecar, Leaver!Stage, Leaver!Stages, Leaver!BusyWithMine,
             CoachNow, SidecarNow, TabNow, LastOnly, Past, Active
<1>2. ASSUME NEW q \in Leaver!Questions, Leaver!Ask(q)
      PROVE  CoachNow' /\ (loads' = loads => Past \subseteq Past')
  <2>1. SidecarNow' /\ (loads' = loads => Past \subseteq Past')
    BY <1>2 DEF Leaver!Ask
  <2>2. TabNow'
    <3>1. busy' = TRUE /\ error' = FALSE /\ answer' = 0
      BY <1>2 DEF Leaver!Ask
    <3>2. asked' = asked + 1 /\ mine' = asked + 1 /\ mount' = mount /\ asked + 1 <= MaxQuestions
      BY <1>2 DEF Leaver!Ask
    <3>3. /\ busy' \in BOOLEAN /\ error' \in BOOLEAN /\ answer' \in {0, mine'}
          /\ ~(error' /\ answer' # 0) /\ (busy' => answer' = 0)
      BY <3>1
    <3>4. /\ asked' \in Nat /\ mount' \in Nat /\ mine' \in Nat
          /\ asked' <= MaxQuestions /\ mount' <= asked' /\ mine' <= asked'
          /\ (mine' # 0 => mount' < mine') /\ (mine' = 0 => mount' = asked')
      BY <3>1, <3>2
    <3>. QED  BY <3>3, <3>4 DEF TabNow
  <2>3. LastOnly'
    BY <1>2 DEF Leaver!Ask
  <2>. HIDE DEF SidecarNow, TabNow, LastOnly, Past
  <2>. QED  BY <2>1, <2>2, <2>3
<1>3. ASSUME NEW q \in Leaver!Questions, Leaver!Imported(q)
      PROVE  CoachNow' /\ (loads' = loads => Past \subseteq Past')
  <2>1. SidecarNow' /\ (loads' = loads => Past \subseteq Past')
    BY <1>3 DEF Leaver!Imported
  <2>2. TabNow'
    BY <1>3 DEF Leaver!Imported
  <2>3. LastOnly'
    BY <1>3 DEF Leaver!Imported
  <2>. HIDE DEF SidecarNow, TabNow, LastOnly, Past
  <2>. QED  BY <2>1, <2>2, <2>3
<1>4. ASSUME NEW q \in Leaver!Questions, Leaver!Loaded(q)
      PROVE  CoachNow' /\ (loads' = loads => Past \subseteq Past')
  <2>1. SidecarNow' /\ (loads' = loads => Past \subseteq Past')
    BY <1>4 DEF Leaver!Loaded
  <2>2. TabNow'
    BY <1>4 DEF Leaver!Loaded
  <2>3. LastOnly'
    BY <1>4 DEF Leaver!Loaded
  <2>. HIDE DEF SidecarNow, TabNow, LastOnly, Past
  <2>. QED  BY <2>1, <2>2, <2>3
<1>5. ASSUME NEW q \in Leaver!Questions, Leaver!Checked(q)
      PROVE  CoachNow' /\ (loads' = loads => Past \subseteq Past')
  <2>1. CASE Leaver!ToTab(q)
    <3>. q = mine /\ busy
      BY <1>5, <2>1 DEF Leaver!Checked, Leaver!ToTab
    <3>1. SidecarNow' /\ (loads' = loads => Past \subseteq Past')
      BY <1>5, <2>1 DEF Leaver!Checked, Leaver!Needs
    <3>2. TabNow'
      BY <1>5, <2>1 DEF Leaver!Checked, Leaver!Needs
    <3>3. LastOnly'
      BY <1>5, <2>1 DEF Leaver!Checked, Leaver!Needs
    <3>. HIDE DEF SidecarNow, TabNow, LastOnly, Past
    <3>. QED  BY <3>1, <3>2, <3>3
  <2>2. CASE ~Leaver!ToTab(q)
    <3>. q # mine /\ ~(q > mount)
      BY <2>2 DEF Leaver!ToTab
    <3>1. SidecarNow' /\ (loads' = loads => Past \subseteq Past')
      BY <1>5, <2>2 DEF Leaver!Checked, Leaver!Needs
    <3>2. TabNow'
      BY <1>5, <2>2 DEF Leaver!Checked, Leaver!Needs
    <3>3. LastOnly'
      BY <1>5, <2>2 DEF Leaver!Checked, Leaver!Needs
    <3>. HIDE DEF SidecarNow, TabNow, LastOnly, Past
    <3>. QED  BY <3>1, <3>2, <3>3
  <2>. QED  BY <2>1, <2>2
<1>6. ASSUME NEW q \in Leaver!Questions, NEW ok \in BOOLEAN, Leaver!Shows(q, ok),
             stage[q] \in {"import", "load", "complete"},
             stage' = [stage EXCEPT ![q] = IF ok THEN "answered" ELSE "refused"],
             UNCHANGED <<asked, mine, mount, online>>, UNCHANGED Leaver!sidecar
      PROVE  CoachNow' /\ (loads' = loads => Past \subseteq Past')
  <2>1. CASE Leaver!ToTab(q)
    <3>. q = mine
      BY <1>6, <2>1 DEF Leaver!ToTab
    <3>1. SidecarNow' /\ (loads' = loads => Past \subseteq Past')
      BY <1>6, <2>1 DEF Leaver!Shows
    <3>2. TabNow'
      BY <1>6, <2>1 DEF Leaver!Shows
    <3>3. LastOnly'
      BY <1>6, <2>1 DEF Leaver!Shows
    <3>. HIDE DEF SidecarNow, TabNow, LastOnly, Past
    <3>. QED  BY <3>1, <3>2, <3>3
  <2>2. CASE ~Leaver!ToTab(q)
    <3>. q # mine /\ ~(q > mount)
      BY <2>2 DEF Leaver!ToTab
    <3>1. SidecarNow' /\ (loads' = loads => Past \subseteq Past')
      BY <1>6, <2>2 DEF Leaver!Shows
    <3>2. TabNow'
      BY <1>6, <2>2 DEF Leaver!Shows
    <3>3. LastOnly'
      BY <1>6, <2>2 DEF Leaver!Shows
    <3>. HIDE DEF SidecarNow, TabNow, LastOnly, Past
    <3>. QED  BY <3>1, <3>2, <3>3
  <2>. QED  BY <2>1, <2>2
<1>7. ASSUME NEW q \in Leaver!Questions, Leaver!Completed(q)
      PROVE  CoachNow' /\ (loads' = loads => Past \subseteq Past')
  BY <1>6, <1>7 DEF Leaver!Completed
<1>8. ASSUME NEW q \in Leaver!Questions, Leaver!Fails(q)
      PROVE  CoachNow' /\ (loads' = loads => Past \subseteq Past')
  BY <1>6, <1>8 DEF Leaver!Fails
<1>9. CASE Leaver!Leave
  <2>1. SidecarNow' /\ (loads' = loads => Past \subseteq Past')
    BY <1>9 DEF Leaver!Leave
  <2>2. TabNow'
    <3>1. busy' = FALSE /\ error' = FALSE /\ answer' = 0
      BY <1>9 DEF Leaver!Leave
    <3>2. asked' = asked /\ mine' = 0 /\ mount' = asked
      BY <1>9 DEF Leaver!Leave
    <3>3. /\ busy' \in BOOLEAN /\ error' \in BOOLEAN /\ answer' \in {0, mine'}
          /\ ~(error' /\ answer' # 0) /\ (busy' => answer' = 0)
      BY <3>1
    <3>4. /\ asked' \in Nat /\ mount' \in Nat /\ mine' \in Nat
          /\ asked' <= MaxQuestions /\ mount' <= asked' /\ mine' <= asked'
          /\ (mine' # 0 => mount' < mine') /\ (mine' = 0 => mount' = asked')
      BY <3>1, <3>2
    <3>. QED  BY <3>3, <3>4 DEF TabNow
  <2>3. LastOnly'
    BY <1>9 DEF Leaver!Leave
  <2>. HIDE DEF SidecarNow, TabNow, LastOnly, Past
  <2>. QED  BY <2>1, <2>2, <2>3
<1>10. CASE Leaver!Rechecked
  <2>1. SidecarNow' /\ (loads' = loads => Past \subseteq Past')
    BY <1>10 DEF Leaver!Rechecked
  <2>2. TabNow'
    BY <1>10 DEF Leaver!Rechecked
  <2>3. LastOnly'
    BY <1>10 DEF Leaver!Rechecked
  <2>. HIDE DEF SidecarNow, TabNow, LastOnly, Past
  <2>. QED  BY <2>1, <2>2, <2>3
<1>11. CASE Leaver!Start
  <2>1. SidecarNow' /\ (loads' = loads => Past \subseteq Past')
    BY <1>11 DEF Leaver!Start
  <2>2. TabNow'
    BY <1>11 DEF Leaver!Start
  <2>3. LastOnly'
    BY <1>11 DEF Leaver!Start
  <2>. HIDE DEF SidecarNow, TabNow, LastOnly, Past
  <2>. QED  BY <2>1, <2>2, <2>3
<1>12. CASE Leaver!Stop
  <2>1. SidecarNow' /\ (loads' = loads => Past \subseteq Past')
    BY <1>12 DEF Leaver!Stop, Leaver!Shows, Leaver!ToTab
  <2>2. TabNow'
    BY <1>12 DEF Leaver!Stop, Leaver!Shows, Leaver!ToTab
  <2>3. LastOnly'
    BY <1>12 DEF Leaver!Stop, Leaver!Shows, Leaver!ToTab
  <2>. HIDE DEF SidecarNow, TabNow, LastOnly, Past
  <2>. QED  BY <2>1, <2>2, <2>3
<1>. QED
  BY <1>1, <1>2, <1>3, <1>4, <1>5, <1>7, <1>8, <1>9, <1>10, <1>11, <1>12 DEF Leaver!Next

LEMMA CoachKeeps == ASSUME CoachInv, [Leaver!Next]_coach PROVE CoachInv'
<1>1. CoachNow' /\ (loads' = loads => Past \subseteq Past')
  BY CoachKeepsNow
<1>2. CASE loads' = loads
  BY <1>1, <1>2, PastGrows
<1>3. CASE loads' # loads
  <2>1. PICK q \in Leaver!Questions : Leaver!Loaded(q)
    BY <1>3 DEF Leaver!Next, Leaver!Ask, Leaver!Checked, Leaver!Imported, Leaver!Completed, Leaver!Fails,
       Leaver!Leave, Leaver!Rechecked, Leaver!Stop, Leaver!Start, Leaver!sidecar, coach
  <2>2. Past' = Past \cup {q} /\ q \notin Past
    BY <2>1 DEF Leaver!Loaded, Leaver!Stage, Past, CoachInv, CoachNow, SidecarNow
  <2>3. loads' = loads + 1
    BY <2>1 DEF Leaver!Loaded
  <2>. HIDE DEF Past
  <2>4. Cardinality(Past') = Cardinality(Past) + 1 /\ Cardinality(Past) \in Nat
    BY <2>2, PastIsFinite, FS_AddElement, FS_CardinalityType
  <2>5. loads' <= Cardinality(Past')
    BY <2>3, <2>4 DEF CoachInv, CoachNow, SidecarNow
  <2>. QED  BY <1>1, <2>5 DEF CoachInv
<1>. QED  BY <1>2, <1>3

\* A user who waits has one question under way, and loads one model for all.
OneInv ==
  /\ Waiter!OneModel /\ mount = 0
  /\ \A q \in Leaver!Questions : stage[q] \in {"import", "load"} => modelId = 0

LEMMA WaiterIsLeaver == Waiter!Next => Leaver!Next
<1>. USE DEF Waiter!Questions, Leaver!Questions, Waiter!sidecar, Leaver!sidecar, Waiter!tab, Leaver!tab,
             Waiter!Fault, Leaver!Fault, Waiter!ToTab, Leaver!ToTab, Waiter!Stage, Leaver!Stage,
             Waiter!Shows, Leaver!Shows, Waiter!Needs, Leaver!Needs
<1>1. ASSUME NEW q \in Leaver!Questions
      PROVE  /\ Waiter!Ask(q) => Leaver!Ask(q)
             /\ Waiter!Checked(q) => Leaver!Checked(q)
             /\ Waiter!Imported(q) => Leaver!Imported(q)
             /\ Waiter!Loaded(q) => Leaver!Loaded(q)
             /\ Waiter!Completed(q) => Leaver!Completed(q)
             /\ Waiter!Fails(q) => Leaver!Fails(q)
  BY DEF Waiter!Ask, Leaver!Ask, Waiter!Checked, Leaver!Checked, Waiter!Imported, Leaver!Imported,
     Waiter!Loaded, Leaver!Loaded, Waiter!Completed, Leaver!Completed, Waiter!Fails, Leaver!Fails
<1>2. ~Waiter!Leave
  BY DEF Waiter!Leave
<1>3. (Waiter!Rechecked => Leaver!Rechecked) /\ (Waiter!Start => Leaver!Start)
  BY DEF Waiter!Rechecked, Leaver!Rechecked, Waiter!Start, Leaver!Start
<1>4. Waiter!Stop => Leaver!Stop
  BY DEF Waiter!Stop, Leaver!Stop
<1>. QED  BY <1>1, <1>2, <1>3, <1>4 DEF Waiter!Next, Leaver!Next

LEMMA InitOneInv == Leaver!Init => OneInv
BY DEF Leaver!Init, OneInv, Waiter!OneModel

LEMMA OneModelKeeps == ASSUME CoachInv, OneInv, [Waiter!Next]_coach PROVE OneInv'
<1>. USE DEF CoachInv, CoachNow, SidecarNow, OneInv, Waiter!OneModel, Waiter!Questions, Leaver!Questions,
             Waiter!tab, Waiter!sidecar, Waiter!Stage, Leaver!Stages
<1>1. CASE UNCHANGED coach
  BY <1>1 DEF coach
<1>2. \A q, p \in Leaver!Questions : stage[q] \in Active /\ stage[p] \in Active => q = p
  BY DEF LastOnly
<1>3. ASSUME NEW q \in Leaver!Questions, Waiter!Ask(q) \/ Waiter!Imported(q) \/ Waiter!Completed(q) \/ Waiter!Fails(q)
      PROVE  OneInv'
  BY <1>3 DEF Waiter!Ask, Waiter!Imported, Waiter!Completed, Waiter!Fails
<1>4. ASSUME NEW q \in Leaver!Questions, Waiter!Checked(q) PROVE OneInv'
  BY <1>4 DEF Waiter!Checked, Waiter!Needs
<1>5. ASSUME NEW q \in Leaver!Questions, Waiter!Loaded(q) PROVE OneInv'
  <2>1. loaded = {}
    BY <1>5 DEF Waiter!Loaded
  <2>2. \A p \in Leaver!Questions : stage'[p] \notin {"import", "load"}
    BY <1>2, <1>5 DEF Waiter!Loaded, Active
  <2>. QED  BY <1>5, <2>1, <2>2 DEF Waiter!Loaded
<1>6. CASE Waiter!Rechecked \/ Waiter!Start
  BY <1>6 DEF Waiter!Rechecked, Waiter!Start
<1>7. CASE Waiter!Stop
  BY <1>7 DEF Waiter!Stop
<1>. QED
  BY <1>1, <1>3, <1>4, <1>5, <1>6, <1>7 DEF Waiter!Next, Waiter!Leave

-----------------------------------------------------------------------------
(* Reads at the provider's rate                                            *)

\* Ticks that must have passed since the n-th latest start.
Due(n) == (n - Burst) * Period
Back == slips * Slip

LEMMA Products ==
  /\ \A n \in Int : Due(n) \in Int /\ Due(n + 1) = Due(n) + Period
  /\ \A n, m \in Int : n <= m => Due(n) <= Due(m)
  /\ Due(1) + Rpc!Full = Period /\ Due(Rpc!Horizon) = Rpc!Oldest
  /\ Rpc!Full \in Nat /\ Rpc!Oldest \in Nat /\ MaxSlips * Slip \in Nat
  /\ \A n \in Nat : /\ n * Slip \in Nat /\ (n + 1) * Slip = n * Slip + Slip
                     /\ n <= MaxSlips => n * Slip <= MaxSlips * Slip
<1>1. /\ Burst \in Nat \ {0} /\ Period \in Nat \ {0} /\ Attempts \in Nat \ {0}
      /\ Cap \in Nat \ {0} /\ Slip \in Nat /\ MaxSlips \in Nat
  BY ServicesAssumption DEF Rpc!ReadsAssumption
<1>2. \A n \in Int : Due(n) \in Int /\ Due(n + 1) = Due(n) + Period
  BY <1>1 DEF Due
<1>3. ASSUME NEW n \in Int, NEW m \in Int, n <= m PROVE Due(n) <= Due(m)
  <2>1. m - n >= 0 /\ m - n \in Int
    BY <1>3
  <2>2. (m - n) * Period >= 0
    BY <1>1, <2>1
  <2>3. (m - Burst) * Period = (n - Burst) * Period + (m - n) * Period
    BY <1>1
  <2>. QED  BY <1>1, <2>2, <2>3 DEF Due
<1>4. Due(1) + Rpc!Full = Period /\ Due(Rpc!Horizon) = Rpc!Oldest
  BY <1>1 DEF Due, Rpc!Full, Rpc!Horizon, Rpc!Oldest
<1>5. Rpc!Full \in Nat /\ Rpc!Oldest \in Nat /\ MaxSlips * Slip \in Nat
  BY <1>1 DEF Rpc!Full, Rpc!Horizon, Rpc!Oldest
<1>6. ASSUME NEW n \in Nat
      PROVE  /\ n * Slip \in Nat /\ (n + 1) * Slip = n * Slip + Slip
             /\ n <= MaxSlips => n * Slip <= MaxSlips * Slip
  BY <1>1, <1>6
<1>. QED  BY <1>2, <1>3, <1>4, <1>5, <1>6

\* However often the clock was set back, the bucket lost no more than that.
BucketNow ==
  /\ slips \in 0..MaxSlips /\ level \in Int /\ elapsed \in Int /\ sleep \in Nat
  /\ 0 - Back <= level /\ 0 - Back <= elapsed /\ 0 - Back <= level + elapsed
  /\ level <= Rpc!Full /\ elapsed <= Rpc!Full + MaxSlips * Slip
  /\ sleep <= Period + Back

\* The tokens in the bucket have not been refilled twice: what was refilled
\* since the n-th latest start pays for the starts since then, and for what is
\* left.
StartsNow ==
  /\ ages \in Seq(0..Rpc!Oldest) /\ Len(ages) <= Rpc!Horizon
  /\ \A n \in 1..Len(ages) : /\ Due(n) <= ages[n]
                             /\ ages[n] = Rpc!Oldest \/ Due(n) + Rpc!Refilled <= ages[n]

\* A read that backs off has an attempt left, one that failed has none, and one
\* under way has come to nothing yet; one in the queue is there once.
ReadsNow ==
  /\ phase \in [Reads -> {"idle", "queued", "called", "backoff", "done"}]
  /\ attempt \in [Reads -> 0..Attempts] /\ backoff \in [Reads -> 0..Cap]
  /\ result \in [Reads -> {"none", "balance", "zero", "rejected"}]
  /\ \A r \in Reads : phase[r] = "backoff" => attempt[r] < Attempts
  /\ \A r \in Reads : phase[r] \in {"queued", "called", "backoff"} => result[r] = "none"
  /\ \A r \in Reads : result[r] = "rejected" /\ Op[r] # "unsupported" => attempt[r] = Attempts
  /\ \A r \in Reads : result[r] = "zero" => Op[r] \in {"evmBatch", "solanaToken"}
  /\ errors \in 0..MaxErrors
QueueNow ==
  /\ queue \in Seq(Reads)
  /\ \A r \in Reads : phase[r] = "queued" <=> \E i \in 1..Len(queue) : queue[i] = r
  /\ \A i, j \in 1..Len(queue) : queue[i] = queue[j] => i = j

RpcInv == BucketNow /\ StartsNow /\ ReadsNow /\ QueueNow

LEMMA Sizes == Rpc!Horizon \in Nat /\ Period \in Nat /\ Rpc!Full \in Nat /\ Rpc!Oldest \in Nat
<1>1. Burst \in Nat /\ Period \in Nat
  BY ServicesAssumption DEF Rpc!ReadsAssumption
<1>2. Rpc!Horizon \in Nat
  BY <1>1 DEF Rpc!Horizon
<1>. QED  BY <1>1, <1>2, Products

LEMMA Ages == ASSUME StartsNow PROVE Len(ages) \in Nat /\ ages \in [1..Len(ages) -> 0..Rpc!Oldest]
<1>. DEFINE S == 0..Rpc!Oldest
<1>1. ages \in Seq(S)
  BY DEF StartsNow
<1>. HIDE DEF S
<1>2. Len(ages) \in Nat /\ ages \in [1..Len(ages) -> S]
  BY <1>1
<1>. QED  BY <1>2 DEF S

LEMMA RpcTypes == ASSUME RpcInv PROVE Rpc!TypeOK /\ ReadsAreSound
<1>1. Back \in Nat /\ Back <= MaxSlips * Slip /\ MaxSlips * Slip \in Nat /\ (slips = 0 => Back = 0)
  <2>1. slips \in Nat /\ slips <= MaxSlips
    BY ServicesAssumption DEF RpcInv, BucketNow, Rpc!ReadsAssumption
  <2>2. Slip \in Nat
    BY ServicesAssumption DEF Rpc!ReadsAssumption
  <2>. QED  BY <2>1, <2>2, Products DEF Back
<1>2. Period \in Nat
  BY ServicesAssumption DEF Rpc!ReadsAssumption
<1>. DEFINE most == MaxSlips * Slip
<1>. HIDE DEF Back, most
<1>3. /\ sleep \in 0..Period + most /\ level \in (0 - most)..Rpc!Full
      /\ elapsed \in (0 - most)..Rpc!Full + most /\ (slips = 0 => sleep <= Period)
  <2>1. Back \in Nat /\ Back <= most /\ most \in Nat /\ Rpc!Full \in Nat
    BY <1>1, Products DEF most
  <2>2. elapsed <= Rpc!Full + most
    BY DEF RpcInv, BucketNow, most
  <2>. QED  BY <1>1, <1>2, <2>1, <2>2 DEF RpcInv, BucketNow
<1>4. ages \in Rpc!BoundedSeq(0..Rpc!Oldest, Rpc!Horizon)
  <2>1. Len(ages) \in 0..Rpc!Horizon /\ ages \in [1..Len(ages) -> 0..Rpc!Oldest]
    BY Ages, Sizes DEF RpcInv, StartsNow
  <2>. QED  BY <2>1 DEF Rpc!BoundedSeq, Rpc!SeqOf
<1>5. Rpc!ToSet(queue) = {r \in Reads : phase[r] = "queued"} /\ Rpc!IsInjective(queue)
  <2>1. DOMAIN queue = 1..Len(queue) /\ \A i \in 1..Len(queue) : queue[i] \in Reads
    BY DEF RpcInv, QueueNow
  <2>2. Rpc!IsInjective(queue)
    BY <2>1 DEF RpcInv, QueueNow, Rpc!IsInjective
  <2>3. Rpc!ToSet(queue) \subseteq {r \in Reads : phase[r] = "queued"}
    BY <2>1 DEF RpcInv, QueueNow, Rpc!ToSet
  <2>4. ASSUME NEW r \in Reads, phase[r] = "queued" PROVE r \in Rpc!ToSet(queue)
    <3>1. PICK i \in 1..Len(queue) : queue[i] = r
      BY <2>4 DEF RpcInv, QueueNow
    <3>. QED  BY <2>1, <3>1 DEF Rpc!ToSet
  <2>. QED  BY <2>2, <2>3, <2>4
<1>6. Rpc!RateCapped
  BY DEF RpcInv, StartsNow, Rpc!RateCapped, Due
<1>7. Rpc!BlipsAreRetried
  BY DEF RpcInv, ReadsNow, Rpc!BlipsAreRetried, Rpc!Configured
<1>. QED
  BY <1>3, <1>4, <1>5, <1>6, <1>7 DEF RpcInv, BucketNow, ReadsNow, Rpc!TypeOK, Rpc!NextTokenInTime, ReadsAreSound, most

LEMMA InitRpcInv == Rpc!Init => RpcInv
<1>. SUFFICES ASSUME Rpc!Init PROVE RpcInv
  OBVIOUS
<1>. USE ServicesAssumption DEF Rpc!ReadsAssumption, Rpc!Init
<1>1. BucketNow
  <2>1. Back = 0 /\ Period \in Nat /\ MaxSlips \in Nat
    BY DEF Back
  <2>2. MaxSlips * Slip \in Nat /\ Rpc!Full \in Nat
    BY Products
  <2>3. slips = 0 /\ level = Rpc!Full /\ elapsed = 0 /\ sleep = 0
    OBVIOUS
  <2>. DEFINE most == MaxSlips * Slip
  <2>4. Rpc!Full + most >= 0
    BY <2>2
  <2>. HIDE DEF Back, most
  <2>5. elapsed <= Rpc!Full + most
    BY <2>3, <2>4
  <2>. QED  BY <2>1, <2>2, <2>3, <2>5 DEF BucketNow, most
<1>2. StartsNow
  <2>1. Rpc!Horizon \in Nat
    BY DEF Rpc!Horizon
  <2>. QED  BY <2>1 DEF StartsNow
<1>3. ReadsNow /\ QueueNow
  BY DEF ReadsNow, QueueNow
<1>. QED  BY <1>1, <1>2, <1>3 DEF RpcInv

LEMMA Enqueued ==
  ASSUME RpcInv, NEW r \in Reads, phase[r] # "queued",
         phase' = [phase EXCEPT ![r] = "queued"], queue' = Append(queue, r)
  PROVE  QueueNow'
<1>1. /\ queue \in Seq(Reads) /\ Len(queue) \in Nat
      /\ \A p \in Reads : phase[p] = "queued" <=> \E i \in 1..Len(queue) : queue[i] = p
      /\ \A i, j \in 1..Len(queue) : queue[i] = queue[j] => i = j
      /\ phase \in [Reads -> {"idle", "queued", "called", "backoff", "done"}]
  BY DEF RpcInv, ReadsNow, QueueNow
<1>2. /\ queue' \in Seq(Reads) /\ Len(queue') = Len(queue) + 1 /\ queue'[Len(queue) + 1] = r
      /\ \A i \in 1..Len(queue) : queue'[i] = queue[i]
  BY <1>1
<1>3. \A p \in Reads : phase'[p] = "queued" <=> phase[p] = "queued" \/ p = r
  BY <1>1
<1>4. ASSUME NEW p \in Reads
      PROVE  phase'[p] = "queued" <=> \E i \in 1..Len(queue') : queue'[i] = p
  BY <1>1, <1>2, <1>3
<1>5. ASSUME NEW i \in 1..Len(queue'), NEW j \in 1..Len(queue'), queue'[i] = queue'[j] PROVE i = j
  BY <1>1, <1>2, <1>5
<1>. QED  BY <1>2, <1>4, <1>5 DEF QueueNow

LEMMA Dequeued ==
  ASSUME RpcInv, queue # <<>>, phase' = [phase EXCEPT ![Head(queue)] = "called"], queue' = Tail(queue)
  PROVE  QueueNow' /\ Head(queue) \in Reads
<1>1. /\ queue \in Seq(Reads) /\ Len(queue) \in Nat /\ Len(queue) > 0
      /\ \A p \in Reads : phase[p] = "queued" <=> \E i \in 1..Len(queue) : queue[i] = p
      /\ \A i, j \in 1..Len(queue) : queue[i] = queue[j] => i = j
      /\ phase \in [Reads -> {"idle", "queued", "called", "backoff", "done"}]
  BY DEF RpcInv, ReadsNow, QueueNow
<1>2. /\ queue' \in Seq(Reads) /\ Len(queue') = Len(queue) - 1 /\ Head(queue) = queue[1] /\ Head(queue) \in Reads
      /\ \A i \in 1..Len(queue') : queue'[i] = queue[i + 1]
  BY <1>1
<1>3. \A p \in Reads : phase'[p] = "queued" <=> phase[p] = "queued" /\ p # queue[1]
  BY <1>1, <1>2
<1>4. ASSUME NEW p \in Reads
      PROVE  phase'[p] = "queued" <=> \E i \in 1..Len(queue') : queue'[i] = p
  <2>1. ASSUME phase'[p] = "queued" PROVE \E i \in 1..Len(queue') : queue'[i] = p
    <3>1. PICK i \in 1..Len(queue) : queue[i] = p /\ i # 1
      BY <1>1, <1>3, <2>1
    <3>2. i - 1 \in 1..Len(queue') /\ queue'[i - 1] = p
      BY <1>1, <1>2, <3>1
    <3>. QED  BY <3>2
  <2>2. ASSUME NEW i \in 1..Len(queue'), queue'[i] = p PROVE phase'[p] = "queued"
    <3>1. i + 1 \in 1..Len(queue) /\ queue[i + 1] = p /\ i + 1 # 1 /\ 1 \in 1..Len(queue)
      BY <1>1, <1>2, <2>2
    <3>. QED  BY <1>1, <1>3, <3>1
  <2>. QED  BY <2>1, <2>2
<1>5. ASSUME NEW i \in 1..Len(queue'), NEW j \in 1..Len(queue'), queue'[i] = queue'[j] PROVE i = j
  <2>1. i + 1 \in 1..Len(queue) /\ j + 1 \in 1..Len(queue) /\ queue[i + 1] = queue[j + 1]
    BY <1>1, <1>2, <1>5
  <2>. QED  BY <1>1, <2>1
<1>. QED  BY <1>2, <1>4, <1>5 DEF QueueNow

LEMMA RefilledIs ==
  ASSUME BucketNow
  PROVE  /\ Rpc!Refilled \in Int /\ Rpc!Refilled <= Rpc!Full /\ 0 - Back <= Rpc!Refilled
         /\ Rpc!Refilled <= level + elapsed
<1>1. Back \in Nat
  BY ServicesAssumption, Products DEF BucketNow, Back, Rpc!ReadsAssumption
<1>2. Rpc!Full \in Nat
  BY Products
<1>. HIDE DEF Back
<1>. QED  BY <1>1, <1>2 DEF BucketNow, Rpc!Refilled, Rpc!Least

\* A call takes a token: what is left in the bucket is less by it, and there
\* was one to take.
LEMMA TokenTaken ==
  ASSUME RpcInv, Rpc!Acquire, Rpc!Refilled >= Period
  PROVE  RpcInv'
<1>. DEFINE k == Len(ages)
            s == <<0>> \o ages
<1>1. /\ ages \in Seq(0..Rpc!Oldest) /\ k \in Nat
      /\ \A n \in 1..k : ages[n] \in 0..Rpc!Oldest
  BY Ages DEF RpcInv, StartsNow
<1>2. Rpc!Horizon \in Nat /\ Period \in Nat /\ Rpc!Full \in Nat /\ Rpc!Oldest \in Nat
  BY Sizes
<1>3. Rpc!Refilled \in Int /\ Rpc!Refilled <= Rpc!Full /\ Period <= Rpc!Refilled
  BY RefilledIs, <1>2 DEF RpcInv
<1>4. /\ phase' = [phase EXCEPT ![Head(queue)] = "called"] /\ queue' = Tail(queue) /\ queue # <<>>
      /\ level' = Rpc!Refilled - Period /\ elapsed' = 0
      /\ ages' = SubSeq(s, 1, Rpc!Least(k + 1, Rpc!Horizon))
      /\ UNCHANGED <<sleep, attempt, backoff, result, slips, errors>>
  BY DEF Rpc!Acquire, Rpc!Take
<1>5. QueueNow' /\ Head(queue) \in Reads
  BY <1>4, Dequeued
<1>10. phase[Head(queue)] = "queued"
  <2>1. queue \in Seq(Reads) /\ Len(queue) >= 1
    BY <1>4 DEF RpcInv, QueueNow
  <2>2. 1 \in 1..Len(queue) /\ Head(queue) = queue[1]
    BY <2>1
  <2>. QED  BY <1>5, <2>2 DEF RpcInv, QueueNow
<1>6. ReadsNow'
  BY <1>4, <1>5, <1>10 DEF RpcInv, ReadsNow
<1>7. BucketNow'
  <2>1. Back' = Back /\ Back \in Nat
    BY <1>4, ServicesAssumption, Products DEF Back, RpcInv, BucketNow, Rpc!ReadsAssumption
  <2>2. slips \in 0..MaxSlips /\ sleep \in Nat /\ sleep <= Period + Back /\ MaxSlips * Slip \in Nat
    BY Products DEF RpcInv, BucketNow
  <2>. DEFINE most == MaxSlips * Slip
  <2>3. elapsed' <= Rpc!Full + most
    <3>. HIDE DEF most
    <3>. QED  BY <1>2, <1>4, <2>2 DEF most
  <2>. HIDE DEF Back, most
  <2>4. level' \in Int /\ 0 - Back <= level' /\ level' <= Rpc!Full
    BY <1>2, <1>3, <1>4, <2>1
  <2>. QED  BY <1>4, <2>1, <2>2, <2>3, <2>4 DEF BucketNow, most
<1>8. StartsNow'
  <2>1. /\ s \in Seq(0..Rpc!Oldest) /\ Len(s) = k + 1 /\ s[1] = 0
        /\ \A m \in 1..k : s[m + 1] = ages[m]
    <3>. DEFINE S == 0..Rpc!Oldest
    <3>1. ages \in Seq(S) /\ 0 \in S
      BY <1>1, <1>2
    <3>. HIDE DEF S
    <3>2. s \in Seq(S) /\ Len(s) = k + 1 /\ s[1] = 0 /\ \A m \in 1..k : s[m + 1] = ages[m]
      BY <3>1
    <3>. QED  BY <3>2 DEF S
  <2>. DEFINE last == Rpc!Least(k + 1, Rpc!Horizon)
  <2>2. last \in Nat /\ last <= k + 1 /\ last <= Rpc!Horizon
    BY <1>1, <1>2 DEF Rpc!Least
  <2>. HIDE DEF s, k, last
  <2>3. ages' \in Seq(0..Rpc!Oldest) /\ Len(ages') = last /\ \A n \in 1..last : ages'[n] = s[n]
    <3>. DEFINE S == 0..Rpc!Oldest
    <3>1. s \in Seq(S) /\ Len(s) = k + 1 /\ k \in Nat
      BY <1>1, <2>1
    <3>2. ages' = SubSeq(s, 1, last)
      BY <1>4 DEF last
    <3>. HIDE DEF S
    <3>3. ages' \in Seq(S) /\ Len(ages') = last /\ \A n \in 1..last : ages'[n] = s[n]
      BY <2>2, <3>1, <3>2
    <3>. QED  BY <3>3 DEF S
  <2>4. Rpc!Refilled' = Rpc!Refilled - Period
    BY <1>2, <1>3, <1>4 DEF Rpc!Refilled, Rpc!Least
  <2>5. ASSUME NEW n \in 1..last
        PROVE  Due(n) <= ages'[n] /\ (ages'[n] = Rpc!Oldest \/ Due(n) + Rpc!Refilled' <= ages'[n])
    <3>1. CASE n = 1
      <4>1. ages'[n] = 0
        BY <2>1, <2>3, <3>1
      <4>2. Due(n) \in Int /\ Due(n) = Period - Rpc!Full
        <5>1. Due(1) \in Int /\ Due(1) + Rpc!Full = Period
          BY Products
        <5>. HIDE DEF Due
        <5>. QED  BY <1>2, <3>1, <5>1
      <4>. HIDE DEF Due
      <4>. QED  BY <1>2, <1>3, <2>4, <4>1, <4>2
    <3>2. CASE n # 1
      <4>. DEFINE m == n - 1
      <4>1. m \in 1..k /\ m + 1 = n /\ n \in Int /\ m \in Int
        BY <1>1, <2>2, <3>2
      <4>2. ages'[n] = ages[m] /\ ages[m] \in 0..Rpc!Oldest
        BY <1>1, <2>1, <2>3, <4>1
      <4>3. Due(m) \in Int /\ Due(n) = Due(m) + Period
        BY <4>1, Products
      <4>4. Due(n) <= Rpc!Oldest
        <5>1. n <= Rpc!Horizon
          BY <1>2, <2>2, <4>1
        <5>2. Due(n) <= Due(Rpc!Horizon)
          BY <1>2, <4>1, <5>1, Products
        <5>. QED  BY <5>2, Products
      <4>5. ages[m] = Rpc!Oldest \/ Due(m) + Rpc!Refilled <= ages[m]
        BY <4>1 DEF RpcInv, StartsNow, k
      <4>. HIDE DEF Due, m
      <4>. QED  BY <1>2, <1>3, <2>4, <4>2, <4>3, <4>4, <4>5
    <3>. QED  BY <3>1, <3>2
  <2>. QED  BY <2>2, <2>3, <2>5 DEF StartsNow
<1>. QED  BY <1>5, <1>6, <1>7, <1>8 DEF RpcInv

LEMMA TokenAwaited ==
  ASSUME RpcInv, Rpc!Acquire, ~(Rpc!Refilled >= Period)
  PROVE  RpcInv'
<1>1. /\ sleep' = Period - Rpc!Refilled /\ level' = Rpc!Refilled /\ elapsed' = 0
      /\ UNCHANGED <<queue, phase, ages, attempt, backoff, result, slips, errors>>
  BY DEF Rpc!Acquire, Rpc!Missing
<1>2. /\ Rpc!Refilled \in Int /\ Rpc!Refilled <= Rpc!Full /\ 0 - Back <= Rpc!Refilled
      /\ Period \in Nat /\ Rpc!Full \in Nat
  BY RefilledIs, Sizes DEF RpcInv
<1>3. Rpc!Refilled' = Rpc!Refilled
  BY <1>1, <1>2 DEF Rpc!Refilled, Rpc!Least
<1>4. BucketNow'
  <2>1. Back' = Back /\ Back \in Nat
    BY <1>1, ServicesAssumption, Products DEF Back, RpcInv, BucketNow, Rpc!ReadsAssumption
  <2>2. slips \in 0..MaxSlips /\ MaxSlips * Slip \in Nat
    BY Products DEF RpcInv, BucketNow
  <2>. DEFINE most == MaxSlips * Slip
  <2>. HIDE DEF Back, most
  <2>3. sleep' \in Nat /\ sleep' <= Period + Back'
    BY <1>1, <1>2, <2>1
  <2>4. elapsed' <= Rpc!Full + most
    BY <1>1, <1>2, <2>2 DEF most
  <2>. QED  BY <1>1, <1>2, <2>1, <2>2, <2>3, <2>4 DEF BucketNow, most
<1>. QED
  BY <1>1, <1>3, <1>4 DEF RpcInv, StartsNow, ReadsNow, QueueNow

LEMMA TimePasses == ASSUME RpcInv, Rpc!Tick PROVE RpcInv'
<1>. DEFINE most == MaxSlips * Slip
<1>1. /\ sleep' = Rpc!Most(sleep - 1, 0) /\ backoff' = [r \in Reads |-> Rpc!Most(backoff[r] - 1, 0)]
      /\ elapsed' = Rpc!Least(elapsed + 1, Rpc!Full + most)
      /\ ages' = [i \in DOMAIN ages |-> Rpc!Least(ages[i] + 1, Rpc!Oldest)]
      /\ UNCHANGED <<phase, attempt, result, queue, level, slips, errors>>
  BY DEF Rpc!Tick
<1>2. Back' = Back /\ Back \in Nat /\ Back <= most /\ most \in Nat
  BY <1>1, ServicesAssumption, Products DEF Back, RpcInv, BucketNow, Rpc!ReadsAssumption
<1>. HIDE DEF Back, most
<1>3. /\ Period \in Nat /\ Rpc!Full \in Nat /\ Rpc!Oldest \in Nat
      /\ slips \in 0..MaxSlips /\ level \in Int /\ elapsed \in Int /\ sleep \in Nat
      /\ 0 - Back <= level /\ 0 - Back <= elapsed /\ 0 - Back <= level + elapsed
      /\ level <= Rpc!Full /\ elapsed <= Rpc!Full + most /\ sleep <= Period + Back
  BY Sizes DEF RpcInv, BucketNow, most
<1>4. /\ elapsed' \in Int /\ elapsed <= elapsed' /\ elapsed' <= elapsed + 1
      /\ elapsed' <= Rpc!Full + most /\ sleep' \in Nat /\ sleep' <= sleep
  BY <1>1, <1>2, <1>3 DEF Rpc!Least, Rpc!Most
<1>5. BucketNow'
  BY <1>1, <1>2, <1>3, <1>4 DEF BucketNow, most
<1>6. StartsNow'
  <2>1. Len(ages) \in Nat /\ ages \in [1..Len(ages) -> 0..Rpc!Oldest]
    BY Ages DEF RpcInv
  <2>2. /\ ages' \in [1..Len(ages) -> 0..Rpc!Oldest]
        /\ \A n \in 1..Len(ages) : ages'[n] = Rpc!Least(ages[n] + 1, Rpc!Oldest)
    BY <1>1, <1>3, <2>1 DEF Rpc!Least
  <2>3. ages' \in Seq(0..Rpc!Oldest) /\ Len(ages') = Len(ages)
    <3>. DEFINE S == 0..Rpc!Oldest
    <3>1. ages' \in [1..Len(ages) -> S]
      BY <2>2
    <3>. HIDE DEF S
    <3>2. ages' \in Seq(S) /\ Len(ages') = Len(ages)
      BY <2>1, <3>1
    <3>. QED  BY <3>2 DEF S
  <2>4. Rpc!Refilled \in Int /\ Rpc!Refilled' \in Int /\ Rpc!Refilled' <= Rpc!Refilled + 1
    BY <1>1, <1>3, <1>4 DEF Rpc!Refilled, Rpc!Least
  <2>5. ASSUME NEW n \in 1..Len(ages)
        PROVE  Due(n) <= ages'[n] /\ (ages'[n] = Rpc!Oldest \/ Due(n) + Rpc!Refilled' <= ages'[n])
    <3>1. ages[n] \in 0..Rpc!Oldest /\ ages'[n] = Rpc!Least(ages[n] + 1, Rpc!Oldest)
      BY <2>1, <2>2
    <3>2. Due(n) <= ages[n] /\ (ages[n] = Rpc!Oldest \/ Due(n) + Rpc!Refilled <= ages[n]) /\ Due(n) \in Int
      BY Products DEF RpcInv, StartsNow
    <3>. HIDE DEF Due
    <3>. QED  BY <1>3, <2>4, <3>1, <3>2 DEF Rpc!Least
  <2>. QED  BY <2>3, <2>5 DEF RpcInv, StartsNow
<1>7. ReadsNow'
  <2>1. Cap \in Nat /\ backoff \in [Reads -> 0..Cap]
    BY ServicesAssumption DEF RpcInv, ReadsNow, Rpc!ReadsAssumption
  <2>2. backoff' \in [Reads -> 0..Cap]
    BY <1>1, <2>1 DEF Rpc!Most
  <2>. QED  BY <1>1, <2>2 DEF RpcInv, ReadsNow
<1>. QED
  BY <1>1, <1>5, <1>6, <1>7 DEF RpcInv, QueueNow

LEMMA ClockSetBack == ASSUME RpcInv, Rpc!SetBack PROVE RpcInv'
<1>1. /\ slips < MaxSlips /\ slips' = slips + 1 /\ elapsed' = elapsed - Slip
      /\ UNCHANGED <<phase, attempt, backoff, result, queue, sleep, level, ages, errors>>
  BY DEF Rpc!SetBack
<1>2. Slip \in Nat /\ MaxSlips \in Nat /\ slips \in Nat /\ Period \in Nat /\ Rpc!Full \in Nat
  BY ServicesAssumption, Sizes DEF RpcInv, BucketNow, Rpc!ReadsAssumption
<1>3. Back' = Back + Slip /\ Back \in Nat
  BY <1>1, <1>2, Products DEF Back
<1>. DEFINE most == MaxSlips * Slip
<1>4. most \in Nat
  BY Products
<1>. HIDE DEF Back, most
<1>5. /\ slips \in 0..MaxSlips /\ level \in Int /\ elapsed \in Int /\ sleep \in Nat
      /\ 0 - Back <= level /\ 0 - Back <= elapsed /\ 0 - Back <= level + elapsed
      /\ level <= Rpc!Full /\ elapsed <= Rpc!Full + most /\ sleep <= Period + Back
  BY DEF RpcInv, BucketNow, most
<1>6. BucketNow'
  BY <1>1, <1>2, <1>3, <1>4, <1>5 DEF BucketNow, most
<1>7. Rpc!Refilled \in Int /\ Rpc!Refilled' \in Int /\ Rpc!Refilled' <= Rpc!Refilled
  BY <1>1, <1>2, <1>5 DEF Rpc!Refilled, Rpc!Least
<1>8. StartsNow'
  <2>1. ASSUME NEW n \in 1..Len(ages), ages[n] # Rpc!Oldest PROVE Due(n) + Rpc!Refilled' <= ages[n]
    <3>1. Due(n) + Rpc!Refilled <= ages[n] /\ Due(n) \in Int /\ ages[n] \in Int
      <4>1. Due(n) \in Int
        BY Products
      <4>2. ages[n] \in 0..Rpc!Oldest
        BY Ages DEF RpcInv
      <4>. QED  BY <2>1, <4>1, <4>2, Sizes DEF RpcInv, StartsNow
    <3>. HIDE DEF Due
    <3>. QED  BY <1>7, <3>1
  <2>. QED  BY <1>1, <2>1 DEF RpcInv, StartsNow
<1>. QED
  BY <1>1, <1>6, <1>8 DEF RpcInv, ReadsNow, QueueNow

LEMMA RpcKeeps == ASSUME RpcInv, [Rpc!Next]_rpc PROVE RpcInv'
<1>. USE DEF RpcInv
<1>1. CASE UNCHANGED rpc
  BY <1>1 DEF rpc, BucketNow, StartsNow, ReadsNow, QueueNow, Rpc!Refilled, Back
<1>2. CASE Rpc!Acquire
  BY <1>2, TokenTaken, TokenAwaited
<1>3. CASE Rpc!Tick
  BY <1>3, TimePasses
<1>4. CASE Rpc!SetBack
  BY <1>4, ClockSetBack
<1>. SUFFICES ASSUME NEW r \in Reads, Rpc!Begin(r) \/ Rpc!Retry(r) \/ \E reply \in Rpc!Replies : Rpc!Answer(r, reply)
              PROVE  RpcInv'
  BY <1>1, <1>2, <1>3, <1>4 DEF Rpc!Next
<1>5. BucketNow' /\ StartsNow'
  BY DEF Rpc!Begin, Rpc!Retry, Rpc!Answer, BucketNow, StartsNow, Rpc!Refilled, Back
<1>6. Attempts \in Nat \ {0} /\ Cap \in Nat
  BY ServicesAssumption DEF Rpc!ReadsAssumption
<1>7. CASE Rpc!Begin(r)
  <2>1. ReadsNow'
    <3>1. CASE Rpc!Configured(r)
      <4>1. /\ phase' = [phase EXCEPT ![r] = "queued"] /\ attempt' = [attempt EXCEPT ![r] = 1]
            /\ result' = [result EXCEPT ![r] = "none"] /\ UNCHANGED <<backoff, errors>>
        BY <1>7, <3>1 DEF Rpc!Begin
      <4>2. 1 \in 0..Attempts
        BY <1>6
      <4>3. attempt' \in [Reads -> 0..Attempts]
        BY <4>1, <4>2 DEF ReadsNow
      <4>4. \A p \in Reads : phase'[p] = "backoff" => p # r
        BY <4>1 DEF ReadsNow
      <4>. QED  BY <4>1, <4>3, <4>4 DEF ReadsNow
    <3>2. CASE ~Rpc!Configured(r)
      BY <1>6, <1>7, <3>2 DEF Rpc!Begin, Rpc!Configured, ReadsNow
    <3>. QED  BY <3>1, <3>2
  <2>2. QueueNow'
    <3>1. CASE Rpc!Configured(r)
      BY <1>7, <3>1, Enqueued DEF Rpc!Begin, Rpc!Settled
    <3>2. CASE ~Rpc!Configured(r)
      BY <1>7, <3>2 DEF Rpc!Begin, QueueNow, ReadsNow, Rpc!Settled
    <3>. QED  BY <3>1, <3>2
  <2>. QED  BY <1>5, <2>1, <2>2
<1>8. CASE Rpc!Retry(r)
  <2>1. ReadsNow'
    BY <1>6, <1>8 DEF Rpc!Retry, Rpc!Schedule, ReadsNow
  <2>2. QueueNow'
    BY <1>8, Enqueued DEF Rpc!Retry, Rpc!Schedule
  <2>. QED  BY <1>5, <2>1, <2>2
<1>9. ASSUME NEW reply \in Rpc!Replies, Rpc!Answer(r, reply) PROVE RpcInv'
  <2>1. errors' \in 0..MaxErrors
    BY <1>9, ServicesAssumption DEF Rpc!Answer, ReadsNow, Rpc!ReadsAssumption
  <2>2. /\ Rpc!Outcome(Op[r], reply) \in {"balance", "zero", "again"}
        /\ Rpc!Outcome(Op[r], reply) = "zero" => Op[r] \in {"evmBatch", "solanaToken"}
    BY DEF Rpc!Outcome, Rpc!Unread
  <2>3. /\ phase[r] = "called" /\ UNCHANGED <<attempt, queue>>
        /\ \/ /\ phase' = [phase EXCEPT ![r] = "done"] /\ UNCHANGED backoff
              /\ \E x \in {"balance", "zero", "rejected"} :
                   /\ result' = [result EXCEPT ![r] = x]
                   /\ x = "rejected" => attempt[r] >= Attempts
                   /\ x = "zero" => Op[r] \in {"evmBatch", "solanaToken"}
           \/ /\ phase' = [phase EXCEPT ![r] = "backoff"] /\ UNCHANGED result /\ ~(attempt[r] >= Attempts)
              /\ \E d \in 0..Cap : backoff' = [backoff EXCEPT ![r] = d]
    BY <1>9, <2>2 DEF Rpc!Answer
  <2>6. attempt[r] \in 0..Attempts
    BY DEF ReadsNow
  <2>4. ReadsNow'
    <3>1. CASE phase' = [phase EXCEPT ![r] = "done"]
      BY <1>6, <2>1, <2>3, <2>6, <3>1 DEF ReadsNow
    <3>2. CASE phase' = [phase EXCEPT ![r] = "backoff"]
      BY <1>6, <2>1, <2>3, <2>6, <3>2 DEF ReadsNow
    <3>. QED  BY <2>3, <3>1, <3>2
  <2>5. QueueNow'
    BY <2>3 DEF QueueNow, ReadsNow
  <2>. QED  BY <1>5, <2>4, <2>5
<1>. QED  BY <1>7, <1>8, <1>9

-----------------------------------------------------------------------------
(* Histories                                                               *)

\* s is n transactions of a run, the newest being hi.
Run(s, hi, n) == s \in Seq(Int) /\ Len(s) = n /\ \A i \in 1..n : s[i] = hi + 1 - i
RunLength(hi, lo) == IF hi < lo THEN 0 ELSE hi + 1 - lo
PageLength(n) == IF n < Limit THEN n ELSE Limit

LEMMA HistoryConstants ==
  /\ Limit \in Nat \ {0} /\ FromBlock \in Nat /\ MaxTx \in Nat /\ Older \in 0..MaxTx
  /\ MaxRead \in Nat /\ HistoryFaults \in Nat
BY ServicesAssumption DEF Etherscan!HistoryAssumption

LEMMA FirstOfRun ==
  ASSUME NEW s, NEW hi \in Int, NEW n \in Nat, Run(s, hi, n)
  PROVE  Run(SubSeq(s, 1, PageLength(n)), hi, PageLength(n)) /\ PageLength(n) \in Nat /\ PageLength(n) <= n
<1>1. PageLength(n) \in Nat /\ PageLength(n) <= n
  BY HistoryConstants DEF PageLength
<1>. HIDE DEF PageLength
<1>. QED  BY <1>1 DEF Run

LEMMA RestOfRun ==
  ASSUME NEW s, NEW hi \in Int, NEW n \in Nat, Run(s, hi, n), NEW k \in Nat
  PROVE  Run(SubSeq(s, k + 1, n), hi - k, IF n < k THEN 0 ELSE n - k)
<1>1. CASE n < k
  BY <1>1 DEF Run
<1>2. CASE ~(n < k)
  BY <1>2 DEF Run
<1>. QED  BY <1>1, <1>2

LEMMA RunsJoin ==
  ASSUME NEW s, NEW t, NEW hi \in Int, NEW n \in Nat, NEW m \in Nat, Run(s, hi, n), Run(t, hi - n, m)
  PROVE  Run(s \o t, hi, n + m)
<1>1. /\ s \in Seq(Int) /\ Len(s) = n /\ \A i \in 1..n : s[i] = hi + 1 - i
      /\ t \in Seq(Int) /\ Len(t) = m /\ \A i \in 1..m : t[i] = hi - n + 1 - i
  BY DEF Run
<1>2. /\ s \o t \in Seq(Int) /\ Len(s \o t) = n + m
      /\ \A i \in 1..(n + m) : (s \o t)[i] = IF i <= n THEN s[i] ELSE t[i - n]
  BY <1>1, ConcatProperties
<1>3. ASSUME NEW i \in 1..(n + m) PROVE (s \o t)[i] = hi + 1 - i
  <2>1. CASE i <= n
    BY <1>1, <1>2, <2>1
  <2>2. CASE ~(i <= n)
    <3>1. i - n \in 1..m /\ (s \o t)[i] = t[i - n]
      BY <1>2, <2>2
    <3>2. t[i - n] = hi - n + 1 - (i - n)
      BY <1>1, <3>1
    <3>. QED  BY <3>1, <3>2
  <2>. QED  BY <2>1, <2>2
<1>. QED  BY <1>2, <1>3 DEF Run

\* Of a Solana account the reader has the run from the transaction that was the
\* newest when it began, and its cursor is where that run ends.
SolanaInv ==
  /\ mined \in Older..MaxTx /\ since \in 0..mined /\ historyFaults \in 0..HistoryFaults
  /\ Len(list) \in Nat /\ Len(list) <= since /\ Run(list, since, Len(list))
  /\ \/ done = FALSE /\ cursor = Solana!NoCursor /\ list = <<>>
     \/ done = TRUE /\ cursor = Solana!NoCursor /\ Len(list) = since
     \/ done = FALSE /\ Len(list) > 0 /\ cursor = [kind |-> "solana", at |-> since + 1 - Len(list)]

LEMMA SolanaTypes ==
  ASSUME SolanaInv PROVE Solana!TypeOK /\ Solana!NothingSkipped /\ Solana!PagesLineUp
<1>1. mined \in Nat /\ mined <= MaxTx /\ MaxTx \in Nat /\ since \in Nat /\ since <= mined
  BY HistoryConstants DEF SolanaInv
<1>2. /\ list \in Seq(Int) /\ DOMAIN list = 1..Len(list) /\ Len(list) \in Nat /\ Len(list) <= since
      /\ \A i \in 1..Len(list) : list[i] = since + 1 - i
  BY DEF SolanaInv, Run
<1>3. Solana!ToSet(list) \subseteq 1..mined
  BY <1>1, <1>2 DEF Solana!ToSet
<1>4. Solana!ToSet(<<"solana">>) = {"solana"}
  BY DEF Solana!ToSet
<1>5. cursor \in [kind: {"none"} \cup {"solana"}, at: 0..MaxTx + 1]
  <2>1. CASE cursor = Solana!NoCursor
    BY <1>1, <2>1 DEF Solana!NoCursor
  <2>2. CASE cursor = [kind |-> "solana", at |-> since + 1 - Len(list)]
    <3>1. since + 1 - Len(list) \in 0..MaxTx + 1
      BY <1>1, <1>2
    <3>. QED  BY <2>2, <3>1
  <2>. QED  BY <2>1, <2>2 DEF SolanaInv
<1>6. cursor.kind = "solana" => cursor.at = Solana!Last(list)
  <2>1. CASE cursor = Solana!NoCursor
    BY <2>1 DEF Solana!NoCursor
  <2>2. CASE Len(list) > 0 /\ cursor = [kind |-> "solana", at |-> since + 1 - Len(list)]
    <3>1. list[Len(list)] = since + 1 - Len(list)
      BY <1>2, <2>2
    <3>. QED  BY <2>2, <3>1 DEF Solana!Last
  <2>. QED  BY <2>1, <2>2 DEF SolanaInv
<1>7. Solana!TypeOK
  BY <1>3, <1>4, <1>5, <1>6 DEF SolanaInv, Solana!NoCursor, Solana!TypeOK
<1>8. Solana!PagesLineUp
  BY <1>1, <1>2 DEF Solana!PagesLineUp
<1>9. ASSUME done, NEW t \in 1..since PROVE t \in Solana!ToSet(list)
  <2>1. Len(list) = since
    BY <1>9 DEF SolanaInv
  <2>2. since + 1 - t \in 1..Len(list) /\ list[since + 1 - t] = t
    BY <1>1, <1>2, <2>1
  <2>. QED  BY <1>2, <2>2 DEF Solana!ToSet
<1>. QED  BY <1>7, <1>8, <1>9 DEF Solana!NothingSkipped

LEMMA InitSolanaInv == Solana!Init => SolanaInv
BY HistoryConstants DEF Solana!Init, SolanaInv, Run

\* The page of a Solana cursor: the run below it.
LEMMA SolanaPage ==
  ASSUME SolanaInv, NEW page \in Solana!TryInOrder({}) \cup Solana!TryInOrder({"solana"})
  PROVE  \E hi, m \in Nat :
           /\ hi = IF cursor.at = 0 THEN mined ELSE cursor.at - 1
           /\ m = PageLength(hi) /\ Run(page.records, hi, m)
           /\ page.next = IF m = Limit THEN [kind |-> "solana", at |-> hi + 1 - m] ELSE Solana!NoCursor
<1>. DEFINE hi == IF cursor.at = 0 THEN mined ELSE cursor.at - 1
            m == PageLength(hi)
            records == Solana!FirstOf(Solana!Before("solana", cursor.at))
<1>1. hi \in Nat
  BY HistoryConstants DEF SolanaInv, Solana!NoCursor
<1>2. page = [records |-> records, next |-> IF Solana!Full(records)
                THEN [kind |-> "solana", at |-> Solana!CursorOf(records)] ELSE Solana!NoCursor]
  <2>1. page \in Solana!Pages("solana", cursor)
    BY DEF Solana!TryInOrder, Solana!Min
  <2>. QED  BY <2>1 DEF Solana!Pages, Solana!SolanaPages
<1>3. Run(Solana!Before("solana", cursor.at), hi, hi)
  <2>1. Solana!Before("solana", cursor.at) = [i \in 1..hi |-> hi + 1 - i]
    BY <1>1 DEF Solana!Before, Solana!Newest, Solana!Earliest
  <2>. HIDE DEF hi
  <2>. QED  BY <1>1, <2>1 DEF Run
<1>4. Run(records, hi, m) /\ m \in Nat
  <2>1. Len(Solana!Before("solana", cursor.at)) = hi
    BY <1>3 DEF Run
  <2>2. records = SubSeq(Solana!Before("solana", cursor.at), 1, m)
    BY <2>1 DEF Solana!FirstOf, PageLength
  <2>. HIDE DEF hi, m, records
  <2>. QED  BY <1>1, <1>3, <2>2, FirstOfRun DEF m
<1>5. Solana!Full(records) <=> m = Limit
  BY <1>4 DEF Run, Solana!Full
<1>6. m = Limit => Solana!CursorOf(records) = hi + 1 - m
  <2>. HIDE DEF hi, m, records
  <2>. QED  BY <1>1, <1>4, HistoryConstants DEF Run, Solana!CursorOf, Solana!Last
<1>. HIDE DEF hi, m, records
<1>7. page.records = records /\ page.next = IF m = Limit THEN [kind |-> "solana", at |-> hi + 1 - m] ELSE Solana!NoCursor
  BY <1>2, <1>5, <1>6
<1>. QED  BY <1>1, <1>4, <1>7 DEF hi, m

LEMMA SolanaKeeps == ASSUME SolanaInv, [Solana!Next]_history PROVE SolanaInv'
<1>1. CASE UNCHANGED history
  BY <1>1 DEF history, SolanaInv, Run
<1>2. CASE Solana!Mine
  BY <1>2, HistoryConstants DEF Solana!Mine, SolanaInv, Run
<1>3. ASSUME NEW down \in SUBSET Solana!ToSet(<<"solana">>), Solana!Read(down) PROVE SolanaInv'
  <2>1. down = {} \/ down = {"solana"}
    BY <1>3 DEF Solana!ToSet
  <2>2. ~done /\ mined' = mined /\ historyFaults' \in 0..HistoryFaults
    BY <1>3, HistoryConstants DEF Solana!Read, SolanaInv
  <2>3. CASE Solana!TryInOrder(down) = {}
    BY <1>3, <2>2, <2>3 DEF Solana!Read, SolanaInv, Run
  <2>4. CASE Solana!TryInOrder(down) # {}
    <3>1. PICK page \in Solana!TryInOrder(down) :
            /\ list' = list \o page.records /\ since' = IF Solana!Opened THEN since ELSE mined
            /\ cursor' = page.next /\ done' = (page.next = Solana!NoCursor)
      BY <1>3, <2>4 DEF Solana!Read
    <3>2. PICK hi, m \in Nat :
            /\ hi = IF cursor.at = 0 THEN mined ELSE cursor.at - 1
            /\ m = PageLength(hi) /\ Run(page.records, hi, m)
            /\ page.next = IF m = Limit THEN [kind |-> "solana", at |-> hi + 1 - m] ELSE Solana!NoCursor
      BY <2>1, SolanaPage
    <3>0. m <= hi /\ (m # Limit => m = hi)
      BY <3>2, HistoryConstants DEF PageLength
    <3>. DEFINE k == Len(list)
    <3>3. since' \in 0..mined /\ since' = hi + k /\ k \in Nat /\ Run(list, since', k)
      <4>1. mined \in Nat /\ since \in 0..mined /\ k \in Nat /\ k <= since /\ Run(list, since, k)
        BY HistoryConstants DEF SolanaInv
      <4>2. CASE cursor = Solana!NoCursor /\ list = <<>>
        <5>1. since' = mined /\ hi = mined /\ k = 0
          BY <2>2, <3>1, <3>2, <4>2 DEF Solana!Opened, Solana!NoCursor
        <5>. QED  BY <4>1, <4>2, <5>1 DEF Run
      <4>3. CASE cursor = [kind |-> "solana", at |-> since + 1 - k]
        <5>1. since' = since
          BY <3>1, <4>3 DEF Solana!Opened, Solana!NoCursor
        <5>2. cursor.at = since + 1 - k
          BY <4>3
        <5>3. hi = since - k
          <6>. HIDE DEF k
          <6>. QED  BY <3>2, <4>1, <5>2
        <5>. QED  BY <4>1, <5>1, <5>3
      <4>. QED  BY <2>2, <4>2, <4>3 DEF SolanaInv
    <3>. HIDE DEF k
    <3>4. Run(list', since', k + m) /\ since' \in Int
      BY <3>1, <3>2, <3>3, RunsJoin
    <3>5. Len(list') = k + m /\ k + m \in Nat /\ k + m <= since'
      <4>1. Len(list') = k + m
        BY <3>4 DEF Run
      <4>2. since' \in Int /\ k \in Int /\ since' = hi + k /\ m <= hi /\ m \in Nat
        BY <3>0, <3>3, <3>4
      <4>3. k + m <= since'
        BY <4>2
      <4>4. k + m \in Nat
        BY <3>2, <3>3
      <4>. QED  BY <4>1, <4>3, <4>4
    <3>6. CASE m = Limit
      <4>1. cursor' = [kind |-> "solana", at |-> since' + 1 - (k + m)] /\ done' = FALSE
        <5>1. hi + 1 - m = since' + 1 - (k + m)
          BY <3>2, <3>3, <3>4
        <5>2. cursor' = [kind |-> "solana", at |-> hi + 1 - m]
          BY <3>1, <3>2, <3>6
        <5>3. cursor'.kind = "solana" /\ Solana!NoCursor.kind = "none"
          BY <5>2 DEF Solana!NoCursor
        <5>4. page.next # Solana!NoCursor /\ done' = (page.next = Solana!NoCursor)
          BY <3>1, <5>3
        <5>5. done' = FALSE
          BY <5>4
        <5>. QED  BY <5>1, <5>2, <5>5
      <4>2. k + m > 0
        BY <3>2, <3>3, <3>6, HistoryConstants
      <4>. QED  BY <2>2, <3>3, <3>4, <3>5, <4>1, <4>2 DEF SolanaInv
    <3>7. CASE m # Limit
      <4>1. cursor' = Solana!NoCursor /\ done' = TRUE /\ k + m = since'
        <5>1. cursor' = Solana!NoCursor /\ done' = TRUE
          BY <3>1, <3>2, <3>7
        <5>2. k + m = since'
          <6>1. m = hi /\ since' = hi + k /\ since' \in Int /\ k \in Int
            BY <3>0, <3>3, <3>4, <3>7
          <6>. QED  BY <6>1
        <5>. QED  BY <5>1, <5>2
      <4>. QED  BY <2>2, <3>3, <3>4, <3>5, <4>1 DEF SolanaInv
    <3>. QED  BY <3>6, <3>7
  <2>. QED  BY <2>3, <2>4
<1>. QED  BY <1>1, <1>2, <1>3 DEF Solana!Next

\* Of an EVM account the reader has whole pages, and with them every wanted
\* transaction that now lies on them: mining only moves transactions to later
\* places.  A record was read at its place of that moment.
Wanted == Etherscan!Earliest("etherscan")
Place(t) == mined + 1 - t
Has(t) == \E i \in 1..Len(list) : list[i] = t
EtherscanInv ==
  /\ mined \in Older..MaxTx /\ since \in 0..mined /\ historyFaults \in 0..HistoryFaults
  /\ list \in Seq(Int) /\ \A i \in 1..Len(list) : list[i] \in Wanted..mined
  /\ \A i \in 1..Len(list) : since + 1 - i <= list[i] /\ list[i] <= mined + 1 - i
  /\ \/ done = FALSE /\ cursor = Etherscan!NoCursor /\ list = <<>>
     \/ done = TRUE /\ cursor = Etherscan!NoCursor /\ \A t \in Wanted..since : Has(t)
     \/ \E p \in 1..(MaxTx + 1) :
          /\ done = FALSE /\ cursor = [kind |-> "etherscan", at |-> p]
          /\ Len(list) = (p - 1) * Limit
          /\ \A t \in Wanted..since : Place(t) <= Len(list) => Has(t)

LEMMA WantedIs == Wanted \in Nat /\ Wanted >= 1 /\ Wanted >= FromBlock /\ (\A t \in Nat \ {0} : t >= FromBlock => t >= Wanted)
BY HistoryConstants DEF Wanted, Etherscan!Earliest

LEMMA EtherscanTypes ==
  ASSUME EtherscanInv PROVE Etherscan!TypeOK /\ Etherscan!NothingSkipped /\ Etherscan!InWindow /\ Etherscan!StillPagesLineUp
<1>1. mined \in Nat /\ mined <= MaxTx /\ MaxTx \in Nat /\ since \in Nat /\ since <= mined
  BY HistoryConstants DEF EtherscanInv
<1>2. /\ DOMAIN list = 1..Len(list) /\ Len(list) \in Nat
      /\ \A i \in 1..Len(list) : list[i] \in Wanted..mined
  BY DEF EtherscanInv
<1>3. Etherscan!ToSet(list) \subseteq 1..mined /\ Etherscan!InWindow
  <2>1. \A i \in 1..Len(list) : list[i] \in 1..mined /\ list[i] >= FromBlock
    BY <1>1, <1>2, WantedIs, HistoryConstants
  <2>. QED  BY <1>2, <2>1 DEF Etherscan!ToSet, Etherscan!InWindow
<1>4. Etherscan!ToSet(<<"etherscan">>) = {"etherscan"}
  BY DEF Etherscan!ToSet
<1>5. done \in BOOLEAN /\ (done => cursor = Etherscan!NoCursor)
  BY DEF EtherscanInv
<1>6. ASSUME cursor = Etherscan!NoCursor PROVE Etherscan!TypeOK
  <2>1. cursor = [kind |-> "none", at |-> 0] /\ 0 \in 0..MaxTx + 1
    BY <1>1, <1>6 DEF Etherscan!NoCursor
  <2>2. cursor \in [kind: {"none"} \cup {"etherscan"}, at: 0..MaxTx + 1]
    BY <2>1
  <2>3. cursor.kind # "etherscan" /\ cursor.kind # "solana"
    BY <2>1
  <2>4. mined \in Older..MaxTx /\ since \in 0..mined /\ historyFaults \in 0..HistoryFaults
    BY DEF EtherscanInv
  <2>. QED  BY <1>3, <1>4, <1>5, <1>6, <2>1, <2>2, <2>3, <2>4 DEF Etherscan!TypeOK
<1>7. ASSUME NEW p \in 1..(MaxTx + 1), cursor = [kind |-> "etherscan", at |-> p], Len(list) = (p - 1) * Limit
      PROVE  Etherscan!TypeOK
  <2>1. p * Limit = Len(list) + Limit
    BY <1>1, <1>7, HistoryConstants
  <2>2. p \in 0..MaxTx + 1
    BY <1>1
  <2>3. cursor \in [kind: {"none"} \cup {"etherscan"}, at: 0..MaxTx + 1]
    BY <1>7, <2>2
  <2>4. cursor.kind = "etherscan" /\ cursor.at = p
    BY <1>7
  <2>. QED  BY <1>3, <1>4, <1>5, <2>1, <2>3, <2>4 DEF EtherscanInv, Etherscan!TypeOK
<1>8. Etherscan!TypeOK
  BY <1>6, <1>7 DEF EtherscanInv
<1>9. ASSUME done, NEW t \in 1..since, t >= FromBlock PROVE t \in Etherscan!ToSet(list)
  <2>1. t \in Wanted..since
    BY <1>1, <1>9, WantedIs
  <2>2. Has(t)
    BY <1>9, <2>1 DEF EtherscanInv
  <2>. QED  BY <1>2, <2>2 DEF Has, Etherscan!ToSet
<1>10. Etherscan!StillPagesLineUp
  <2>. SUFFICES ASSUME mined = since, NEW i \in 1..Len(list), NEW j \in 1..Len(list), i < j PROVE list[i] > list[j]
    BY <1>2 DEF Etherscan!StillPagesLineUp, Etherscan!PagesLineUp
  <2>1. /\ mined + 1 - i <= list[i] /\ list[i] <= mined + 1 - i
        /\ mined + 1 - j <= list[j] /\ list[j] <= mined + 1 - j
    BY DEF EtherscanInv
  <2>2. list[i] \in Int /\ list[j] \in Int
    BY <1>1, <1>2, WantedIs
  <2>. QED  BY <1>1, <1>2, <2>1, <2>2
<1>. QED  BY <1>3, <1>8, <1>9, <1>10 DEF Etherscan!NothingSkipped

\* Histories of both kinds start alike.
LEMMA InitEtherscanInv == Solana!Init => EtherscanInv
BY HistoryConstants DEF Solana!Init, Solana!NoCursor, EtherscanInv, Etherscan!NoCursor

\* The next page: the run that starts at the first place not read yet.
LEMMA EtherscanPage ==
  ASSUME EtherscanInv, done = FALSE, NEW page \in Etherscan!TryInOrder({}) \cup Etherscan!TryInOrder({"etherscan"})
  PROVE  \E p \in 1..(MaxTx + 1), n, m \in Nat :
           /\ Len(list) = (p - 1) * Limit /\ (cursor = Etherscan!NoCursor \/ cursor.at = p)
           /\ n = LET l == RunLength(mined, Wanted) IN IF l < Len(list) THEN 0 ELSE l - Len(list)
           /\ m = PageLength(n) /\ Run(page.records, mined - Len(list), m)
           /\ page.next = IF m = Limit THEN [kind |-> "etherscan", at |-> p + 1] ELSE Etherscan!NoCursor
<1>1. /\ mined \in Nat /\ Len(list) \in Nat /\ MaxTx \in Nat
      /\ Limit \in Nat \ {0} /\ Wanted \in Nat /\ Wanted >= 1
  BY HistoryConstants, WantedIs DEF EtherscanInv
<1>2. PICK p \in 1..(MaxTx + 1) :
        /\ Len(list) = (p - 1) * Limit /\ Etherscan!PageFromCursor(cursor) = {p}
        /\ cursor = Etherscan!NoCursor \/ cursor.at = p
  <2>1. CASE cursor = Etherscan!NoCursor
    <3>1. Len(list) = (1 - 1) * Limit
      <4>1. list = <<>>
        BY <2>1 DEF EtherscanInv, Etherscan!NoCursor
      <4>. QED  BY <1>1, <4>1
    <3>2. Etherscan!PageFromCursor(cursor) = {1}
      BY <2>1 DEF Etherscan!PageFromCursor, Etherscan!NoCursor
    <3>. QED  BY <1>1, <2>1, <3>1, <3>2
  <2>2. CASE cursor # Etherscan!NoCursor
    <3>1. PICK p \in 1..(MaxTx + 1) :
            cursor = [kind |-> "etherscan", at |-> p] /\ Len(list) = (p - 1) * Limit
      BY <2>2 DEF EtherscanInv
    <3>2. Etherscan!PageFromCursor(cursor) = {p} /\ cursor.at = p
      BY <3>1 DEF Etherscan!PageFromCursor
    <3>. QED  BY <3>1, <3>2
  <2>. QED  BY <2>1, <2>2
<1>. DEFINE whole == Etherscan!Listing("etherscan")
            l == RunLength(mined, Wanted)
            n == IF l < Len(list) THEN 0 ELSE l - Len(list)
            m == PageLength(n)
            records == Etherscan!Txlist(p)
<1>3. l \in Nat /\ n \in Nat /\ Run(whole, mined, l)
  <2>1. l \in Nat
    BY <1>1 DEF RunLength
  <2>2. whole = [i \in 1..l |-> mined + 1 - i]
    BY DEF Etherscan!Listing, Etherscan!Newest, Wanted, RunLength
  <2>. HIDE DEF whole, l
  <2>. QED  BY <1>1, <2>1, <2>2 DEF Run
<1>4. Run(records, mined - Len(list), m) /\ m \in Nat
  <2>. DEFINE rest == SubSeq(whole, Len(list) + 1, l)
  <2>1. Run(rest, mined - Len(list), n)
    <3>. HIDE DEF whole, l
    <3>. QED  BY <1>1, <1>3, RestOfRun
  <2>2. Len(whole) = l /\ Len(rest) = n
    <3>. HIDE DEF whole, l, n, rest
    <3>. QED  BY <1>3, <2>1 DEF Run
  <2>3. records = SubSeq(rest, 1, m)
    <3>1. records = Etherscan!FirstOf(SubSeq(whole, (p - 1) * Limit + 1, Len(whole)))
      BY DEF Etherscan!Txlist
    <3>2. records = Etherscan!FirstOf(rest)
      <4>. HIDE DEF whole, l, records
      <4>. QED  BY <1>2, <2>2, <3>1
    <3>. HIDE DEF whole, l, n, rest, records
    <3>. QED  BY <2>2, <3>2 DEF Etherscan!FirstOf, PageLength
  <2>. HIDE DEF whole, l, n, rest, records
  <2>. QED  BY <1>1, <1>3, <2>1, <2>3, FirstOfRun
<1>5. page = [records |-> records, next |-> IF Etherscan!Full(records)
                THEN [kind |-> "etherscan", at |-> Etherscan!NextPage(p)] ELSE Etherscan!NoCursor]
  <2>1. page \in Etherscan!Pages("etherscan", cursor)
    BY DEF Etherscan!TryInOrder, Etherscan!Min
  <2>. QED  BY <1>2, <2>1 DEF Etherscan!Pages, Etherscan!EtherscanPages
<1>6. Etherscan!Full(records) <=> m = Limit
  <2>. HIDE DEF m, records
  <2>. QED  BY <1>4 DEF Run, Etherscan!Full
<1>. HIDE DEF records
<1>7. /\ page.records = records
      /\ page.next = IF m = Limit THEN [kind |-> "etherscan", at |-> p + 1] ELSE Etherscan!NoCursor
  BY <1>5, <1>6 DEF Etherscan!NextPage
<1>. QED  BY <1>2, <1>3, <1>4, <1>7

LEMMA EtherscanKeeps == ASSUME EtherscanInv, [Etherscan!Next]_history PROVE EtherscanInv'
<1>1. CASE UNCHANGED history
  BY <1>1 DEF history, EtherscanInv, Place, Has, Wanted, Etherscan!Earliest
<1>2. CASE Etherscan!Mine
  <2>1. /\ mined' = mined + 1 /\ mined' \in Older..MaxTx /\ mined \in Nat
        /\ UNCHANGED <<cursor, list, since, done, historyFaults>>
    BY <1>2, HistoryConstants DEF Etherscan!Mine, EtherscanInv
  <2>2. since' \in 0..mined' /\ Wanted' = Wanted /\ Wanted \in Nat
    BY <2>1, WantedIs DEF EtherscanInv, Wanted, Etherscan!Earliest
  <2>3. \A i \in 1..Len(list) : list[i] \in Wanted..mined' /\ since + 1 - i <= list[i] /\ list[i] <= mined' + 1 - i
    BY <2>1, <2>2 DEF EtherscanInv
  <2>4. ASSUME NEW t \in Wanted..since, Place(t)' <= Len(list) PROVE Place(t) <= Len(list)
    BY <2>1, <2>2, <2>4 DEF Place, EtherscanInv
  <2>. QED  BY <2>1, <2>2, <2>3, <2>4 DEF EtherscanInv, Has
<1>3. ASSUME NEW down \in SUBSET Etherscan!ToSet(<<"etherscan">>), Etherscan!Read(down) PROVE EtherscanInv'
  <2>1. down = {} \/ down = {"etherscan"}
    BY <1>3 DEF Etherscan!ToSet
  <2>2. done = FALSE /\ mined' = mined /\ historyFaults' \in 0..HistoryFaults
    BY <1>3, HistoryConstants DEF Etherscan!Read, EtherscanInv
  <2>3. CASE Etherscan!TryInOrder(down) = {}
    BY <1>3, <2>2, <2>3 DEF Etherscan!Read, EtherscanInv, Place, Has, Wanted, Etherscan!Earliest
  <2>4. CASE Etherscan!TryInOrder(down) # {}
    <3>1. PICK page \in Etherscan!TryInOrder(down) :
            /\ list' = list \o page.records /\ since' = IF Etherscan!Opened THEN since ELSE mined
            /\ cursor' = page.next /\ done' = (page.next = Etherscan!NoCursor)
      BY <1>3, <2>4 DEF Etherscan!Read
    <3>2. PICK p \in 1..(MaxTx + 1), n, m \in Nat :
            /\ Len(list) = (p - 1) * Limit /\ (cursor = Etherscan!NoCursor \/ cursor.at = p)
            /\ n = LET l == RunLength(mined, Wanted) IN IF l < Len(list) THEN 0 ELSE l - Len(list)
            /\ m = PageLength(n) /\ Run(page.records, mined - Len(list), m)
            /\ page.next = IF m = Limit THEN [kind |-> "etherscan", at |-> p + 1] ELSE Etherscan!NoCursor
      BY <2>1, <2>2, EtherscanPage
    <3>. DEFINE k == Len(list)
    <3>3. /\ mined \in Nat /\ mined <= MaxTx /\ MaxTx \in Nat /\ since \in 0..mined /\ k \in Nat
          /\ Limit \in Nat \ {0} /\ Wanted \in Nat /\ Wanted >= 1 /\ Wanted' = Wanted /\ list \in Seq(Int)
      BY HistoryConstants, WantedIs DEF EtherscanInv, Wanted, Etherscan!Earliest
    <3>4. /\ since' \in 0..mined
          /\ \/ k = 0 /\ since' = mined
             \/ since' = since /\ \A t \in Wanted..since : Place(t) <= k => Has(t)
      <4>1. CASE cursor = Etherscan!NoCursor
        <5>1. list = <<>>
          BY <2>2, <4>1 DEF EtherscanInv, Etherscan!NoCursor
        <5>2. since' = mined
          BY <2>2, <3>1, <4>1 DEF Etherscan!Opened
        <5>3. k = 0
          BY <5>1
        <5>4. since' \in 0..mined
          <6>1. mined \in 0..mined
            BY <3>3
          <6>. QED  BY <5>2, <6>1
        <5>5. k = 0 /\ since' = mined
          BY <5>2, <5>3
        <5>. QED  BY <5>4, <5>5
      <4>2. CASE cursor # Etherscan!NoCursor
        <5>1. since' = since
          BY <3>1, <4>2 DEF Etherscan!Opened
        <5>. QED  BY <3>3, <4>2, <5>1 DEF EtherscanInv
      <4>. QED  BY <4>1, <4>2
    <3>5. /\ list' \in Seq(Int) /\ Len(list') = k + m
          /\ \A i \in 1..k : list'[i] = list[i]
          /\ \A i \in 1..m : list'[k + i] = mined - k + 1 - i
      <4>1. page.records \in Seq(Int) /\ Len(page.records) = m
            /\ \A i \in 1..m : page.records[i] = mined - k + 1 - i
        BY <3>2 DEF Run
      <4>2. /\ list' \in Seq(Int) /\ Len(list') = k + m
            /\ \A i \in 1..(k + m) : list'[i] = IF i <= k THEN list[i] ELSE page.records[i - k]
        BY <3>1, <3>3, <4>1, ConcatProperties
      <4>. HIDE DEF k
      <4>3. ASSUME NEW i \in 1..k PROVE list'[i] = list[i]
        BY <3>3, <4>2
      <4>4. ASSUME NEW i \in 1..m PROVE list'[k + i] = mined - k + 1 - i
        <5>1. PICK j \in 1..(k + m) : j = k + i
          BY <3>3
        <5>2. ~(j <= k) /\ j - k = i
          BY <3>3, <5>1
        <5>3. list'[j] = page.records[j - k]
          BY <4>2, <5>2
        <5>4. list'[j] = page.records[i]
          BY <5>2, <5>3
        <5>. QED  BY <4>1, <5>1, <5>4
      <4>. QED  BY <4>2, <4>3, <4>4
    <3>. HIDE DEF k
    <3>6. /\ m <= n /\ (m # Limit => m = n) /\ (n > 0 => k + n = mined + 1 - Wanted)
          /\ (n = 0 => mined + 1 - Wanted <= k)
      <4>1. m <= n /\ (m # Limit => m = n)
        BY <3>2, <3>3 DEF PageLength
      <4>2. n = LET l == IF mined < Wanted THEN 0 ELSE mined + 1 - Wanted IN IF l < k THEN 0 ELSE l - k
        BY <3>2 DEF k, RunLength
      <4>. QED  BY <3>3, <4>1, <4>2
    <3>7. ASSUME NEW i \in 1..(k + m)
          PROVE  list'[i] \in Wanted..mined /\ since' + 1 - i <= list'[i] /\ list'[i] <= mined + 1 - i
      <4>1. CASE i <= k
        <5>1. i \in 1..k /\ i \in 1..Len(list)
          BY <3>3, <4>1 DEF k
        <5>2. since' = since
          BY <3>3, <3>4, <5>1
        <5>. QED  BY <3>5, <5>1, <5>2 DEF EtherscanInv
      <4>2. CASE ~(i <= k)
        <5>1. i - k \in 1..m /\ k + (i - k) = i
          BY <3>3, <4>2
        <5>2. list'[i] = mined - k + 1 - (i - k)
          BY <3>5, <5>1
        <5>3. list'[i] = mined + 1 - i
          BY <3>3, <5>2
        <5>4. i \in Nat /\ since' \in Nat /\ since' <= mined
          BY <3>3, <3>4
        <5>5. list'[i] \in Wanted..mined
          BY <3>3, <3>6, <4>2, <5>1, <5>2
        <5>6. \A x, y \in Nat : x <= y => x + 1 - i <= y + 1 - i /\ y + 1 - i <= y + 1 - i
          BY <5>4
        <5>7. since' + 1 - i <= mined + 1 - i /\ mined + 1 - i <= mined + 1 - i
          BY <3>3, <5>4, <5>6
        <5>. QED  BY <5>3, <5>5, <5>7
      <4>. QED  BY <4>1, <4>2
    <3>8. ASSUME NEW t \in Wanted..since', Place(t) <= k + m PROVE \E i \in 1..(k + m) : list'[i] = t
      <4>1. t \in Int /\ t <= mined /\ Place(t) = mined + 1 - t /\ Place(t) \in Int
        BY <3>3, <3>4 DEF Place
      <4>2. CASE Place(t) <= k
        <5>1. Has(t)
          BY <3>3, <3>4, <4>1, <4>2
        <5>2. PICK i \in 1..k : list[i] = t
          BY <5>1 DEF Has, k
        <5>. QED  BY <3>3, <3>5, <5>2
      <4>3. CASE ~(Place(t) <= k)
        <5>1. Place(t) - k \in 1..m /\ Place(t) \in 1..(k + m) /\ k + (Place(t) - k) = Place(t)
          BY <3>3, <3>8, <4>1, <4>3
        <5>2. list'[Place(t)] = mined - k + 1 - (Place(t) - k)
          BY <3>5, <5>1
        <5>. QED  BY <3>3, <4>1, <5>1, <5>2
      <4>. QED  BY <4>2, <4>3
    <3>9. Place(0)' = Place(0) /\ \A t : Place(t)' = Place(t)
      BY <2>2 DEF Place
    <3>10. CASE m = Limit
      <4>1. cursor' = [kind |-> "etherscan", at |-> p + 1]
        BY <3>1, <3>2, <3>10
      <4>2. done' = FALSE
        <5>1. page.next.kind = "etherscan"
          BY <3>1, <4>1
        <5>2. page.next # Etherscan!NoCursor
          BY <5>1 DEF Etherscan!NoCursor
        <5>. QED  BY <3>1, <5>2
      <4>3. k + m = p * Limit /\ p + 1 - 1 = p
        BY <3>2, <3>3, <3>10 DEF k
      <4>4. p <= MaxTx
        <5>1. k + m <= mined
          BY <3>3, <3>6, <3>10
        <5>2. p * Limit <= MaxTx /\ p \in Nat
          BY <3>3, <4>3, <5>1
        <5>3. p <= p * Limit
          BY <3>3, <5>2
        <5>. QED  BY <3>3, <5>2, <5>3
      <4>5. p + 1 \in 1..(MaxTx + 1)
        BY <3>3, <4>4
      <4>6. /\ mined' \in Older..MaxTx /\ since' \in 0..mined' /\ historyFaults' \in 0..HistoryFaults
            /\ list' \in Seq(Int) /\ Len(list') = k + m
        BY <2>2, <3>4, <3>5 DEF EtherscanInv
      <4>7. \A i \in 1..Len(list') : list'[i] \in Wanted'..mined' /\ since' + 1 - i <= list'[i] /\ list'[i] <= mined' + 1 - i
        BY <2>2, <3>3, <3>5, <3>7
      <4>8. \A t \in Wanted'..since' : Place(t)' <= Len(list') => Has(t)'
        BY <3>3, <3>5, <3>8, <3>9 DEF Has
      <4>9. Len(list') = (p + 1 - 1) * Limit
        BY <4>3, <4>6
      <4>10. \E q \in 1..(MaxTx + 1) :
               /\ done' = FALSE /\ cursor' = [kind |-> "etherscan", at |-> q]
               /\ Len(list') = (q - 1) * Limit
               /\ \A t \in Wanted'..since' : Place(t)' <= Len(list') => Has(t)'
        BY <4>1, <4>2, <4>5, <4>8, <4>9
      <4>. QED  BY <4>6, <4>7, <4>10 DEF EtherscanInv
    <3>11. CASE m # Limit
      <4>1. cursor' = Etherscan!NoCursor /\ done' = TRUE
        BY <3>1, <3>2, <3>11
      <4>2. ASSUME NEW t \in Wanted..since' PROVE Place(t) <= k + m
        <5>1. t \in Int /\ t >= Wanted /\ Place(t) = mined + 1 - t
          BY <3>3, <3>4 DEF Place
        <5>. QED  BY <3>3, <3>6, <3>11, <5>1
      <4>. QED
        BY <2>2, <3>3, <3>4, <3>5, <3>7, <3>8, <4>1, <4>2 DEF EtherscanInv, Has
    <3>. QED  BY <3>10, <3>11
  <2>. QED  BY <2>3, <2>4
<1>. QED  BY <1>1, <1>2, <1>3 DEF Etherscan!Next

-----------------------------------------------------------------------------
(* The subscriptions: the instances of the theorems on Subscription        *)

NoticesP == INSTANCE SubscriptionProofs WITH faults <- dropped

\* A module's definitions are the same in an instance of it and in an instance of a module that extends it.
LEMMA NoticesSteps == Notices!Next <=> NoticesP!Next
BY DEF Notices!Next, NoticesP!Next, Notices!Subscribe, NoticesP!Subscribe, Notices!Unsubscribe,
       NoticesP!Unsubscribe, Notices!Fire, NoticesP!Fire, Notices!Opened, NoticesP!Opened, Notices!Refuse,
       NoticesP!Refuse, Notices!Drop, NoticesP!Drop, Notices!Closed, NoticesP!Closed, Notices!Deliver,
       NoticesP!Deliver, Notices!Serve, NoticesP!Serve, Notices!Tick, NoticesP!Tick, Notices!Added,
       NoticesP!Added, Notices!Reestablished, NoticesP!Reestablished, Notices!Established,
       NoticesP!Established, Notices!RemoveAll, NoticesP!RemoveAll, Notices!Visits, NoticesP!Visits,
       Notices!CallsOf, NoticesP!CallsOf, Notices!Waiting, NoticesP!Waiting, Notices!Opens,
       NoticesP!Opens, Notices!Rejected, NoticesP!Rejected, Notices!Ended, NoticesP!Ended, Notices!Nulled,
       NoticesP!Nulled, Notices!Leaving, NoticesP!Leaving, Notices!Forgets, NoticesP!Forgets,
       Notices!Unrouted, NoticesP!Unrouted, Notices!Idle, NoticesP!Idle, Notices!Send, NoticesP!Send,
       Notices!Calling, NoticesP!Calling, Notices!More, NoticesP!More, Notices!Mark, NoticesP!Mark,
       Notices!Conns, NoticesP!Conns, Notices!Loops, NoticesP!Loops, Notices!Regs, NoticesP!Regs,
       Notices!Timer, NoticesP!Timer, Notices!NoLoop, NoticesP!NoLoop, Notices!NoWire, NoticesP!NoWire,
       Notices!Min, NoticesP!Min

NoticesOK == NoticesP!General /\ NoticesP!Noted /\ NoticesP!TidyInv /\ NoticesP!ReconInv

LEMMA NoticesInit == Notices!Init => NoticesOK
<1>1. NoticesP!SubscriptionAssumption
  BY ServicesAssumption DEF Notices!SubscriptionAssumption, NoticesP!SubscriptionAssumption
<1>2. Notices!Init => NoticesP!Init
  BY DEF Notices!Init, NoticesP!Init, Notices!Regs, NoticesP!Regs, Notices!NoLoop, NoticesP!NoLoop,
         Notices!Timer, NoticesP!Timer, Notices!NoWire, NoticesP!NoWire, Notices!Conns, NoticesP!Conns,
         Notices!Loops, NoticesP!Loops
<1>. QED
  BY <1>1, <1>2, NoticesP!InitGeneral, NoticesP!InitNoted, NoticesP!InitTidy, NoticesP!InitRecon DEF NoticesOK

LEMMA NoticesTypes == ASSUME NoticesOK PROVE Notices!TypeOK /\ NoticesAreWanted
<1>1. /\ NoticesP!TypeOK /\ NoticesP!RoutesAreServed /\ NoticesP!OnItsWay
      /\ NoticesP!TicksAreWanted /\ NoticesP!SubscribedOnce /\ NoticesP!IdleSocketCloses
  BY NoticesP!BaseTypes, NoticesP!TidyMeans, NoticesP!ReconMeans DEF NoticesOK, NoticesP!General, NoticesP!Noted
<1>2. Notices!TypeOK
  BY <1>1 DEF Notices!TypeOK, NoticesP!TypeOK, Notices!Conns, NoticesP!Conns, Notices!Regs, NoticesP!Regs,
              Notices!NoWire, NoticesP!NoWire
<1>3. Notices!RoutesAreServed /\ Notices!OnItsWay
  BY <1>1 DEF Notices!RoutesAreServed, NoticesP!RoutesAreServed, Notices!OnItsWay, NoticesP!OnItsWay,
              Notices!Persists, NoticesP!Persists, Notices!Conns, NoticesP!Conns, Notices!Loops, NoticesP!Loops
<1>4. Notices!TicksAreWanted
  BY <1>1 DEF Notices!TicksAreWanted, NoticesP!TicksAreWanted, Notices!Undisturbed, NoticesP!Undisturbed,
              Notices!Wants, NoticesP!Wants, Notices!Conns, NoticesP!Conns
<1>5. Notices!SubscribedOnce
  BY <1>1 DEF Notices!SubscribedOnce, NoticesP!SubscribedOnce, Notices!Undisturbed, NoticesP!Undisturbed,
              Notices!Conns, NoticesP!Conns
<1>6. Notices!IdleSocketCloses
  BY <1>1 DEF Notices!IdleSocketCloses, NoticesP!IdleSocketCloses, Notices!Undisturbed, NoticesP!Undisturbed,
              Notices!Conns, NoticesP!Conns
<1>. QED  BY <1>1, <1>2, <1>3, <1>4, <1>5, <1>6 DEF NoticesAreWanted

LEMMA NoticesKeep == ASSUME NoticesOK, [Notices!Next]_notices PROVE NoticesOK'
<1>1. [NoticesP!Next]_(NoticesP!vars)
  BY NoticesSteps DEF NoticesP!vars, notices
<1>. QED
  BY <1>1, NoticesP!KeepsGeneral, NoticesP!KeepsNoted, NoticesP!KeepsTidy, NoticesP!KeepsRecon DEF NoticesOK

-----------------------------------------------------------------------------
(* The composition                                                         *)

\* What a behaviour is one of does not change, and each part sees steps of its
\* own or none.
LEMMA PartSteps ==
  ASSUME [MCNext]_all
  PROVE  /\ part' = part /\ [Next]_vars /\ [Tx!Next]_tx /\ [Notices!Next]_notices /\ [Leaver!Next]_coach /\ [Rpc!Next]_rpc
         /\ part = "waiter" => [Waiter!Next]_coach
         /\ part # "etherscan" => [Solana!Next]_history
         /\ part = "etherscan" => [Etherscan!Next]_history
<1>1. CASE UNCHANGED all
  BY <1>1 DEF all
<1>2. CASE Gossip
  BY <1>2 DEF Gossip
<1>3. CASE Status
  BY <1>3 DEF Status
<1>4. CASE Subscriptions
  BY <1>4 DEF Subscriptions
<1>5. CASE Coaching
  BY <1>5, WaiterIsLeaver DEF Coaching
<1>6. CASE Reading
  BY <1>6 DEF Reading
<1>7. CASE Listing
  BY <1>7 DEF Listing
<1>. QED  BY <1>1, <1>2, <1>3, <1>4, <1>5, <1>6, <1>7 DEF MCNext

\* The pace of the adapters is the provider's: however many reads there are and
\* however often the clock is set back, no window holds more starts than the
\* bucket allows, and while the clock was not set back nobody waits longer than
\* one period for his token (rate-limit.ts).  And no read, whatever it is of
\* and whichever calls fail, is reported as failed before its last attempt; a
\* batch and a Solana token's balance alone come to nothing instead
\* (retry.ts, rpc.ts:211, 322).
THEOREM ReadsStaySound == MCSpec => []ReadsAreSound
<1>1. MCInit => RpcInv
  BY InitRpcInv DEF MCInit
<1>2. RpcInv /\ [MCNext]_all => RpcInv'
  BY PartSteps, RpcKeeps
<1>3. RpcInv => ReadsAreSound
  BY RpcTypes
<1>. QED  BY <1>1, <1>2, <1>3, PTL DEF MCSpec

\* What the user is shown is what happened: a settled status is the chain's
\* however the polls, locks and answers interleave; a history read to its end
\* is whole, with any number of transactions mined meanwhile and any page size:
\* Solana's pages line up all the same, Etherscan's while nothing is mined, and
\* Etherscan's keep to the blocks asked for; the coach's tab shows the answer to
\* its own last question, and a user who waits has one model loaded
\* (wallet-provider.tsx, indexer.ts, coach-screen.tsx).
THEOREM ShownStaysTrue == MCSpec => []ShownIsTrue
<1>. DEFINE I == /\ TxInv /\ CoachInv
                 /\ part = "waiter" => OneInv
                 /\ part # "etherscan" => SolanaInv
                 /\ part = "etherscan" => EtherscanInv
<1>1. MCInit => I
  BY InitTxInv, InitCoachInv, InitOneInv, InitSolanaInv, InitEtherscanInv DEF MCInit
<1>2. I /\ [MCNext]_all => I'
  <2>. SUFFICES ASSUME I, [MCNext]_all PROVE I'
    OBVIOUS
  <2>1. part' = part
    BY PartSteps
  <2>2. TxInv' /\ CoachInv'
    BY PartSteps, TxKeeps, CoachKeeps
  <2>3. part = "waiter" => OneInv'
    BY PartSteps, OneModelKeeps
  <2>4. part # "etherscan" => SolanaInv'
    BY PartSteps, SolanaKeeps
  <2>5. part = "etherscan" => EtherscanInv'
    BY PartSteps, EtherscanKeeps
  <2>. QED  BY <2>1, <2>2, <2>3, <2>4, <2>5
<1>3. I => ShownIsTrue
  <2>1. TxInv => Tx!StatusIsTrue
    BY DEF TxInv
  <2>2. OneInv => Waiter!OneModel
    BY DEF OneInv
  <2>. QED  BY <2>1, <2>2, CoachTypes, SolanaTypes, EtherscanTypes DEF ShownIsTrue
<1>. QED  BY <1>1, <1>2, <1>3, PTL DEF MCSpec

\* Over any number of dropped, refused and replaced sockets, however late an answer comes: a server id leads to the
\* registration this socket's provider gave it to; until a connection has reconnected or a call has failed on it, its
\* notifications reach only who wants them, each once, and no open socket serves nobody; and until the socket of a
\* reconnect is refused or a call fails, a subscription that lost its server id is on its way to a new one
\* (adapters/subscription.ts:117-336).
THEOREM NoticesStayWanted == MCSpec => []NoticesAreWanted
<1>1. MCInit => NoticesOK
  BY NoticesInit DEF MCInit
<1>2. NoticesOK /\ [MCNext]_all => NoticesOK'
  BY PartSteps, NoticesKeep
<1>3. NoticesOK => NoticesAreWanted
  BY NoticesTypes
<1>. QED  BY <1>1, <1>2, <1>3, PTL DEF MCSpec

\* The variables of every part keep to their types: a sidecar's peers to the connections there are and what a page shows
\* to the board, the subscriptions, reads, polls and histories to theirs
\* (server.mjs, subscription.ts, rate-limit.ts, wallet-provider.tsx, indexer.ts, coach/server.mjs).
THEOREM TypesStayOK == MCSpec => []TypesOK
<1>. DEFINE I == /\ GInv /\ Posted /\ TxInv /\ NoticesOK /\ CoachInv /\ RpcInv
                 /\ part # "etherscan" => SolanaInv
                 /\ part = "etherscan" => EtherscanInv
<1>1. MCInit => I
  <2>1. Init => GInv /\ Posted
    BY InitGInv DEF Init, Posted
  <2>. QED  BY <2>1, InitTxInv, InitCoachInv, InitRpcInv, InitSolanaInv, InitEtherscanInv, NoticesInit DEF MCInit
<1>2. I /\ [MCNext]_all => I'
  <2>. SUFFICES ASSUME I, [MCNext]_all PROVE I'
    OBVIOUS
  <2>1. part' = part /\ [Next]_vars
    BY PartSteps
  <2>2. GInv' /\ Posted'
    BY <2>1, NextGInv, PostedKeeps DEF GInv
  <2>3. TxInv' /\ CoachInv' /\ RpcInv'
    BY PartSteps, TxKeeps, CoachKeeps, RpcKeeps
  <2>4. NoticesOK'
    BY PartSteps, NoticesKeep
  <2>5. (part # "etherscan" => SolanaInv') /\ (part = "etherscan" => EtherscanInv')
    BY PartSteps, SolanaKeeps, EtherscanKeeps
  <2>. QED  BY <2>1, <2>2, <2>3, <2>4, <2>5
<1>3. I => TypesOK
  <2>1. TxInv => Tx!TypeOK
    BY DEF TxInv
  <2>. QED  BY <2>1, GossipTypes, CoachTypes, RpcTypes, NoticesTypes, SolanaTypes, EtherscanTypes DEF TypesOK
<1>. QED  BY <1>1, <1>2, <1>3, PTL DEF MCSpec

=============================================================================
