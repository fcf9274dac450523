----------------------------- MODULE PearsGossip -----------------------------
(***************************************************************************)
(* Tip gossip of one watch-party room: the Pears sidecars of the fans'     *)
(* machines (pears/server.mjs), Hyperswarm between them, and the page that *)
(* asks its sidecar every four seconds and fetches the board when it hears *)
(* of a tip it does not show (pears-client.ts, watch-party-screen.tsx).    *)
(*                                                                         *)
(* A connection keeps the order and the limits of its messages; the event  *)
(* of a new connection fires at its two ends at different times.  Two      *)
(* swarms of one sidecar find each other too, if Reach holds its machine   *)
(* beside itself.                                                          *)
(***************************************************************************)
EXTENDS Naturals, Sequences, FiniteSets, SequencesExt

CONSTANTS
  Nodes,       \* machines with a sidecar and a page
  Tips,        \* tips, named by their hash
  NoTip,       \* the request is /join, not /announce
  Requests,    \* requests to the sidecars, [id, node, tip]
  Reach,       \* machines whose swarms find each other, <<n, m>>
  Recent,      \* how many tips a new peer is sent: 20 in the code
  MaxSwarms,   \* bound: swarms a sidecar creates
  MaxFaults    \* bound: lost connections, restarts, failing imports and fetches

ASSUME GossipAssumption ==
  /\ NoTip \notin Tips /\ \A q \in Requests : q.node \in Nodes /\ q.tip \in Tips \cup {NoTip}
  /\ Reach \subseteq Nodes \X Nodes /\ IsFiniteSet(Nodes) /\ IsFiniteSet(Requests)
  /\ {Recent, MaxSwarms, MaxFaults} \subseteq Nat

VARIABLES
  room,      \* rooms.get(code) of each sidecar: the number of its swarm, or 0
  swarm,     \* the room objects a sidecar made: tips, newest first, and peers
  made,      \* how many
  pc, obj,   \* what each request awaits, and the room it holds
  ends,      \* ends of connections whose event has fired
  sent,      \* messages under way on each
  board,     \* tips on the party API's board
  shown,     \* tips each page shows
  asking,    \* pages that await the board
  acked,     \* tips a sidecar acknowledged since it started
  faults     \* faults so far

vars == <<room, swarm, made, pc, obj, ends, sent, board, shown, asking, acked, faults>>
Swarms == Nodes \X (1..MaxSwarms)
Links == {l \in Swarms \X Swarms : l[1] # l[2] /\ <<l[1][1], l[2][1]>> \in Reach}

Init ==
  /\ room = [n \in Nodes |-> 0] /\ made = [n \in Nodes |-> 0]
  /\ swarm = [w \in Swarms |-> [tips |-> <<>>, peers |-> 0]]
  /\ pc = [q \in Requests |-> "idle"] /\ obj = [q \in Requests |-> 0]
  /\ ends = {} /\ sent = [l \in Links |-> <<>>]
  /\ board = {} /\ shown = [n \in Nodes |-> {}] /\ asking = {}
  /\ acked = [n \in Nodes |-> {}]
  /\ faults = 0

pageVars == <<board, shown, asking>>
Held(n) == UNION {ToSet(swarm[<<n, i>>].tips) : i \in 1..made[n]}
Listed(n) == IF room[n] = 0 THEN {} ELSE ToSet(swarm[<<n, room[n]>>].tips)

-----------------------------------------------------------------------------
(* The sidecar's HTTP handlers                                             *)

\* room.tips.unshift(tip), unless it is there.
Unshift(w, t) == IF t \in ToSet(swarm[w].tips) THEN swarm ELSE [swarm EXCEPT ![w].tips = <<t>> \o @]

\* broadcast(): to the connections of the room in the map.
Broadcast(n, t) == [l \in Links |-> IF l \in ends /\ l[1] = <<n, room[n]>> THEN Append(sent[l], t) ELSE sent[l]]

\* The rest of the handler, once joinRoom gave it the room of number i.
Handled(q, i) ==
  LET n == q.node IN
  /\ pc' = [pc EXCEPT ![q] = "ok"] /\ obj' = [obj EXCEPT ![q] = i]
  /\ IF q.tip = NoTip THEN UNCHANGED <<swarm, sent, acked>>
     ELSE /\ swarm' = Unshift(<<n, i>>, q.tip) /\ sent' = Broadcast(n, q.tip)
          /\ acked' = [acked EXCEPT ![n] = @ \cup {q.tip}]

\* joinRoom, up to its first await.
JoinRoom(q) ==
  /\ pc[q] = "idle"
  /\ IF room[q.node] # 0 THEN Handled(q, room[q.node])
     ELSE pc' = [pc EXCEPT ![q] = "load"] /\ UNCHANGED <<obj, swarm, sent, acked>>
  /\ UNCHANGED <<room, made, ends, faults>> /\ UNCHANGED pageVars
Join(q) == q.tip = NoTip /\ JoinRoom(q)
Announce(q) == q.tip \in board /\ JoinRoom(q)  \* pearsAnnounce, once the board took the tip

\* Hyperswarm is imported: a swarm and a room are made and joined.
Loaded(q) ==
  /\ pc[q] = "load" /\ made[q.node] < MaxSwarms
  /\ LET n == q.node
         i == made[n] + 1
     IN /\ made' = [made EXCEPT ![n] = i] /\ room' = [room EXCEPT ![n] = i]
        /\ pc' = [pc EXCEPT ![q] = "flush"] /\ obj' = [obj EXCEPT ![q] = i]
  /\ UNCHANGED <<swarm, ends, sent, acked, faults>> /\ UNCHANGED pageVars

LoadFails(q) == /\ pc[q] = "load" /\ faults < MaxFaults
                /\ pc' = [pc EXCEPT ![q] = "failed"]
                /\ faults' = faults + 1
                /\ UNCHANGED <<room, swarm, made, obj, ends, sent, acked>> /\ UNCHANGED pageVars

\* await discovery.flushed()
Flushed(q) == /\ pc[q] = "flush" /\ Handled(q, obj[q])
              /\ UNCHANGED <<room, made, ends, faults>> /\ UNCHANGED pageVars

-----------------------------------------------------------------------------
(* The swarm                                                               *)

\* swarm.on('connection') at one end: the new peer is sent the recent tips.
\* Mutant: nothing is shared.
NothingShared(w) == <<>>
Shared(w) == SubSeq(swarm[w].tips, 1, IF Len(swarm[w].tips) < Recent THEN Len(swarm[w].tips) ELSE Recent)
Connected(l) ==
  /\ l \notin ends /\ made[l[1][1]] >= l[1][2] /\ made[l[2][1]] >= l[2][2]
  /\ ends' = ends \cup {l}
  /\ swarm' = [swarm EXCEPT ![l[1]].peers = @ + 1]
  /\ sent' = [sent EXCEPT ![l] = Shared(l[1])]
  /\ UNCHANGED <<room, made, pc, obj, acked, faults>> /\ UNCHANGED pageVars

\* conn.on('data'): a tip is listed unless it is already, and not passed on.
Received(l) ==
  /\ sent[l] # <<>> /\ <<l[2], l[1]>> \in ends
  /\ sent' = [sent EXCEPT ![l] = Tail(@)]
  /\ swarm' = Unshift(l[2], Head(sent[l]))
  /\ UNCHANGED <<room, made, pc, obj, ends, acked, faults>> /\ UNCHANGED pageVars

\* conn.on('close')
\* Mutant: peers are only counted up.
StillCounted(w, gone) == swarm[w].peers
Counted(w, gone) == IF Cardinality(gone) < swarm[w].peers THEN swarm[w].peers - Cardinality(gone) ELSE 0
\* Mutant: what is under way outlives its connection.
Undropped(gone) == sent
Dropped(gone) == [l \in Links |-> IF l \in gone THEN <<>> ELSE sent[l]]
Cut(gone) ==
  /\ ends' = ends \ gone /\ sent' = Dropped(gone)
  /\ swarm' = [w \in Swarms |-> [swarm[w] EXCEPT !.peers = Counted(w, {l \in gone \cap ends : l[1] = w})]]
Close(l) == /\ l \in ends /\ faults < MaxFaults /\ faults' = faults + 1
            /\ Cut({l, <<l[2], l[1]>>})
            /\ UNCHANGED <<room, made, pc, obj, acked>> /\ UNCHANGED pageVars

\* The sidecar keeps its rooms in memory only.
Restart(n) ==
  /\ faults < MaxFaults /\ faults' = faults + 1
  /\ room' = [room EXCEPT ![n] = 0] /\ acked' = [acked EXCEPT ![n] = {}]
  /\ LET gone == {l \in Links : l[1][1] = n \/ l[2][1] = n} IN
     /\ ends' = ends \ gone /\ sent' = Dropped(gone)
     /\ swarm' = [w \in Swarms |->
          IF w[1] = n THEN [tips |-> <<>>, peers |-> 0]
          ELSE [swarm[w] EXCEPT !.peers = Counted(w, {l \in gone \cap ends : l[1] = w})]]
  /\ made' = [made EXCEPT ![n] = 0]
  /\ pc' = [q \in Requests |-> IF q.node = n /\ pc[q] \in {"load", "flush"} THEN "failed" ELSE pc[q]]
  /\ UNCHANGED obj /\ UNCHANGED pageVars

-----------------------------------------------------------------------------
(* The page                                                                *)

\* The tip's own page posts it to the board.
Post(t) == /\ t \notin board /\ board' = board \cup {t}
           /\ UNCHANGED <<room, swarm, made, pc, obj, ends, sent, shown, asking, acked, faults>>

\* The interval: a gossiped tip that is not on the page asks for the board.
Fresh(n) == ~(Listed(n) \subseteq shown[n])
Poll(n) == /\ n \notin asking /\ Fresh(n)
           /\ asking' = asking \cup {n}
           /\ UNCHANGED <<room, swarm, made, pc, obj, ends, sent, board, shown, acked, faults>>

\* apiGetParty(code), applied or failed.
Got(n, ok) ==
  /\ n \in asking /\ asking' = asking \ {n}
  /\ \/ ok /\ shown' = [shown EXCEPT ![n] = board] /\ UNCHANGED faults
     \/ ~ok /\ faults < MaxFaults /\ faults' = faults + 1 /\ UNCHANGED shown
  /\ UNCHANGED <<room, swarm, made, pc, obj, ends, sent, board, acked>>

-----------------------------------------------------------------------------
Next == \/ \E q \in Requests : Join(q) \/ Announce(q) \/ Loaded(q) \/ LoadFails(q) \/ Flushed(q)
        \/ \E l \in Links : Connected(l) \/ Received(l) \/ Close(l)
        \/ \E t \in Tips : Post(t)
        \/ \E n \in Nodes : \/ Restart(n) \/ Poll(n)
                            \/ \E ok \in BOOLEAN : Got(n, ok)

\* Promises settle, connections deliver, intervals fire.
Fairness == /\ \A q \in Requests : WF_vars(Loaded(q)) /\ WF_vars(Flushed(q))
            /\ \A l \in Links : WF_vars(Received(l)) /\ WF_vars(Connected(l))
            /\ \A n \in Nodes : WF_vars(Poll(n)) /\ WF_vars(Got(n, TRUE))
Spec == Init /\ [][Next]_vars
FairSpec == Spec /\ Fairness

-----------------------------------------------------------------------------
TypeOK ==
  /\ \A n \in Nodes : /\ made[n] \in 0..MaxSwarms /\ room[n] \in 0..made[n]
                      /\ shown[n] \subseteq board
  /\ \A w \in Swarms : ToSet(swarm[w].tips) \subseteq Tips /\ swarm[w].peers \in 0..Cardinality(Links)
  /\ pc \in [Requests -> {"idle", "load", "flush", "ok", "failed"}]
  /\ ends \subseteq Links /\ \A l \in Links : sent[l] # <<>> => l \in ends

\* A tip heard from several peers, announced here too, or shared again on a new
\* connection is listed once.
ListedOnce == \A w \in Swarms : IsInjective(swarm[w].tips)

\* Every tip a sidecar acknowledged is in a room object of its: in the one that
\* the map lists, as long as no two joins overlapped the import of Hyperswarm
\* and made a second (server.mjs 39-45: the map then lists the later one, and
\* the tips of the earlier are lost to its page).
AnnouncedIsKept == \A n \in Nodes :
  /\ acked[n] \subseteq Held(n)
  /\ made[n] <= 1 => acked[n] \subseteq Listed(n)

\* "Pears Np": the peers of a room are its open connections, across lost
\* connections and restarted peers, for replaced rooms as well.
PeersAreConnections == \A w \in Swarms : swarm[w].peers = Cardinality({l \in ends : l[1] = w})

\* What a sidecar holds of a room is so: the tips it announced, once each, and
\* the peers it has; its page is told of all of it unless joins overlapped the
\* import (server.mjs).
GossipIsSound == ListedOnce /\ AnnouncedIsKept /\ PeersAreConnections

\* While the list fits what a new peer is sent, a tip announced on one machine
\* reaches every machine it is connected to, whenever the connection was made,
\* or the connection or the sidecar goes down, or the sidecar has made a second
\* room (whose new peers are not sent the tips of the first).
Together(n, m) == /\ room[n] # 0 /\ room[m] # 0
                  /\ <<<<n, room[n]>>, <<m, room[m]>>>> \in ends /\ <<<<m, room[m]>>, <<n, room[n]>>>> \in ends
SpreadNow == \A n, m \in Nodes :
  n # m /\ Together(n, m) /\ made[n] <= 1 /\ Len(swarm[<<n, 1>>].tips) <= Recent
    => acked[n] \subseteq Listed(m)
Spreads == []<>SpreadNow

\* A tip that a page heard of and that is on the board is shown in the end, also
\* when other gossip arrives meanwhile or a fetch fails.
ShownNow == \A n \in Nodes : Listed(n) \cap board \subseteq shown[n]
HeardIsShown == []<>ShownNow
=============================================================================
