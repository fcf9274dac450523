---------------------------- MODULE Subscription ----------------------------
(***************************************************************************)
(* Live ticks over WebSocket (adapters/subscription.ts): the subscribers   *)
(* of one chain URL share a connection, which reconnects after a drop and  *)
(* subscribes everything again.  A connection is closed with its last      *)
(* registration and replaced by a new one when somebody subscribes.        *)
(*                                                                         *)
(* A socket may be refused, may drop, and answers calls in any order; its  *)
(* messages arrive in the order they were sent.  The code between two      *)
(* awaits, and what a settled promise resumes, is one action.  The live    *)
(* registrations are a set: whatever order it is iterated in.              *)
(***************************************************************************)
EXTENDS Naturals, Sequences, FiniteSetsExt

CONSTANTS
  Subs,           \* subscribers
  Filters,        \* how many filters each needs: 2 for an EVM address, else 1
  MaxReconnects,  \* options.maxReconnects
  MaxConns,       \* bound: connections created
  MaxEvents       \* bound: sockets that drop or close before they open, subscribe
                  \* calls refused by the provider, and notifications

SubscriptionAssumption ==
  /\ Filters \in [Subs -> {1, 2}]
  /\ {MaxReconnects, MaxConns, MaxEvents} \subseteq Nat

VARIABLES
  current,  \* conns.get(url), 0 when there is none
  used,     \* connections created so far
  conn,     \* the connections: socket, closedByUser, reconnects, regs, byServerId
  wire,     \* their sockets: calls to answer, messages under way, the provider's subscriptions
  sid,      \* serverId of each registration, 0 for null
  client,   \* the subscribers' calls
  loop,     \* the reestablish() that each drop schedules
  past,     \* history, of each connection: "again" once a reestablish() has run,
            \* "ended" once a refused socket ended one, "error" once a call failed
  faults    \* drops so far, and the other events

vars == <<current, used, conn, wire, sid, client, loop, past, faults>>

Regs == {<<s, i>> : s \in Subs, i \in 1..2} \ {<<s, 2>> : s \in {t \in Subs : Filters[t] = 1}}
Conns == 1..MaxConns
Loops == 1..MaxEvents
Timer(c) == [pc |-> "timer", on |-> c, seen |-> {}, reg |-> <<>>]
NoLoop == [Timer(0) EXCEPT !.pc = "none"]
NoWire == [calls |-> {}, down |-> <<>>, subs |-> {}, issued |-> 0]

Init ==
  /\ current = 0 /\ used = 0
  /\ conn = [c \in Conns |-> [sock |-> "none", closed |-> FALSE, tries |-> 0, regs |-> {}, route |-> {}]]
  /\ wire = [c \in Conns |-> NoWire]
  /\ sid = [r \in Regs |-> 0]
  /\ client = [s \in Subs |-> [pc |-> "idle", on |-> 0, at |-> 0]]
  /\ loop = [k \in Loops |-> NoLoop]
  /\ past = [c \in Conns |-> {}]
  /\ faults = [drops |-> 0, others |-> 0]

Waiting(c) == {s \in Subs : client[s].pc = "connect" /\ client[s].on = c}
Calling(by, r) == [by |-> by, reg |-> r, loop |-> 0]  \* a call in `pending`, matched by its id
More == faults.drops + faults.others < MaxEvents
Mark(c, what) == past' = [past EXCEPT ![c] = @ \cup {what}]
Send(c, cs) == wire' = [wire EXCEPT ![c].calls = @ \cup cs]

-----------------------------------------------------------------------------
(* reestablish(): for (const r of regs) await establish(r)                 *)

\* Loop l goes on to a registration of the live set that it has not been at.
Visits(l, rs) ==
  IF rs \subseteq l.seen THEN {NoLoop}
  ELSE {[l EXCEPT !.pc = "run", !.reg = r, !.seen = @ \cup {r}] : r \in rs \ l.seen}
CallsOf(ks, newLoop) == {[by |-> "loop", reg |-> newLoop[k].reg, loop |-> k] : k \in {j \in ks : newLoop[j].pc = "run"}}

-----------------------------------------------------------------------------
(* connect() and the socket's events                                       *)

\* getConn and conn.add: the first filter waits for the socket, which is
\* opened if there is none.
Subscribe(s) ==
  /\ client[s].pc = "idle"
  /\ current = 0 => used < MaxConns
  /\ LET c == IF current = 0 THEN used + 1 ELSE current IN
     /\ current' = c /\ used' = IF current = 0 THEN c ELSE used
     /\ IF conn[c].sock = "open"
        THEN /\ conn' = [conn EXCEPT ![c].regs = @ \cup {<<s, 1>>}]
             /\ Send(c, {Calling("add", <<s, 1>>)})
             /\ client' = [client EXCEPT ![s] = [pc |-> "establish", on |-> c, at |-> 1]]
        ELSE /\ conn' = [conn EXCEPT ![c].sock = "connecting"]
             /\ client' = [client EXCEPT ![s] = [pc |-> "connect", on |-> c, at |-> 1]]
             /\ UNCHANGED wire
  /\ UNCHANGED <<sid, loop, past, faults>>

\* ws.onopen: everybody who awaits connect() goes on.
Opens(c) == [conn[c] EXCEPT !.sock = "open", !.tries = 0]
Opened(c) ==
  /\ conn[c].sock = "connecting"
  /\ LET joining == {<<s, 1>> : s \in Waiting(c)}
         regs == conn[c].regs \cup joining
         ks == {k \in Loops : loop[k].pc = "connect" /\ loop[k].on = c}
     IN \E seen \in {conn[c].regs, regs} :  \* who awaited connect() first
        \E next \in [ks -> Visits(Timer(c), seen)] :
          /\ conn' = [conn EXCEPT ![c] = [Opens(c) EXCEPT !.regs = regs]]
          /\ loop' = [k \in Loops |-> IF k \in ks THEN next[k] ELSE loop[k]]
          /\ Send(c, {Calling("add", r) : r \in joining} \cup CallsOf(ks, loop'))
          /\ client' = [s \in Subs |-> IF s \in Waiting(c) THEN [client[s] EXCEPT !.pc = "establish"] ELSE client[s]]
  /\ UNCHANGED <<current, used, sid, past, faults>>

\* ws.onclose: the calls under way are rejected, so subscribers who wait fail
\* and loops end; somebody who unsubscribes goes on to his other filters.
Rejected(c) ==
  [s \in Subs |-> IF client[s].on # c THEN client[s]
                  ELSE CASE client[s].pc \in {"connect", "establish"} -> [client[s] EXCEPT !.pc = "failed"]
                         [] client[s].pc = "removing" -> [client[s] EXCEPT !.pc = "done"]
                         [] OTHER -> client[s]]
Ended(c) == [k \in Loops |-> IF loop[k].on = c /\ loop[k].pc # "timer" THEN NoLoop ELSE loop[k]]
Nulled(c) == [r \in Regs |-> IF client[r[1]].on = c THEN 0 ELSE sid[r]]
Leaving(c) == {r \in Regs : client[r[1]].on = c /\ client[r[1]].pc = "removing"}
Forgets(c) == [conn[c] EXCEPT !.sock = "none", !.route = {}, !.regs = @ \ Leaving(c)]

\* onclose of a socket that never opened: a reestablish() that waited for it
\* ends, and nothing schedules another.
Refuse(c) ==
  /\ conn[c].sock = "connecting" /\ More
  /\ conn' = [conn EXCEPT ![c] = Forgets(c)]
  /\ client' = Rejected(c) /\ loop' = Ended(c)
  /\ IF loop' = loop THEN UNCHANGED past ELSE Mark(c, "ended")
  /\ faults' = [faults EXCEPT !.others = @ + 1]
  /\ UNCHANGED <<current, used, wire, sid>>

\* onclose of an open socket: reconnect after a delay while attempts remain.
Drop(c) ==
  /\ conn[c].sock = "open" /\ More
  /\ LET again == ~conn[c].closed /\ conn[c].regs # {} /\ conn[c].tries < MaxReconnects
         k == faults.drops + 1
     IN /\ conn' = [conn EXCEPT ![c] = [Forgets(c) EXCEPT !.tries = IF again THEN @ + 1 ELSE @]]
        /\ loop' = IF again THEN [Ended(c) EXCEPT ![k] = Timer(c)]
                   ELSE Ended(c)
  /\ wire' = [wire EXCEPT ![c] = NoWire] /\ sid' = Nulled(c) /\ client' = Rejected(c)
  /\ faults' = [faults EXCEPT !.drops = @ + 1]
  /\ UNCHANGED <<current, used, past>>

\* onclose after socket.close().
Closed(c) ==
  /\ conn[c].sock = "closing"
  /\ conn' = [conn EXCEPT ![c] = Forgets(c)]
  /\ wire' = [wire EXCEPT ![c] = NoWire] /\ sid' = Nulled(c)
  /\ client' = Rejected(c) /\ loop' = Ended(c)
  /\ UNCHANGED <<current, used, past, faults>>

\* The reconnect timer.  On a socket that is closing the loop finds nothing.
Fire(k) ==
  /\ loop[k].pc = "timer" /\ Mark(loop[k].on, "again")
  /\ LET c == loop[k].on IN
     CASE conn[c].sock = "open" ->
            /\ \E l \in Visits(loop[k], conn[c].regs) : loop' = [loop EXCEPT ![k] = l]
            /\ Send(c, CallsOf({k}, loop')) /\ UNCHANGED conn
       [] conn[c].sock \in {"none", "connecting"} ->
            /\ loop' = [loop EXCEPT ![k].pc = "connect"]
            /\ conn' = [conn EXCEPT ![c].sock = "connecting"] /\ UNCHANGED wire
       [] OTHER -> loop' = [loop EXCEPT ![k] = NoLoop] /\ UNCHANGED <<conn, wire>>
  /\ UNCHANGED <<current, used, sid, client, faults>>

-----------------------------------------------------------------------------
(* removeAll() and maybeClose()                                            *)

\* byServerId.delete(sid) for the deleted registrations.
\* Mutant: only the provider is told.
RoutesKept(c, gone) == conn[c].route
Unrouted(c, gone) == {e \in conn[c].route : ~(e.reg \in gone /\ e.sid = sid[e.reg])}

\* maybeClose().
Idle(c, rest) == rest = {} /\ conn[c].sock # "none"

\* Deletes the filters of s from the i-th on, up to one the provider has to be
\* told of; after the last one an idle connection is closed and forgotten.
RemoveAll(s, i, c, down) ==
  LET told == {j \in i..Filters[s] : sid[<<s, j>>] # 0 /\ conn[c].sock = "open"}
      j == IF told = {} THEN Filters[s] ELSE Min(told)
      gone == {r \in Regs : r[1] = s /\ r[2] \in i..j}
      rest == conn[c].regs \ gone
      idle == told = {} /\ Idle(c, rest)
      tell == {[by |-> "remove", reg |-> <<s, x>>, sid |-> sid[<<s, x>>]] : x \in told \cap {j}}
  IN /\ sid' = [r \in Regs |-> IF r \in gone THEN 0 ELSE sid[r]]
     /\ conn' = [conn EXCEPT ![c] = [conn[c] EXCEPT !.regs = rest, !.route = Unrouted(c, gone), !.closed = @ \/ idle,
                                                    !.sock = IF idle THEN "closing" ELSE @]]
     /\ current' = IF idle THEN 0 ELSE current
     /\ client' = [client EXCEPT ![s].pc = IF told = {} THEN "done" ELSE "removing", ![s].at = j]
     /\ wire' = [wire EXCEPT ![c].down = down, ![c].calls = @ \cup tell]

Unsubscribe(s) == /\ client[s].pc = "active"
                  /\ RemoveAll(s, 1, client[s].on, wire[client[s].on].down)
                  /\ UNCHANGED <<used, loop, past, faults>>

-----------------------------------------------------------------------------
(* The provider, and handleMessage()                                       *)

Serve(c, call, ok) ==
  /\ conn[c].sock = "open" /\ call \in wire[c].calls
  /\ ~ok => call.by # "remove" /\ More
  /\ faults' = [faults EXCEPT !.others = IF ok THEN @ ELSE @ + 1]
  /\ IF ok THEN UNCHANGED past ELSE Mark(c, "error")
  /\ LET w == [wire[c] EXCEPT !.calls = @ \ {call}]
         new == wire[c].issued + 1
         answer(n) == Append(w.down, [to |-> call, sid |-> n])
     IN wire' = [wire EXCEPT ![c] =
          CASE call.by = "remove" -> [w EXCEPT !.subs = {e \in @ : e.sid # call.sid}, !.down = answer(0)]
            [] call.by # "remove" /\ ok ->
                 [w EXCEPT !.subs = @ \cup {[sid |-> new, reg |-> call.reg]}, !.issued = new, !.down = answer(new)]
            [] OTHER -> [w EXCEPT !.down = answer(0)]]
  /\ UNCHANGED <<current, used, conn, sid, client, loop>>

Tick(c, e) ==
  /\ conn[c].sock = "open" /\ e \in wire[c].subs /\ More
  /\ faults' = [faults EXCEPT !.others = @ + 1]
  /\ wire' = [wire EXCEPT ![c].down = Append(@, [to |-> Calling("tick", <<>>), sid |-> e.sid])]
  /\ UNCHANGED <<current, used, conn, sid, client, loop, past>>

\* establish(): the answer of a subscribe call is stored whoever still wants it.
Established(c, r, n) == /\ sid' = [sid EXCEPT ![r] = n]
                        /\ conn' = [conn EXCEPT ![c].route = {e \in @ : e.sid # n} \cup {[sid |-> n, reg |-> r]}]

\* The answer of establish() in add(): the next filter, or the subscription.
\* A refused registration stays in regs.
Added(c, m) ==
  LET s == m.to.reg[1]
      i == m.to.reg[2]
      last == i = Filters[s]
  IN /\ IF m.sid = 0
        THEN /\ client' = [client EXCEPT ![s].pc = "failed"] /\ UNCHANGED <<sid, conn>>
             /\ wire' = [wire EXCEPT ![c].down = Tail(@)]
        ELSE /\ sid' = [sid EXCEPT ![m.to.reg] = m.sid]
             /\ conn' = [conn EXCEPT ![c].route = {e \in @ : e.sid # m.sid} \cup {[sid |-> m.sid, reg |-> m.to.reg]},
                                     ![c].regs = IF last THEN @ ELSE @ \cup {<<s, i + 1>>}]
             /\ client' = [client EXCEPT ![s].pc = IF last THEN "active" ELSE @, ![s].at = IF last THEN i ELSE i + 1]
             /\ wire' = [wire EXCEPT ![c].down = Tail(@),
                                     ![c].calls = @ \cup (IF last THEN {} ELSE {Calling("add", <<s, i + 1>>)})]
     /\ UNCHANGED <<current, loop>>

\* The answer of establish() in reestablish(): an error ends the loop.
Reestablished(c, m) ==
  LET k == m.to.loop IN
  /\ IF m.sid = 0 THEN loop' = [loop EXCEPT ![k] = NoLoop] /\ UNCHANGED <<sid, conn>>
     ELSE /\ \E l \in Visits(loop[k], conn[c].regs) : loop' = [loop EXCEPT ![k] = l]
          /\ Established(c, m.to.reg, m.sid)
  /\ wire' = [wire EXCEPT ![c].down = Tail(@), ![c].calls = @ \cup CallsOf({k}, loop')]
  /\ UNCHANGED <<current, client>>

Deliver(c) ==
  /\ conn[c].sock = "open" /\ wire[c].down # <<>>
  /\ LET m == Head(wire[c].down) IN
       CASE m.to.by = "tick" -> /\ wire' = [wire EXCEPT ![c].down = Tail(@)]
                                /\ UNCHANGED <<current, conn, sid, client, loop>>
         [] m.to.by = "add" -> Added(c, m)
         [] m.to.by = "remove" -> /\ RemoveAll(m.to.reg[1], m.to.reg[2] + 1, c, Tail(wire[c].down))
                                  /\ UNCHANGED loop
         [] OTHER -> Reestablished(c, m)
  /\ UNCHANGED <<used, past, faults>>

-----------------------------------------------------------------------------
Next == \/ \E s \in Subs : Subscribe(s) \/ Unsubscribe(s)
        \/ \E k \in Loops : Fire(k)
        \/ \E c \in Conns : \/ Opened(c) \/ Refuse(c) \/ Drop(c) \/ Closed(c) \/ Deliver(c)
                            \/ \E call \in wire[c].calls, ok \in BOOLEAN : Serve(c, call, ok)
                            \/ \E e \in wire[c].subs : Tick(c, e)

\* A socket opens or closes in the end, timers fire, and a provider that stays
\* connected answers.
Fairness == /\ \A k \in Loops : WF_vars(Fire(k))
            /\ \A c \in Conns : /\ WF_vars(Opened(c) \/ Refuse(c)) /\ WF_vars(Closed(c)) /\ WF_vars(Deliver(c))
                                /\ WF_vars(\E call \in wire[c].calls : Serve(c, call, TRUE))
Spec == Init /\ [][Next]_vars
FairSpec == Spec /\ Fairness

-----------------------------------------------------------------------------
TypeOK ==
  /\ current \in 0..used /\ used \in 0..MaxConns
  /\ \A c \in Conns : /\ conn[c].sock \in {"none", "connecting", "open", "closing"}
                      /\ conn[c].tries \in 0..MaxReconnects
                      /\ conn[c].regs \subseteq Regs
                      /\ conn[c].route \subseteq [sid: 1..wire[c].issued, reg: Regs]
                      /\ conn[c].sock # "open" /\ conn[c].sock # "closing" => wire[c] = NoWire
  /\ \A s \in Subs : client[s].pc \in {"idle", "connect", "establish", "active", "removing", "done", "failed"}
  /\ past \in [Conns -> SUBSET {"again", "ended", "error"}]

Wants(s) == client[s].pc \in {"establish", "active", "removing"}
Routed(c, r) == {e \in conn[c].route : e.reg = r}

\* Until a connection has lost a socket and reconnected, or its provider has
\* refused a call, a tick reaches only a registration that still is one, of a
\* subscription that was not given up.  (A re-subscription answered after its
\* subscriber left is routed all the same, subscription.ts 206-209, 217.)
Undisturbed(c) == past[c] \cap {"again", "error"} = {}
TicksAreWanted ==
  \A c \in Conns : Undisturbed(c) /\ conn[c].sock = "open" /\ wire[c].down # <<>> =>
    \A e \in conn[c].route : Head(wire[c].down).to.by = "tick" /\ Head(wire[c].down).sid = e.sid =>
      Wants(e.reg[1]) /\ e.reg \in conn[c].regs

\* Server ids lead to the registration the provider of this very socket gave
\* them to: the ids of an earlier socket, which a new one issues again, are gone.
RoutesAreServed ==
  \A c \in Conns : conn[c].sock = "open" =>
    \A e \in conn[c].route : \/ e \in wire[c].subs
                             \/ ~\E f \in wire[c].subs : f.sid = e.sid

\* Until then, a registration is subscribed once on its connection ("One
\* desired subscription on a connection"), so each block ticks once.  (A
\* reestablish() also subscribes what a subscriber is adding meanwhile.)
SubscribedOnce == \A c \in Conns : Undisturbed(c) => \A e, f \in conn[c].route : e.reg = f.reg => e = f

\* And until then, an open socket serves somebody, or is about to be closed by
\* whoever leaves it ("closes only when the last is gone").  (A reconnect that
\* opens after the last subscriber left is never closed.)
IdleSocketCloses ==
  \A c \in Conns : Undisturbed(c) /\ conn[c].sock = "open" /\ conn[c].regs = {} =>
    \E s \in Subs : client[s].on = c /\ client[s].pc = "removing"

\* While attempts remain, a subscription that lost its server id is on its way
\* to a new one, unless the socket of a reconnect was refused or a call was.
\* (Both end reestablish(), and nothing schedules another, 182-189, 217-223.)
Persists(c) == past[c] \cap {"ended", "error"} = {}
OnItsWay ==
  \A s \in Subs : client[s].pc = "active" /\ Persists(client[s].on) /\ conn[client[s].on].tries < MaxReconnects =>
    \/ \A i \in 1..Filters[s] : sid[<<s, i>>] # 0
    \/ conn[client[s].on].sock = "connecting"
    \/ \E k \in Loops : loop[k].on = client[s].on /\ loop[k].pc # "none"

\* Every subscribe and every unsubscribe settles, whatever the socket does.
AllSettled == \A s \in Subs : client[s].pc \in {"idle", "active", "failed", "done"}
CallsSettle == []<>AllSettled

\* While no reconnect is refused and no call fails, every subscription is live
\* in the end, however often the socket drops.
AllLive == \A s \in Subs : client[s].pc = "active" /\ Persists(client[s].on) =>
             \A i \in 1..Filters[s] : Routed(client[s].on, <<s, i>>) # {}
LiveAgain == []<>AllLive
=============================================================================
