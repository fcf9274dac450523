------------------------------ MODULE RoomPage ------------------------------
(***************************************************************************)
(* Which room the watch-party page shows (watch-party-screen.tsx): the     *)
(* page is hydrated from ?room= or the local cache, and the user creates,  *)
(* joins, refreshes, tips in and leaves rooms while calls of the room      *)
(* shown before are still on their way. The contents of a room are         *)
(* WatchParty's subject; here a room is its code.                          *)
(***************************************************************************)
EXTENDS Naturals, FiniteSets

CONSTANTS
  Rooms,     \* room codes
  NoRoom,
  MaxCalls,  \* bound: calls under way at once
  MaxExpiry  \* bound: rooms that expire on the server

RoomPageAssumption ==
  NoRoom \notin Rooms /\ MaxCalls \in Nat /\ MaxExpiry \in Nat

VARIABLES
  store,     \* the rooms on the shared board
  party,     \* the room on screen
  cache,     \* the one in localStorage
  url,       \* the one of ?room=
  calls,     \* calls under way, [kind, room]
  busy,      \* a create, a join, a tip or a settlement is under way
  syncing,   \* a refresh is
  escrow,    \* the room whose escrow balance is shown
  chosen,    \* history: where the user last went
  rushed,    \* history: he went elsewhere during a call of this page load
  expiries

vars == <<store, party, cache, url, calls, busy, syncing, escrow, chosen, rushed, expiries>>
ofEffects == {"poll", "escrow"}
Kinds == {"link", "linkCached", "cached", "publish", "create", "join",
          "refresh", "tip", "append", "settle"} \cup ofEffects
Call(kind, r) == [kind |-> kind, room |-> r]

\* The poll and the escrow balance are effects on the room shown: another room
\* cancels their calls, and no room clears the balance.
Rerun(cs, p) ==
  IF p = party THEN cs
  ELSE {c \in cs : c.kind \notin ofEffects} \cup (IF p = NoRoom THEN {} ELSE {Call("escrow", p)})
Cleared(p) == IF p = NoRoom THEN NoRoom ELSE escrow
setParty(p, cs) == party' = p /\ calls' = Rerun(cs, p) /\ escrow' = Cleared(p)
applyParty(p, cs) == cache' = p /\ setParty(p, cs)
clearParty(cs) == cache' = NoRoom /\ setParty(NoRoom, cs)

\* The page is loaded: ?room= first, then the cache.
HydrateCall(u, c) == IF u # NoRoom THEN {Call(IF c = u THEN "linkCached" ELSE "link", u)}
                     ELSE IF c # NoRoom THEN {Call("cached", c)} ELSE {}
Init == /\ store \in SUBSET Rooms
        /\ cache \in Rooms \cup {NoRoom} /\ url \in Rooms \cup {NoRoom}
        /\ party = NoRoom /\ escrow = NoRoom /\ calls = HydrateCall(url, cache)
        /\ busy = FALSE /\ syncing = FALSE /\ rushed = FALSE /\ expiries = 0
        /\ chosen = IF url # NoRoom THEN url ELSE cache
Load == /\ party' = NoRoom /\ escrow' = NoRoom /\ calls' = HydrateCall(url, cache)
        /\ busy' = FALSE /\ syncing' = FALSE /\ rushed' = FALSE
        /\ chosen' = IF url # NoRoom THEN url ELSE cache
        /\ UNCHANGED <<store, cache, url, expiries>>

\* What the user does: Leave goes on while the page is busy, and a room can be
\* created or joined during the hydration.
GoesElsewhere == rushed' = (rushed \/ \E c \in calls : c.kind \notin ofEffects)
Issue(kind, r) == Cardinality(calls) < MaxCalls /\ calls' = calls \cup {Call(kind, r)}

Create(r) == /\ party = NoRoom /\ ~busy /\ GoesElsewhere
             /\ r \notin store /\ \A c \in calls : c.room # r
             /\ Issue("create", r) /\ busy' = TRUE
             /\ UNCHANGED <<store, party, cache, url, syncing, escrow, chosen, expiries>>
Join(r) == /\ party = NoRoom /\ ~busy /\ GoesElsewhere
           /\ Issue("join", r) /\ busy' = TRUE
           /\ UNCHANGED <<store, party, cache, url, syncing, escrow, chosen, expiries>>
Refresh == /\ party # NoRoom /\ ~syncing
           /\ Issue("refresh", party) /\ syncing' = TRUE
           /\ UNCHANGED <<store, party, cache, url, busy, escrow, chosen, rushed, expiries>>
TipOrSettle(kind) == /\ party # NoRoom /\ ~busy
                     /\ Issue(kind, party) /\ busy' = TRUE
                     /\ UNCHANGED <<store, party, cache, url, syncing, escrow, chosen, rushed, expiries>>
Leave == /\ party # NoRoom /\ GoesElsewhere
         /\ clearParty(calls) /\ url' = NoRoom /\ chosen' = NoRoom
         /\ UNCHANGED <<store, busy, syncing, expiries>>

\* The intervals.
Interval(kind) == /\ party # NoRoom /\ Issue(kind, party)
                  /\ UNCHANGED <<store, party, cache, url, busy, syncing, escrow, chosen, rushed, expiries>>

\* Answers: a call finds its room, finds that there is none, or fails. Each
\* says what its handler does with the calls cs that are left.
LinkAnswered(c, cs, found) ==
  CASE found = "yes" -> applyParty(c.room, cs)
    [] found = "no" /\ c.kind = "linkCached" -> clearParty(cs)
    [] OTHER -> calls' = cs /\ UNCHANGED <<party, cache, escrow>>
CachedAnswered(c, cs, found) ==
  CASE found \in {"yes", "error"} -> applyParty(c.room, cs)
    [] found = "no" -> calls' = cs \cup {Call("publish", c.room)}
                       /\ UNCHANGED <<party, cache, escrow>>
PublishAnswered(c, cs, found) ==
  IF found = "yes" THEN applyParty(c.room, cs) ELSE clearParty(cs)
\* tipNation shows and caches its own copy of the room before it is appended.
TipAnswered(c, cs, found) ==
  IF found = "yes" THEN applyParty(c.room, cs \cup {Call("append", c.room)})
                   ELSE calls' = cs /\ UNCHANGED <<party, cache, escrow>>
EscrowAnswered(c, cs, found) ==
  /\ calls' = cs /\ escrow' = IF found = "yes" THEN c.room ELSE escrow
  /\ UNCHANGED <<party, cache>>
\* join, create, refresh, poll, append, settle.
RoomAnswered(c, cs, found) ==
  IF found = "yes" THEN applyParty(c.room, cs)
                   ELSE calls' = cs /\ UNCHANGED <<party, cache, escrow>>

\* What the server can answer: a create or a publish makes the room.
Answers(c) == CASE c.kind \in {"create", "publish"} -> {"yes", "error"}
                [] c.kind \in {"tip", "escrow"} -> {"yes", "error"}
                [] c.room \in store -> {"yes", "error"}
                [] OTHER -> {"no", "error"}
Named(c, found) == found = "yes" /\ c.kind \in {"create", "join", "publish"}
Answer(c, found) ==
  LET cs == calls \ {c} IN
  /\ c \in calls /\ found \in Answers(c)
  /\ CASE c.kind \in {"link", "linkCached"} -> LinkAnswered(c, cs, found)
       [] c.kind = "cached" -> CachedAnswered(c, cs, found)
       [] c.kind = "publish" -> PublishAnswered(c, cs, found)
       [] c.kind = "tip" -> TipAnswered(c, cs, found)
       [] c.kind = "escrow" -> EscrowAnswered(c, cs, found)
       [] OTHER -> RoomAnswered(c, cs, found)
  /\ store' = IF found = "yes" /\ c.kind \in {"create", "publish"} THEN store \cup {c.room} ELSE store
  /\ url' = IF Named(c, found) THEN c.room ELSE url
  /\ chosen' = IF found = "yes" /\ c.kind \in {"create", "join"} THEN c.room ELSE chosen
  /\ busy' = IF c.kind \in {"create", "join", "append", "settle"} \/ (c.kind = "tip" /\ found # "yes")
             THEN FALSE ELSE busy
  /\ syncing' = IF c.kind = "refresh" THEN FALSE ELSE syncing
  /\ UNCHANGED <<rushed, expiries>>

Expire(r) == /\ r \in store /\ expiries < MaxExpiry
             /\ store' = store \ {r} /\ expiries' = expiries + 1
             /\ UNCHANGED <<party, cache, url, calls, busy, syncing, escrow, chosen, rushed>>

Next == \/ Load \/ Refresh \/ Leave
        \/ \E k \in {"tip", "settle"} : TipOrSettle(k)
        \/ \E k \in ofEffects : Interval(k)
        \/ \E r \in Rooms : Create(r) \/ Join(r) \/ Expire(r)
        \/ \E c \in calls : \E found \in {"yes", "no", "error"} : Answer(c, found)
Spec == Init /\ [][Next]_vars

-----------------------------------------------------------------------------
TypeOK ==
  /\ store \subseteq Rooms
  /\ {party, cache, url, escrow, chosen} \subseteq Rooms \cup {NoRoom}
  /\ calls \subseteq [kind: Kinds, room: Rooms]
  /\ \A c \in calls : c.kind \in ofEffects => c.room = party
  /\ busy \in BOOLEAN /\ syncing \in BOOLEAN /\ rushed \in BOOLEAN /\ expiries \in 0..MaxExpiry

\* Unless the user went elsewhere during a call, the room on screen is the one
\* he last went to: no poll, refresh, tip or hydration that is answered late
\* brings back another.
ShownIsChosen == ~rushed => party \in {NoRoom, chosen}

\* Nor is the escrow balance beside the board another room's ("Live TipPool
\* USDt balance vs verified board totals", watch-party-screen.tsx:86).
EscrowOfShown == ~rushed => escrow \in {NoRoom, party}

\* A reload comes back to the room that was shown ("Hydrate from local cache,
\* then ?room=CODE", watch-party-screen.tsx:155): the cache is always that
\* room's, and the link names no other unless the user was in a hurry.
ReloadComesBack == party # NoRoom => cache = party /\ (rushed \/ url \in {NoRoom, party})
=============================================================================
