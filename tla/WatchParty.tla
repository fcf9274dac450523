----------------------------- MODULE WatchParty -----------------------------
(***************************************************************************)
(* The watch party end to end: the pages of the room's wallets              *)
(* (apps/web/src/components/watch-party-screen.tsx), the shared board they  *)
(* poll and post to, and Sepolia.                                           *)
(*                                                                          *)
(* The board is PartyBoard, one atomic step per API call: PartyServer       *)
(* implements it while the store is in memory.  What is left is what the    *)
(* pages do between the awaits of their handlers: copies of the room go     *)
(* stale, a closure overwrites a newer copy, a page is closed half-way.     *)
(***************************************************************************)
EXTENDS PartyBoard

CONSTANTS
  Reliable,    \* TRUE: nothing is lost and the chain answers within the wait
  MaxReload,   \* bound: page reloads
  MaxExpiry,   \* bound: times the room expires
  None         \* no handler closure, no broadcast call

\* A call broadcast to the pool: TipPool.tip or TipPool.settle.
SettleCall == [hash : TxHash, from : Addr, nation : Nation]
Broadcast == TipRecord \cup SettleCall

ASSUME PageAssumption ==
  /\ Reliable \in BOOLEAN
  /\ MaxReload \in Nat /\ MaxExpiry \in Nat
  /\ None \notin Broadcast

VARIABLES
  sent,        \* calls broadcast so far
  view,        \* view[a]: the room as a's page and its localStorage have it
  optimistic,  \* optimistic[a]: its tips not yet verified (verified: false)
  handler,     \* handler[a]: what the page's busy handler awaits
  closure,     \* closure[a]: the render a tip handler started from
  job,         \* job[a]: the call the handler broadcast
  reply,       \* reply[a]: the answer to a GET, not applied yet
  reloads, expiries

pageVars == <<sent, view, optimistic, handler, closure, job, reply>>
bounds == <<reloads, expiries>>
vars == <<receipt, escrow, open, store, sent, view, optimistic, handler,
          closure, job, reply, reloads, expiries>>

Awaiting == {"idle", "load", "tip.sign", "tip.mined", "tip.post", "tip.retry",
             "settle.mined", "settle.post"}

Closure == [nation : Nation, amount : Amount,
            view : WatchParty, optimistic : SUBSET TipRecord]

TypeOK ==
  /\ receipt \in [TxHash -> Receipt \cup {NoReceipt}]
  /\ escrow \in Nat
  /\ open \in BOOLEAN
  /\ store \in WatchParty \cup {NoRoom}
  /\ sent \subseteq Broadcast
  /\ view \in [Addr -> WatchParty \cup {NoRoom}]
  /\ optimistic \in [Addr -> SUBSET TipRecord]
  /\ handler \in [Addr -> Awaiting]
  /\ closure \in [Addr -> Closure \cup {None}]
  /\ job \in [Addr -> Broadcast \cup {None}]
  /\ reply \in [Addr -> WatchParty \cup {NoRoom}]
  /\ reloads \in 0 .. MaxReload
  /\ expiries \in 0 .. MaxExpiry

Init ==
  /\ BoardInit
  /\ sent = {}
  /\ view = [a \in Addr |-> NoRoom]
  /\ optimistic = [a \in Addr |-> {}]
  /\ handler = [a \in Addr |-> "idle"]
  /\ closure = [a \in Addr |-> None]
  /\ job = [a \in Addr |-> None]
  /\ reply = [a \in Addr |-> NoRoom]
  /\ reloads = 0
  /\ expiries = 0

-----------------------------------------------------------------------------
(* Sepolia mines what was broadcast, in any order. *)

Mine(c) ==
  /\ c \in sent
  /\ \/ c \in TipRecord /\ LogTip(c.hash, c.from, c.nation, c.amount)
     \/ c \in SettleCall /\ LogSettled(c.hash, c.nation)
     \/ LogOther(c.hash, c.from)   \* reverted: too late, or the token refuses

Chain ==
  \E c \in Broadcast :
    Mine(c) /\ UNCHANGED <<store, pageVars, bounds>>

-----------------------------------------------------------------------------
\* applyParty: the page and its cache take the document over, whole.
applyParty(a, party) ==
  /\ view' = [view EXCEPT ![a] = party]
  /\ optimistic' = [optimistic EXCEPT ![a] = {}]

\* A handler starts only while none is busy: every button is disabled then.
Goto(a, from, to) ==
  /\ handler[a] = from
  /\ handler' = [handler EXCEPT ![a] = to]

Done(a) ==
  /\ handler' = [handler EXCEPT ![a] = "idle"]
  /\ closure' = [closure EXCEPT ![a] = None]
  /\ job' = [job EXCEPT ![a] = None]

Unused(h) == \A c \in sent : c.hash # h

Shows(a) == view[a] # NoRoom /\ handler[a] # "load"

-----------------------------------------------------------------------------
(* Entering the room *)

\* startParty: the host's page, its pool deployed, creates the room.
StartParty(a) ==
  /\ a = Host /\ view[a] = NoRoom /\ handler[a] = "idle"
  /\ expiries = 0
  /\ Publish
  /\ applyParty(a, Fresh)
  /\ UNCHANGED <<ledgerVars, sent, handler, closure, job, reply>>

joinParty(a) ==
  /\ view[a] = NoRoom /\ handler[a] = "idle"
  /\ store # NoRoom
  /\ applyParty(a, store)
  /\ UNCHANGED <<ledgerVars, store, sent, handler, closure, job, reply>>

\* The page after a reload.  A room in the cache is read from the server; if it
\* is gone there, the page republishes it, empty, or drops it.
Hydrate(a) ==
  /\ Goto(a, "load", "idle")
  /\ \/ store # NoRoom /\ applyParty(a, store) /\ UNCHANGED store
     \/ Publish /\ applyParty(a, Fresh)
     \/ store = NoRoom /\ applyParty(a, NoRoom) /\ UNCHANGED store
     \/ ~Reliable /\ UNCHANGED <<view, optimistic, store>>
  /\ UNCHANGED <<ledgerVars, sent, closure, job, reply>>

-----------------------------------------------------------------------------
(* The live poll, Refresh, and the refresh that Pears gossip triggers *)

apiGetParty(a) ==
  /\ Shows(a) /\ reply[a] = NoRoom
  /\ store # NoRoom
  /\ reply' = [reply EXCEPT ![a] = store]
  /\ UNCHANGED <<ledgerVars, store, sent, view, optimistic, handler, closure, job>>

\* Mutant: the poll spares a room with optimistic tips.
ApplyIfNonePending(a) ==
  /\ reply[a] # NoRoom
  /\ IF optimistic[a] = {} THEN applyParty(a, reply[a])
                           ELSE UNCHANGED <<view, optimistic>>
  /\ reply' = [reply EXCEPT ![a] = NoRoom]
  /\ UNCHANGED <<ledgerVars, store, sent, handler, closure, job>>

Apply(a) ==
  /\ reply[a] # NoRoom
  /\ applyParty(a, reply[a])
  /\ reply' = [reply EXCEPT ![a] = NoRoom]
  /\ UNCHANGED <<ledgerVars, store, sent, handler, closure, job>>

Lose(a) ==
  /\ ~Reliable
  /\ reply[a] # NoRoom
  /\ reply' = [reply EXCEPT ![a] = NoRoom]
  /\ UNCHANGED <<ledgerVars, store, sent, view, optimistic, handler, closure, job>>

-----------------------------------------------------------------------------
(* tipNation *)

\* remainingCap counts the page's own copy of the room, optimistic tips too.
Affordable(a, v) ==
  Cap = 0 \/ Total({t \in view[a].tips \cup optimistic[a] : t.from = a}) + v <= Cap

tipNation(a, n, v) ==
  /\ Goto(a, "idle", "tip.sign")
  /\ view[a] # NoRoom
  /\ ~Settled(view[a])
  /\ n \in Match
  /\ v > 0
  /\ Affordable(a, v)
  /\ closure' = [closure EXCEPT ![a] =
       [nation |-> n, amount |-> v, view |-> view[a], optimistic |-> optimistic[a]]]
  /\ UNCHANGED <<ledgerVars, store, sent, view, optimistic, job, reply>>

\* Mutant: the optimistic tip is recorded like a verified one.
SignTipVerified(a) ==
  /\ Goto(a, "tip.sign", "tip.mined")
  /\ \E h \in TxHash :
       LET seen == closure[a]
           tip == [hash |-> h, from |-> a, nation |-> seen.nation, amount |-> seen.amount]
       IN  /\ Unused(h)
           /\ sent' = sent \cup {tip}
           /\ job' = [job EXCEPT ![a] = tip]
           /\ view' = [view EXCEPT ![a] = Append(seen.view, tip)]
           /\ optimistic' = [optimistic EXCEPT ![a] = seen.optimistic]
  /\ closure' = [closure EXCEPT ![a] = None]
  /\ UNCHANGED <<ledgerVars, store, reply>>

\* Approved if need be, the tip is signed and broadcast, and the closure's copy
\* of the room plus the tip becomes the page's, whatever was polled meanwhile.
SignTip(a) ==
  /\ Goto(a, "tip.sign", "tip.mined")
  /\ \E h \in TxHash :
       LET seen == closure[a]
           tip == [hash |-> h, from |-> a, nation |-> seen.nation, amount |-> seen.amount]
       IN  /\ Unused(h)
           /\ sent' = sent \cup {tip}
           /\ job' = [job EXCEPT ![a] = tip]
           /\ view' = [view EXCEPT ![a] = seen.view]
           /\ optimistic' = [optimistic EXCEPT ![a] = seen.optimistic \cup {tip}]
  /\ closure' = [closure EXCEPT ![a] = None]
  /\ UNCHANGED <<ledgerVars, store, reply>>

Succeeded(a, kind) ==
  receipt[job[a].hash] # NoReceipt /\ receipt[job[a].hash].kind = kind

TipMined(a) ==
  /\ Goto(a, "tip.mined", "tip.post")
  /\ Succeeded(a, "tip")
  /\ UNCHANGED <<ledgerVars, store, sent, view, optimistic, closure, job, reply>>

\* The handler's second try comes 2 s after the first failed; there is no third.
AfterFailure(a) ==
  IF handler[a] = "tip.post"
  THEN Goto(a, "tip.post", "tip.retry") /\ UNCHANGED <<closure, job>>
  ELSE Done(a)

apiAppendTip(a) ==
  /\ handler[a] \in {"tip.post", "tip.retry"}
  /\ Accept(job[a])
  /\ \/ applyParty(a, store') /\ Done(a)
     \/ ~Reliable /\ UNCHANGED <<view, optimistic>> /\ AfterFailure(a)
  /\ UNCHANGED <<ledgerVars, sent, reply>>

TipRefused(a) ==
  /\ handler[a] \in {"tip.post", "tip.retry"}
  /\ Reliable => ~Appendable(store, job[a])
  /\ AfterFailure(a)
  /\ UNCHANGED <<ledgerVars, store, sent, view, optimistic, reply>>

-----------------------------------------------------------------------------
(* settleMatch *)

\* Mutant: the page locks its copy as soon as the call is broadcast.
settleMatchEarly(a, n) ==
  /\ a = Host /\ Goto(a, "idle", "settle.mined")
  /\ view[a] # NoRoom /\ ~Settled(view[a])
  /\ n \in Match
  /\ \E h \in TxHash :
       LET settle == [hash |-> h, from |-> a, nation |-> n]
       IN  /\ Unused(h)
           /\ sent' = sent \cup {settle}
           /\ job' = [job EXCEPT ![a] = settle]
  /\ applyParty(a, Lock(view[a], n, 0))
  /\ UNCHANGED <<ledgerVars, store, closure, reply>>

settleMatch(a, n) ==
  /\ a = Host /\ Goto(a, "idle", "settle.mined")
  /\ view[a] # NoRoom /\ ~Settled(view[a])
  /\ n \in Match
  /\ \E h \in TxHash :
       LET settle == [hash |-> h, from |-> a, nation |-> n]
       IN  /\ Unused(h)
           /\ sent' = sent \cup {settle}
           /\ job' = [job EXCEPT ![a] = settle]
  /\ UNCHANGED <<ledgerVars, store, view, optimistic, closure, reply>>

SettleMined(a) ==
  /\ Goto(a, "settle.mined", "settle.post")
  /\ Succeeded(a, "settled")
  /\ UNCHANGED <<ledgerVars, store, sent, view, optimistic, closure, job, reply>>

\* A board already locked is answered as it is.
apiSettleParty(a) ==
  /\ handler[a] = "settle.post"
  /\ \/ LockBoard(job[a].hash, job[a].nation)
     \/ store # NoRoom /\ Settled(store) /\ UNCHANGED store
  /\ \/ applyParty(a, store')
     \/ ~Reliable /\ UNCHANGED <<view, optimistic>>
  /\ Done(a)
  /\ UNCHANGED <<ledgerVars, sent, reply>>

-----------------------------------------------------------------------------
\* Mutant: waitForTxSuccess polls without a limit and ignores a revert.
GiveUpNever(a) ==
  /\ \/ handler[a] = "tip.sign"
     \/ handler[a] = "settle.post" /\ (~Reliable \/ store = NoRoom)
  /\ Done(a)
  /\ UNCHANGED <<ledgerVars, store, sent, view, optimistic, reply>>

\* Mutant: waitForTxSuccess gives up before Sepolia had time to mine.
GiveUpSoon(a) ==
  /\ \/ handler[a] \in {"tip.sign", "tip.mined", "settle.mined"}
     \/ handler[a] = "settle.post" /\ (~Reliable \/ store = NoRoom)
  /\ Done(a)
  /\ UNCHANGED <<ledgerVars, store, sent, view, optimistic, reply>>

\* A handler ends with an error: nothing was signed; waitForTxSuccess saw a
\* revert, ran out of attempts or lost its RPC; the settle call got no answer.
GiveUp(a) ==
  /\ \/ handler[a] = "tip.sign"
     \/ /\ handler[a] \in {"tip.mined", "settle.mined"}
        /\ ~Reliable \/ Succeeded(a, "other")
     \/ handler[a] = "settle.post" /\ (~Reliable \/ store = NoRoom)
  /\ Done(a)
  /\ UNCHANGED <<ledgerVars, store, sent, view, optimistic, reply>>

\* The busy handler's next step.
Proceed(a) ==
  \/ SignTip(a) \/ TipMined(a) \/ apiAppendTip(a) \/ TipRefused(a)
  \/ SettleMined(a) \/ apiSettleParty(a)
  \/ GiveUp(a) \/ Hydrate(a)

Page(a) ==
  \/ StartParty(a) \/ joinParty(a)
  \/ apiGetParty(a) \/ Apply(a) \/ Lose(a)
  \/ \E n \in Nation, v \in Amount : tipNation(a, n, v)
  \/ \E n \in Nation : settleMatch(a, n)
  \/ Proceed(a)

\* The page is reloaded: only the cached room survives.
Reload(a) ==
  /\ reloads < MaxReload
  /\ reloads' = reloads + 1
  /\ view[a] # NoRoom
  /\ handler' = [handler EXCEPT ![a] = "load"]
  /\ closure' = [closure EXCEPT ![a] = None]
  /\ job' = [job EXCEPT ![a] = None]
  /\ reply' = [reply EXCEPT ![a] = NoRoom]
  /\ UNCHANGED <<ledgerVars, store, sent, view, optimistic, expiries>>

Expire ==
  /\ expiries < MaxExpiry
  /\ expiries' = expiries + 1
  /\ Vanish
  /\ UNCHANGED <<ledgerVars, pageVars, reloads>>

Next ==
  \/ Chain
  \/ \E a \in Addr : Page(a) /\ UNCHANGED bounds
  \/ \E a \in Addr : Reload(a)
  \/ Expire

(***************************************************************************)
(* Sepolia mines what it was sent; a handler's awaits end (every fetch and  *)
(* every wait is bounded); the poll's timer keeps firing, and not every one *)
(* of its answers is lost.  Nobody has to tip, settle, join or reload.      *)
(***************************************************************************)
Fairness ==
  /\ WF_vars(Chain)
  /\ \A a \in Addr :
       /\ WF_vars(Proceed(a) /\ UNCHANGED bounds)
       /\ WF_vars(apiGetParty(a) /\ UNCHANGED bounds)
       /\ SF_vars(Apply(a) /\ UNCHANGED bounds)

Spec == Init /\ [][Next]_vars
FairSpec == Spec /\ Fairness

\* And a host who does not give up settling while the page offers it.
StubbornHost ==
  /\ FairSpec
  /\ SF_vars(/\ \E n \in Nation : settleMatch(Host, n)
             /\ UNCHANGED bounds)

-----------------------------------------------------------------------------
(***************************************************************************)
(* Properties                                                               *)
(***************************************************************************)

\* No page ever counts a tip that Sepolia does not prove, not from a stale
\* copy, a closure, a cache or a room that has since expired (nationTotals
\* skips verified = false; the rest came from the board).
ScoreIsTrue ==
  \A a \in Addr : view[a] # NoRoom => \A t \in view[a].tips : Verified(t)

\* No page shows a match as settled before the contract is, with another winner
\* than the Settled log's, or with an amount that is not that log's to the
\* nearest cent.
LockShownIsTrue ==
  \A a \in Addr :
    view[a] # NoRoom /\ Settled(view[a]) =>
      \E h \in TxHash :
        SettledLog(h, view[a].winner) /\ view[a].paid \in settledAmountUsdt(h)

\* "same live tip board on every device" (README.md:24): every page in the room
\* keeps catching up with the board, its tips and its lock, although stale
\* answers and closures overwrite newer copies.
EveryPageCatchesUp ==
  \A a \in Addr : []<>(view[a] = NoRoom \/ (view[a] = store /\ optimistic[a] = {}))

\* No handler stays busy for good, which would disable every button.
BusyEnds == \A a \in Addr : handler[a] # "idle" ~> handler[a] = "idle"

\* A tip that the chain took is on the board in the end, unless the match is
\* over: "Tip sent on-chain, but board verification failed ... Tap Refresh
\* pool" (watch-party-screen.tsx:433) promises that polling is enough.
TipReachesBoard ==
  \A h \in TxHash :
    (receipt[h] # NoReceipt /\ receipt[h].kind = "tip")
      ~> (store # NoRoom /\ (OnBoard(store, h) \/ Settled(store)))

\* "board locks everywhere": a match settled on-chain is locked on the board.
SettledMatchLocks == ~open ~> (store # NoRoom /\ Settled(store))

\* "If I try to tip past the room cap, GoalTip blocks it before any signature"
\* (docs/DEMO_SCRIPT.md:18): what one wallet tips on-chain is within the cap.
CapBeforeSigning ==
  Cap > 0 => \A a \in Addr : Total({t \in TipRecord : t.from = a /\ Verified(t)}) <= Cap
=============================================================================
