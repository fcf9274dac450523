---------------------------- MODULE PartyServer ----------------------------
(***************************************************************************)
(* The party API (apps/web/src/app/api/party) over its key-value store      *)
(* (apps/web/src/lib/party-server.ts), composed with the chain it reads.    *)
(*                                                                          *)
(* A request is a sequence of awaits: it reads the document, asks the chain, *)
(* reads the document AGAIN, and writes the whole document back.  On Redis  *)
(* (GET ... SET over REST) other requests run between the last two; with    *)
(* the in-memory Map only microtasks separate them, so nothing does.        *)
(***************************************************************************)
EXTENDS PartyBoard

CONSTANTS
  Req,         \* requests that may be in flight at once
  Memory,      \* TRUE: in-memory Map; FALSE: Upstash Redis
  MaxExpiry,   \* bound: times the room expires (TTL, cold start)
  NoBody       \* a slot without a request

ASSUME ServerAssumption ==
  /\ Memory \in BOOLEAN
  /\ MaxExpiry \in Nat
  /\ NoBody \notin TipRecord \cup [hash : TxHash, from : Addr, nation : Nation]

VARIABLES
  pc,          \* where each request is
  body,        \* what it was asked: the tip, or the settle call's hash/from/winner
  doc,         \* the document it is about to save
  accepted,    \* history: tips answered 200 since the room last expired
  expiries     \* how often the room expired

serverVars == <<store, pc, body, doc, accepted, expiries>>
vars == <<receipt, escrow, open, store, pc, body, doc, accepted, expiries>>

\* The settle call's settleTxHash, from and winnerNationId.
SettleBody == [hash : TxHash, from : Addr, nation : Nation]

Saving == {"tip.save", "settle.save", "create.save"}
Pc == {"idle", "tip.verify", "tip.append", "settle.verify", "settle.lock"} \cup Saving

TypeOK ==
  /\ receipt \in [TxHash -> Receipt \cup {NoReceipt}]
  /\ escrow \in Nat
  /\ open \in BOOLEAN
  /\ store \in WatchParty \cup {NoRoom}
  /\ pc \in [Req -> Pc]
  /\ body \in [Req -> TipRecord \cup SettleBody \cup {NoBody}]
  /\ doc \in [Req -> WatchParty \cup {NoRoom}]
  /\ accepted \subseteq TipRecord
  /\ expiries \in 0 .. MaxExpiry

Init ==
  /\ LedgerInit
  /\ store = NoRoom
  /\ pc = [r \in Req |-> "idle"]
  /\ body = [r \in Req |-> NoBody]
  /\ doc = [r \in Req |-> NoRoom]
  /\ accepted = {}
  /\ expiries = 0

-----------------------------------------------------------------------------
\* Mutant: an await with I/O between the read and the write of a document.
MayRunAnyway(r) == TRUE

\* In memory the read and the write of a document are one uninterrupted run:
\* no other request's step falls between them.
MayRun(r) == Memory => \A q \in Req \ {r} : pc[q] \notin Saving

Goto(r, from, to) ==
  /\ MayRun(r)
  /\ pc[r] = from
  /\ pc' = [pc EXCEPT ![r] = to]

\* The request ends and its slot is free.
Finish(r) ==
  /\ pc' = [pc EXCEPT ![r] = "idle"]
  /\ body' = [body EXCEPT ![r] = NoBody]
  /\ doc' = [doc EXCEPT ![r] = NoRoom]

ToSave(r, party) == doc' = [doc EXCEPT ![r] = party]

-----------------------------------------------------------------------------
(* POST /api/party/[code]/tips *)

\* Arrival and the route's own look at the room.
PostTip(r) ==
  /\ Goto(r, "idle", "tip.verify")
  /\ store # NoRoom
  /\ ~Settled(store)
  /\ \E t \in TipRecord :
       /\ t.nation \in Match
       /\ body' = [body EXCEPT ![r] = t]
  /\ UNCHANGED <<store, doc, accepted, expiries>>

\* Mutant: verification checks the receipt's status and no log.
VerifyTipStatus(r) ==
  /\ Goto(r, "tip.verify", "tip.append")
  /\ receipt[body[r].hash] # NoReceipt
  /\ UNCHANGED <<store, body, doc, accepted, expiries>>

VerifyTip(r) ==
  /\ Goto(r, "tip.verify", "tip.append")
  /\ Verified(body[r])
  /\ UNCHANGED <<store, body, doc, accepted, expiries>>

\* appendSharedTip up to its save: the room is read again and checked.
ReadForTip(r) ==
  /\ Goto(r, "tip.append", "tip.save")
  /\ Appendable(store, body[r])
  /\ ToSave(r, Append(store, body[r]))
  /\ UNCHANGED <<store, body, accepted, expiries>>

\* saveSharedParty writes the whole document.  The 200 answer may be lost.
SaveTip(r) ==
  /\ MayRun(r)
  /\ pc[r] = "tip.save"
  /\ store' = doc[r]
  /\ accepted' \in {accepted, accepted \cup {body[r]}}
  /\ Finish(r)
  /\ UNCHANGED expiries

-----------------------------------------------------------------------------
(* POST /api/party/[code]/settle *)

PostSettle(r) ==
  /\ Goto(r, "idle", "settle.verify")
  /\ store # NoRoom
  /\ \E b \in SettleBody : body' = [body EXCEPT ![r] = b]
  /\ UNCHANGED <<store, doc, accepted, expiries>>

\* Mutant: verification does not compare the winner topic.
VerifySettleAnyWinner(r) ==
  /\ Goto(r, "settle.verify", "settle.lock")
  /\ \E n \in Nation : SettledLog(body[r].hash, n)
  /\ UNCHANGED <<store, body, doc, accepted, expiries>>

VerifySettle(r) ==
  /\ Goto(r, "settle.verify", "settle.lock")
  /\ SettledLog(body[r].hash, body[r].nation)
  /\ UNCHANGED <<store, body, doc, accepted, expiries>>

\* settleSharedParty up to its save.  A room already settled is answered as it
\* is, before any check of the caller (Refuse: no document changes).
ReadForSettle(r) ==
  /\ Goto(r, "settle.lock", "settle.save")
  /\ store # NoRoom
  /\ ~Settled(store)
  /\ body[r].from = Host
  /\ body[r].nation \in Match
  /\ \E v \in settledAmountUsdt(body[r].hash) :
       ToSave(r, Lock(store, body[r].nation, v))
  /\ UNCHANGED <<store, body, accepted, expiries>>

-----------------------------------------------------------------------------
(* POST /api/party with this room's code: creation, or a client's republish.
   An existing room with these settings is answered as it is (Refuse). *)

ReadForCreate(r) ==
  /\ Goto(r, "idle", "create.save")
  /\ store = NoRoom
  /\ ToSave(r, Fresh)
  /\ UNCHANGED <<store, body, accepted, expiries>>

\* The save of a settle or of a create.
SaveRoom(r) ==
  /\ MayRun(r)
  /\ pc[r] \in {"settle.save", "create.save"}
  /\ store' = doc[r]
  /\ Finish(r)
  /\ UNCHANGED <<accepted, expiries>>

-----------------------------------------------------------------------------
\* Any answer that changes no document: a 4xx from one of the checks above, an
\* RPC or Redis error, the receipt never found, or the function timing out.
Refuse(r) ==
  /\ MayRun(r)
  /\ pc[r] # "idle"
  /\ Finish(r)
  /\ UNCHANGED <<store, accepted, expiries>>

\* The key's TTL runs out; or, in memory, a cold start, which also ends every
\* request in flight.
Expire ==
  /\ expiries < MaxExpiry
  /\ store # NoRoom
  /\ store' = NoRoom
  /\ accepted' = {}
  /\ expiries' = expiries + 1
  /\ IF Memory
     THEN /\ pc' = [r \in Req |-> "idle"]
          /\ body' = [r \in Req |-> NoBody]
          /\ doc' = [r \in Req |-> NoRoom]
     ELSE UNCHANGED <<pc, body, doc>>

ServerNext ==
  \/ \E r \in Req :
       \/ PostTip(r) \/ VerifyTip(r) \/ ReadForTip(r) \/ SaveTip(r)
       \/ PostSettle(r) \/ VerifySettle(r) \/ ReadForSettle(r)
       \/ ReadForCreate(r) \/ SaveRoom(r)
       \/ Refuse(r)
  \/ Expire

Next ==
  \/ LedgerNext /\ UNCHANGED serverVars
  \/ ServerNext /\ UNCHANGED ledgerVars

Spec == Init /\ [][Next]_vars

-----------------------------------------------------------------------------
(***************************************************************************)
(* Properties of either store                                               *)
(***************************************************************************)

\* Documents a reader may meet: the stored one and those about to be saved.
Documents == ({store} \cup {doc[r] : r \in Req}) \ {NoRoom}

\* The board only shows what Sepolia proves: every entry, even one written
\* from a stale document, has a Tip receipt of the same sender, nation and
\* amount, for a nation of the match (tips/route.ts 52-63).
BoardProven ==
  store # NoRoom => \A t \in store.tips : Verified(t) /\ t.nation \in Match

\* No wallet's board total exceeds the host's cap, however requests interleave
\* (party-server.ts 205-213).
CapHolds ==
  store # NoRoom /\ Cap > 0 => \A a \in Addr : walletTotal(store, a) <= Cap

\* A locked board names the outcome the contract paid out, however settle calls
\* interleave: the escrow is closed by a Settled receipt of that winner, and the
\* board's amount is that receipt's to the nearest cent.
LockIsOutcome ==
  store # NoRoom /\ Settled(store) =>
    /\ ~open
    /\ store.winner \in Match
    /\ \E h \in TxHash : /\ SettledLog(h, store.winner)
                         /\ store.paid \in settledAmountUsdt(h)

\* The scoreboard never promises more than the money: while the match is open
\* the escrow covers the board, and once it is paid out the payout does.
BoardCovered ==
  store # NoRoom =>
    /\ open => Total(store.tips) <= escrow
    /\ \A h \in TxHash :
         receipt[h] # NoReceipt /\ receipt[h].kind = "settled"
           => Total(store.tips) <= receipt[h].amount

(***************************************************************************)
(* Properties of the in-memory store; Redis keeps none of them              *)
(***************************************************************************)

\* A tip answered 200 stays on the board until the whole room expires.
AcceptedStays ==
  store # NoRoom => accepted \subseteq store.tips

\* No append takes a tip that was answered 200 off the board: the document it
\* saves is not older than the one it replaces (party-server.ts 192-220).
AppendKeepsAccepted ==
  [][\A r \in Req :
       store # NoRoom /\ pc[r] = "tip.save" /\ pc'[r] = "idle"
         => accepted \cap store.tips \subseteq store'.tips]_vars

\* "board locks everywhere": from the lock on, the document does not change
\* until the room expires (party-types.ts 43: tips lock after this).
LockIsFinal ==
  [][store # NoRoom /\ Settled(store) => store' \in {store, NoRoom}]_vars

\* The API is the atomic board of PartyBoard: the stored document is the
\* board, and a request takes effect when it saves.
ImplementsBoard == BoardSpec

(***************************************************************************)
(* What docs/PHASE2_ESCROW.md:10 says of verification                       *)
(***************************************************************************)

\* "fans send Sepolia USDt with a plain ERC-20 transfer to the TipPool. Party
\* API verifies Transfer(from=tipper, to=TipPool, amount)": a mined transfer of
\* the claimed sender and amount is proof enough.
TransferIsProof ==
  \A t \in TipRecord :
    /\ receipt[t.hash] # NoReceipt
    /\ receipt[t.hash].kind \in {"tip", "deposit"}
    /\ receipt[t.hash].from = t.from
    /\ receipt[t.hash].amount = t.amount
    /\ receipt[t.hash].nation \in {t.nation, NoNation}
    => Verified(t)
=============================================================================
