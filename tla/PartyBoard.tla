----------------------------- MODULE PartyBoard -----------------------------
(***************************************************************************)
(* What the shared board promises: one document that changes atomically.    *)
(* A tip appears only if the chain proves it, the room is open and the      *)
(* sender is within the cap; the lock is final; only expiry of the whole    *)
(* room takes anything away.                                                *)
(***************************************************************************)
EXTENDS Party

VARIABLE store   \* the document under the room's key, or NoRoom

boardVars == <<receipt, escrow, open, store>>

BoardInit == LedgerInit /\ store = NoRoom

Publish ==
  /\ store = NoRoom
  /\ store' = Fresh

Accept(t) ==
  /\ Appendable(store, t)
  /\ t.nation \in Match
  /\ Verified(t)
  /\ store' = Append(store, t)

LockBoard(h, n) ==
  /\ store # NoRoom
  /\ ~Settled(store)
  /\ n \in Match
  /\ SettledLog(h, n)
  /\ \E v \in settledAmountUsdt(h) : store' = Lock(store, n, v)

Vanish ==
  /\ store # NoRoom
  /\ store' = NoRoom

BoardStep ==
  \/ Publish
  \/ \E t \in TipRecord : Accept(t)
  \/ \E h \in TxHash, n \in Nation : LockBoard(h, n)
  \/ Vanish

BoardNext ==
  \/ LedgerNext /\ UNCHANGED store
  \/ BoardStep /\ UNCHANGED ledgerVars

BoardSpec == BoardInit /\ [][BoardNext]_boardVars
=============================================================================
