------------------------- MODULE PartyServerProofs -------------------------
(***************************************************************************)
(* Proofs about PartyServer: on Redis as in memory, for any number of       *)
(* concurrent requests, the board shows only what the chain proves, a lock  *)
(* tells the contract's outcome, no wallet exceeds the cap and the money    *)
(* covers the board; in memory the API is the atomic board.                 *)
(***************************************************************************)
EXTENDS PartyServer, Sums, TLAPS

USE LedgerAssumption, PartyAssumption, ServerAssumption DEF Receipt, Match

\* A document that is stored, or that a request is about to store, shows only
\* proven tips and only the true outcome.
Sound(d) ==
  /\ \A t \in d.tips : Verified(t) /\ t.nation \in Match
  /\ Settled(d) => /\ d.winner \in Match
                   /\ \E h \in TxHash :
                        SettledLog(h, d.winner) /\ d.paid \in settledAmountUsdt(h)

\* What a request knows at each of its awaits.
Knows(r) ==
  /\ pc[r] \in {"tip.verify", "tip.append", "tip.save"} =>
       body[r] \in TipRecord /\ body[r].nation \in Match
  /\ pc[r] \in {"tip.append", "tip.save"} => Verified(body[r])
  /\ pc[r] \in {"settle.verify", "settle.lock", "settle.save"} => body[r] \in SettleBody
  /\ pc[r] = "settle.lock" => SettledLog(body[r].hash, body[r].nation)
  /\ pc[r] \in Saving <=> doc[r] # NoRoom
  /\ doc[r] # NoRoom => Sound(doc[r])

\* A Settled log closes the escrow.
ClosedByLog ==
  \A h \in TxHash : receipt[h] # NoReceipt /\ receipt[h].kind = "settled" => ~open

IInv ==
  /\ TypeOK
  /\ ClosedByLog
  /\ store # NoRoom => Sound(store)
  /\ \A r \in Req : Knows(r)

-----------------------------------------------------------------------------
\* Receipts never change, so neither does what they prove.
LEMMA LedgerStep ==
  ASSUME TypeOK, ClosedByLog, LedgerNext
  PROVE  /\ receipt' \in [TxHash -> Receipt \cup {NoReceipt}]
         /\ escrow' \in Nat
         /\ open' \in BOOLEAN
         /\ ClosedByLog'
         /\ \A h \in TxHash : receipt[h] # NoReceipt => receipt'[h] = receipt[h]
<1> USE DEF TypeOK
<1>1. PICK h \in TxHash :
        \/ \E a \in Addr, n \in Nation, v \in Amount : LogTip(h, a, n, v)
        \/ \E a \in Addr, v \in Amount : LogDeposit(h, a, v)
        \/ \E n \in Nation : LogSettled(h, n)
        \/ \E a \in Addr : LogOther(h, a)
  BY DEF LedgerNext
<1>2. CASE \E a \in Addr, n \in Nation, v \in Amount : LogTip(h, a, n, v)
  BY <1>2 DEF LogTip, Record, ClosedByLog
<1>3. CASE \E a \in Addr, v \in Amount : LogDeposit(h, a, v)
  BY <1>3 DEF LogDeposit, Record, ClosedByLog
<1>4. CASE \E n \in Nation : LogSettled(h, n)
  <2>1. PICK n \in Nation : LogSettled(h, n)
    BY <1>4
  <2>2. [kind |-> "settled", from |-> Host, nation |-> n, amount |-> escrow] \in Receipt
    OBVIOUS
  <2> QED BY <2>1, <2>2 DEF LogSettled, Record, ClosedByLog
<1>5. CASE \E a \in Addr : LogOther(h, a)
  BY <1>5 DEF LogOther, Record, ClosedByLog
<1> QED BY <1>1, <1>2, <1>3, <1>4, <1>5

\* The initial state satisfies the invariant.
LEMMA InitInv == Init => IInv
BY DEF Init, LedgerInit, IInv, TypeOK, Pc, Saving, ClosedByLog, Knows

\* Adding a proven tip of the match to a sound document keeps it sound.
LEMMA AppendSound ==
  ASSUME NEW d \in WatchParty, Sound(d), NEW t \in TipRecord, Verified(t), t.nation \in Match
  PROVE  Append(d, t) \in WatchParty /\ Sound(Append(d, t))
BY DEF Append, Sound, WatchParty, Settled

\* What the verifier answers is an amount, and it is the same as long as the
\* receipt is.
LEMMA CentsAreAmounts ==
  ASSUME TypeOK, NEW h \in TxHash, NEW n \in Nation, SettledLog(h, n)
  PROVE  /\ settledAmountUsdt(h) \subseteq Nat
         /\ receipt'[h] = receipt[h] => settledAmountUsdt(h)' = settledAmountUsdt(h)
<1>1. receipt[h] \in Receipt /\ receipt[h].amount \in Nat
  BY DEF TypeOK, SettledLog
<1> QED BY <1>1 DEF settledAmountUsdt

\* Locking a sound document with a true outcome keeps it sound.
LEMMA LockSound ==
  ASSUME TypeOK, NEW d \in WatchParty, Sound(d), NEW h \in TxHash, NEW n \in Match,
         SettledLog(h, n), NEW v \in settledAmountUsdt(h)
  PROVE  Lock(d, n, v) \in WatchParty /\ Sound(Lock(d, n, v))
<1>1. v \in Nat
  BY CentsAreAmounts
<1> DEFINE L == Lock(d, n, v)
<1>2. L \in WatchParty /\ L.tips = d.tips /\ L.winner = n /\ L.paid = v
  BY <1>1 DEF Lock, WatchParty
<1> QED BY <1>2 DEF Sound

\* A chain step leaves the server alone, and everything it knew stays true.
LEMMA LedgerKeepsInv == IInv /\ LedgerNext /\ UNCHANGED serverVars => IInv'
<1> SUFFICES ASSUME IInv, LedgerNext, UNCHANGED serverVars PROVE IInv'
  OBVIOUS
<1> USE DEF serverVars
<1>1. TypeOK' /\ ClosedByLog'
  BY LedgerStep DEF IInv, TypeOK
<1>2. \A h \in TxHash : receipt[h] # NoReceipt => receipt'[h] = receipt[h]
  BY LedgerStep DEF IInv
<1>3. \A t \in TipRecord : Verified(t) => Verified(t)'
  <2> SUFFICES ASSUME NEW t \in TipRecord, Verified(t) PROVE Verified(t)'
    OBVIOUS
  <2>1. t.hash \in TxHash /\ t.from \in Addr /\ t.nation \in Nation /\ t.amount \in Nat
    BY DEF TipRecord
  <2>2. receipt[t.hash] \in Receipt
    BY <2>1 DEF Verified
  <2> QED BY <1>2, <2>1, <2>2 DEF Verified
<1>4. \A h \in TxHash, n \in Nation :
        SettledLog(h, n) => SettledLog(h, n)' /\ receipt'[h] = receipt[h]
  BY <1>2 DEF SettledLog
<1>5. \A d \in WatchParty : Sound(d) => Sound(d)'
  <2> SUFFICES ASSUME NEW d \in WatchParty, Sound(d) PROVE Sound(d)'
    OBVIOUS
  <2>1. (\A t \in d.tips : Verified(t) /\ t.nation \in Match)'
    BY <1>3 DEF Sound, WatchParty
  <2>2. ASSUME Settled(d)
        PROVE  \E h \in TxHash : SettledLog(h, d.winner)' /\ d.paid \in settledAmountUsdt(h)'
    <3>1. PICK h \in TxHash : SettledLog(h, d.winner) /\ d.paid \in settledAmountUsdt(h)
      BY <2>2 DEF Sound
    <3>2. d.winner \in Nation
      BY <2>2 DEF WatchParty, Settled
    <3>3. SettledLog(h, d.winner)' /\ receipt'[h] = receipt[h]
      BY <1>4, <3>1, <3>2
    <3> QED BY <3>1, <3>3 DEF settledAmountUsdt
  <2> QED BY <2>1, <2>2 DEF Sound, Settled
<1>6. store # NoRoom => Sound(store)'
  BY <1>5 DEF IInv, TypeOK
<1>7. ASSUME NEW r \in Req PROVE Knows(r)'
  BY <1>3, <1>4, <1>5 DEF IInv, TypeOK, Knows, SettleBody
<1> QED BY <1>1, <1>6, <1>7 DEF IInv

-----------------------------------------------------------------------------
\* A step of one request touches no other request's knowledge.
LEMMA OthersKnow ==
  ASSUME IInv, UNCHANGED ledgerVars, NEW r \in Req,
         \A q \in Req \ {r} : /\ pc'[q] = pc[q]
                              /\ body'[q] = body[q]
                              /\ doc'[q] = doc[q]
  PROVE  \A q \in Req \ {r} : Knows(q)'
BY DEF IInv, Knows, ledgerVars, Verified, SettledLog, settledAmountUsdt, Sound, Settled

\* The moves of a request that write nothing to the store.
LEMMA ReadKeepsInv ==
  ASSUME IInv, UNCHANGED ledgerVars, NEW r \in Req,
         \/ PostTip(r) \/ VerifyTip(r) \/ ReadForTip(r)
         \/ PostSettle(r) \/ VerifySettle(r) \/ ReadForSettle(r) \/ ReadForCreate(r)
  PROVE  IInv'
<1> USE DEF ledgerVars
<1>0. TypeOK /\ Knows(r) /\ (store # NoRoom => Sound(store)) /\ UNCHANGED store
  BY DEF IInv, PostTip, VerifyTip, ReadForTip, PostSettle, VerifySettle,
         ReadForSettle, ReadForCreate
<1>1. \A q \in Req \ {r} : /\ pc'[q] = pc[q]
                           /\ body'[q] = body[q]
                           /\ doc'[q] = doc[q]
  BY <1>0 DEF TypeOK, PostTip, VerifyTip, ReadForTip, PostSettle, VerifySettle,
         ReadForSettle, ReadForCreate, Goto, ToSave
<1>2. \A t : Verified(t)' <=> Verified(t)
  BY DEF Verified
<1>3. \A d : Sound(d)' <=> Sound(d)
  BY DEF Sound, Verified, SettledLog, settledAmountUsdt, Settled
<1>4. ClosedByLog' /\ (store' # NoRoom => Sound(store)')
  BY <1>0, <1>3 DEF IInv, ClosedByLog
<1> SUFFICES TypeOK' /\ Knows(r)'
  BY <1>1, <1>4, OthersKnow DEF IInv
<1>5. CASE PostTip(r)
  <2>1. PICK t \in TipRecord : t.nation \in Match /\ body' = [body EXCEPT ![r] = t]
    BY <1>5 DEF PostTip
  <2>2. pc' = [pc EXCEPT ![r] = "tip.verify"] /\ pc[r] = "idle" /\ UNCHANGED <<doc, accepted, expiries>>
    BY <1>5 DEF PostTip, Goto
  <2> QED BY <1>0, <2>1, <2>2 DEF TypeOK, Pc, Knows, Saving
<1>6. CASE VerifyTip(r)
  <2>1. pc' = [pc EXCEPT ![r] = "tip.append"] /\ pc[r] = "tip.verify"
        /\ Verified(body[r]) /\ UNCHANGED <<body, doc, accepted, expiries>>
    BY <1>6 DEF VerifyTip, Goto
  <2> QED BY <1>0, <1>2, <2>1 DEF TypeOK, Pc, Knows, Saving
<1>7. CASE ReadForTip(r)
  <2>1. /\ pc' = [pc EXCEPT ![r] = "tip.save"] /\ pc[r] = "tip.append"
        /\ store # NoRoom
        /\ doc' = [doc EXCEPT ![r] = Append(store, body[r])]
        /\ UNCHANGED <<body, accepted, expiries>>
    BY <1>7 DEF ReadForTip, Goto, ToSave, Appendable
  <2>2. body[r] \in TipRecord /\ Verified(body[r]) /\ body[r].nation \in Match
    BY <1>0, <2>1 DEF Knows
  <2>3. Append(store, body[r]) \in WatchParty /\ Sound(Append(store, body[r]))
    BY <1>0, <2>1, <2>2, AppendSound DEF TypeOK
  <2>4. doc'[r] = Append(store, body[r]) /\ doc' \in [Req -> WatchParty \cup {NoRoom}]
    BY <1>0, <2>1, <2>3 DEF TypeOK
  <2>5. pc'[r] = "tip.save" /\ pc' \in [Req -> Pc] /\ body' = body
    BY <1>0, <2>1 DEF TypeOK, Pc, Saving
  <2> QED BY <1>0, <1>2, <1>3, <2>1, <2>2, <2>3, <2>4, <2>5 DEF TypeOK, Knows, Saving
<1>8. CASE PostSettle(r)
  <2>1. PICK b \in SettleBody : body' = [body EXCEPT ![r] = b]
    BY <1>8 DEF PostSettle
  <2>2. pc' = [pc EXCEPT ![r] = "settle.verify"] /\ pc[r] = "idle" /\ UNCHANGED <<doc, accepted, expiries>>
    BY <1>8 DEF PostSettle, Goto
  <2> QED BY <1>0, <2>1, <2>2 DEF TypeOK, Pc, Knows, Saving
<1>9. CASE VerifySettle(r)
  <2>1. pc' = [pc EXCEPT ![r] = "settle.lock"] /\ pc[r] = "settle.verify"
        /\ SettledLog(body[r].hash, body[r].nation) /\ UNCHANGED <<body, doc, accepted, expiries>>
    BY <1>9 DEF VerifySettle, Goto
  <2>2. SettledLog(body[r].hash, body[r].nation)'
    BY <2>1 DEF SettledLog
  <2> QED BY <1>0, <2>1, <2>2 DEF TypeOK, Pc, Knows, Saving
<1>10. CASE ReadForSettle(r)
  <2> PICK v \in settledAmountUsdt(body[r].hash) :
             ToSave(r, Lock(store, body[r].nation, v))
    BY <1>10 DEF ReadForSettle
  <2> DEFINE d == Lock(store, body[r].nation, v)
  <2>1. /\ pc' = [pc EXCEPT ![r] = "settle.save"] /\ pc[r] = "settle.lock"
        /\ store # NoRoom /\ body[r].nation \in Match
        /\ doc' = [doc EXCEPT ![r] = d]
        /\ UNCHANGED <<body, accepted, expiries>>
    BY <1>10 DEF ReadForSettle, Goto, ToSave
  <2>2. body[r] \in SettleBody /\ SettledLog(body[r].hash, body[r].nation)
    BY <1>0, <2>1 DEF Knows
  <2>3. d \in WatchParty /\ Sound(d)
    BY <1>0, <2>1, <2>2, LockSound DEF TypeOK, SettleBody
  <2> HIDE DEF d
  <2>4. doc'[r] = d /\ doc' \in [Req -> WatchParty \cup {NoRoom}]
    BY <1>0, <2>1, <2>3 DEF TypeOK
  <2>5. pc'[r] = "settle.save" /\ pc' \in [Req -> Pc] /\ body' = body
    BY <1>0, <2>1 DEF TypeOK, Pc, Saving
  <2> QED BY <1>0, <1>3, <2>1, <2>2, <2>3, <2>4, <2>5 DEF TypeOK, Knows, Saving
<1>11. CASE ReadForCreate(r)
  <2>1. /\ pc' = [pc EXCEPT ![r] = "create.save"] /\ pc[r] = "idle"
        /\ doc' = [doc EXCEPT ![r] = Fresh]
        /\ UNCHANGED <<body, accepted, expiries>>
    BY <1>11 DEF ReadForCreate, Goto, ToSave
  <2>2. Fresh \in WatchParty /\ Sound(Fresh)
    BY DEF Fresh, WatchParty, Sound, Settled
  <2>3. doc'[r] = Fresh /\ doc' \in [Req -> WatchParty \cup {NoRoom}]
    BY <1>0, <2>1, <2>2 DEF TypeOK
  <2>4. pc'[r] = "create.save" /\ pc' \in [Req -> Pc]
    BY <1>0, <2>1 DEF TypeOK, Pc, Saving
  <2> QED BY <1>0, <1>3, <2>1, <2>2, <2>3, <2>4 DEF TypeOK, Knows, Saving
<1> QED BY <1>5, <1>6, <1>7, <1>8, <1>9, <1>10, <1>11

\* Saves, refusals and expiry: a sound document, or none, gets stored.
LEMMA WriteKeepsInv ==
  ASSUME IInv, UNCHANGED ledgerVars,
         (\E r \in Req : SaveTip(r) \/ SaveRoom(r) \/ Refuse(r)) \/ Expire
  PROVE  IInv'
<1> USE DEF ledgerVars
<1>0. TypeOK /\ \A r \in Req : Knows(r)
  BY DEF IInv
<1>1. \A d : Sound(d)' <=> Sound(d)
  BY DEF Sound, Verified, SettledLog, settledAmountUsdt, Settled
<1>2. ClosedByLog'
  BY DEF IInv, ClosedByLog
<1>3. ASSUME NEW r \in Req, SaveTip(r) \/ SaveRoom(r) \/ Refuse(r) PROVE IInv'
  <2>1. /\ pc' = [pc EXCEPT ![r] = "idle"]
        /\ body' = [body EXCEPT ![r] = NoBody]
        /\ doc' = [doc EXCEPT ![r] = NoRoom]
    BY <1>3 DEF SaveTip, SaveRoom, Refuse, Finish
  <2>2. \A q \in Req \ {r} : /\ pc'[q] = pc[q] /\ body'[q] = body[q]
                             /\ doc'[q] = doc[q]
    BY <1>0, <2>1 DEF TypeOK
  <2>3. Knows(r)'
    BY <1>0, <2>1 DEF TypeOK, Knows, Saving
  <2>4. store' \in {store, doc[r]} /\ (store' # store => doc[r] # NoRoom)
    BY <1>0, <1>3 DEF SaveTip, SaveRoom, Refuse, Knows, Saving
  <2>5. store' # NoRoom => Sound(store')
    BY <1>0, <2>4 DEF IInv, Knows
  <2>6. accepted' \subseteq TipRecord /\ UNCHANGED expiries
    <3>1. SaveTip(r) => body[r] \in TipRecord
      BY <1>0 DEF SaveTip, Knows
    <3> QED BY <1>0, <1>3, <3>1 DEF SaveTip, SaveRoom, Refuse, TypeOK
  <2>7. TypeOK'
    BY <1>0, <2>1, <2>4, <2>6 DEF TypeOK, Pc
  <2>8. (store # NoRoom => Sound(store))'
    BY <1>1, <2>5 DEF Sound, Verified, SettledLog, Settled
  <2> QED BY <1>2, <2>2, <2>3, <2>7, <2>8, OthersKnow DEF IInv
<1>4. ASSUME Expire PROVE IInv'
  <2>1. TypeOK'
    BY <1>0, <1>4 DEF Expire, TypeOK, Pc
  <2>2. ASSUME NEW r \in Req PROVE Knows(r)'
    BY <1>0, <1>1, <1>4 DEF Expire, Knows, Saving, Verified, SettledLog, Sound, Settled
  <2> QED BY <1>2, <1>4, <2>1, <2>2 DEF IInv, Expire
<1> QED BY <1>3, <1>4

\* The invariant holds in every reachable state, whichever the store.
THEOREM Invariance == Spec => []IInv
<1>1. Init => IInv
  BY InitInv
<1>2. IInv /\ [Next]_vars => IInv'
  <2> SUFFICES ASSUME IInv, [Next]_vars PROVE IInv'
    OBVIOUS
  <2>1. CASE LedgerNext /\ UNCHANGED serverVars
    BY <2>1, LedgerKeepsInv
  <2>2. CASE ServerNext /\ UNCHANGED ledgerVars
    BY <2>2, ReadKeepsInv, WriteKeepsInv DEF ServerNext
  <2>3. CASE UNCHANGED vars
    BY <2>3 DEF vars, IInv, TypeOK, ClosedByLog, Knows, Sound, Settled, Verified,
                SettledLog, settledAmountUsdt
  <2> QED BY <2>1, <2>2, <2>3 DEF Next
<1> QED BY <1>1, <1>2, PTL DEF Spec

\* The store, the requests in flight and the chain keep their types.
THEOREM TypeCorrect == Spec => []TypeOK
BY Invariance, PTL DEF IInv

\* The board only shows what Sepolia proves (tips/route.ts 52-63), even when
\* concurrent requests overwrite each other's documents.
THEOREM Proven == Spec => []BoardProven
<1>1. IInv => BoardProven
  BY DEF IInv, BoardProven, Sound
<1> QED BY <1>1, Invariance, PTL

\* A locked board names the winner of the contract's only payout and, to the
\* nearest cent, its amount (settle/route.ts 50-63, verify-settle-tx.ts 109-111).
THEOREM LockTrue == Spec => []LockIsOutcome
<1>1. IInv => LockIsOutcome
  <2> SUFFICES ASSUME IInv, store # NoRoom, Settled(store) PROVE LockIsOutcome
    BY DEF LockIsOutcome
  <2>1. PICK h \in TxHash :
          SettledLog(h, store.winner) /\ store.paid \in settledAmountUsdt(h)
    BY DEF IInv, Sound
  <2>2. ~open
    BY <2>1 DEF IInv, ClosedByLog, SettledLog
  <2> QED BY <2>1, <2>2 DEF IInv, Sound, LockIsOutcome
<1> QED BY <1>1, Invariance, PTL

-----------------------------------------------------------------------------
(***************************************************************************)
(* The sums: the cap of every wallet and the cover of the whole board.      *)
(***************************************************************************)

\* A document that is stored, or that a request is about to store, has
\* finitely many tips, one per hash, and keeps every wallet within the cap.
Fits(d) ==
  /\ IsFiniteSet(d.tips)
  /\ \A s, t \in d.tips : s.hash = t.hash => s = t
  /\ Cap > 0 => \A a \in Addr : walletTotal(d, a) <= Cap

FitInv ==
  /\ store # NoRoom => Fits(store)
  /\ \A r \in Req : doc[r] # NoRoom => Fits(doc[r])

\* All that the chain's Tip logs add up to, and who guarantees it: the escrow
\* until the Settled log, then the payout of that log.
TipReceipts == {h \in TxHash : receipt[h] # NoReceipt /\ receipt[h].kind = "tip"}

TipTotal == SumFunctionOnSet([h \in TipReceipts |-> receipt[h].amount], TipReceipts)

MoneyCovers ==
  /\ open => TipTotal <= escrow
  /\ \A h \in TxHash :
       receipt[h] # NoReceipt /\ receipt[h].kind = "settled" => TipTotal <= receipt[h].amount

\* A set of tips and one more add up to the set's total and that tip.
LEMMA TotalAdd ==
  ASSUME NEW T \in SUBSET TipRecord, IsFiniteSet(T), NEW t \in TipRecord, t \notin T
  PROVE  /\ Total(T) \in Nat
         /\ Total(T \cup {t}) = Total(T) + t.amount
<1> DEFINE v == [s \in T \cup {t} |-> s.amount]
           w == [s \in T |-> s.amount]
<1>1. \A s \in T \cup {t} : s.amount \in Nat
  BY DEF TipRecord
<1>2. Total(T \cup {t}) = SumFunctionOnSet(v, T \cup {t}) /\ Total(T) = SumFunctionOnSet(w, T)
  BY DEF Total
<1>3. /\ \A s \in T \cup {t} : v[s] \in Nat
      /\ \A s \in T : v[s] = w[s] /\ w[s] \in Nat
      /\ v[t] = t.amount
  BY <1>1
<1> HIDE DEF v, w
<1>4. SumFunctionOnSet(v, T \cup {t}) = v[t] + SumFunctionOnSet(v, T)
  BY <1>3, SumAdd
<1>5. SumFunctionOnSet(v, T) = SumFunctionOnSet(w, T)
  BY <1>3, SumSame
<1>6. SumFunctionOnSet(w, T) \in Nat
  BY <1>3, SumType
<1> QED BY <1>1, <1>2, <1>3, <1>4, <1>5, <1>6

\* What appendSharedTip's checks are for: the document it saves still fits.
LEMMA AppendFits ==
  ASSUME NEW d \in WatchParty, Fits(d), NEW t \in TipRecord,
         ~OnBoard(d, t.hash), WithinCap(d, t)
  PROVE  Fits(Append(d, t))
<1> DEFINE e == Append(d, t)
           Of(p, a) == {s \in p.tips : s.from = a}
<1>1. e.tips = d.tips \cup {t} /\ d.tips \subseteq TipRecord /\ t \notin d.tips
  BY DEF Append, WatchParty, OnBoard
<1>2. IsFiniteSet(e.tips)
  BY <1>1, FS_AddElement DEF Fits
<1>3. \A s, u \in e.tips : s.hash = u.hash => s = u
  BY <1>1 DEF Fits, OnBoard
<1>4. ASSUME Cap > 0, NEW a \in Addr PROVE walletTotal(e, a) <= Cap
  <2>1. Of(d, a) \in SUBSET TipRecord /\ IsFiniteSet(Of(d, a)) /\ t \notin Of(d, a)
    BY <1>1, FS_Subset DEF Fits
  <2>2. walletTotal(e, a) = Total(Of(e, a)) /\ walletTotal(d, a) = Total(Of(d, a))
    BY DEF walletTotal
  <2>3. walletTotal(d, a) <= Cap
    BY <1>4 DEF Fits
  <2>4. CASE t.from = a
    <3>1. Of(e, a) = Of(d, a) \cup {t}
      BY <1>1, <2>4
    <3>2. Total(Of(d, a) \cup {t}) = Total(Of(d, a)) + t.amount
      <4> HIDE DEF Of
      <4> QED BY <2>1, TotalAdd
    <3>3. walletTotal(d, a) + t.amount <= Cap
      BY <1>4, <2>4 DEF WithinCap
    <3> HIDE DEF Of, e
    <3> QED BY <2>2, <3>1, <3>2, <3>3
  <2>5. CASE t.from # a
    <3>1. Of(e, a) = Of(d, a)
      BY <1>1, <2>5
    <3> HIDE DEF Of, e
    <3> QED BY <2>2, <2>3, <3>1
  <2> QED BY <2>4, <2>5
<1> HIDE DEF e
<1>5. Fits(e)
  BY <1>2, <1>3, <1>4 DEF Fits
<1> QED BY <1>5 DEF e

\* The lock leaves the tips alone; a fresh room has none.
LEMMA LockAndFreshFit ==
  /\ \A d \in WatchParty, n \in Nation, v \in Nat : Fits(d) => Fits(Lock(d, n, v))
  /\ Fits(Fresh)
<1>1. ASSUME NEW d \in WatchParty, NEW n \in Nation, NEW v \in Nat, Fits(d)
      PROVE  Fits(Lock(d, n, v))
  <2>1. Lock(d, n, v).tips = d.tips
    BY DEF Lock, WatchParty
  <2> QED BY <1>1, <2>1 DEF Fits, walletTotal
<1>2. Fits(Fresh)
  <2>1. Fresh.tips = {}
    BY DEF Fresh
  <2>2. \A a \in Addr : walletTotal(Fresh, a) = 0
    <3>1. \A a \in Addr : {t \in Fresh.tips : t.from = a} = {}
      BY <2>1
    <3> QED BY <3>1, SumEmpty DEF walletTotal, Total
  <2> QED BY <2>1, <2>2, FS_EmptySet DEF Fits
<1> QED BY <1>1, <1>2

\* Every document written comes from one that fits, by a step that keeps it so.
LEMMA StepFits == IInv /\ FitInv /\ [Next]_vars => FitInv'
<1> SUFFICES ASSUME IInv, FitInv, [Next]_vars PROVE FitInv'
  OBVIOUS
<1>0. TypeOK /\ \A r \in Req : Knows(r)
  BY DEF IInv
<1>1. CASE UNCHANGED <<store, doc>>
  <2>1. \A d : Fits(d)' <=> Fits(d)
    BY DEF Fits, walletTotal, Total
  <2> QED BY <1>1 DEF FitInv
<1>2. ASSUME NEW r \in Req, NEW d, Fits(d), store' = store,
             doc' = [doc EXCEPT ![r] = d]
      PROVE  FitInv'
  <2>1. \A q \in Req : doc'[q] \in {doc[q], d}
    BY <1>0, <1>2 DEF TypeOK
  <2> QED BY <1>2, <2>1 DEF FitInv
<1>3. ASSUME NEW r \in Req, ReadForTip(r) PROVE FitInv'
  <2>1. /\ store # NoRoom /\ pc[r] = "tip.append" /\ store' = store
        /\ ~OnBoard(store, body[r].hash) /\ WithinCap(store, body[r])
        /\ doc' = [doc EXCEPT ![r] = Append(store, body[r])]
    BY <1>3 DEF ReadForTip, Goto, Appendable, ToSave
  <2>2. body[r] \in TipRecord /\ store \in WatchParty /\ Fits(store)
    BY <1>0, <2>1 DEF Knows, TypeOK, FitInv
  <2>3. Fits(Append(store, body[r]))
    BY <2>1, <2>2, AppendFits
  <2> QED BY <1>2, <2>1, <2>3
<1>4. ASSUME NEW r \in Req, ReadForSettle(r) PROVE FitInv'
  <2> PICK v \in settledAmountUsdt(body[r].hash) :
             ToSave(r, Lock(store, body[r].nation, v))
    BY <1>4 DEF ReadForSettle
  <2> DEFINE d == Lock(store, body[r].nation, v)
  <2>1. /\ store # NoRoom /\ pc[r] = "settle.lock" /\ store' = store
        /\ doc' = [doc EXCEPT ![r] = d]
    BY <1>4 DEF ReadForSettle, Goto, ToSave
  <2>2. /\ store \in WatchParty /\ Fits(store)
        /\ body[r] \in SettleBody /\ SettledLog(body[r].hash, body[r].nation)
    BY <1>0, <2>1 DEF Knows, TypeOK, FitInv
  <2>3. body[r].nation \in Nation /\ v \in Nat
    BY <1>0, <2>2, CentsAreAmounts DEF SettleBody
  <2>4. Fits(d)
    BY <2>2, <2>3, LockAndFreshFit
  <2> HIDE DEF d
  <2> QED BY <1>2, <2>1, <2>4
<1>5. ASSUME NEW r \in Req, ReadForCreate(r) PROVE FitInv'
  <2>1. store' = store /\ doc' = [doc EXCEPT ![r] = Fresh]
    BY <1>5 DEF ReadForCreate, ToSave
  <2> QED BY <1>2, <2>1, LockAndFreshFit
<1>6. ASSUME NEW r \in Req, SaveTip(r) \/ SaveRoom(r) \/ Refuse(r) PROVE FitInv'
  <2>1. doc' = [doc EXCEPT ![r] = NoRoom] /\ store' \in {store, doc[r]}
    BY <1>6 DEF SaveTip, SaveRoom, Refuse, Finish
  <2>2. \A q \in Req : doc'[q] \in {doc[q], NoRoom}
    BY <1>0, <2>1 DEF TypeOK
  <2> QED BY <2>1, <2>2 DEF FitInv
<1>7. ASSUME Expire PROVE FitInv'
  <2>1. store' = NoRoom /\ \A q \in Req : doc'[q] \in {doc[q], NoRoom}
    BY <1>7 DEF Expire
  <2> QED BY <2>1 DEF FitInv
<1>8. CASE LedgerNext /\ UNCHANGED serverVars
  BY <1>1, <1>8 DEF serverVars
<1>9. CASE ServerNext /\ UNCHANGED ledgerVars
  BY <1>1, <1>3, <1>4, <1>5, <1>6, <1>7, <1>9
     DEF ServerNext, PostTip, VerifyTip, PostSettle, VerifySettle
<1>10. CASE UNCHANGED vars
  BY <1>1, <1>10 DEF vars
<1> QED BY <1>8, <1>9, <1>10 DEF Next

\* No wallet's total on the stored board exceeds the host's cap, however the
\* requests' reads and whole-document writes interleave (party-server.ts 205-213).
THEOREM CapKept == Spec => []CapHolds
<1>1. Init => FitInv
  BY DEF Init, FitInv
<1>2. FitInv => CapHolds
  BY DEF FitInv, Fits, CapHolds
<1> QED BY <1>1, <1>2, StepFits, Invariance, PTL DEF Spec

\* The receipts of tips are finitely many and carry naturals.
LEMMA TipReceiptAmounts ==
  ASSUME TypeOK
  PROVE  /\ IsFiniteSet(TipReceipts)
         /\ \A h \in TipReceipts : receipt[h].amount \in Nat
         /\ TipTotal \in Nat
<1>1. IsFiniteSet(TipReceipts)
  BY FS_Subset DEF TipReceipts
<1>2. \A h \in TipReceipts : receipt[h].amount \in Nat
  BY DEF TypeOK, TipReceipts
<1> QED BY <1>1, <1>2, SumType DEF TipTotal

\* A mined transaction that is no tip leaves the tips' total alone.
LEMMA OtherReceipt ==
  ASSUME TypeOK, NEW h \in TxHash, NEW r \in Receipt, r.kind # "tip", Record(h, r)
  PROVE  TipTotal' = TipTotal
<1>1. /\ receipt[h] = NoReceipt /\ receipt'[h] = r
      /\ \A g \in TxHash \ {h} : receipt'[g] = receipt[g]
  BY DEF Record, TypeOK
<1>2. TipReceipts' = TipReceipts
  BY <1>1 DEF TipReceipts
<1>3. \A g \in TipReceipts : receipt'[g] = receipt[g]
  BY <1>1 DEF TipReceipts
<1>4. [g \in TipReceipts' |-> receipt'[g].amount] = [g \in TipReceipts |-> receipt[g].amount]
  BY <1>2, <1>3
<1> QED BY <1>2, <1>4 DEF TipTotal

\* A mined tip adds its amount.
LEMMA TipReceipt ==
  ASSUME TypeOK, NEW h \in TxHash, NEW r \in Receipt, r.kind = "tip", Record(h, r)
  PROVE  TipTotal' = TipTotal + r.amount
<1> DEFINE v == [g \in TipReceipts' |-> receipt'[g].amount]
           w == [g \in TipReceipts |-> receipt[g].amount]
<1>1. /\ receipt[h] = NoReceipt /\ receipt'[h] = r
      /\ \A g \in TxHash \ {h} : receipt'[g] = receipt[g]
  BY DEF Record, TypeOK
<1>2. TipReceipts' = TipReceipts \cup {h} /\ h \notin TipReceipts
  <2>1. r # NoReceipt
    OBVIOUS
  <2>2. \A g \in TxHash : g \in TipReceipts' <=> g \in TipReceipts \/ g = h
    BY <1>1, <2>1 DEF TipReceipts
  <2>3. TipReceipts \subseteq TxHash /\ TipReceipts' \subseteq TxHash /\ h \notin TipReceipts
    BY <1>1 DEF TipReceipts
  <2> QED BY <2>2, <2>3
<1>3. \A g \in TipReceipts : receipt'[g] = receipt[g]
  BY <1>1 DEF TipReceipts
<1>4. IsFiniteSet(TipReceipts) /\ TipTotal \in Nat /\ r.amount \in Nat
  BY TipReceiptAmounts
<1>5. \A g \in TipReceipts : v[g] = w[g] /\ w[g] \in Nat
  BY <1>2, <1>3, TipReceiptAmounts
<1>6. v[h] = r.amount
  BY <1>1, <1>2
<1>7. TipTotal' = SumFunctionOnSet(v, TipReceipts') /\ TipTotal = SumFunctionOnSet(w, TipReceipts)
  BY DEF TipTotal
<1> HIDE DEF v, w
<1>8. SumFunctionOnSet(v, TipReceipts \cup {h}) = v[h] + SumFunctionOnSet(v, TipReceipts)
  BY <1>2, <1>4, <1>5, <1>6, SumAdd
<1>9. SumFunctionOnSet(v, TipReceipts) = SumFunctionOnSet(w, TipReceipts)
  BY <1>4, <1>5, SumSame
<1> QED BY <1>2, <1>4, <1>6, <1>7, <1>8, <1>9

\* Tips enter the escrow they are logged in; the Settled log pays all of it.
LEMMA StepCovers ==
  TypeOK /\ ClosedByLog /\ MoneyCovers /\ [LedgerNext]_ledgerVars => MoneyCovers'
<1> SUFFICES ASSUME TypeOK, ClosedByLog, MoneyCovers, [LedgerNext]_ledgerVars
             PROVE  MoneyCovers'
  OBVIOUS
<1>0. TipTotal \in Nat /\ escrow \in Nat /\ open \in BOOLEAN
      /\ receipt \in [TxHash -> Receipt \cup {NoReceipt}]
  BY TipReceiptAmounts DEF TypeOK
<1>1. ASSUME NEW h \in TxHash, NEW a \in Addr, NEW n \in Nation, NEW v \in Amount,
             LogTip(h, a, n, v)
      PROVE  MoneyCovers'
  <2> DEFINE r == [kind |-> "tip", from |-> a, nation |-> n, amount |-> v]
  <2>1. r \in Receipt /\ r.kind = "tip" /\ r.amount = v /\ v \in Nat
    OBVIOUS
  <2>2. Record(h, r) /\ open /\ open' = open /\ escrow' = escrow + v
    BY <1>1 DEF LogTip
  <2> HIDE DEF r
  <2>3. TipTotal' = TipTotal + v
    BY <2>1, <2>2, TipReceipt
  <2>4. \A g \in TxHash : ~(receipt'[g] # NoReceipt /\ receipt'[g].kind = "settled")
    BY <1>0, <2>1, <2>2 DEF Record, ClosedByLog
  <2>5. TipTotal' <= escrow'
    BY <1>0, <2>1, <2>2, <2>3 DEF MoneyCovers
  <2> QED BY <2>4, <2>5 DEF MoneyCovers
<1>2. ASSUME NEW h \in TxHash, NEW r \in Receipt, r.kind \in {"deposit", "other"},
             Record(h, r), UNCHANGED open, escrow' \in Nat, escrow' >= escrow
      PROVE  MoneyCovers'
  <2>1. TipTotal' = TipTotal
    BY <1>2, OtherReceipt
  <2>2. \A g \in TxHash : receipt'[g] # NoReceipt /\ receipt'[g].kind = "settled"
                            => receipt'[g] = receipt[g]
    BY <1>0, <1>2 DEF Record
  <2> QED BY <1>0, <1>2, <2>1, <2>2 DEF MoneyCovers
<1>3. ASSUME NEW h \in TxHash, NEW n \in Nation, LogSettled(h, n)
      PROVE  MoneyCovers'
  <2> DEFINE r == [kind |-> "settled", from |-> Host, nation |-> n, amount |-> escrow]
  <2>1. r \in Receipt /\ r.kind = "settled" /\ r.amount = escrow
    BY <1>0
  <2>2. Record(h, r) /\ open /\ open' = FALSE
    BY <1>3 DEF LogSettled
  <2> HIDE DEF r
  <2>3. TipTotal' = TipTotal
    BY <2>1, <2>2, OtherReceipt
  <2>4. \A g \in TxHash : receipt'[g] # NoReceipt /\ receipt'[g].kind = "settled" => g = h
    BY <1>0, <2>1, <2>2 DEF Record, ClosedByLog
  <2>5. receipt'[h] = r
    BY <1>0, <2>2 DEF Record
  <2> QED BY <1>0, <2>1, <2>2, <2>3, <2>4, <2>5 DEF MoneyCovers
<1>4. CASE UNCHANGED ledgerVars
  BY <1>4 DEF ledgerVars, MoneyCovers, TipTotal, TipReceipts
<1>5. ASSUME NEW h \in TxHash, NEW a \in Addr, NEW v \in Amount, LogDeposit(h, a, v)
      PROVE  MoneyCovers'
  <2> DEFINE r == [kind |-> "deposit", from |-> a, nation |-> NoNation, amount |-> v]
  <2>1. r \in Receipt /\ r.kind = "deposit" /\ v \in Nat
    OBVIOUS
  <2>2. Record(h, r) /\ open' = open /\ escrow' = escrow + v
    BY <1>5 DEF LogDeposit
  <2>3. escrow' \in Nat /\ escrow' >= escrow
    BY <1>0, <2>1, <2>2
  <2> HIDE DEF r
  <2> QED BY <1>2, <2>1, <2>2, <2>3
<1>6. ASSUME NEW h \in TxHash, NEW a \in Addr, LogOther(h, a)
      PROVE  MoneyCovers'
  BY <1>0, <1>2, <1>6 DEF LogOther
<1> QED BY <1>1, <1>3, <1>4, <1>5, <1>6 DEF LedgerNext

\* A board of proven tips, one per hash, adds up to no more than the Tip logs.
LEMMA BoardWithinReceipts ==
  ASSUME TypeOK, NEW d \in WatchParty, Sound(d), Fits(d)
  PROVE  Total(d.tips) <= TipTotal
<1> DEFINE v == [t \in d.tips |-> t.amount]
           f == [t \in d.tips |-> t.hash]
           w == [h \in TipReceipts |-> receipt[h].amount]
           H == {f[t] : t \in d.tips}
<1>1. IsFiniteSet(d.tips) /\ d.tips \subseteq TipRecord
  BY DEF Fits, WatchParty
<1>2. ASSUME NEW t \in d.tips
      PROVE  f[t] \in TipReceipts /\ v[t] = w[f[t]] /\ w[f[t]] \in Nat
  <2>1. t \in TipRecord /\ Verified(t)
    BY <1>1 DEF Sound
  <2>2. /\ t.hash \in TxHash /\ receipt[t.hash] # NoReceipt
        /\ receipt[t.hash].kind = "tip" /\ receipt[t.hash].amount = t.amount
    <3> DEFINE r == [kind |-> "tip", from |-> t.from, nation |-> t.nation,
                     amount |-> t.amount]
    <3>1. r \in Receipt /\ t.hash \in TxHash
      BY <2>1 DEF TipRecord
    <3>2. receipt[t.hash] = r
      BY <2>1 DEF Verified
    <3> QED BY <3>1, <3>2
  <2>3. t.hash \in TipReceipts
    BY <2>2 DEF TipReceipts
  <2> QED BY <2>1, <2>2, <2>3 DEF TipRecord
<1>3. \A s, t \in d.tips : f[s] = f[t] => s = t
  BY DEF Fits
<1>4. H \in SUBSET TipReceipts
  BY <1>2
<1>5. /\ IsFiniteSet(TipReceipts) /\ \A h \in TipReceipts : w[h] \in Nat
      /\ TipTotal = SumFunctionOnSet(w, TipReceipts)
  BY TipReceiptAmounts DEF TipTotal
<1>6. Total(d.tips) = SumFunctionOnSet(v, d.tips)
  BY DEF Total
<1>7. SumFunctionOnSet(v, d.tips) = SumFunctionOnSet(w, H)
  <2> HIDE DEF v, f, w
  <2> QED BY <1>1, <1>2, <1>3, SumRename
<1>8. SumFunctionOnSet(w, H) <= SumFunctionOnSet(w, TipReceipts)
  <2> HIDE DEF H, w
  <2> QED BY <1>4, <1>5, SumSubset
<1> QED BY <1>5, <1>6, <1>7, <1>8

\* The scoreboard never promises more than the money behind it: the escrow
\* while the match is open, the payout once it is settled (TipPool.sol 40-63).
THEOREM MoneyBehindTheBoard == Spec => []BoardCovered
<1>1. Init => FitInv /\ MoneyCovers
  <2>1. Init => TipReceipts = {} /\ \A h \in TxHash : receipt[h] = NoReceipt
    BY DEF Init, LedgerInit, TipReceipts
  <2>2. Init => TipTotal = 0
    BY <2>1, SumEmpty DEF TipTotal
  <2> QED BY <2>1, <2>2 DEF Init, LedgerInit, FitInv, MoneyCovers
<1>2. IInv /\ MoneyCovers /\ [Next]_vars => MoneyCovers'
  <2>1. [Next]_vars => [LedgerNext]_ledgerVars
    BY DEF Next, vars, ledgerVars
  <2> QED BY <2>1, StepCovers DEF IInv
<1>3. IInv /\ FitInv /\ MoneyCovers => BoardCovered
  <2> SUFFICES ASSUME IInv, FitInv, MoneyCovers, store # NoRoom PROVE BoardCovered
    BY DEF BoardCovered
  <2>1. TypeOK /\ store \in WatchParty /\ Sound(store) /\ Fits(store)
    BY DEF IInv, TypeOK, FitInv
  <2>2. Total(store.tips) <= TipTotal
    BY <2>1, BoardWithinReceipts
  <2>3. TipTotal \in Nat /\ Total(store.tips) \in Nat
    <3>1. IsFiniteSet(store.tips) /\ \A t \in store.tips : t.amount \in Nat
      BY <2>1 DEF Fits, WatchParty, TipRecord
    <3> QED BY <2>1, <3>1, TipReceiptAmounts, SumType DEF Total
  <2>4. escrow \in Nat
    BY <2>1 DEF TypeOK
  <2>5. \A h \in TxHash : receipt[h] # NoReceipt => receipt[h].amount \in Nat
    BY <2>1 DEF TypeOK
  <2> QED BY <2>2, <2>3, <2>4, <2>5 DEF BoardCovered, MoneyCovers
<1> QED BY <1>1, <1>2, <1>3, StepFits, Invariance, PTL DEF Spec

-----------------------------------------------------------------------------
(***************************************************************************)
(* With the in-memory store the party API implements PartyBoard: no        *)
(* accepted tip is lost and a lock is final.  The argument is that the     *)
(* document a request is about to save is still the stored document plus   *)
(* that request's own change, because nothing runs in between.             *)
(***************************************************************************)

\* One request at most is between its read and its write.
OneWriter ==
  \A q, r \in Req : pc[q] \in Saving /\ pc[r] \in Saving => q = r

\* What that request is about to save.
Current(r) ==
  /\ pc[r] = "tip.save" =>
       Appendable(store, body[r]) /\ doc[r] = Append(store, body[r])
  /\ pc[r] = "settle.save" =>
       /\ store # NoRoom
       /\ ~Settled(store)
       /\ body[r].nation \in Match
       /\ SettledLog(body[r].hash, body[r].nation)
       /\ \E v \in settledAmountUsdt(body[r].hash) :
            doc[r] = Lock(store, body[r].nation, v)
  /\ pc[r] = "create.save" => store = NoRoom /\ doc[r] = Fresh

AcceptedNow == accepted \subseteq (IF store = NoRoom THEN {} ELSE store.tips)

MInv ==
  /\ IInv
  /\ OneWriter
  /\ \A r \in Req : Current(r)
  /\ AcceptedNow

-----------------------------------------------------------------------------
\* A chain step changes nothing a writer relies on.
LEMMA LedgerKeepsCurrent ==
  MInv /\ LedgerNext /\ UNCHANGED serverVars => MInv'
<1> SUFFICES ASSUME MInv, LedgerNext, UNCHANGED serverVars PROVE MInv'
  OBVIOUS
<1>1. IInv'
  BY LedgerKeepsInv DEF MInv
<1>2. \A h \in TxHash : receipt[h] # NoReceipt => receipt'[h] = receipt[h]
  BY LedgerStep DEF MInv, IInv
<1>3. ASSUME NEW r \in Req PROVE Current(r)'
  <2>1. pc[r] = "settle.save" => body[r] \in SettleBody
    BY DEF MInv, IInv, Knows
  <2>2. ASSUME pc[r] = "settle.save"
        PROVE  /\ SettledLog(body[r].hash, body[r].nation)'
               /\ settledAmountUsdt(body[r].hash)' = settledAmountUsdt(body[r].hash)
    <3>1. body[r].hash \in TxHash /\ SettledLog(body[r].hash, body[r].nation)
      BY <2>1, <2>2 DEF MInv, Current, SettleBody
    <3>2. receipt'[body[r].hash] = receipt[body[r].hash] /\ body' = body
      BY <1>2, <3>1 DEF SettledLog, serverVars
    <3> QED BY <3>1, <3>2 DEF SettledLog, settledAmountUsdt
  <2> QED BY <2>2
          DEF MInv, Current, serverVars, Appendable, WithinCap, OnBoard, Settled
<1>4. OneWriter' /\ AcceptedNow'
  BY DEF MInv, OneWriter, AcceptedNow, serverVars
<1> QED BY <1>1, <1>3, <1>4 DEF MInv

\* When a request comes to its read, in memory, no other is about to write.
LEMMA ReadKeepsCurrent ==
  ASSUME Memory, MInv, UNCHANGED ledgerVars, NEW r \in Req,
         \/ PostTip(r) \/ VerifyTip(r) \/ ReadForTip(r)
         \/ PostSettle(r) \/ VerifySettle(r) \/ ReadForSettle(r) \/ ReadForCreate(r)
  PROVE  MInv' /\ UNCHANGED store
<1> USE DEF ledgerVars
<1>0. TypeOK /\ Knows(r) /\ UNCHANGED <<store, accepted>>
  BY DEF MInv, IInv, PostTip, VerifyTip, ReadForTip, PostSettle, VerifySettle,
         ReadForSettle, ReadForCreate
<1>1. IInv'
  BY ReadKeepsInv DEF MInv
<1>2. \A q \in Req \ {r} : pc[q] \notin Saving /\ pc'[q] = pc[q]
  BY <1>0 DEF TypeOK, PostTip, VerifyTip, ReadForTip, PostSettle, VerifySettle,
     ReadForSettle, ReadForCreate, Goto, MayRun
<1>3. OneWriter'
  BY <1>2 DEF OneWriter
<1>4. \A q \in Req \ {r} : Current(q)'
  BY <1>2 DEF Current, Saving
<1>5. AcceptedNow'
  BY <1>0 DEF MInv, AcceptedNow
<1>6. Current(r)'
  <2>1. CASE PostTip(r) \/ VerifyTip(r) \/ PostSettle(r) \/ VerifySettle(r)
    BY <1>0, <2>1 DEF PostTip, VerifyTip, PostSettle, VerifySettle, Goto, TypeOK, Current
  <2>2. CASE ReadForTip(r)
    <3>1. /\ pc'[r] = "tip.save" /\ Appendable(store, body[r])
          /\ doc'[r] = Append(store, body[r])
          /\ UNCHANGED <<store, body>>
      BY <1>0, <2>2 DEF ReadForTip, Goto, ToSave, TypeOK
    <3> QED BY <3>1 DEF Current, Appendable, WithinCap, OnBoard, Settled
  <2>3. CASE ReadForSettle(r)
    <3>1. /\ pc'[r] = "settle.save" /\ pc[r] = "settle.lock"
          /\ store # NoRoom /\ ~Settled(store) /\ body[r].nation \in Match
          /\ \E v \in settledAmountUsdt(body[r].hash) :
               doc'[r] = Lock(store, body[r].nation, v)
          /\ UNCHANGED <<store, body, receipt>>
      BY <1>0, <2>3 DEF ReadForSettle, Goto, ToSave, TypeOK
    <3>2. SettledLog(body[r].hash, body[r].nation)
      BY <1>0, <3>1 DEF Knows
    <3> QED BY <3>1, <3>2 DEF Current, Settled, SettledLog, settledAmountUsdt
  <2>4. CASE ReadForCreate(r)
    BY <1>0, <2>4 DEF ReadForCreate, Goto, ToSave, TypeOK, Current
  <2> QED BY <2>1, <2>2, <2>3, <2>4
<1> QED BY <1>0, <1>1, <1>3, <1>4, <1>5, <1>6 DEF MInv

\* A save is an atomic Accept, LockBoard or Publish; a refusal changes nothing.
LEMMA SaveIsAtomic ==
  ASSUME Memory, MInv, UNCHANGED ledgerVars, NEW r \in Req,
         SaveTip(r) \/ SaveRoom(r) \/ Refuse(r)
  PROVE  MInv' /\ (BoardStep \/ UNCHANGED store)
<1> USE DEF ledgerVars
<1>0. TypeOK /\ Knows(r) /\ Current(r) /\ AcceptedNow
  BY DEF MInv, IInv
<1>1. IInv'
  BY WriteKeepsInv DEF MInv
<1>2. pc' = [pc EXCEPT ![r] = "idle"]
  BY DEF SaveTip, SaveRoom, Refuse, Finish
<1>3. \A q \in Req \ {r} : pc[q] \notin Saving /\ pc'[q] = pc[q]
  BY <1>0, <1>2 DEF TypeOK, MayRun, SaveTip, SaveRoom, Refuse
<1>4. OneWriter' /\ \A q \in Req : Current(q)'
  BY <1>0, <1>2, <1>3 DEF OneWriter, Current, Saving, TypeOK
<1>5. AcceptedNow' /\ (BoardStep \/ UNCHANGED store)
  <2>1. CASE SaveTip(r)
    <3>1. /\ pc[r] = "tip.save" /\ store' = doc[r]
          /\ accepted' \subseteq accepted \cup {body[r]}
      BY <2>1 DEF SaveTip
    <3>2. /\ Appendable(store, body[r]) /\ doc[r] = Append(store, body[r])
          /\ body[r] \in TipRecord /\ body[r].nation \in Match /\ Verified(body[r])
      BY <1>0, <3>1 DEF Current, Knows
    <3>3. store \in WatchParty /\ store # NoRoom
      BY <1>0, <3>2 DEF TypeOK, Appendable
    <3>4. store'.tips = store.tips \cup {body[r]} /\ store' # NoRoom
      BY <3>1, <3>2, <3>3, <1>0 DEF Append, WatchParty, Knows, Saving
    <3>5. Accept(body[r])
      BY <3>1, <3>2 DEF Accept
    <3> QED BY <1>0, <3>1, <3>2, <3>3, <3>4, <3>5 DEF AcceptedNow, BoardStep
  <2>2. CASE SaveRoom(r) /\ pc[r] = "settle.save"
    <3>1. store' = doc[r] /\ accepted' = accepted
      BY <2>2 DEF SaveRoom
    <3>2. /\ store # NoRoom /\ ~Settled(store) /\ body[r].nation \in Match
          /\ SettledLog(body[r].hash, body[r].nation)
          /\ \E v \in settledAmountUsdt(body[r].hash) :
               doc[r] = Lock(store, body[r].nation, v)
          /\ body[r] \in SettleBody /\ doc[r] # NoRoom
      BY <1>0, <2>2 DEF Current, Knows, Saving
    <3>3. store'.tips = store.tips /\ store' # NoRoom
      BY <1>0, <3>1, <3>2 DEF Lock, WatchParty, TypeOK
    <3>4. LockBoard(body[r].hash, body[r].nation)
      BY <3>1, <3>2 DEF LockBoard
    <3>5. BoardStep
      BY <3>2, <3>4 DEF BoardStep, SettleBody
    <3> QED BY <1>0, <3>1, <3>2, <3>3, <3>5 DEF AcceptedNow
  <2>3. CASE SaveRoom(r) /\ pc[r] = "create.save"
    <3>1. store = NoRoom /\ store' = Fresh /\ accepted' = accepted
      BY <1>0, <2>3 DEF SaveRoom, Current
    <3>2. accepted' = {}
      BY <1>0, <3>1 DEF AcceptedNow
    <3> QED BY <3>1, <3>2 DEF AcceptedNow, BoardStep, Publish
  <2>4. CASE Refuse(r)
    BY <1>0, <2>4 DEF Refuse, AcceptedNow
  <2> QED BY <2>1, <2>2, <2>3, <2>4 DEF SaveRoom
<1> QED BY <1>1, <1>4, <1>5 DEF MInv

\* A cold start takes the room away and every request with it.
LEMMA ExpireIsAtomic ==
  ASSUME Memory, MInv, UNCHANGED ledgerVars, Expire
  PROVE  MInv' /\ BoardStep
<1>1. IInv'
  BY WriteKeepsInv DEF MInv
<1>2. OneWriter' /\ \A r \in Req : Current(r)'
  BY DEF Expire, OneWriter, Current, Saving
<1>3. AcceptedNow'
  BY DEF Expire, AcceptedNow
<1>4. BoardStep
  BY DEF Expire, BoardStep, Vanish
<1> QED BY <1>1, <1>2, <1>3, <1>4 DEF MInv

\* Every step keeps the invariant and is a step of the atomic board.
LEMMA StepIsAtomic ==
  ASSUME Memory
  PROVE  MInv /\ [Next]_vars => MInv' /\ [BoardNext]_boardVars
<1> SUFFICES ASSUME MInv, [Next]_vars PROVE MInv' /\ [BoardNext]_boardVars
  OBVIOUS
<1>1. CASE LedgerNext /\ UNCHANGED serverVars
  BY <1>1, LedgerKeepsCurrent DEF BoardNext, serverVars
<1>2. CASE ServerNext /\ UNCHANGED ledgerVars
  BY <1>2, ReadKeepsCurrent, SaveIsAtomic, ExpireIsAtomic
     DEF ServerNext, BoardNext, boardVars, ledgerVars
<1>3. CASE UNCHANGED vars
  <2>1. IInv'
    BY <1>3 DEF MInv, vars, IInv, TypeOK, ClosedByLog, Knows, Sound, Settled, Verified,
                SettledLog, settledAmountUsdt
  <2>2. OneWriter' /\ AcceptedNow' /\ \A r \in Req : Current(r)'
    BY <1>3 DEF MInv, vars, OneWriter, AcceptedNow, Current, Appendable, WithinCap,
                OnBoard, Settled, SettledLog, settledAmountUsdt
  <2> QED BY <1>3, <2>1, <2>2 DEF MInv, vars, boardVars
<1> QED BY <1>1, <1>2, <1>3 DEF Next

\* The writer's invariant holds in every reachable state of the in-memory API.
THEOREM MemoryInvariance == ASSUME Memory PROVE Spec => []MInv
<1>1. Init => MInv
  BY InitInv DEF Init, MInv, OneWriter, Current, AcceptedNow, Saving
<1> QED BY <1>1, StepIsAtomic, PTL DEF Spec

\* In memory, the API with all its interleavings is the atomic board.
THEOREM AtomicInMemory == ASSUME Memory PROVE Spec => ImplementsBoard
<1>1. Init => BoardInit
  BY DEF Init, BoardInit
<1> QED BY <1>1, StepIsAtomic, MemoryInvariance, PTL DEF Spec, ImplementsBoard, BoardSpec

\* In memory, a tip answered 200 stays on the board until the room expires.
THEOREM AcceptedForGood == ASSUME Memory PROVE Spec => []AcceptedStays
<1>1. MInv => AcceptedStays
  BY DEF MInv, AcceptedNow, AcceptedStays
<1> QED BY <1>1, MemoryInvariance, PTL

\* In memory, a locked board never changes again until the room expires.
THEOREM LockedForGood == ASSUME Memory PROVE Spec => LockIsFinal
<1> DEFINE Final == store # NoRoom /\ Settled(store) => store' \in {store, NoRoom}
<1>1. [BoardNext]_boardVars => [Final]_vars
  BY DEF BoardNext, BoardStep, Publish, Accept, Appendable, LockBoard, Vanish, boardVars
<1> QED BY <1>1, AtomicInMemory, PTL DEF ImplementsBoard, BoardSpec, LockIsFinal
=============================================================================
