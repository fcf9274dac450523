------------------------------- MODULE Party -------------------------------
(***************************************************************************)
(* The shared watch-party document (apps/web/src/lib/party-types.ts) and    *)
(* the checks the party API makes on it.  One escrow room: its settings     *)
(* (nations, pool, host, cap) are constants, its content is the tips and    *)
(* the outcome.  Tip order (newest first) and timestamps are left out.      *)
(***************************************************************************)
EXTENDS EscrowLedger, Functions

CONSTANTS
  nationA, nationB,  \* the two nations of the match
  Cap,               \* capPerWallet in base units, 0 when the host set none
  Cent,              \* base units in one cent of USDt
  NoRoom             \* no document under the room's key

Match == {nationA, nationB}

\* TipRecord.  hash, from and nation are compared case-insensitively by the
\* code; here they are already normalised.
TipRecord == [hash : TxHash, from : Addr, nation : Nation, amount : Amount]

\* WatchParty.  settledAt, winnerNationId and settledAmountUsdt are written
\* together: a room is settled when it has a winner.  paid is the text of
\* settledAmountUsdt as a number of base units, so a whole number of cents.
WatchParty == [tips : SUBSET TipRecord, winner : Nation \cup {NoNation}, paid : Nat]

ASSUME PartyAssumption ==
  /\ Match \subseteq Nation
  /\ Cap \in Nat
  /\ Cent \in Nat \ {0}
  /\ NoRoom \notin WatchParty

Fresh == [tips |-> {}, winner |-> NoNation, paid |-> 0]

Settled(party) == party.winner # NoNation

Total(tips) == SumFunctionOnSet([t \in tips |-> t.amount], tips)

walletTotal(party, a) == Total({t \in party.tips : t.from = a})

OnBoard(party, h) == \E t \in party.tips : t.hash = h

\* Mutant: the cap check forgets the tip at hand.
WithinCapBefore(party, t) == Cap = 0 \/ walletTotal(party, t.from) <= Cap

\* appendSharedTip's cap check: already + amount > cap is refused.
WithinCap(party, t) == Cap = 0 \/ walletTotal(party, t.from) + t.amount <= Cap

\* Mutant: the amount is stored in another unit than it was verified in.
AppendScaled(party, t) ==
  [party EXCEPT !.tips = @ \cup {[t EXCEPT !.amount = 2 * @]}]

Append(party, t) == [party EXCEPT !.tips = @ \cup {t}]

Lock(party, n, v) == [party EXCEPT !.winner = n, !.paid = v]

\* Mutant: the second look at the room forgets that it may have been settled.
AppendableAfterLock(party, t) ==
  /\ party # NoRoom
  /\ ~OnBoard(party, t.hash)
  /\ WithinCap(party, t)

\* What appendSharedTip requires of the document it read.
Appendable(party, t) ==
  /\ party # NoRoom
  /\ ~Settled(party)
  /\ ~OnBoard(party, t.hash)
  /\ WithinCap(party, t)

\* verifyTipTransaction: a successful receipt with a Transfer and a Tip log of
\* exactly this sender, nation and amount.
Verified(t) ==
  receipt[t.hash] = [kind |-> "tip", from |-> t.from,
                     nation |-> t.nation, amount |-> t.amount]

\* verifySettleTransaction: a Settled log of the host naming this winner.
SettledLog(h, n) ==
  /\ receipt[h] # NoReceipt
  /\ receipt[h].kind = "settled"
  /\ receipt[h].from = Host
  /\ receipt[h].nation = n

\* What it answers: (Number(amountBase) / 1e6).toFixed(2), a nearest whole
\* number of cents.  Half a cent goes up or down, as the float decides.
settledAmountUsdt(h) ==
  LET amountBase == receipt[h].amount
  IN  {v \in 0 .. amountBase + Cent :
         /\ v % Cent = 0
         /\ 2 * v <= 2 * amountBase + Cent
         /\ 2 * amountBase <= 2 * v + Cent}
=============================================================================
