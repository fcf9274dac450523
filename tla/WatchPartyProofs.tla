-------------------------- MODULE WatchPartyProofs --------------------------
(***************************************************************************)
(* Proofs about WatchParty: whatever is lost, reloaded, late or stale, for  *)
(* any number of pages no page shows a tip or a lock that the chain does    *)
(* not prove.                                                               *)
(***************************************************************************)
EXTENDS WatchParty, TLAPS

USE LedgerAssumption, PartyAssumption, PageAssumption DEF Match

\* A copy of the room, wherever it lies, shows only what the chain proves.
Sound(d) ==
  /\ \A t \in d.tips : Verified(t)
  /\ Settled(d) =>
       \E h \in TxHash :
         SettledLog(h, d.winner) /\ d.paid \in settledAmountUsdt(h)

\* What the page of a holds at each of its awaits.
Holds(a) ==
  /\ view[a] # NoRoom => Sound(view[a])
  /\ reply[a] # NoRoom => Sound(reply[a])
  /\ handler[a] = "tip.sign" => closure[a] \in Closure /\ Sound(closure[a].view)
  /\ handler[a] \in {"tip.mined", "tip.post", "tip.retry"} => job[a] \in TipRecord
  /\ handler[a] \in {"settle.mined", "settle.post"} => job[a] \in SettleCall

IInv ==
  /\ TypeOK
  /\ store # NoRoom => Sound(store)
  /\ \A a \in Addr : Holds(a)

-----------------------------------------------------------------------------
\* The initial state satisfies the invariant.
LEMMA InitInv == Init => IInv
BY DEF Init, BoardInit, LedgerInit, IInv, TypeOK, Awaiting, Holds

\* Mining keeps the ledger's types and never rewrites a receipt.
LEMMA MineStep ==
  ASSUME TypeOK, NEW c \in Broadcast, Mine(c)
  PROVE  /\ receipt' \in [TxHash -> Receipt \cup {NoReceipt}]
         /\ escrow' \in Nat
         /\ open' \in BOOLEAN
         /\ \A h \in TxHash : receipt[h] # NoReceipt => receipt'[h] = receipt[h]
<1> USE DEF TypeOK, Receipt
<1>1. c.hash \in TxHash /\ c.from \in Addr /\ c.nation \in Nation
  BY DEF Broadcast, TipRecord, SettleCall
<1>2. CASE c \in TipRecord /\ LogTip(c.hash, c.from, c.nation, c.amount)
  <2>1. c.amount \in Nat
    BY <1>2 DEF TipRecord
  <2> QED BY <1>1, <1>2, <2>1 DEF LogTip, Record
<1>3. CASE c \in SettleCall /\ LogSettled(c.hash, c.nation)
  <2>1. [kind |-> "settled", from |-> Host, nation |-> c.nation, amount |-> escrow] \in Receipt
    BY <1>1
  <2> QED BY <1>1, <1>3, <2>1 DEF LogSettled, Record
<1>4. CASE LogOther(c.hash, c.from)
  BY <1>1, <1>4 DEF LogOther, Record
<1> QED BY <1>2, <1>3, <1>4 DEF Mine

\* What the chain proves it proves for good, so a chain step keeps every copy
\* of the room sound.
LEMMA ChainKeepsInv == IInv /\ Chain => IInv'
<1> SUFFICES ASSUME IInv, NEW c \in Broadcast, Mine(c),
                    UNCHANGED <<store, pageVars, bounds>>
             PROVE  IInv'
  BY DEF Chain
<1> USE DEF pageVars, bounds
<1>1. TypeOK
  BY DEF IInv
<1>2. TypeOK'
  BY <1>1, MineStep DEF TypeOK
<1>3. \A h \in TxHash : receipt[h] # NoReceipt => receipt'[h] = receipt[h]
  BY <1>1, MineStep
<1>4. \A t \in TipRecord : Verified(t) => Verified(t)'
  <2> SUFFICES ASSUME NEW t \in TipRecord, Verified(t) PROVE Verified(t)'
    OBVIOUS
  <2>1. t.hash \in TxHash /\ t.from \in Addr /\ t.nation \in Nation /\ t.amount \in Nat
    BY DEF TipRecord
  <2>2. receipt[t.hash] \in Receipt
    BY <2>1 DEF Verified, Receipt
  <2> QED BY <1>3, <2>1, <2>2 DEF Verified, Receipt
<1>5. \A h \in TxHash, n \in Nation :
        SettledLog(h, n) => SettledLog(h, n)' /\ receipt'[h] = receipt[h]
  BY <1>3 DEF SettledLog
<1>6. \A d \in WatchParty : Sound(d) => Sound(d)'
  <2> SUFFICES ASSUME NEW d \in WatchParty, Sound(d) PROVE Sound(d)'
    OBVIOUS
  <2>1. (\A t \in d.tips : Verified(t))'
    BY <1>4 DEF Sound, WatchParty
  <2>2. ASSUME Settled(d)
        PROVE  \E h \in TxHash : SettledLog(h, d.winner)' /\ d.paid \in settledAmountUsdt(h)'
    <3>1. PICK h \in TxHash : SettledLog(h, d.winner) /\ d.paid \in settledAmountUsdt(h)
      BY <2>2 DEF Sound
    <3>2. d.winner \in Nation
      BY <2>2 DEF WatchParty, Settled
    <3>3. SettledLog(h, d.winner)' /\ receipt'[h] = receipt[h]
      BY <1>5, <3>1, <3>2
    <3> QED BY <3>1, <3>3 DEF settledAmountUsdt
  <2> QED BY <2>1, <2>2 DEF Sound, Settled
<1>7. store # NoRoom => Sound(store)'
  BY <1>1, <1>6 DEF IInv, TypeOK
<1>8. ASSUME NEW a \in Addr PROVE Holds(a)'
  BY <1>1, <1>6 DEF IInv, TypeOK, Holds, Closure
<1> QED BY <1>2, <1>7, <1>8 DEF IInv

-----------------------------------------------------------------------------
\* While the chain rests, soundness of a copy does not depend on the step.
LEMMA SameChain == UNCHANGED ledgerVars => \A d : Sound(d)' <=> Sound(d)
BY DEF ledgerVars, Sound, Settled, Verified, SettledLog, settledAmountUsdt

\* A step of a's page moves no other page.
OthersRest(a) ==
  \A b \in Addr \ {a} : /\ view'[b] = view[b] /\ reply'[b] = reply[b]
                        /\ handler'[b] = handler[b]
                        /\ closure'[b] = closure[b] /\ job'[b] = job[b]

\* Pages that do not move keep what they hold.
LEMMA OthersHold ==
  ASSUME IInv, UNCHANGED ledgerVars, NEW a \in Addr, OthersRest(a)
  PROVE  \A b \in Addr \ {a} : Holds(b)'
BY SameChain DEF IInv, Holds, OthersRest

\* applyParty replaces one page's copy and clears its optimistic tips.
LEMMA ApplyParty ==
  ASSUME TypeOK, NEW a \in Addr, NEW d \in WatchParty \cup {NoRoom}, applyParty(a, d)
  PROVE  /\ view' \in [Addr -> WatchParty \cup {NoRoom}] /\ view'[a] = d
         /\ optimistic' \in [Addr -> SUBSET TipRecord]
         /\ \A b \in Addr \ {a} : view'[b] = view[b]
BY DEF TypeOK, applyParty

\* A handler's end frees it and forgets what it worked on.
LEMMA HandlerEnds ==
  ASSUME TypeOK, NEW a \in Addr, Done(a)
  PROVE  /\ handler' \in [Addr -> Awaiting] /\ handler'[a] = "idle"
         /\ closure' \in [Addr -> Closure \cup {None}]
         /\ job' \in [Addr -> Broadcast \cup {None}]
         /\ \A b \in Addr \ {a} : /\ handler'[b] = handler[b]
                                  /\ closure'[b] = closure[b] /\ job'[b] = job[b]
BY DEF TypeOK, Done, Awaiting

\* A new room is sound: it shows nothing.
LEMMA FreshSound == Fresh \in WatchParty /\ Sound(Fresh)
BY DEF Fresh, WatchParty, Sound, Settled

\* What the board accepts or locks keeps it sound.
LEMMA BoardSound ==
  ASSUME IInv,
         \/ \E t \in TipRecord : Accept(t)
         \/ \E c \in SettleCall : LockBoard(c.hash, c.nation)
  PROVE  store' \in WatchParty /\ Sound(store')
<1> USE DEF IInv, TypeOK
<1>1. ASSUME NEW t \in TipRecord, Accept(t) PROVE store' \in WatchParty /\ Sound(store')
  <2>1. store \in WatchParty /\ Sound(store) /\ Verified(t) /\ store' = Append(store, t)
    BY <1>1 DEF Accept, Appendable
  <2> QED BY <2>1 DEF Append, Sound, WatchParty, Settled
<1>2. ASSUME NEW c \in SettleCall, LockBoard(c.hash, c.nation)
      PROVE  store' \in WatchParty /\ Sound(store')
  <2> DEFINE h == c.hash  n == c.nation
  <2>1. h \in TxHash /\ n \in Nation
    BY DEF SettleCall
  <2>2. store \in WatchParty /\ Sound(store) /\ SettledLog(h, n)
    BY <1>2 DEF LockBoard
  <2> PICK v \in settledAmountUsdt(h) : store' = Lock(store, n, v)
    BY <1>2 DEF LockBoard
  <2>3. receipt[h] \in Receipt
    BY <2>1, <2>2 DEF SettledLog
  <2>4. v \in Nat
    BY <2>3 DEF Receipt, settledAmountUsdt
  <2>5. store' \in WatchParty /\ store'.tips = store.tips /\ store'.winner = n /\ store'.paid = v
    BY <2>1, <2>2, <2>4 DEF Lock, WatchParty
  <2> QED BY <2>1, <2>2, <2>5 DEF Sound, settledAmountUsdt
<1> QED BY <1>1, <1>2

-----------------------------------------------------------------------------
\* Pages that read: entering the room, hydrating, polling.
LEMMA ReadKeepsInv ==
  ASSUME IInv, NEW a \in Addr, UNCHANGED bounds,
         \/ StartParty(a) \/ joinParty(a) \/ Hydrate(a)
         \/ apiGetParty(a) \/ Apply(a) \/ Lose(a)
  PROVE  IInv'
<1>0. TypeOK /\ Holds(a) /\ (store # NoRoom => store \in WatchParty /\ Sound(store))
  BY DEF IInv, TypeOK
<1>1. /\ UNCHANGED ledgerVars /\ UNCHANGED <<sent, closure, job>>
      /\ reply' = reply \/ reply' = [reply EXCEPT ![a] = store]
                        \/ reply' = [reply EXCEPT ![a] = NoRoom]
      /\ handler' = handler \/ handler' = [handler EXCEPT ![a] = "idle"]
  BY DEF StartParty, joinParty, Hydrate, Goto, apiGetParty, Apply, Lose
<1>2. /\ store' \in {store, Fresh}
      /\ \/ UNCHANGED <<view, optimistic>>
         \/ \E d \in {store, Fresh, NoRoom, reply[a]} : applyParty(a, d)
  BY DEF StartParty, joinParty, Hydrate, Publish, apiGetParty, Apply, Lose
<1>3. \A d \in {store, Fresh, NoRoom, reply[a]} :
        d \in WatchParty \cup {NoRoom} /\ (d # NoRoom => Sound(d))
  BY <1>0, FreshSound DEF Holds, TypeOK
<1> DEFINE ViewKept == /\ view' \in [Addr -> WatchParty \cup {NoRoom}]
                       /\ view'[a] # NoRoom => Sound(view'[a])
                       /\ optimistic' \in [Addr -> SUBSET TipRecord]
                       /\ \A b \in Addr \ {a} : view'[b] = view[b]
<1>4. ViewKept
  <2>1. CASE UNCHANGED <<view, optimistic>>
    BY <1>0, <2>1 DEF TypeOK, Holds
  <2>2. ASSUME NEW d \in {store, Fresh, NoRoom, reply[a]}, applyParty(a, d)
        PROVE  ViewKept
    BY <1>0, <1>3, <2>2, ApplyParty
  <2> QED BY <1>2, <2>1, <2>2
<1>5. /\ reply' \in [Addr -> WatchParty \cup {NoRoom}]
      /\ reply'[a] # NoRoom => Sound(reply'[a])
      /\ \A b \in Addr \ {a} : reply'[b] = reply[b]
  BY <1>0, <1>1 DEF TypeOK, Holds
<1>6. /\ handler' \in [Addr -> Awaiting] /\ handler'[a] \in {handler[a], "idle"}
      /\ \A b \in Addr \ {a} : handler'[b] = handler[b]
  BY <1>0, <1>1 DEF TypeOK, Awaiting
<1>7. store' \in WatchParty \cup {NoRoom} /\ (store' # NoRoom => Sound(store'))
  BY <1>0, <1>2, <1>3
<1>8. TypeOK'
  BY <1>0, <1>1, <1>4, <1>5, <1>6, <1>7 DEF TypeOK, ledgerVars, bounds
<1>9. Holds(a)'
  BY <1>0, <1>1, <1>4, <1>5, <1>6, SameChain DEF Holds
<1>10. \A b \in Addr \ {a} : Holds(b)'
  BY <1>1, <1>4, <1>5, <1>6, OthersHold DEF OthersRest
<1> QED BY <1>1, <1>7, <1>8, <1>9, <1>10, SameChain DEF IInv

\* tipNation and settleMatch up to the broadcast.
LEMMA ClickKeepsInv ==
  ASSUME IInv, NEW a \in Addr, UNCHANGED bounds,
         \/ \E n \in Nation, v \in Amount : tipNation(a, n, v)
         \/ \E n \in Nation : settleMatch(a, n)
         \/ SignTip(a)
  PROVE  IInv'
<1>0. TypeOK /\ Holds(a)
  BY DEF IInv
<1> DEFINE Goal == /\ UNCHANGED ledgerVars /\ UNCHANGED store
                   /\ TypeOK' /\ Holds(a)' /\ OthersRest(a)
<1> SUFFICES Goal
  BY OthersHold, SameChain DEF IInv
<1>1. ASSUME NEW n \in Nation, NEW v \in Amount, tipNation(a, n, v) PROVE Goal
  <2> DEFINE c == [nation |-> n, amount |-> v, view |-> view[a],
                   optimistic |-> optimistic[a]]
  <2>1. /\ UNCHANGED ledgerVars /\ UNCHANGED <<store, sent, view, optimistic, job, reply>>
        /\ handler' = [handler EXCEPT ![a] = "tip.sign"]
        /\ closure' = [closure EXCEPT ![a] = c]
        /\ view[a] # NoRoom
    BY <1>1 DEF tipNation, Goto
  <2>2. c \in Closure /\ c.view = view[a] /\ Sound(view[a])
    BY <1>0, <2>1 DEF TypeOK, Closure, Holds
  <2> HIDE DEF c
  <2>3. /\ closure' \in [Addr -> Closure \cup {None}] /\ closure'[a] = c
        /\ handler' \in [Addr -> Awaiting] /\ handler'[a] = "tip.sign"
    BY <1>0, <2>1, <2>2 DEF TypeOK, Awaiting
  <2>4. TypeOK'
    BY <1>0, <2>1, <2>3 DEF TypeOK, ledgerVars, bounds
  <2>5. Holds(a)'
    BY <1>0, <2>1, <2>2, <2>3, SameChain DEF Holds
  <2> QED BY <1>0, <2>1, <2>4, <2>5 DEF TypeOK, OthersRest
<1>2. ASSUME NEW n \in Nation, settleMatch(a, n) PROVE Goal
  <2>1. PICK h \in TxHash :
          /\ sent' = sent \cup {[hash |-> h, from |-> a, nation |-> n]}
          /\ job' = [job EXCEPT ![a] = [hash |-> h, from |-> a, nation |-> n]]
    BY <1>2 DEF settleMatch
  <2> DEFINE c == [hash |-> h, from |-> a, nation |-> n]
  <2>2. /\ UNCHANGED ledgerVars /\ UNCHANGED <<store, view, optimistic, closure, reply>>
        /\ handler' = [handler EXCEPT ![a] = "settle.mined"]
    BY <1>2 DEF settleMatch, Goto
  <2>3. c \in SettleCall /\ c \in Broadcast
    BY DEF SettleCall, Broadcast
  <2> HIDE DEF c
  <2>4. /\ sent' \subseteq Broadcast
        /\ job' \in [Addr -> Broadcast \cup {None}] /\ job'[a] = c
        /\ handler' \in [Addr -> Awaiting] /\ handler'[a] = "settle.mined"
    BY <1>0, <2>1, <2>2, <2>3 DEF TypeOK, Awaiting, c
  <2>5. TypeOK'
    BY <1>0, <2>2, <2>4 DEF TypeOK, ledgerVars, bounds
  <2>6. Holds(a)'
    BY <1>0, <2>2, <2>3, <2>4, SameChain DEF Holds
  <2> QED BY <1>0, <2>1, <2>2, <2>5, <2>6 DEF TypeOK, OthersRest
<1>3. CASE SignTip(a)
  <2> DEFINE seen == closure[a]
             tip(h) == [hash |-> h, from |-> a, nation |-> seen.nation, amount |-> seen.amount]
  <2>1. PICK h \in TxHash :
          /\ sent' = sent \cup {tip(h)}
          /\ job' = [job EXCEPT ![a] = tip(h)]
          /\ view' = [view EXCEPT ![a] = seen.view]
          /\ optimistic' = [optimistic EXCEPT ![a] = seen.optimistic \cup {tip(h)}]
    BY <1>3 DEF SignTip
  <2> DEFINE t == tip(h)
  <2>2. /\ UNCHANGED ledgerVars /\ UNCHANGED <<store, reply>>
        /\ handler[a] = "tip.sign"
        /\ handler' = [handler EXCEPT ![a] = "tip.mined"]
        /\ closure' = [closure EXCEPT ![a] = None]
    BY <1>3 DEF SignTip, Goto
  <2>3. seen \in Closure /\ Sound(seen.view)
    BY <1>0, <2>2 DEF Holds
  <2>4. seen.view \in WatchParty /\ seen.optimistic \subseteq TipRecord
        /\ t \in TipRecord /\ t \in Broadcast
    BY <2>3 DEF Closure, TipRecord, Broadcast
  <2> HIDE DEF tip, seen
  <2>5. /\ sent' \subseteq Broadcast
        /\ job' \in [Addr -> Broadcast \cup {None}] /\ job'[a] = t
        /\ view' \in [Addr -> WatchParty \cup {NoRoom}] /\ view'[a] = seen.view
        /\ optimistic' \in [Addr -> SUBSET TipRecord]
        /\ closure' \in [Addr -> Closure \cup {None}]
        /\ handler' \in [Addr -> Awaiting] /\ handler'[a] = "tip.mined"
    BY <1>0, <2>1, <2>2, <2>4 DEF TypeOK, Awaiting
  <2>6. TypeOK'
    BY <1>0, <2>2, <2>5 DEF TypeOK, ledgerVars, bounds
  <2>7. Holds(a)'
    BY <1>0, <2>2, <2>3, <2>4, <2>5, SameChain DEF Holds
  <2> QED BY <1>0, <2>1, <2>2, <2>6, <2>7 DEF TypeOK, OthersRest
<1> QED BY <1>1, <1>2, <1>3

\* The handlers' later steps: waiting, posting, failing.
LEMMA PostKeepsInv ==
  ASSUME IInv, NEW a \in Addr, UNCHANGED bounds,
         \/ TipMined(a) \/ SettleMined(a)
         \/ apiAppendTip(a) \/ TipRefused(a) \/ apiSettleParty(a) \/ GiveUp(a)
  PROVE  IInv'
<1>0. TypeOK /\ Holds(a) /\ (store # NoRoom => store \in WatchParty /\ Sound(store))
  BY DEF IInv, TypeOK
<1>1. UNCHANGED ledgerVars /\ UNCHANGED <<sent, reply>>
  BY DEF TipMined, SettleMined, apiAppendTip, TipRefused, apiSettleParty, GiveUp
\* The handler moves on, keeping its call, or ends.
<1> DEFINE MovesOn ==
      /\ UNCHANGED <<closure, job>>
      /\ \/ /\ handler[a] \in {"tip.mined", "tip.post"}
            /\ handler' \in {[handler EXCEPT ![a] = "tip.post"],
                             [handler EXCEPT ![a] = "tip.retry"]}
         \/ /\ handler[a] = "settle.mined"
            /\ handler' = [handler EXCEPT ![a] = "settle.post"]
<1>2. MovesOn \/ Done(a)
  BY DEF TipMined, SettleMined, apiAppendTip, TipRefused, AfterFailure,
         apiSettleParty, GiveUp, Goto
<1>3. store' \in WatchParty \cup {NoRoom} /\ (store' # NoRoom => Sound(store'))
  <2>1. CASE apiAppendTip(a)
    <3>1. job[a] \in TipRecord /\ Accept(job[a])
      BY <1>0, <2>1 DEF apiAppendTip, Holds
    <3> QED BY <3>1, BoardSound
  <2>2. CASE apiSettleParty(a)
    <3>1. job[a] \in SettleCall /\ (LockBoard(job[a].hash, job[a].nation) \/ UNCHANGED store)
      BY <1>0, <2>2 DEF apiSettleParty, Holds
    <3> QED BY <1>0, <3>1, BoardSound
  <2>3. CASE TipMined(a) \/ SettleMined(a) \/ TipRefused(a) \/ GiveUp(a)
    BY <1>0, <2>3 DEF TipMined, SettleMined, TipRefused, GiveUp
  <2> QED BY <2>1, <2>2, <2>3
<1>4. UNCHANGED <<view, optimistic>> \/ applyParty(a, store')
  BY DEF TipMined, SettleMined, apiAppendTip, TipRefused, apiSettleParty, GiveUp
<1> DEFINE ViewKept == /\ view' \in [Addr -> WatchParty \cup {NoRoom}]
                       /\ view'[a] # NoRoom => Sound(view'[a])
                       /\ optimistic' \in [Addr -> SUBSET TipRecord]
                       /\ \A b \in Addr \ {a} : view'[b] = view[b]
<1>5. ViewKept
  <2>1. CASE UNCHANGED <<view, optimistic>>
    BY <1>0, <2>1 DEF TypeOK, Holds
  <2>2. CASE applyParty(a, store')
    <3>1. PICK d \in WatchParty \cup {NoRoom} : d = store'
      BY <1>3
    <3>2. applyParty(a, d)
      BY <2>2, <3>1
    <3> QED BY <1>0, <1>3, <3>1, <3>2, ApplyParty
  <2> QED BY <1>4, <2>1, <2>2
<1> DEFINE HandlerKept ==
      /\ handler' \in [Addr -> Awaiting]
      /\ closure' \in [Addr -> Closure \cup {None}]
      /\ job' \in [Addr -> Broadcast \cup {None}]
      /\ handler'[a] # "tip.sign"
      /\ handler'[a] \in {"tip.mined", "tip.post", "tip.retry"} => job'[a] \in TipRecord
      /\ handler'[a] \in {"settle.mined", "settle.post"} => job'[a] \in SettleCall
      /\ \A b \in Addr \ {a} : /\ handler'[b] = handler[b]
                               /\ closure'[b] = closure[b] /\ job'[b] = job[b]
<1>6. HandlerKept
  <2>1. CASE Done(a)
    BY <1>0, <2>1, HandlerEnds
  <2>2. CASE MovesOn
    BY <1>0, <2>2 DEF TypeOK, Awaiting, Holds
  <2> QED BY <1>2, <2>1, <2>2
<1>7. TypeOK'
  BY <1>0, <1>1, <1>3, <1>5, <1>6 DEF TypeOK, ledgerVars, bounds
<1>8. Holds(a)'
  BY <1>0, <1>1, <1>5, <1>6, SameChain DEF Holds
<1>9. \A b \in Addr \ {a} : Holds(b)'
  <2>1. OthersRest(a)
    BY <1>1, <1>5, <1>6 DEF OthersRest
  <2> QED BY <1>1, <2>1, OthersHold
<1> QED BY <1>1, <1>3, <1>7, <1>8, <1>9, SameChain DEF IInv

\* A reload keeps the cached copy only; expiry takes the room away.
LEMMA LossKeepsInv ==
  ASSUME IInv, (\E a \in Addr : Reload(a)) \/ Expire
  PROVE  IInv'
<1>0. TypeOK
  BY DEF IInv
<1>1. ASSUME NEW a \in Addr, Reload(a) PROVE IInv'
  <2>1. /\ UNCHANGED ledgerVars /\ UNCHANGED <<store, sent, view, optimistic, expiries>>
        /\ handler' = [handler EXCEPT ![a] = "load"]
        /\ closure' = [closure EXCEPT ![a] = None]
        /\ job' = [job EXCEPT ![a] = None]
        /\ reply' = [reply EXCEPT ![a] = NoRoom]
        /\ reloads < MaxReload /\ reloads' = reloads + 1
    BY <1>1 DEF Reload
  <2>2. /\ handler' \in [Addr -> Awaiting] /\ handler'[a] = "load"
        /\ closure' \in [Addr -> Closure \cup {None}]
        /\ job' \in [Addr -> Broadcast \cup {None}]
        /\ reply' \in [Addr -> WatchParty \cup {NoRoom}] /\ reply'[a] = NoRoom
        /\ OthersRest(a)
    BY <1>0, <2>1 DEF TypeOK, Awaiting, OthersRest
  <2>3. TypeOK'
    BY <1>0, <2>1, <2>2 DEF TypeOK, ledgerVars
  <2>4. Holds(a)'
    BY <2>1, <2>2, SameChain DEF IInv, Holds
  <2> QED BY <2>1, <2>2, <2>3, <2>4, OthersHold, SameChain DEF IInv
<1>2. ASSUME Expire PROVE IInv'
  <2>1. /\ UNCHANGED ledgerVars /\ UNCHANGED <<pageVars, reloads>> /\ store' = NoRoom
        /\ expiries < MaxExpiry /\ expiries' = expiries + 1
    BY <1>2 DEF Expire, Vanish
  <2>2. TypeOK'
    BY <1>0, <2>1 DEF TypeOK, ledgerVars, pageVars
  <2> QED BY <2>1, <2>2, SameChain DEF IInv, Holds, pageVars
<1> QED BY <1>1, <1>2

-----------------------------------------------------------------------------
\* The invariant holds in every reachable state.
THEOREM Invariance == Spec => []IInv
<1>1. Init => IInv
  BY InitInv
<1>2. IInv /\ [Next]_vars => IInv'
  <2> SUFFICES ASSUME IInv, [Next]_vars PROVE IInv'
    OBVIOUS
  <2>1. CASE Chain
    BY <2>1, ChainKeepsInv
  <2>2. ASSUME NEW a \in Addr, Page(a), UNCHANGED bounds PROVE IInv'
    BY <2>2, ReadKeepsInv, ClickKeepsInv, PostKeepsInv DEF Page, Proceed
  <2>3. CASE (\E a \in Addr : Reload(a)) \/ Expire
    BY <2>3, LossKeepsInv
  <2>4. CASE UNCHANGED vars
    <3>1. UNCHANGED ledgerVars /\ UNCHANGED <<store, pageVars, bounds>>
      BY <2>4 DEF vars, ledgerVars, pageVars, bounds
    <3>2. TypeOK'
      BY <3>1 DEF IInv, TypeOK, ledgerVars, pageVars, bounds
    <3> QED BY <3>1, <3>2, SameChain DEF IInv, Holds, pageVars
  <2> QED BY <2>1, <2>2, <2>3, <2>4 DEF Next
<1> QED BY <1>1, <1>2, PTL DEF Spec

\* The chain, the board and every page keep their types.
THEOREM TypeCorrect == Spec => []TypeOK
BY Invariance, PTL DEF IInv

\* No page ever counts a tip that Sepolia does not prove (party-types.ts 49-57
\* skips optimistic entries; everything else a page holds came from the board).
THEOREM ScoreAlwaysTrue == Spec => []ScoreIsTrue
<1>1. IInv => ScoreIsTrue
  BY DEF IInv, Holds, Sound, ScoreIsTrue
<1> QED BY <1>1, Invariance, PTL

\* No page ever shows a match as settled before the contract is, with another
\* winner, or with an amount that is not the payout's to the nearest cent.
THEOREM LockAlwaysTrue == Spec => []LockShownIsTrue
<1>1. IInv => LockShownIsTrue
  BY DEF IInv, Holds, Sound, LockShownIsTrue
<1> QED BY <1>1, Invariance, PTL

-----------------------------------------------------------------------------
\* Whatever the pages do between their awaits, the board and the chain change
\* only by PartyBoard's steps: a page publishes an empty room, posts the tip it
\* broadcast or the lock it waited for, and touches nothing else.
THEOREM PagesKeepTheBoard == Spec => BoardSpec
<1>1. Init => BoardInit
  BY DEF Init
<1>2. IInv /\ [Next]_vars => [BoardNext]_boardVars
  <2> SUFFICES ASSUME IInv, [Next]_vars PROVE [BoardNext]_boardVars
    OBVIOUS
  <2>1. CASE Chain
    <3>1. PICK c \in Broadcast : Mine(c) /\ UNCHANGED store
      BY <2>1 DEF Chain
    <3>2. c.hash \in TxHash /\ c.from \in Addr /\ c.nation \in Nation
      BY DEF Broadcast, TipRecord, SettleCall
    <3>3. c \in TipRecord => c.amount \in Amount
      BY DEF TipRecord
    <3>4. LedgerNext
      BY <3>1, <3>2, <3>3 DEF Mine, LedgerNext
    <3> QED BY <3>1, <3>4 DEF BoardNext
  <2>2. ASSUME NEW a \in Addr, Page(a) PROVE [BoardNext]_boardVars
    <3>1. CASE StartParty(a) \/ Hydrate(a)
      <4>1. UNCHANGED ledgerVars /\ (Publish \/ UNCHANGED store)
        BY <3>1 DEF StartParty, Hydrate
      <4> QED BY <4>1 DEF BoardNext, BoardStep, boardVars, ledgerVars
    <3>2. CASE apiAppendTip(a)
      <4>1. job[a] \in TipRecord
        BY <3>2 DEF apiAppendTip, IInv, Holds
      <4>2. UNCHANGED ledgerVars /\ Accept(job[a])
        BY <3>2 DEF apiAppendTip
      <4> QED BY <4>1, <4>2 DEF BoardNext, BoardStep
    <3>3. CASE apiSettleParty(a)
      <4>1. job[a].hash \in TxHash /\ job[a].nation \in Nation
        BY <3>3 DEF apiSettleParty, IInv, Holds, SettleCall
      <4>2. /\ UNCHANGED ledgerVars
            /\ LockBoard(job[a].hash, job[a].nation) \/ UNCHANGED store
        BY <3>3 DEF apiSettleParty
      <4> QED BY <4>1, <4>2 DEF BoardNext, BoardStep, boardVars, ledgerVars
    <3>4. \/ StartParty(a) \/ Hydrate(a) \/ apiAppendTip(a) \/ apiSettleParty(a)
          \/ UNCHANGED <<ledgerVars, store>>
      BY <2>2 DEF Page, Proceed, joinParty, apiGetParty, Apply, Lose, tipNation,
                  settleMatch, SignTip, TipMined, TipRefused, SettleMined, GiveUp
    <3> QED BY <3>1, <3>2, <3>3, <3>4 DEF boardVars, ledgerVars
  <2>3. ASSUME NEW a \in Addr, Reload(a) PROVE [BoardNext]_boardVars
    BY <2>3 DEF Reload, boardVars, ledgerVars
  <2>4. CASE Expire
    BY <2>4 DEF Expire, BoardNext, BoardStep
  <2>5. CASE UNCHANGED vars
    BY <2>5 DEF vars, boardVars
  <2> QED BY <2>1, <2>2, <2>3, <2>4, <2>5 DEF Next
<1> QED BY <1>1, <1>2, Invariance, PTL DEF Spec, BoardSpec
=============================================================================
