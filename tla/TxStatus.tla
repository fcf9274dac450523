------------------------------ MODULE TxStatus ------------------------------
(***************************************************************************)
(* The activity list and its status poll (wallet-provider.tsx): one effect *)
(* watches the pending transactions, asks the RPC adapter about each of    *)
(* them every five seconds, and starts again whenever the list changes.    *)
(***************************************************************************)
EXTENDS Naturals, FiniteSets

CONSTANTS
  Txs,        \* transactions a session broadcasts
  Pollable,   \* those on EVM and Solana chains
  MaxRounds,  \* the poll's cap on rounds: 60 in the code
  MaxFaults   \* bound: failing RPC calls

StatusAssumption == Pollable \subseteq Txs /\ MaxRounds \in Nat /\ MaxFaults \in Nat

VARIABLES
  unlocked,  \* phase = 'unlocked'
  status,    \* the listed status of each transaction, "none" when not listed
  mined,     \* what the chain made of it
  old,       \* transactions sent more than ten minutes ago
  watched,   \* the pending transactions of the effect that runs
  toAsk,     \* how many of its rounds have each transaction still to ask
  answers,   \* answers on their way to the effect that runs
  rounds,    \* its rounds
  faults     \* failing RPC calls so far

vars == <<unlocked, status, mined, old, watched, toAsk, answers, rounds, faults>>
Final == {"success", "failed"}

Init == /\ unlocked = TRUE
        /\ status = [t \in Txs |-> "none"] /\ mined = [t \in Txs |-> "pending"]
        /\ old = {} /\ watched = {} /\ toAsk = [t \in Txs |-> 0]
        /\ answers = {} /\ rounds = 0 /\ faults = 0

Once(w) == [t \in Txs |-> IF t \in w THEN 1 ELSE 0]

\* The effect: answers to the one it replaces are dropped, the interval starts
\* again, and the first round is asked at once.
Watch ==
  /\ watched' = {t \in Pollable \ old : unlocked' /\ status'[t] = "pending"}
  /\ toAsk' = Once(watched') /\ answers' = {} /\ rounds' = 0

Broadcast(t) == /\ unlocked /\ status[t] = "none" /\ mined[t] = "pending" /\ t \notin old
                /\ status' = [status EXCEPT ![t] = "pending"]
                /\ UNCHANGED <<unlocked, mined, old, faults>>
                /\ Watch

\* rpc_getTransactionStatus: an RPC error reads as 'pending'.
Status(t, failing) == IF failing THEN "pending" ELSE mined[t]
Ask(t, failing) ==
  /\ toAsk[t] > 0
  /\ failing => faults < MaxFaults
  /\ toAsk' = [toAsk EXCEPT ![t] = @ - 1]
  /\ answers' = answers \cup {[tx |-> t, status |-> Status(t, failing)]}
  /\ faults' = IF failing THEN faults + 1 ELSE faults
  /\ UNCHANGED <<unlocked, status, mined, old, watched, rounds>>

\* A settled status is written to the list, which starts the effect again.
\* Mutant: the status is written to every listed transaction.
AnsweredAll(m) ==
  /\ m \in answers
  /\ IF m.status \in Final
     THEN /\ status' = [t \in Txs |-> IF status[t] = "none" THEN "none" ELSE m.status]
          /\ UNCHANGED unlocked /\ Watch
     ELSE answers' = answers \ {m} /\ UNCHANGED <<unlocked, status, watched, toAsk, rounds>>
  /\ UNCHANGED <<mined, old, faults>>
Answered(m) ==
  /\ m \in answers
  /\ IF m.status \in Final
     THEN /\ status' = [status EXCEPT ![m.tx] = m.status]
          /\ UNCHANGED unlocked /\ Watch
     ELSE answers' = answers \ {m} /\ UNCHANGED <<unlocked, status, watched, toAsk, rounds>>
  /\ UNCHANGED <<mined, old, faults>>

\* The interval: every watched transaction is asked about again, also when
\* the answers of the last round are still on their way.
Tick == /\ watched # {} /\ rounds < MaxRounds
        /\ rounds' = rounds + 1 /\ toAsk' = [t \in Txs |-> toAsk[t] + Once(watched)[t]]
        /\ UNCHANGED <<unlocked, status, mined, old, watched, answers, faults>>

Lock == /\ unlocked /\ unlocked' = FALSE
        /\ UNCHANGED <<status, mined, old, faults>> /\ Watch
Unlock == /\ ~unlocked /\ unlocked' = TRUE
          /\ UNCHANGED <<status, mined, old, faults>> /\ Watch
Reset == /\ ~unlocked
         /\ status' = [t \in Txs |-> "none"]
         /\ UNCHANGED <<unlocked, mined, old, faults>> /\ Watch

\* The chain, and time.
Mine(t, s) == /\ status[t] # "none" /\ mined[t] = "pending"
              /\ mined' = [mined EXCEPT ![t] = s]
              /\ UNCHANGED <<unlocked, status, old, watched, toAsk, answers, rounds, faults>>
Age(t) == /\ status[t] # "none" /\ old' = old \cup {t}
          /\ UNCHANGED <<unlocked, status, mined, watched, toAsk, answers, rounds, faults>>

Next == \/ Tick \/ Lock \/ Unlock \/ Reset
        \/ \E t \in Txs : \/ Broadcast(t) \/ Age(t)
                          \/ \E s \in Final : Mine(t, s)
                          \/ \E failing \in BOOLEAN : Ask(t, failing)
        \/ \E m \in answers : Answered(m)

\* The browser fires the interval and the RPC answers, well enough in the end.
Fairness == /\ WF_vars(Tick)
            /\ \A t \in Txs : WF_vars(Ask(t, FALSE))
            /\ WF_vars(\E m \in answers : Answered(m))
Spec == Init /\ [][Next]_vars
FairSpec == Spec /\ Fairness

-----------------------------------------------------------------------------
TypeOK ==
  /\ unlocked \in BOOLEAN /\ rounds \in 0..MaxRounds /\ faults \in 0..MaxFaults
  /\ status \in [Txs -> {"none", "pending"} \cup Final]
  /\ mined \in [Txs -> {"pending"} \cup Final]
  /\ old \subseteq Txs /\ watched \subseteq Pollable
  /\ toAsk \in [Txs -> 0..MaxRounds + 1] /\ \A t \in Txs \ watched : toAsk[t] = 0
  /\ answers \subseteq [tx: watched, status: {"pending"} \cup Final]

\* A settled status on screen is what the chain made of that transaction,
\* however rounds overlap and answers of replaced effects straggle in.
StatusIsTrue == \A t \in Txs : status[t] \in Final => status[t] = mined[t]

\* A transaction that settles while it is watched gets its status on screen,
\* unless the wallet is locked or the transaction is too old to be polled:
\* new transactions and settled ones restart the poll but never lose it, and a
\* failing RPC call costs one round.
StatusArrives == \A t \in Pollable :
  (/\ mined[t] \in Final /\ t \in watched
   /\ rounds + (MaxFaults - faults) < MaxRounds) ~> (status[t] # "pending" \/ t \in old \/ ~unlocked)
=============================================================================
