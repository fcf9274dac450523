------------------------------ MODULE Services ------------------------------
(***************************************************************************)
(* The services around the wallet.  They share no state, so a behaviour is *)
(* one of a single part, chosen at the start; the variables of the others  *)
(* keep their initial values.                                              *)
(***************************************************************************)
EXTENDS PearsGossip
CONSTANTS
  Txs, Pollable, MaxRounds, StatusFaults,                                \* TxStatus
  Subs, Filters, MaxReconnects, MaxConns, MaxEvents,                     \* Subscription
  MaxQuestions, CoachFaults,                                             \* Coach
  Reads, Op, Burst, Period, Attempts, Base, Cap, Slip, MaxSlips, MaxErrors, \* RpcReads
  Limit, FromBlock, Older, MaxTx, MaxRead, HistoryFaults                 \* History

VARIABLES
  part,
  unlocked, status, txMined, old, watched, toAsk, answers, rounds, txFaults,
  current, used, conn, wire, sid, client, loop, past, dropped,
  up, qvac, modelId, loaded, loads, stage, asked, mine, mount, busy, online, answer, error, coachFaults,
  phase, attempt, backoff, result, queue, sleep, level, elapsed, ages, slips, errors,
  mined, cursor, list, since, done, historyFaults

Tx == INSTANCE TxStatus WITH MaxFaults <- StatusFaults, mined <- txMined, faults <- txFaults
Notices == INSTANCE Subscription WITH faults <- dropped
\* The coach of a user who leaves the tab, and of one who waits.
Leaver == INSTANCE Coach WITH Leaving <- TRUE, MaxFaults <- CoachFaults, faults <- coachFaults
Waiter == INSTANCE Coach WITH Leaving <- FALSE, MaxFaults <- CoachFaults, faults <- coachFaults
Rpc == INSTANCE RpcReads
\* Histories of one source.
Solana == INSTANCE History WITH Sources <- <<"solana">>, MaxFaults <- HistoryFaults, faults <- historyFaults
Etherscan == INSTANCE History WITH Sources <- <<"etherscan">>, MaxFaults <- HistoryFaults, faults <- historyFaults

ASSUME ServicesAssumption ==
  /\ Tx!StatusAssumption /\ Notices!SubscriptionAssumption
  /\ Leaver!CoachAssumption /\ Rpc!ReadsAssumption /\ Etherscan!HistoryAssumption

Parts == {"gossip", "status", "notices", "leaver", "waiter", "reads", "solana", "etherscan"}
tx == <<unlocked, status, txMined, old, watched, toAsk, answers, rounds, txFaults>>
notices == <<current, used, conn, wire, sid, client, loop, past, dropped>>
coach == <<up, qvac, modelId, loaded, loads, stage, asked, mine, mount, busy, online, answer, error, coachFaults>>
rpc == <<phase, attempt, backoff, result, queue, sleep, level, elapsed, ages, slips, errors>>
history == <<mined, cursor, list, since, done, historyFaults>>
all == <<part, vars, tx, notices, coach, rpc, history>>

MCInit == /\ part \in Parts
          /\ Init /\ Tx!Init /\ Notices!Init /\ Leaver!Init /\ Rpc!Init /\ Solana!Init

\* A step of a part leaves every other one alone.
Gossip == part = "gossip" /\ Next
          /\ UNCHANGED <<part, tx, notices, coach, rpc, history>>
Status == part = "status" /\ Tx!Next
          /\ UNCHANGED <<part, vars, notices, coach, rpc, history>>
Subscriptions == part = "notices" /\ Notices!Next
                 /\ UNCHANGED <<part, vars, tx, coach, rpc, history>>
Coaching == /\ \/ part = "leaver" /\ Leaver!Next
               \/ part = "waiter" /\ Waiter!Next
            /\ UNCHANGED <<part, vars, tx, notices, rpc, history>>
Reading == part = "reads" /\ Rpc!Next
           /\ UNCHANGED <<part, vars, tx, notices, coach, history>>
Listing == /\ \/ part = "solana" /\ Solana!Next
              \/ part = "etherscan" /\ Etherscan!Next
           /\ UNCHANGED <<part, vars, tx, notices, coach, rpc>>

MCNext == Gossip \/ Status \/ Subscriptions \/ Coaching \/ Reading \/ Listing

\* The fairness of each part, asked of its own behaviours only.
GossipFair ==
  /\ \A q \in Requests : WF_vars(part = "gossip" /\ Loaded(q)) /\ WF_vars(part = "gossip" /\ Flushed(q))
  /\ \A l \in Links : WF_vars(part = "gossip" /\ Received(l)) /\ WF_vars(part = "gossip" /\ Connected(l))
  /\ \A n \in Nodes : WF_vars(part = "gossip" /\ Poll(n)) /\ WF_vars(part = "gossip" /\ Got(n, TRUE))
StatusFair ==
  /\ WF_tx(part = "status" /\ Tx!Tick)
  /\ \A t \in Txs : WF_tx(part = "status" /\ Tx!Ask(t, FALSE))
  /\ WF_tx(part = "status" /\ \E a \in answers : Tx!Answered(a))
SocketsFair ==
  /\ \A k \in Notices!Loops : WF_notices(part = "notices" /\ Notices!Fire(k))
  /\ \A c \in Notices!Conns :
       /\ WF_notices(part = "notices" /\ (Notices!Opened(c) \/ Notices!Refuse(c)))
       /\ WF_notices(part = "notices" /\ Notices!Closed(c)) /\ WF_notices(part = "notices" /\ Notices!Deliver(c))
       /\ WF_notices(part = "notices" /\ \E a \in wire[c].calls : Notices!Serve(c, a, TRUE))
CoachFair == \A q \in Leaver!Questions : LET both == {"leaver", "waiter"} IN
  /\ WF_coach(part \in both /\ Leaver!Checked(q)) /\ WF_coach(part \in both /\ Leaver!Imported(q))
  /\ WF_coach(part \in both /\ Leaver!Loaded(q)) /\ WF_coach(part \in both /\ Leaver!Completed(q))
ReadsFair ==
  /\ WF_rpc(part = "reads" /\ Rpc!Tick) /\ WF_rpc(part = "reads" /\ Rpc!Acquire)
  /\ \A r \in Reads : /\ WF_rpc(part = "reads" /\ Rpc!Retry(r))
                       /\ WF_rpc(part = "reads" /\ \E a \in Rpc!Replies : Rpc!Answer(r, a))
HistoryFair == WF_history(part = "solana" /\ Solana!Read({})) /\ WF_history(part = "etherscan" /\ Etherscan!Read({}))

MCSpec == /\ MCInit /\ [][MCNext]_all
          /\ GossipFair /\ StatusFair /\ SocketsFair /\ CoachFair /\ ReadsFair /\ HistoryFair

-----------------------------------------------------------------------------
\* The variables of every part keep to their types.
TypesOK ==
  /\ TypeOK /\ Tx!TypeOK /\ Notices!TypeOK /\ Leaver!TypeOK /\ Rpc!TypeOK
  /\ part # "etherscan" => Solana!TypeOK
  /\ part = "etherscan" => Etherscan!TypeOK

\* Over dropped, refused and replaced sockets: a server id leads to the
\* registration this socket's provider gave it to; until a connection has
\* reconnected or a call has failed on it, its notifications reach only who
\* wants them, each once, and no open socket serves nobody; and until the
\* socket of a reconnect is refused or a call fails, a subscription that lost
\* its server id is on its way to a new one (adapters/subscription.ts).
NoticesAreWanted ==
  /\ Notices!TicksAreWanted /\ Notices!SubscribedOnce /\ Notices!IdleSocketCloses
  /\ Notices!RoutesAreServed /\ Notices!OnItsWay

\* The adapters keep to the provider's rate, retries and a clock set back
\* included, and report no read as failed before its last attempt; only a
\* batch and a Solana token's balance come to nothing where a call failed
\* (rate-limit.ts, retry.ts, rpc.ts).
ReadsAreSound == Rpc!RateCapped /\ Rpc!NextTokenInTime /\ Rpc!BlipsAreRetried

\* What the user is shown is what happened: a settled status is the chain's
\* (wallet-provider.tsx); a history read to its end has everything that was
\* there when it began. The pages of Solana's line up whatever is mined
\* meanwhile, those of Etherscan's while nothing is; Etherscan's keep to the
\* blocks asked for, where Solana's takes no earliest block (indexer.ts). The
\* coach's tab shows the answer to its own last question, and a user who waits
\* for answers has one model loaded (coach-screen.tsx, coach/server.mjs).
ShownIsTrue ==
  /\ Tx!StatusIsTrue
  /\ part = "solana" => Solana!NothingSkipped /\ Solana!PagesLineUp
  /\ part = "etherscan" => Etherscan!NothingSkipped /\ Etherscan!InWindow /\ Etherscan!StillPagesLineUp
  /\ Leaver!BusyWithMine
  /\ part = "waiter" => Waiter!OneModel

\* Whatever is under way comes to its end: gossip spreads and is shown, a
\* settled transaction is listed as such, calls of subscribers settle and,
\* unless a reconnect was refused or a call failed, their subscriptions are
\* live again; questions are answered or refused,
\* reads settle, a history ends.
EverythingArrives ==
  /\ Tx!StatusArrives
  /\ \A r \in Reads : []<>(r \in DOMAIN phase => phase[r] \in Rpc!Settled)
  /\ []<>(/\ SpreadNow /\ ShownNow
          /\ Notices!AllSettled /\ Notices!AllLive
          /\ Leaver!AllAnswered
          /\ part \in {"solana", "etherscan"} => done)
=============================================================================
