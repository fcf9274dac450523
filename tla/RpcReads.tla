------------------------------ MODULE RpcReads ------------------------------
(***************************************************************************)
(* Balance reads of the RPC adapter (adapters/rpc.ts): each call is        *)
(* retried with backoff (retry.ts) and, every time, first takes a token of *)
(* the bucket that caps the rate at which calls start (rate-limit.ts).     *)
(* Time is counted in ticks and kept as ages and countdowns; a token is    *)
(* refilled every Period ticks, and the bucket's level is kept in parts of *)
(* a token, Period of them to one.                                         *)
(***************************************************************************)
EXTENDS Integers, Sequences, SequencesExt

CONSTANTS
  Reads,      \* callers of the adapter, each with one read under way
  Op,         \* what each of them reads
  Burst,      \* capacity of the bucket, in tokens
  Period,     \* ticks in which one token is refilled: 1000/rps ms
  Attempts,   \* attempts of a read, the first included: 3 in the code
  Base, Cap,  \* first backoff and the longest one, in ticks
  Slip,       \* bound: how far the system clock is set back
  MaxSlips,   \* bound: how often
  MaxErrors   \* bound: calls that are not answered with a balance

Ops == {"evmRead", "evmBatch", "solanaNative", "solanaToken", "unsupported"}
Replies == {"balance", "error", "empty"}
ReadsAssumption ==
  /\ Op \in [Reads -> Ops] /\ {Burst, Period, Attempts, Base, Cap} \subseteq Nat \ {0}
  /\ Slip \in Nat /\ MaxSlips \in Nat /\ MaxErrors \in Nat

VARIABLES
  phase,    \* where each read is
  attempt,  \* its attempt
  backoff,  \* ticks until its next attempt
  result,   \* what its last call of the adapter came to
  queue,    \* reads that wait for a token, in the order of their turns
  sleep,    \* ticks until the first of them looks at the bucket again
  level,    \* the bucket, when it was last looked at
  elapsed,  \* the clock's time since then, as far as it makes a difference
  ages,     \* ticks since the last calls started, the latest first
  slips, errors

vars == <<phase, attempt, backoff, result, queue, sleep, level, elapsed, ages, slips, errors>>
bucket == <<queue, sleep, level, elapsed, ages>>
Least(a, b) == IF a < b THEN a ELSE b
Most(a, b) == IF a > b THEN a ELSE b
Full == Burst * Period
Horizon == Burst + 2  \* bound: how many of the latest starts are remembered
Oldest == (Horizon - Burst) * Period
Settled == {"idle", "done"}

Init == /\ phase = [r \in Reads |-> "idle"] /\ attempt = [r \in Reads |-> 0]
        /\ backoff = [r \in Reads |-> 0] /\ result = [r \in Reads |-> "none"]
        /\ queue = <<>> /\ sleep = 0 /\ level = Full /\ elapsed = 0
        /\ ages = <<>> /\ slips = 0 /\ errors = 0

\* A chain without a loader, or without an RPC URL, is refused before a call.
Configured(r) == Op[r] # "unsupported"
Schedule(r) == /\ attempt' = [attempt EXCEPT ![r] = @ + 1]
               /\ phase' = [phase EXCEPT ![r] = "queued"]
               /\ queue' = Append(queue, r)
Begin(r) == /\ phase[r] \in Settled
            /\ IF Configured(r)
               THEN /\ phase' = [phase EXCEPT ![r] = "queued"] /\ queue' = Append(queue, r)
                    /\ attempt' = [attempt EXCEPT ![r] = 1]
                    /\ result' = [result EXCEPT ![r] = "none"]
               ELSE /\ phase' = [phase EXCEPT ![r] = "done"]
                    /\ result' = [result EXCEPT ![r] = "rejected"] /\ UNCHANGED <<attempt, queue>>
            /\ UNCHANGED <<backoff, sleep, level, elapsed, ages, slips, errors>>

\* The first of the queue looks at the bucket, takes a token or sleeps until
\* there is one; the others wait until it is through.
\* Mutant: the bucket holds more than a burst.
RefilledOver == Least(Full + Period, level + elapsed)
Refilled == Least(Full, level + elapsed)
Missing(have) == Period - have
Take(r) == /\ queue' = Tail(queue) /\ phase' = [phase EXCEPT ![r] = "called"]
           /\ level' = Refilled - Period
           /\ ages' = SubSeq(<<0>> \o ages, 1, Least(Len(ages) + 1, Horizon))
           /\ UNCHANGED sleep
Acquire == /\ queue # <<>> /\ sleep = 0
           /\ elapsed' = 0
           /\ IF Refilled >= Period
              THEN Take(Head(queue))
              ELSE /\ sleep' = Missing(Refilled) /\ level' = Refilled
                   /\ UNCHANGED <<queue, phase, ages>>
           /\ UNCHANGED <<attempt, backoff, result, slips, errors>>

\* What a read makes of a reply: "again" when it throws. viem's multicall
\* with allowFailure does not throw: every entry it could not read is 0n, and
\* so is a Solana token of which the reply holds no accounts.
Unread(o, reply) == o = "evmBatch" /\ reply # "balance"
Outcome(o, reply) ==
  CASE reply = "balance" -> "balance"
    [] Unread(o, reply) \/ (o = "solanaToken" /\ reply = "empty") -> "zero"
    [] OTHER -> "again"

\* The longest backoff after the a-th attempt; jitter takes up to half of it.
Backoff(a) == Least(Cap, Base * 2 ^ (a - 1))
Answer(r, reply) ==
  /\ phase[r] = "called"
  /\ reply # "balance" => errors < MaxErrors
  /\ errors' = IF reply = "balance" THEN errors ELSE errors + 1
  /\ LET o == Outcome(Op[r], reply) IN
     CASE o # "again" ->
            /\ phase' = [phase EXCEPT ![r] = "done"] /\ result' = [result EXCEPT ![r] = o]
            /\ UNCHANGED backoff
       [] o = "again" /\ attempt[r] >= Attempts ->
            /\ phase' = [phase EXCEPT ![r] = "done"]
            /\ result' = [result EXCEPT ![r] = "rejected"] /\ UNCHANGED backoff
       [] OTHER ->
            /\ phase' = [phase EXCEPT ![r] = "backoff"]
            /\ \E d \in 0..Cap : /\ Backoff(attempt[r]) <= 2 * d /\ d <= Backoff(attempt[r])
                                /\ backoff' = [backoff EXCEPT ![r] = d]
            /\ UNCHANGED result
  /\ UNCHANGED <<attempt, queue, sleep, level, elapsed, ages, slips>>

Retry(r) == /\ phase[r] = "backoff" /\ backoff[r] = 0
            /\ Schedule(r)
            /\ UNCHANGED <<backoff, result, sleep, level, elapsed, ages, slips, errors>>

\* Time passes: timers run, the bucket refills and the last starts get older.
Tick == /\ sleep' = Most(sleep - 1, 0)
        /\ backoff' = [r \in Reads |-> Most(backoff[r] - 1, 0)]
        /\ elapsed' = Least(elapsed + 1, Full + MaxSlips * Slip)
        /\ ages' = [i \in DOMAIN ages |-> Least(ages[i] + 1, Oldest)]
        /\ UNCHANGED <<phase, attempt, result, queue, level, slips, errors>>
\* Date.now is set back: the time since the last look may turn negative.
SetBack == /\ slips < MaxSlips /\ slips' = slips + 1 /\ elapsed' = elapsed - Slip
           /\ UNCHANGED <<phase, attempt, backoff, result, queue, sleep, level, ages, errors>>

Next == \/ Acquire \/ Tick \/ SetBack
        \/ \E r \in Reads : Begin(r) \/ Retry(r) \/ \E reply \in Replies : Answer(r, reply)
\* Timers fire, and every HTTP request ends: fetch has an answer or throws.
Fairness == /\ WF_vars(Tick) /\ WF_vars(Acquire)
            /\ \A r \in Reads : WF_vars(Retry(r)) /\ WF_vars(\E reply \in Replies : Answer(r, reply))
Spec == Init /\ [][Next]_vars
FairSpec == Spec /\ Fairness

-----------------------------------------------------------------------------
TypeOK ==
  /\ phase \in [Reads -> {"idle", "queued", "called", "backoff", "done"}]
  /\ attempt \in [Reads -> 0..Attempts] /\ backoff \in [Reads -> 0..Cap]
  /\ result \in [Reads -> {"none", "balance", "zero", "rejected"}]
  /\ ToSet(queue) = {r \in Reads : phase[r] = "queued"} /\ IsInjective(queue)
  /\ sleep \in 0..Period + MaxSlips * Slip
  /\ level \in (0 - MaxSlips * Slip)..Full
  /\ elapsed \in (0 - MaxSlips * Slip)..Full + MaxSlips * Slip
  /\ ages \in BoundedSeq(0..Oldest, Horizon)
  /\ slips \in 0..MaxSlips /\ errors \in 0..MaxErrors

\* In no stretch of time do more calls start than a burst and the tokens
\* refilled meanwhile, retries included, however many callers there are
\* ("capping the rate at which calls start", rate-limit.ts:7).
RateCapped == \A n \in DOMAIN ages : (n - Burst) * Period <= ages[n]

\* Nobody at the head of the queue sleeps longer than a token takes to refill,
\* while the clock is what it is meant to be ("Injectable monotonic clock",
\* rate-limit.ts:18).
NextTokenInTime == slips = 0 => sleep <= Period

\* A read is reported as failed only after its last attempt ("A single network
\* blip should not surface as a failed balance", retry.ts:5), and every other
\* one comes to the balance on the chain; but a batch of EVM balances and a
\* Solana token's may come to nothing, at the first blip (rpc.ts:211, 322).
BlipsAreRetried ==
  \A r \in Reads : /\ result[r] = "rejected" /\ Configured(r) => attempt[r] = Attempts
                   /\ result[r] = "zero" => Op[r] \in {"evmBatch", "solanaToken"}

\* Every read settles: the turns of the queue are handed on, whatever fails.
ReadsSettle == \A r \in Reads : []<>(phase[r] \in Settled)
=============================================================================
