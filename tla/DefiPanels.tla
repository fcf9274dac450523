------------------------------ MODULE DefiPanels ------------------------------
(***************************************************************************)
(* The lending, swap, bridge, gasless and buy forms (defi-panels.tsx,      *)
(* swap-screen.tsx, earn-screen.tsx, buy-dialog.tsx) and the worker's      *)
(* protocol calls behind them.  One form is on screen; leaving it unmounts *)
(* it and its call goes on.  A run on the smart account is put when the    *)
(* gasless toggle is on.  The protocols and the chain are external.        *)
(***************************************************************************)
EXTENDS Naturals, FiniteSets

CONSTANTS
  Chains,      \* chains the protocols are wired for
  MaxAmount,   \* bound: amounts typed; 0 is a text that is no amount
  Visits,      \* bound: the forms that a visit opens, and the quotes and runs it puts
  Bundler, Paymaster, MoonPay,  \* what the host configured
  MaxReads,    \* bound: reads of figures under way
  MaxFaults    \* bound: failing calls

Forms == {"lend", "bridge", "gasless", "swap", "buy"}
DefiAssumption ==
  /\ Visits \subseteq [forms: SUBSET Forms, calls: Nat]
  /\ {Bundler, Paymaster, MoonPay} \subseteq BOOLEAN /\ {MaxAmount, MaxReads, MaxFaults} \subseteq Nat

Entries == 0..MaxAmount
Quoting == {"bridge", "swap", "buy"}
Screen(f) == IF f \in {"lend", "bridge", "gasless"} THEN "earn" ELSE f
Payers == BOOLEAN \X Chains   \* the plain and the smart account of a chain
Nothing == <<>>

VARIABLES
  visit,
  form, chain,           \* the form on screen, the network in use
  available, gasless,    \* of its screen: a bundler is configured, the toggle
  input, quote, busy, done,  \* of the form
  position,              \* the chain whose figures it shows, or Nothing
  reads,                 \* reads of figures under way: the chain, and whether the effect still listens
  mount, calls, asked,   \* as in SparkDialog: calls before the mount, under way, so far
  allowance,             \* of the bridge contract, per account
  halted,                \* accounts whose last bridge failed after its approval
  stale,                 \* history: amount or network changed under the quote or its call
  crossed,               \* history: accounts whose last approval found another in use
  faults

vars == <<visit, form, chain, available, gasless, input, quote, busy, done, position, reads, mount, calls, asked, allowance, halted, stale, crossed, faults>>
screen == <<visit, form, chain, available, gasless>>
inputs == <<input, quote, busy, done, mount, stale>>
chainState == <<allowance, halted, crossed>>

Init == /\ visit \in Visits /\ form \in visit.forms /\ chain \in Chains /\ available = FALSE /\ gasless = FALSE
        /\ input = 0 /\ quote = Nothing /\ busy = FALSE /\ done = FALSE /\ position = Nothing
        /\ reads = IF form \in {"lend", "gasless"} THEN {[chain |-> chain, live |-> TRUE]} ELSE {}
        /\ mount = 0 /\ calls = {} /\ asked = 0
        /\ allowance = [a \in Payers |-> 0] /\ halted = {} /\ stale = FALSE /\ crossed = {} /\ faults = 0

Fault == faults < MaxFaults /\ faults' = faults + 1
ToForm(c) == c.id > mount
Account(c) == <<c.smart, c.chain>>

-----------------------------------------------------------------------------
(* The screens                                                             *)

\* The effects on the chain, the account and the hash: the answer to an older
\* read is dropped.
Read(f, c) == reads' = {[r EXCEPT !.live = FALSE] : r \in reads} \cup
                       (IF f \in {"lend", "gasless"} THEN {[chain |-> c, live |-> TRUE]} ELSE {})

\* Another form; another screen starts with its toggle off.
Go(f) == /\ Cardinality(reads) < MaxReads /\ f \in visit.forms /\ f # form
         /\ form' = f /\ input' = 0 /\ quote' = Nothing /\ busy' = FALSE /\ done' = FALSE /\ mount' = asked /\ stale' = FALSE
         /\ position' = Nothing /\ Read(f, chain)
         /\ IF Screen(f) = Screen(form) THEN UNCHANGED <<available, gasless>> ELSE available' = FALSE /\ gasless' = FALSE
         /\ UNCHANGED <<visit, chain, calls, asked, faults>> /\ UNCHANGED chainState

\* useGaslessAvailable, GaslessToggle
Configured == /\ Bundler /\ ~available /\ available' = TRUE
              /\ UNCHANGED <<visit, form, chain, gasless, position, reads, calls, asked, faults>> /\ UNCHANGED inputs /\ UNCHANGED chainState
Toggle == /\ available /\ form \notin {"gasless", "buy"} /\ gasless' = ~gasless
          /\ UNCHANGED <<visit, form, chain, available, position, reads, calls, asked, faults>> /\ UNCHANGED inputs /\ UNCHANGED chainState

\* The wallet's network changes under the form: its quote stays.
SwitchChain(c) == /\ Cardinality(reads) < MaxReads /\ c # chain /\ chain' = c /\ Read(form, c)
                  /\ stale' = (busy \/ quote # Nothing)
                  /\ UNCHANGED <<visit, form, available, gasless, input, quote, busy, done, mount, position, calls, asked, faults>>
                  /\ UNCHANGED chainState

\* The figures of the lending position or of the smart account; a smart
\* account whose read fails keeps the old ones.
Figures(r) == /\ r \in reads /\ reads' = reads \ {r}
              /\ position' = IF r.live /\ (form = "gasless" => Bundler) THEN <<r.chain>> ELSE position
              /\ UNCHANGED <<calls, asked, faults>> /\ UNCHANGED screen /\ UNCHANGED inputs /\ UNCHANGED chainState
NoFigures(r) == /\ r \in reads /\ Fault /\ reads' = reads \ {r}
                /\ position' = IF r.live /\ form = "lend" THEN Nothing ELSE position
                /\ UNCHANGED <<calls, asked>> /\ UNCHANGED screen /\ UNCHANGED inputs /\ UNCHANGED chainState

-----------------------------------------------------------------------------
(* The form                                                                *)

Edit(a) == /\ a # input /\ input' = a /\ quote' = Nothing /\ stale' = busy
           /\ UNCHANGED <<busy, done, mount, position, reads, calls, asked, faults>> /\ UNCHANGED screen /\ UNCHANGED chainState

Put(k, smart) == /\ ~busy /\ ~done /\ input # 0 /\ asked < visit.calls
                 /\ asked' = asked + 1 /\ busy' = TRUE
                 /\ stale' = (stale /\ quote # Nothing)
                 /\ calls' = calls \cup {[id |-> asked + 1, kind |-> k, of |-> input, chain |-> chain, smart |-> smart, stage |-> "put"]}
                 /\ UNCHANGED <<input, quote, done, mount, position, reads, faults>> /\ UNCHANGED screen /\ UNCHANGED chainState
QuoteSwap == form = "swap" /\ quote = Nothing /\ Put("quote", FALSE)
QuoteBridge == form = "bridge" /\ quote = Nothing /\ Put("quote", FALSE)
QuoteBuy == form = "buy" /\ MoonPay /\ quote = Nothing /\ Put("quote", FALSE)
ConfirmSwap == form = "swap" /\ quote # Nothing /\ Put("swap", gasless)
ConfirmBridge == form = "bridge" /\ quote # Nothing /\ Put("bridge", gasless)
ConfirmBuy == form = "buy" /\ quote # Nothing /\ Put("buy", FALSE)
Lend == form = "lend" /\ Put("lend", gasless)
SendGasless == form = "gasless" /\ Bundler /\ Put("gasless", TRUE)

-----------------------------------------------------------------------------
(* The worker                                                              *)

\* Who pays the gas of a run on the smart account: the gasless form names no
\* paymaster token.
GasToken(c) == IF c.kind # "gasless" /\ Paymaster THEN "USDT" ELSE "none"
PaysGas(c) == IF c.smart /\ GasToken(c) # "none" THEN GasToken(c) ELSE "native"
Stage(c, s) == calls' = (calls \ {c}) \cup {[c EXCEPT !.stage = s]}

\* A run executes on its account; a smart account needs a bundler.
Run(c, k) == /\ c.stage = "put" /\ c.kind = k /\ (c.smart => Bundler) /\ Stage(c, "made")
             /\ UNCHANGED <<position, reads, asked, faults>> /\ UNCHANGED screen /\ UNCHANGED inputs /\ UNCHANGED chainState
Lent(c) == Run(c, "lend")
Swapped(c) == Run(c, "swap")
SentGasless(c) == Run(c, "gasless")

\* A quote, always of the plain account, and the widget's URL.
Quoted(c) == /\ c.stage = "put" /\ c.kind = "quote" /\ Stage(c, "made")
             /\ UNCHANGED <<position, reads, asked, faults>> /\ UNCHANGED screen /\ UNCHANGED inputs /\ UNCHANGED chainState
Widget(c) == /\ c.stage = "put" /\ c.kind = "buy" /\ Stage(c, "made")
             /\ UNCHANGED <<position, reads, asked, faults>> /\ UNCHANGED screen /\ UNCHANGED inputs /\ UNCHANGED chainState

\* usdt0_bridge: the approval, then the transfer it is for.
ToApprove(c) == c.of
Crosses(c) == \E d \in calls \ {c} : d.stage = "approved" /\ Account(d) = Account(c)
Approve(c) == /\ c.stage = "put" /\ c.kind = "bridge" /\ (c.smart => Bundler) /\ Stage(c, "approved")
              /\ allowance' = [allowance EXCEPT ![Account(c)] = ToApprove(c)] /\ halted' = halted \ {Account(c)}
              /\ crossed' = IF Crosses(c) THEN crossed \cup {Account(c)} ELSE crossed \ {Account(c)}
              /\ UNCHANGED <<position, reads, asked, faults>> /\ UNCHANGED screen /\ UNCHANGED inputs
Bridge(c) == /\ c.stage = "approved" /\ allowance[Account(c)] >= c.of /\ Stage(c, "made")
             /\ allowance' = [allowance EXCEPT ![Account(c)] = @ - c.of]
             /\ UNCHANGED <<position, reads, asked, halted, crossed, faults>> /\ UNCHANGED screen /\ UNCHANGED inputs

\* The answer: a quote, the widget in a new tab and the dialog closed, or a
\* hash, which replaces the button and makes the lending form read again.
Answered(c) ==
  /\ c.stage = "made" /\ calls' = calls \ {c}
  /\ IF ~ToForm(c) THEN UNCHANGED <<quote, busy, done, reads>>
     ELSE /\ busy' = FALSE
          /\ quote' = IF c.kind = "quote" THEN <<c.of, c.chain>> ELSE quote
          /\ done' = (c.kind # "quote")
          /\ IF c.kind = "lend" THEN Read("lend", chain) ELSE UNCHANGED reads
  /\ UNCHANGED <<input, mount, stale, position, asked, faults>> /\ UNCHANGED screen /\ UNCHANGED chainState

Tells(c) == IF ToForm(c) THEN busy' = FALSE ELSE UNCHANGED busy
Short(c) == c.stage = "approved" /\ allowance[Account(c)] < c.of
Fails(c) == /\ Short(c) \/ faults < MaxFaults
            /\ faults' = IF Short(c) THEN faults ELSE faults + 1
            /\ calls' = calls \ {c} /\ Tells(c)
            /\ halted' = IF c.stage = "approved" THEN halted \cup {Account(c)} ELSE halted
            /\ UNCHANGED <<input, quote, done, mount, stale, position, reads, asked, allowance, crossed>> /\ UNCHANGED screen

-----------------------------------------------------------------------------
Next == \/ Configured \/ Toggle \/ Lend \/ SendGasless
        \/ QuoteSwap \/ QuoteBridge \/ QuoteBuy \/ ConfirmSwap \/ ConfirmBridge \/ ConfirmBuy
        \/ \E f \in Forms : Go(f)
        \/ \E c \in Chains : SwitchChain(c)
        \/ \E r \in reads : Figures(r) \/ NoFigures(r)
        \/ \E a \in Entries : Edit(a)
        \/ \E c \in calls : Lent(c) \/ Swapped(c) \/ SentGasless(c) \/ Quoted(c) \/ Widget(c) \/ Approve(c) \/ Bridge(c) \/ Answered(c) \/ Fails(c)
Spec == Init /\ [][Next]_vars

-----------------------------------------------------------------------------
TypeOK == /\ visit \in Visits /\ form \in visit.forms /\ chain \in Chains /\ (gasless => available) /\ (available => Bundler)
          /\ input \in Entries /\ (quote # Nothing => form \in Quoting) /\ ~(busy /\ done)
          /\ allowance \in [Payers -> Entries] /\ halted \subseteq Payers /\ crossed \subseteq Payers /\ stale \in BOOLEAN
          /\ \A r, s \in reads : r.live /\ s.live => r = s
          /\ \A c \in calls : c.id \in 1..asked

\* A form waits exactly while a call of its own is under way.
BusyWithMine == busy <=> \E c \in calls : ToForm(c)

\* The quote on screen, whose Confirm button runs the form, is for the amount
\* beside it and the network in use, unless one of them changed under it.
QuoteOfInputs == (quote # Nothing /\ ~stale) => quote = <<input, chain>>

\* The lending position on screen, once nothing is being read, is that of the
\* network in use, however late the answers for another network come.
PositionOfChain == (form = "lend" /\ position # Nothing /\ \A r \in reads : ~r.live) => position = <<chain>>

\* An approved bridge finds its approval, unless another approval of its account
\* was given meanwhile; and no approval is left to the bridge contract but that
\* of a bridge under way or of an account whose last bridge failed.
ApprovedIsBridged ==
  /\ \A c \in calls : c.stage = "approved" => allowance[Account(c)] = c.of \/ Account(c) \in crossed
  /\ \A a \in Payers : allowance[a] > 0 => a \in halted \/ \E c \in calls : c.stage = "approved" /\ Account(c) = a

\* A gasless run pays no native gas.
GaslessPaysNone == \A c \in calls : (c.smart /\ c.stage = "made") => PaysGas(c) # "native"
=============================================================================
