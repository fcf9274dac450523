----------------------------- MODULE SparkDialog -----------------------------
(***************************************************************************)
(* The Spark dialog (spark-dialog.tsx) and the worker calls behind it: the *)
(* account connects and its balance is read; one form at a time is on      *)
(* screen (send, deposit, withdraw; create or pay an invoice); leaving a   *)
(* form unmounts it and its call goes on.  A withdrawal is quoted, shown,  *)
(* confirmed, and quoted once more by the worker.  The Spark service is    *)
(* external.                                                               *)
(***************************************************************************)
EXTENDS Naturals, SequencesExt

CONSTANTS
  Whats,      \* recipients with amounts, or invoices, that a form may hold
  Wrong,      \* those that the checks refuse
  Blank,      \* an empty form
  Start,      \* sats in the account at the start
  MaxRate,    \* bound: the network's fee rate
  MaxCalls,   \* bound: calls of forms
  MaxFaults   \* bound: failing calls

Pays == {"send", "withdraw", "pay"}
SparkAssumption ==
  /\ Wrong \subseteq Whats /\ Blank \in Wrong
  /\ {Start, MaxRate, MaxCalls, MaxFaults} \subseteq Nat /\ MaxRate > 0

Speeds == {"FAST", "MEDIUM"}
Inputs == [what : Whats, speed : Speeds]
Empty == [what |-> Blank, speed |-> "MEDIUM"]
Panes == {"receive", "send", "deposit", "withdraw", "invoice", "pay"}
Top(p) == IF p \in {"invoice", "pay"} THEN "lightning" ELSE "spark"
Nothing == <<>>
Unread == Start + 1   \* a balance, or a read of it, without a value

VARIABLES
  status, balance,    \* of the dialog
  pane, input, quote, busy, done,   \* the form on screen
  mount,    \* calls put before that form was mounted
  calls,    \* calls under way
  asked,    \* calls put so far
  reads,    \* balance reads under way: the value read, or Unread
  sats, rate, exits,  \* the service: the balance, the fee rate, withdrawals made
  edited,   \* history: the form was edited during the call it waits for or shows
  missed,   \* history: since the dialog was opened, something that it does not
            \* follow: a failed call, an invoice paid, a payment that an earlier
            \* dialog put, a read answered before an older one
  faults

vars == <<status, balance, pane, input, quote, busy, done, mount, calls, asked, reads, sats, rate, exits, edited, missed, faults>>
form == <<pane, input, quote, busy, done, mount, edited>>
service == <<sats, rate, exits>>

Init == /\ status = "connecting" /\ balance = Unread /\ pane = "receive"
        /\ input = Empty /\ quote = Nothing /\ busy = FALSE /\ done = FALSE
        /\ mount = 0 /\ calls = {} /\ asked = 0 /\ reads = <<>>
        /\ sats = Start /\ rate = 1 /\ exits = {}
        /\ edited = FALSE /\ missed = FALSE /\ faults = 0

Fault == faults < MaxFaults /\ faults' = faults + 1
ToForm(c) == c.id > mount   \* the form that put c is still mounted
Fresh == /\ input' = Empty /\ quote' = Nothing /\ busy' = FALSE /\ done' = FALSE /\ mount' = asked /\ edited' = FALSE

-----------------------------------------------------------------------------
(* The dialog                                                              *)

\* account_getSparkAddress, then the first read of the balance.
Connect == /\ status = "connecting" /\ status' = "ready" /\ reads' = Append(reads, Unread)
           /\ UNCHANGED <<balance, calls, asked, missed, faults>> /\ UNCHANGED form /\ UNCHANGED service
ConnectFails == /\ status = "connecting" /\ Fault /\ status' = "error"
                /\ UNCHANGED <<balance, calls, asked, reads, missed>> /\ UNCHANGED form /\ UNCHANGED service

\* Closed and opened again: reads and calls of the old dialog reach no one.
Reopen == /\ status # "connecting" /\ asked < MaxCalls
          /\ status' = "connecting" /\ balance' = Unread /\ pane' = "receive" /\ Fresh
          /\ reads' = <<>> /\ missed' = (\E c \in calls : c.kind \in Pays)
          /\ calls' = {[c EXCEPT !.dropped = TRUE] : c \in calls}
          /\ UNCHANGED <<asked, faults>> /\ UNCHANGED service

\* Segmented and the two tabs, which start at their first form.
Go(p) == /\ status = "ready" /\ p # pane
         /\ Top(p) = Top(pane) \/ p \in {"receive", "invoice"}
         /\ pane' = p /\ Fresh
         /\ UNCHANGED <<status, balance, calls, asked, reads, missed, faults>> /\ UNCHANGED service

\* The account is read, at some moment, and the answer shown.
Sample(i) == /\ reads[i] = Unread /\ reads' = [reads EXCEPT ![i] = sats]
             /\ UNCHANGED <<status, balance, calls, asked, missed, faults>> /\ UNCHANGED form /\ UNCHANGED service
Shown(i) == /\ reads[i] # Unread /\ balance' = reads[i] /\ reads' = RemoveAt(reads, i)
            /\ missed' = (missed \/ i # 1)
            /\ UNCHANGED <<status, calls, asked, faults>> /\ UNCHANGED form /\ UNCHANGED service
ReadFails(i) == /\ Fault /\ missed' = TRUE /\ reads' = RemoveAt(reads, i)
                /\ UNCHANGED <<status, balance, calls, asked>> /\ UNCHANGED form /\ UNCHANGED service

-----------------------------------------------------------------------------
(* The form on screen                                                      *)

\* An input is typed or a speed chosen; the form is not disabled by a call.
Edit(i) == /\ status = "ready" /\ ~done /\ pane \notin {"receive", "deposit"}
           /\ i # input /\ (pane # "withdraw" => i.speed = input.speed)
           /\ input' = i /\ quote' = Nothing /\ edited' = busy
           /\ UNCHANGED <<status, balance, pane, busy, done, mount, calls, asked, reads, missed, faults>> /\ UNCHANGED service

\* A button: the call is put, unless the checks refuse what the form holds.
Right == input.what \notin Wrong
Put(k) == [id |-> asked + 1, kind |-> k, of |-> input, fee |-> 0,
           shown |-> IF k = "withdraw" THEN quote.fee ELSE 0,
           at |-> 0, stage |-> "put", dropped |-> FALSE]
Submit(k) == /\ status = "ready" /\ ~busy /\ ~done
             /\ asked < MaxCalls /\ asked' = asked + 1 /\ calls' = calls \cup {Put(k)} /\ busy' = TRUE
             /\ edited' = (edited /\ quote # Nothing)
             /\ UNCHANGED <<status, balance, pane, input, quote, done, mount, reads, missed, faults>> /\ UNCHANGED service
Send == pane = "send" /\ Right /\ Submit("send")
Deposit == pane = "deposit" /\ Submit("deposit")
GetQuote == pane = "withdraw" /\ quote = Nothing /\ Right /\ Submit("quote")
\* Confirm does not check the inputs again.
Withdraw == pane = "withdraw" /\ quote # Nothing /\ Submit("withdraw")
CreateInvoice == pane = "invoice" /\ Right /\ Submit("invoice")
PayInvoice == pane = "pay" /\ Right /\ Submit("pay")

\* "Send again" and its like; the invoice form keeps its inputs, the deposit
\* form its address.
Again == /\ done /\ pane # "deposit" /\ done' = FALSE /\ quote' = Nothing
         /\ input' = IF pane = "invoice" THEN input ELSE [input EXCEPT !.what = Blank]
         /\ UNCHANGED <<status, balance, pane, busy, mount, edited, calls, asked, reads, missed, faults>> /\ UNCHANGED service

-----------------------------------------------------------------------------
(* The worker and the service                                              *)

Fee(speed, r) == IF speed = "FAST" THEN 2 * r ELSE r
\* normalizeWithdrawQuote: the fee of the chosen speed.
Quoted(c) == Fee(c.of.speed, rate)

\* account_quoteSparkWithdraw, and the first half of account_sparkWithdraw.
Quotes(c) == /\ c.stage = "put" /\ c.kind \in {"quote", "withdraw"} /\ c.of.what \notin Wrong
             /\ calls' = (calls \ {c}) \cup {[c EXCEPT !.fee = Quoted(c), !.at = rate, !.stage = IF c.kind = "quote" THEN "made" ELSE "bound"]}
             /\ UNCHANGED <<status, balance, asked, reads, missed, faults>> /\ UNCHANGED form /\ UNCHANGED service

\* The payment, the withdrawal at the fee committed to, the invoice or address.
Made(c) == /\ IF c.kind = "withdraw" THEN c.stage = "bound" ELSE c.kind # "quote" /\ c.stage = "put"
           /\ c.kind \in Pays => sats > 0
           /\ sats' = IF c.kind \in Pays THEN sats - 1 ELSE sats
           /\ exits' = IF c.kind = "withdraw" THEN exits \cup {c} ELSE exits
           /\ calls' = (calls \ {c}) \cup {[c EXCEPT !.stage = "made"]}
           /\ UNCHANGED <<status, balance, asked, reads, rate, missed, faults>> /\ UNCHANGED form

RateMoves == /\ rate' \in 1..MaxRate \ {rate}
             /\ UNCHANGED <<status, balance, calls, asked, reads, sats, exits, missed, faults>> /\ UNCHANGED form

\* onChanged reads the balance again; paying an invoice does not call it.
Rereads(c) == ~c.dropped /\ c.kind \in {"send", "withdraw"}

Answered(c) ==
  /\ c.stage = "made" /\ calls' = calls \ {c}
  /\ IF ToForm(c) THEN /\ busy' = FALSE
                       /\ IF c.kind = "quote" THEN quote' = [of |-> c.of, fee |-> c.fee] /\ UNCHANGED done
                          ELSE done' = TRUE /\ UNCHANGED quote
     ELSE UNCHANGED <<busy, quote, done>>
  /\ reads' = IF Rereads(c) THEN Append(reads, Unread) ELSE reads
  /\ missed' = (missed \/ c.kind = "pay")
  /\ UNCHANGED <<status, balance, pane, input, mount, edited, asked, faults>> /\ UNCHANGED service

\* A call fails: refused by the worker's checks, for lack of sats, or by a
\* service that may have done its work.
Tells(c) == IF ToForm(c) THEN busy' = FALSE ELSE UNCHANGED busy
Fails(c) == /\ \/ c.kind \in {"quote", "withdraw"} /\ c.of.what \in Wrong /\ UNCHANGED faults
               \/ c.kind \in Pays /\ sats = 0 /\ c.stage # "made" /\ UNCHANGED faults
               \/ Fault
            /\ calls' = calls \ {c} /\ Tells(c) /\ missed' = TRUE
            /\ UNCHANGED <<status, balance, pane, input, quote, done, mount, edited, asked, reads>> /\ UNCHANGED service

-----------------------------------------------------------------------------
Next == \/ Connect \/ ConnectFails \/ Reopen \/ Again \/ RateMoves
        \/ Send \/ Deposit \/ GetQuote \/ Withdraw \/ CreateInvoice \/ PayInvoice
        \/ \E p \in Panes : Go(p)
        \/ \E i \in Inputs : Edit(i)
        \/ \E i \in DOMAIN reads : Sample(i) \/ Shown(i) \/ ReadFails(i)
        \/ \E c \in calls : Quotes(c) \/ Made(c) \/ Answered(c) \/ Fails(c)
Spec == Init /\ [][Next]_vars

-----------------------------------------------------------------------------
TypeOK == /\ status \in {"connecting", "ready", "error"} /\ balance \in 0..Unread /\ pane \in Panes /\ input \in Inputs
          /\ (quote # Nothing => pane = "withdraw" /\ quote.of.what \notin Wrong) /\ ~(busy /\ done)
          /\ mount \in 0..asked /\ \A c \in calls : c.id \in 1..asked
          /\ sats \in 0..Start /\ edited \in BOOLEAN /\ missed \in BOOLEAN

\* A form waits exactly while a call of its own is under way: the answer to a
\* form that was left, or a failure, never leaves another one stuck or free to
\* put its call twice.
BusyWithMine == busy <=> \E c \in calls : ToForm(c)

\* The fee on the Confirm button is a quote for the recipient, amount and speed
\* beside it, unless they were edited while it was asked for.
QuoteOfInputs == (quote # Nothing /\ ~edited) => quote.of = input

\* A withdrawal commits to a fee the service quoted for its own speed.
ExitsAreBound == \A e \in exits : e.fee = Fee(e.of.speed, e.at)

\* A withdrawal is charged what the button said ("what `withdraw` charges").
ChargedIsShown == \A e \in exits : e.fee = e.shown

\* Once nothing is under way, and nothing happened that the dialog does not
\* follow, the balance on screen is the account's: a payment of the user's own
\* is followed by a read that sees it.
BalanceFollows == (status = "ready" /\ calls = {} /\ reads = <<>> /\ ~missed) => balance = sats
=============================================================================
