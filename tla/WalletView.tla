----------------------------- MODULE WalletView -----------------------------
(***************************************************************************)
(* What the open wallet shows (wallet-provider.tsx, dashboard.tsx): the    *)
(* address, balance, fiat value and tokens of the chosen chain and         *)
(* account, read asynchronously, and the sends of the send dialog.  A read *)
(* of React's effects is asked when one of its inputs changes; an answer   *)
(* of a cancelled effect is dropped, so only the last question is kept.    *)
(***************************************************************************)
EXTENDS Naturals, FiniteSets

CONSTANTS
  Chains, Family,  \* the chains of the selector and the family of each
  Accounts,
  SendIds,         \* bound: the sends of a session
  MaxReads,        \* bound: balance reads under way at once
  None

Views == [chain: Chains, account: Accounts]
Nowhere == [chain |-> None, account |-> None]
ViewAssumption ==
  /\ None \notin Chains /\ Family \in [Chains -> {"evm", "solana", "bitcoin", "ton", "tron"}]
  /\ MaxReads \in Nat /\ None \notin SendIds /\ None \notin Views \cup (Views \X (Views \cup {Nowhere}))

VARIABLES
  unlocked,   \* phase = 'unlocked'
  view,       \* chainId and accountIndex
  address,    \* the view whose address is shown, or None
  asked,      \* the view whose address is being derived, or None
  balance,    \* the view whose balance is shown, or None
  reads,      \* how many balance reads of each view are under way
  priced,     \* the view and balance a fiat value is being computed for
  usd,        \* the view and balance the fiat value shown was computed for
  listing,    \* the view whose tokens are being read
  tokens,     \* the view whose tokens are listed
  dialog,     \* the send dialog: its phase, and the send it waits for
  sends,      \* what became of every send
  log         \* the transactions of the activity list

shown == <<address, asked, balance, reads, priced, usd, listing, tokens>>
vars == <<unlocked, view, shown, dialog, sends, log>>

NoSend == [pc |-> "none", from |-> Nowhere, by |-> None, token |-> FALSE]
Closed == [phase |-> "closed", token |-> FALSE, send |-> None]

Init == /\ unlocked = FALSE /\ view \in Views
        /\ address = None /\ asked = None /\ balance = None
        /\ reads = [v \in Views \cup {Nowhere} |-> 0]
        /\ priced = None /\ usd = None /\ listing = None /\ tokens = None
        /\ dialog = Closed /\ sends = [s \in SendIds |-> NoSend] /\ log = {}

\* Whose balance a read of view v with the address of view a returns: Bitcoin,
\* TON and Tron ask the account, the others the chain about the address; an
\* address of another family is an error.
Target(v, a) ==
  IF Family[v.chain] \in {"bitcoin", "ton", "tron"} THEN v
  ELSE IF Family[a.chain] = Family[v.chain] THEN [chain |-> v.chain, account |-> a.account]
  ELSE Nowhere
Read(v, a) == [reads EXCEPT ![Target(v, a)] = @ + 1]
ReadsLeft == \A v \in Views \cup {Nowhere} : reads[v] < MaxReads

\* What React does after a change of unlocked, view, address or balance: each
\* effect whose inputs changed is cancelled and runs again.
Listed(v, a) == IF Family[v.chain] = "evm" /\ a # None THEN Target(v, a) ELSE None
AddressEffect(pending) ==
  asked' = IF ~unlocked' THEN None
           ELSE IF <<unlocked, view>>' # <<unlocked, view>> THEN view' ELSE pending
BalanceEffect(pending) ==
  reads' = IF /\ unlocked' /\ address' # None
              /\ <<unlocked, view, address>>' # <<unlocked, view, address>>
           THEN [pending EXCEPT ![Target(view', address')] = @ + 1] ELSE pending
PriceEffect(pending, value) ==
  LET off == ~unlocked' \/ balance' = None IN
  /\ usd' = IF off THEN None ELSE value
  /\ priced' = IF off THEN None
               ELSE IF <<unlocked, view, balance>>' # <<unlocked, view, balance>>
               THEN <<view', balance'>> ELSE pending
TokensEffect(pending, value) ==
  LET want == Listed(view', address') IN
  IF want # Listed(view, address) THEN listing' = want /\ tokens' = None
  ELSE listing' = pending /\ tokens' = value

-----------------------------------------------------------------------------
Unlock == /\ ~unlocked /\ unlocked' = TRUE
          /\ UNCHANGED <<view, address, balance, dialog, sends, log>>
          /\ AddressEffect(asked) /\ BalanceEffect(reads)
          /\ PriceEffect(priced, usd) /\ TokensEffect(listing, tokens)

\* The send dialog is a modal: it covers the page's other controls.  It is
\* mounted while there is an address, and starts afresh when mounted again.
Covered == dialog # Closed /\ address # None
Remounted == IF dialog # Closed /\ address' = None
             THEN [dialog EXCEPT !.phase = "form", !.send = None] ELSE dialog

Lock == /\ unlocked /\ ~Covered
        /\ unlocked' = FALSE /\ address' = None /\ balance' = None
        /\ dialog' = Closed
        /\ UNCHANGED <<view, sends, log>>
        /\ AddressEffect(asked) /\ BalanceEffect(reads)
        /\ PriceEffect(priced, usd) /\ TokensEffect(listing, tokens)

\* The chain selector and the account switcher.
SelectView(v) == /\ unlocked /\ ~Covered /\ v # view /\ ReadsLeft
                 /\ view' = v
                 /\ UNCHANGED <<unlocked, address, balance, dialog, sends, log>>
                 /\ AddressEffect(asked) /\ BalanceEffect(reads)
                 /\ PriceEffect(priced, usd) /\ TokensEffect(listing, tokens)

\* Mutant: the answer of a cancelled derivation is shown.
AddressArrivesLate(ok) ==
  /\ asked # None /\ ReadsLeft
  /\ \E a \in Views : address' = IF ok THEN a ELSE None
  /\ UNCHANGED <<unlocked, view, balance, dialog, sends, log>>
  /\ AddressEffect(None) /\ BalanceEffect(reads)
  /\ PriceEffect(priced, usd) /\ TokensEffect(listing, tokens)
AddressArrives(ok) ==
  /\ asked # None /\ ReadsLeft
  /\ address' = IF ok THEN asked ELSE None
  /\ dialog' = Remounted
  /\ UNCHANGED <<unlocked, view, balance, sends, log>>
  /\ AddressEffect(None) /\ BalanceEffect(reads)
  /\ PriceEffect(priced, usd) /\ TokensEffect(listing, tokens)

\* refreshBalance has no cancellation: every answer is shown, in the order of
\* arrival.
BalanceArrives(v, ok) ==
  /\ reads[v] > 0
  /\ balance' = IF ok /\ v # Nowhere THEN v ELSE None
  /\ UNCHANGED <<unlocked, view, address, dialog, sends, log>>
  /\ AddressEffect(asked) /\ BalanceEffect([reads EXCEPT ![v] = @ - 1])
  /\ PriceEffect(priced, usd) /\ TokensEffect(listing, tokens)

Refresh == /\ unlocked /\ address # None /\ ~Covered /\ ReadsLeft
           /\ reads' = Read(view, address)
           /\ UNCHANGED <<unlocked, view, address, asked, balance, priced, usd, listing,
                          tokens, dialog, sends, log>>

PriceArrives(known) ==
  /\ priced # None
  /\ priced' = None /\ usd' = IF known THEN priced ELSE None
  /\ UNCHANGED <<unlocked, view, address, asked, balance, reads, listing, tokens,
                 dialog, sends, log>>

TokensArrive == /\ listing # None
                /\ listing' = None /\ tokens' = listing
                /\ UNCHANGED <<unlocked, view, address, asked, balance, reads, priced, usd,
                               dialog, sends, log>>

-----------------------------------------------------------------------------
(* The send dialog, of the native asset or of a token.                     *)

Dialog(d) == dialog' = d /\ UNCHANGED <<unlocked, view, shown>>

OpenSend(token) == /\ unlocked /\ address # None /\ dialog = Closed
                   /\ token => Family[view.chain] = "evm"
                   /\ Dialog([phase |-> "form", token |-> token, send |-> None])
                   /\ UNCHANGED <<sends, log>>

\* toReview: recipient, amount and balance are checked, or an error is shown.
ToReview == /\ Covered /\ dialog.phase = "form"
            /\ Dialog([dialog EXCEPT !.phase = "review"])
            /\ UNCHANGED <<sends, log>>

Back == /\ Covered /\ dialog.phase = "review"
        /\ Dialog([dialog EXCEPT !.phase = "form"])
        /\ UNCHANGED <<sends, log>>

\* The call is made for the view, and with the address, of this render.
Confirm(s) ==
  /\ Covered /\ dialog.phase = "review" /\ sends[s].pc = "none"
  /\ sends' = [sends EXCEPT ![s] = [pc |-> "sending", from |-> view, by |-> address,
                                    token |-> dialog.token]]
  /\ Dialog([dialog EXCEPT !.phase = "sending", !.send = s])
  /\ UNCHANGED log

\* Closing the dialog, at any time, does not stop a send.
CloseSend == /\ Covered
             /\ Dialog(Closed)
             /\ UNCHANGED <<sends, log>>

\* A native send is recorded and the balance read again, with the values the
\* call was made with; a token transfer bypasses the provider.
Sent(s) ==
  /\ sends[s].pc = "sending" /\ ReadsLeft
  /\ sends' = [sends EXCEPT ![s].pc = "sent"]
  /\ dialog' = IF dialog.send = s THEN [dialog EXCEPT !.phase = "sent"] ELSE dialog
  /\ IF sends[s].token THEN UNCHANGED <<log, reads>>
     ELSE /\ log' = log \cup {[send |-> s, view |-> sends[s].from]}
          /\ reads' = Read(sends[s].from, sends[s].by)
  /\ UNCHANGED <<unlocked, view, address, asked, balance, priced, usd, listing, tokens>>

SendFails(s) ==
  /\ sends[s].pc = "sending"
  /\ sends' = [sends EXCEPT ![s].pc = "failed"]
  /\ dialog' = IF dialog.send = s THEN [dialog EXCEPT !.phase = "review", !.send = None]
               ELSE dialog
  /\ UNCHANGED <<unlocked, view, shown, log>>

Next == \/ Unlock \/ Lock \/ Refresh \/ TokensArrive \/ ToReview \/ Back \/ CloseSend
        \/ \E v \in Views : SelectView(v)
        \/ \E ok \in BOOLEAN : AddressArrives(ok) \/ PriceArrives(ok) \/ OpenSend(ok)
        \/ \E v \in Views \cup {Nowhere}, ok \in BOOLEAN : BalanceArrives(v, ok)
        \/ \E s \in SendIds : Confirm(s) \/ Sent(s) \/ SendFails(s)

Spec == Init /\ [][Next]_vars

-----------------------------------------------------------------------------
Anywhere == Views \cup {Nowhere}
TypeOK ==
  /\ unlocked \in BOOLEAN /\ view \in Views
  /\ {address, asked, balance, listing, tokens} \subseteq Anywhere \cup {None}
  /\ reads \in [Anywhere -> Nat]
  /\ {priced, usd} \subseteq (Views \X Anywhere) \cup {None}
  /\ dialog \in [phase: {"closed", "form", "review", "sending", "sent"},
                 token: BOOLEAN, send: SendIds \cup {None}]
  /\ sends \in [SendIds -> [pc: {"none", "sending", "sent", "failed"}, from: Anywhere,
                            by: Views \cup {None}, token: BOOLEAN]]
  /\ log \subseteq [send: SendIds, view: Views]

\* The address offered for receiving money, and the token list, are those of
\* the chain and account on screen as soon as nothing is loading, whatever
\* answers of earlier views are still on their way.
ShownIsOfView ==
  /\ unlocked /\ asked = None => address \in {None, view}
  /\ unlocked /\ asked = None /\ listing = None /\ address # None => tokens = Listed(view, view)

\* A fiat value that is not being recomputed was computed from the balance and
\* the currency on screen.
FiatIsOfBalance == usd # None /\ priced = None => usd = <<view, balance>>

\* A transaction is listed under the chain and account it was broadcast from,
\* also when the view changed, or the wallet was locked, while it was sent.
ListedWhereSent == \A t \in log : t.view = sends[t.send].from /\ sends[t.send].pc = "sent"

\* Once address and chain have settled and nothing is loading, the balance on
\* screen is theirs ("Refresh balance when address/chain settles.",
\* wallet-provider.tsx:139).
BalanceIsOfView ==
  unlocked /\ address = view /\ (\A v \in Anywhere : reads[v] = 0) => balance \in {None, view}

\* Every send of the session is listed ("Sends you make appear here with live
\* status.", asset-detail.tsx:80).
SendsAreListed == \A s \in SendIds : sends[s].pc = "sent" => \E t \in log : t.send = s
=============================================================================
