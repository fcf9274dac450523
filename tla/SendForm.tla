------------------------------- MODULE SendForm -------------------------------
(***************************************************************************)
(* The form of the send dialog (send-dialog.tsx) with its amount box       *)
(* (amount-input.tsx): what is typed, pasted, flipped between dollars and  *)
(* crypto or filled with Max, what the review lets through and what is     *)
(* signed.  What becomes of the send is WalletView's.                      *)
(***************************************************************************)
EXTENDS Payments

CONSTANTS
  Family,      \* of the chain the dialog is opened on
  Token,       \* the token's contract, or None for the native coin
  Decimals,    \* of what is sent
  Addresses, Texts, Requests,  \* what may be typed and pasted
  Dollars,     \* cents typed in the dollar box
  Price,       \* in cents; it may never be known
  Balances     \* what the account may hold

SendAssumption ==
  /\ Decimals \in Nat /\ Price \in Nat \ {0} /\ Balances \cup Dollars \subseteq Nat
  /\ None \notin Nat /\ None \notin Requests /\ \A t \in Texts : t = Blank \/ t \in Nat \X Nat
  /\ \A u \in Requests : IF u.scheme = "bitcoin" THEN u.amount = None \/ u.amount \in Nat \X Nat
                                              ELSE u.value = None \/ u.value \in Nat

VARIABLES
  to, amount,       \* the form
  mode, dollars,    \* of the amount box: its side, and the cents in it or None
  priced, spendable,
  request,          \* the request pasted last and not edited since, or None
  filled,           \* a request set the amount beneath the dollars on show
  phase, signed

vars == <<to, amount, mode, dollars, priced, spendable, request, filled, phase, signed>>
box == <<mode, dollars, filled>>
answers == <<priced, spendable>>

Init == /\ to = None /\ amount = Blank /\ mode = "crypto" /\ dollars = None
        /\ priced = FALSE /\ spendable \in (IF Token = None THEN Balances ELSE {None})
        /\ request = None /\ filled = FALSE /\ phase = "form" /\ signed = {}

Typing == phase = "form"

-----------------------------------------------------------------------------
(* Answers of the worker                                                   *)

GetPrice == /\ ~priced /\ priced' = TRUE /\ UNCHANGED <<to, amount, spendable, request, phase, signed>> /\ UNCHANGED box
\* The balance changes; a token's is read, or not.
GetBalance(b) == /\ b # spendable /\ spendable' = b
                 /\ UNCHANGED <<to, amount, priced, request, phase, signed>> /\ UNCHANGED box

-----------------------------------------------------------------------------
(* The recipient box                                                       *)

TypeAddress(a) == /\ Typing /\ a # to /\ to' = a /\ request' = None
                  /\ UNCHANGED <<amount, phase, signed>> /\ UNCHANGED box /\ UNCHANGED answers

\* onRecipientChange: a request for this family fills the form; any other text
\* stands in the recipient box as it is.
Fills(u) == \/ Parsed(u) # None /\ u.scheme = "bitcoin" /\ Family = "bitcoin"
            \/ Parsed(u) # None /\ u.scheme = "ethereum" /\ Family = "evm" /\ Token = None
\* Its amount: satoshis, or the value of a native transfer, in base units.
AmountIn(u) == IF u.scheme = "bitcoin" THEN Satoshis(u.amount)
               ELSE IF u.function = "transfer" THEN None ELSE u.value
Paste(u) ==
  /\ Typing
  /\ IF Fills(u) THEN /\ to' = u.addr /\ request' = u
                      /\ amount' = IF AmountIn(u) = None THEN amount ELSE FormatWhole(AmountIn(u), Decimals)
                      /\ filled' = (filled \/ (mode = "fiat" /\ AmountIn(u) # None))
     ELSE to' = None /\ request' = None /\ UNCHANGED <<amount, filled>>
  /\ UNCHANGED <<mode, dollars, phase, signed>> /\ UNCHANGED answers

-----------------------------------------------------------------------------
(* The amount box                                                          *)

\* handleType
TypeCrypto(t) == /\ Typing /\ mode = "crypto" /\ t # amount /\ amount' = t /\ request' = None
                 /\ UNCHANGED <<to, phase, signed>> /\ UNCHANGED box /\ UNCHANGED answers
TypeDollars(c) == /\ Typing /\ mode = "fiat" /\ c # dollars /\ dollars' = c
                  /\ amount' = (IF c = None THEN Blank ELSE CryptoOf(c, Price)) /\ request' = None /\ filled' = FALSE
                  /\ UNCHANGED <<to, mode, phase, signed>> /\ UNCHANGED answers

\* flip: the other side takes over what is there.
Flip == /\ Typing /\ priced
        /\ IF mode = "fiat" THEN mode' = "crypto" /\ UNCHANGED dollars
           ELSE mode' = "fiat" /\ dollars' = (IF amount = Blank THEN None ELSE CentsOf(amount, Price))
        /\ filled' = FALSE /\ UNCHANGED <<to, amount, request, phase, signed>> /\ UNCHANGED answers

\* applyMax
MaxText == Format(spendable, Decimals)
ApplyMax == /\ Typing /\ spendable # None /\ amount' = MaxText /\ request' = None
            /\ dollars' = IF mode = "fiat" THEN CentsOf(MaxText, Price) ELSE dollars
            /\ filled' = FALSE /\ UNCHANGED <<to, mode, phase, signed>> /\ UNCHANGED answers

-----------------------------------------------------------------------------
(* Review and confirmation                                                 *)

\* toReview
Fits == Parse(amount, Decimals) > 0 /\ (spendable # None => Parse(amount, Decimals) <= spendable)
ToReview == /\ Typing /\ to # None /\ Valid(Family, to) /\ Fits /\ phase' = "review"
            /\ UNCHANGED <<to, amount, request, signed>> /\ UNCHANGED box /\ UNCHANGED answers
\* The amount box is mounted again, on its crypto side.
Back == /\ phase = "review" /\ phase' = "form" /\ mode' = "crypto" /\ dollars' = None /\ filled' = FALSE
        /\ UNCHANGED <<to, amount, request, signed>> /\ UNCHANGED answers

\* confirm: the transfer of the coin, or a call of the token's transfer; a
\* failing send leaves the review open.
Confirm == /\ phase = "review"
           /\ signed' = {[to |-> to, asset |-> Token, amount |-> Parse(amount, Decimals), of |-> request]}
           /\ phase' \in {"review", "sent"}
           /\ UNCHANGED <<to, amount, request>> /\ UNCHANGED box /\ UNCHANGED answers

-----------------------------------------------------------------------------
Next == \/ GetPrice \/ Flip \/ ApplyMax \/ ToReview \/ Back \/ Confirm
        \/ \E b \in Balances : GetBalance(b)
        \/ \E a \in Addresses : TypeAddress(a)
        \/ \E u \in Requests : Paste(u)
        \/ \E t \in Texts : TypeCrypto(t)
        \/ \E c \in Dollars \cup {None} : TypeDollars(c)
Spec == Init /\ [][Next]_vars

-----------------------------------------------------------------------------
TypeOK == /\ phase \in {"form", "review", "sent"} /\ mode \in {"crypto", "fiat"} /\ (mode = "fiat" => priced)
          /\ (phase # "form" => Valid(Family, to) /\ Parse(amount, Decimals) > 0) /\ \A s, t \in signed : s = t
          /\ request \in Requests \cup {None} /\ filled \in BOOLEAN

\* A request for the coin that was pasted and not edited is paid as it asks:
\* the payee, the asset and, when it names one, the amount ("a scanned/copied
\* request just works").  One for a token is not: its contract is paid.
Wanted(u) == IF u.scheme = "bitcoin" THEN Satoshis(u.amount) ELSE u.value
AsksForCoin(u) == u.scheme = "ethereum" => u.function # "transfer"
RequestIsPaid == \A s \in signed : (s.of # None /\ AsksForCoin(s.of)) =>
  /\ s.to = s.of.addr /\ s.asset = None
  /\ (Wanted(s.of) # None => s.amount = Wanted(s.of))

\* Max is an amount the review lets through, and leaves less than one unit of
\* the last decimal shown.
MaxFits == (spendable # None /\ Decimals >= FormatPlaces) =>
  LET m == Parse(MaxText, Decimals) IN m \in 0..spendable /\ spendable - m < Ten[Decimals - FormatPlaces]

\* While the box is in dollars, the dollars shown are worth the amount that
\* would be signed, to half a cent or half the last decimal kept ("type in
\* dollars, the crypto amount tracks"), unless a request set the amount since:
\* the box keeps the dollars it had.
Abs(n) == IF n < 0 THEN -n ELSE n
Agree(t, c) == 2 * Abs(t[1] * Price - c * Ten[t[2]]) * Ten[TrimPlaces] <= Ten[t[2]] * (IF Price > Ten[TrimPlaces] THEN Price ELSE Ten[TrimPlaces])
DollarsAgree == (phase = "form" /\ mode = "fiat" /\ ~filled) =>
  IF dollars = None \/ amount = Blank THEN dollars \in {None, 0} /\ amount = Blank ELSE Agree(amount, dollars)

\* An amount entered in dollars, or flipped to them and changed, has a
\* precision that the review accepts.
DollarsAreAccepted ==
  [][(mode = "fiat" /\ mode' = "fiat" /\ dollars' # dollars /\ amount' # Blank) => Parse(amount', Decimals) # Refused]_vars

\* The form sends the user away from a recipient exactly when the review
\* refuses it and a family the wallet knows would take it, and to that family.
SignpostLeadsHome == to # None =>
  LET s == Signpost(Family, to)
  IN IF Valid(Family, to) \/ ~\E f \in Families : Valid(f, to) THEN s = "none" ELSE s # Family /\ Valid(s, to)
=============================================================================
