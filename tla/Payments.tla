------------------------------- MODULE Payments -------------------------------
(***************************************************************************)
(* What the send dialog computes (payments/address.ts, payments/uri.ts,    *)
(* chains.ts, amount-input.tsx), as operators.  An address is what its     *)
(* decoders find in it: an encoding whose checksum holds, the bytes, the   *)
(* version and the human-readable part.  A decimal text is <<n, d>>, the   *)
(* number n * 10^-d written with d decimals; Blank is an empty one.        *)
(***************************************************************************)
EXTENDS Integers

CONSTANTS
  None,          \* what is absent
  FormatPlaces,  \* decimals that formatAmount shows (6 in the code)
  TrimPlaces,    \* decimals that trimCrypto keeps (8 in the code)
  SatPlaces      \* decimals of a bitcoin (8 in the code)
ASSUME PlacesAssumption == {FormatPlaces, TrimPlaces, SatPlaces} \subseteq Nat

-----------------------------------------------------------------------------
(* Addresses                                                               *)

Addr(enc, len, ver, hrp) == [enc |-> enc, len |-> len, ver |-> ver, hrp |-> hrp]

IsEvm(a) == a.enc = "hex" /\ a.len = 20
IsSolana(a) == a.enc \in {"base58", "base58check"} /\ a.len = 32
IsSegwit(a) == /\ a.hrp \in {"bc", "tb", "bcrt"} /\ a.ver <= 16
               /\ a.enc = (IF a.ver = 0 THEN "bech32" ELSE "bech32m")
               /\ a.len \in 2..40 /\ (a.ver = 0 => a.len \in {20, 32})
IsLegacy(a) == a.enc = "base58check" /\ a.len = 25 /\ a.ver \in {0, 5, 111, 196}
IsBitcoin(a) == IsSegwit(a) \/ IsLegacy(a)
IsTron(a) == a.enc = "base58check" /\ a.len = 25 /\ a.ver = 65
IsTon(a) == \/ a.enc = "tonraw" /\ a.len = 32
            \/ a.enc = "tonfriendly" /\ a.len = 36 /\ a.ver \in {17, 81}
IsSpark(a) == a.enc = "bech32m" /\ a.hrp \in {"spark", "sparkrt", "sp", "sprt"}

Valid(family, a) ==
  \/ family = "evm" /\ IsEvm(a)
  \/ family = "solana" /\ IsSolana(a)
  \/ family = "bitcoin" /\ IsBitcoin(a)
  \/ family = "ton" /\ IsTon(a)
  \/ family = "tron" /\ IsTron(a)

\* detectPaymentFamily: the checksummed families before the one without.
Detect(a) ==
  IF IsEvm(a) THEN "evm" ELSE IF IsBitcoin(a) THEN "bitcoin" ELSE IF IsSpark(a) THEN "spark"
  ELSE IF IsTron(a) THEN "tron" ELSE IF IsTon(a) THEN "ton" ELSE IF IsSolana(a) THEN "solana" ELSE "none"

Families == {"evm", "solana", "bitcoin", "ton", "tron"}
\* crossVmSignpost: the family that an address of no use here belongs to.
Signpost(family, a) == IF Valid(family, a) \/ Detect(a) \notin Families \ {family} THEN "none" ELSE Detect(a)

-----------------------------------------------------------------------------
(* Decimal texts                                                           *)

\* The powers of ten, which the code writes 10 ** k.
Ten[k \in Nat] == IF k = 0 THEN 1 ELSE 10 * Ten[k - 1]
Blank == <<>>
Refused == -1
Strip(n, d) == LET k == CHOOSE k \in 0..d : n % Ten[k] = 0 /\ \A j \in k + 1..d : n % Ten[j] # 0
               IN <<n \div Ten[k], d - k>>

\* parseAmount: base units, refused when empty or too precise.
Parse(t, decimals) == IF t = Blank \/ t[2] > decimals THEN Refused ELSE t[1] * Ten[decimals - t[2]]

\* formatAmount: truncated to FormatPlaces, without trailing zeros.
Format(base, decimals) ==
  IF decimals <= FormatPlaces THEN Strip(base, decimals)
  ELSE Strip(base \div Ten[decimals - FormatPlaces], FormatPlaces)

\* formatBaseToDecimal: the whole of it.
FormatWhole(base, decimals) == Strip(base, decimals)

Round(x, y) == (2 * x + y) \div (2 * y)
\* Dollars, in cents, to the crypto text and back, at a price in cents.
CryptoOf(cents, price) == IF cents = 0 THEN Blank ELSE Strip(Round(cents * Ten[TrimPlaces], price), TrimPlaces)
CentsOf(t, price) == Round(t[1] * price, Ten[t[2]])

-----------------------------------------------------------------------------
(* Payment requests: a URI is its scheme and its parts; an absent part is  *)
(* None.                                                                   *)

\* parseBip21, parseEip681: the target, or None when the address is wrong.
Parsed(u) ==
  IF u.scheme = "bitcoin" /\ IsBitcoin(u.addr) THEN u
  ELSE IF u.scheme = "ethereum" /\ Detect(u.addr) = "evm" THEN u ELSE None

\* btcToSatoshis
Satoshis(t) == IF t = None THEN None ELSE LET s == Parse(t, SatPlaces) IN IF s = Refused THEN None ELSE s
=============================================================================
