------------------------------ MODULE Onboarding ------------------------------
(***************************************************************************)
(* The first-run wizard (onboarding-flow.tsx) with the recovery-phrase and *)
(* password screens of wdk-ui.  The worker answers the wizard's questions  *)
(* in the order they were asked, while the user goes on clicking.          *)
(***************************************************************************)
EXTENDS Naturals, Sequences, FiniteSets

CONSTANTS
  Phrases,     \* recovery phrases, valid ones
  Typos,       \* texts that are no recovery phrase
  Passwords,   \* [len |-> length, classes |-> kinds of characters in it]
  MinLength,   \* PasswordSetupScreen's minLength
  MaxAsked,    \* bound: questions under way at once
  None

OnboardingAssumption ==
  /\ Phrases \cap Typos = {} /\ None \notin Phrases \cup Typos
  /\ MinLength \in Nat /\ MaxAsked \in Nat

VARIABLES
  step,          \* the wizard's screen and the phrase it carries
  acknowledged,  \* the wizard's copy of the "I have saved it" box
  box,           \* the box itself, in MnemonicDisplay
  copied,        \* the phrase last copied to the clipboard
  input,         \* the text of the import field
  invalid,       \* the import field shows an error
  busy,          \* a phrase is being generated
  asked,         \* questions to the worker, oldest first
  creating,      \* the phrase handed to createVault, while it is under way
  proven,        \* ghost: phrases typed back from the backup, or found valid
  vault          \* the phrase of the vault that was created

vars == <<step, acknowledged, box, copied, input, invalid, busy, asked, creating, proven, vault>>
form == <<acknowledged, box, copied, input, invalid>>
outcome == <<creating, proven, vault>>

Texts == Phrases \cup Typos
Screens == {"choice", "create-show", "create-verify", "create-password",
            "import-input", "import-password"}
At(name) == step.name = name
Screen(name, phrase) == step' = [name |-> name, phrase |-> phrase]
Ask(what, text) == /\ Len(asked) < MaxAsked
                   /\ asked' = Append(asked, [what |-> what, text |-> text])

\* evaluatePasswordStrength
Strength(p) ==
  IF p.len = 0 THEN "none"
  ELSE IF p.len < MinLength THEN "weak"
  ELSE IF p.len >= 12 /\ p.classes >= 3 THEN "strong"
  ELSE IF p.classes >= 2 THEN "fair" ELSE "weak"

Init == /\ step = [name |-> "choice", phrase |-> None]
        /\ acknowledged = FALSE /\ box = FALSE /\ copied = None
        /\ input = None /\ invalid = FALSE /\ busy = FALSE /\ asked = <<>>
        /\ creating = None /\ proven = {} /\ vault = None

-----------------------------------------------------------------------------
StartCreate == /\ At("choice") /\ ~busy
               /\ busy' = TRUE /\ Ask("generate", None)
               /\ UNCHANGED <<step, form, outcome>>

\* Importing stays possible while a phrase is generated.
StartImport == /\ At("choice")
               /\ Screen("import-input", None)
               /\ UNCHANGED <<form, busy, asked, outcome>>

\* The wizard goes to the new phrase from wherever it is; the display is
\* mounted with its box empty.
Generated(m) ==
  /\ asked # <<>> /\ Head(asked).what = "generate"
  /\ asked' = Tail(asked) /\ busy' = FALSE
  /\ acknowledged' = FALSE /\ box' = IF At("create-show") THEN box ELSE FALSE
  /\ Screen("create-show", m)
  /\ UNCHANGED <<copied, input, invalid, outcome>>

Acknowledge == /\ At("create-show")
               /\ box' = ~box /\ acknowledged' = ~box
               /\ UNCHANGED <<step, copied, input, invalid, busy, asked, outcome>>

Copy == /\ At("create-show") /\ box
        /\ copied' = step.phrase
        /\ UNCHANGED <<step, acknowledged, box, input, invalid, busy, asked, outcome>>

ContinueToVerify == /\ At("create-show") /\ acknowledged
                    /\ Screen("create-verify", step.phrase)
                    /\ UNCHANGED <<form, busy, asked, outcome>>

\* MnemonicVerify compares three words with the user's backup, which is of
\* some phrase; a mismatch only shows an error.
Verified(backup) ==
  /\ At("create-verify") /\ backup = step.phrase
  /\ Screen("create-password", step.phrase)
  /\ proven' = proven \cup {backup}
  /\ UNCHANGED <<form, busy, asked, creating, vault>>

\* The display is mounted again, its box empty; the wizard's copy is kept.
BackToShow == /\ At("create-verify")
              /\ Screen("create-show", step.phrase)
              /\ box' = FALSE
              /\ UNCHANGED <<acknowledged, copied, input, invalid, busy, asked, outcome>>

Type(text) == /\ At("import-input")
              /\ input' = text /\ invalid' = FALSE
              /\ UNCHANGED <<step, acknowledged, box, copied, busy, asked, outcome>>

\* The field stays editable, and the button enabled, while the worker checks.
ConfirmImport == /\ At("import-input") /\ input # None
                 /\ Ask("validate", input)
                 /\ UNCHANGED <<step, form, busy, outcome>>

BackToChoice == /\ At("import-input")
                /\ Screen("choice", None)
                /\ UNCHANGED <<form, busy, asked, outcome>>

\* The answer is about the text that was asked about.
\* Mutant: it is taken to be about the text now in the field.
ValidatedLate ==
  /\ asked # <<>> /\ Head(asked).what = "validate"
  /\ asked' = Tail(asked)
  /\ IF Head(asked).text \in Phrases
     THEN /\ invalid' = FALSE /\ proven' = proven \cup {Head(asked).text}
          /\ Screen("import-password", input)
     ELSE invalid' = TRUE /\ UNCHANGED <<proven, step>>
  /\ UNCHANGED <<acknowledged, box, copied, input, busy, creating, vault>>
\* Mutant: the answer is not looked at.
ValidatedAnyway ==
  /\ asked # <<>> /\ Head(asked).what = "validate"
  /\ asked' = Tail(asked) /\ invalid' = FALSE
  /\ proven' = proven \cup {Head(asked).text}
  /\ Screen("import-password", Head(asked).text)
  /\ UNCHANGED <<acknowledged, box, copied, input, busy, creating, vault>>
Validated ==
  /\ asked # <<>> /\ Head(asked).what = "validate"
  /\ asked' = Tail(asked)
  /\ IF Head(asked).text \in Phrases
     THEN /\ invalid' = FALSE /\ proven' = proven \cup {Head(asked).text}
          /\ Screen("import-password", Head(asked).text)
     ELSE invalid' = TRUE /\ UNCHANGED <<proven, step>>
  /\ UNCHANGED <<acknowledged, box, copied, input, busy, creating, vault>>

\* PasswordSetupScreen: one submission at a time; both fields alike, long and
\* varied enough, or an error is shown.  Assumed: typing a password takes
\* longer than the worker's answer to a question asked before.
SubmitPassword(password, confirm) ==
  /\ step.name \in {"create-password", "import-password"}
  /\ creating = None /\ asked = <<>>
  /\ password.len >= MinLength /\ password = confirm
  /\ Strength(password) # "weak"
  /\ creating' = step.phrase
  /\ UNCHANGED <<step, form, busy, asked, proven, vault>>

\* createVault succeeds, and the wizard is unmounted, or fails and may be
\* submitted again.
Created(ok) == /\ creating # None
               /\ vault' = IF ok THEN creating ELSE vault
               /\ creating' = None
               /\ UNCHANGED <<step, form, busy, asked, proven>>

Next == /\ vault = None
        /\ \/ StartCreate \/ StartImport \/ Acknowledge \/ Copy \/ ContinueToVerify
           \/ BackToShow \/ ConfirmImport \/ BackToChoice \/ Validated
           \/ \E m \in Phrases : Generated(m) \/ Verified(m)
           \/ \E t \in Texts : Type(t)
           \/ \E p, q \in Passwords : SubmitPassword(p, q)
           \/ \E ok \in BOOLEAN : Created(ok)

Spec == Init /\ [][Next]_vars

-----------------------------------------------------------------------------
Optional == Texts \cup {None}

TypeOK == /\ step \in [name: Screens, phrase: Optional]
          /\ acknowledged \in BOOLEAN /\ box \in BOOLEAN
          /\ copied \in Phrases \cup {None} /\ input \in Optional /\ invalid \in BOOLEAN
          /\ busy \in BOOLEAN
          /\ asked \in Seq([what: {"generate", "validate"}, text: Optional])
          /\ creating \in Phrases \cup {None} /\ vault \in Phrases \cup {None}
          /\ proven \subseteq Phrases

\* The wallet that opens is one its owner can restore: its phrase was typed
\* back from the backup of that very phrase, or was imported and found valid,
\* however the answers of the worker and the edits of the user overlapped.
VaultIsRestorable == {creating, vault} \subseteq proven \cup {None}

\* The wizard moves on only past a box that is ticked: MnemonicDisplay calls
\* onAcknowledged "so the parent can gate Continue on it"
\* (mnemonic-display.tsx:20).
ContinueIsGated == At("create-show") /\ acknowledged => box
=============================================================================
