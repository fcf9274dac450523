------------------------------- MODULE Pages -------------------------------
(***************************************************************************)
(* The screens of the application and of its component library.  They      *)
(* share no state, so a behaviour is one of a single part, chosen at the   *)
(* start; the variables of the others keep an initial value.               *)
(***************************************************************************)
EXTENDS RoomDirectory, Payments
CONSTANTS
  Rooms, MaxAnswers, MaxLost,                           \* RoomPage
  Phrases, Typos, Passwords, MinLength, MaxAsked,       \* Onboarding
  Chains, Family, Accounts, SendIds, MaxReads,          \* WalletView
  Decimals, Price, Addresses, TypedAddresses, Amounts, TypedAmounts, Dollars,
  PlainRequests, EtherRequests, CoinRequests, Balances, \* SendForm
  Whats, Wrong, NoWhat, Start, MaxRate, SparkCalls, SparkFaults, \* SparkDialog
  Networks, MaxAmount, Visits, Bundler, Paymaster, MoonPay,
  DefiReads, DefiFaults,                     \* DefiPanels
  LookTabs, BaseTheme, Swatches, Edges,
  ColourTexts, PickerTexts, Colours, LegacyStores,      \* Appearance
  Names, Images, BigImages, MaxPicks, Keys, BrandColours, BrandTexts \* Branding

VARIABLES
  part,
  roomStore, party, cache, url, roomCalls, roomBusy, syncing, escrow,
  roomChosen, rushed, roomExpiries,
  step, acknowledged, box, copied, wizardInput, invalid, wizardBusy,
  wizardAsked, creating, proven, vault,
  unlocked, view, address, viewAsked, viewBalance, viewReads, viewPriced, usd,
  listing, tokens, dialog, sends, log,
  to, amount, mode, dollars, formPriced, spendable, request, filled, phase, signed,
  status, sparkBalance, pane, sparkInput, sparkQuote, sparkBusy, sparkDone,
  sparkMount, sparkCalls, sparkAsked, sparkReads, sats, rate, exits, edited,
  missed, sparkFaults,
  visit, form, chain, available, gasless, defiInput, defiQuote, defiBusy, defiDone,
  position, defiReads, defiMount, defiCalls, defiAsked, allowance, halted,
  stale, crossed, defiFaults,
  lookOpen, theme, hex, lookBrand, draft, lookPage, lookStore, works,
  lookChosen, alone, picked, reset,
  shown, brandBrand, colours, brandReads, picks, saved, savedColours

-----------------------------------------------------------------------------
(* The parts                                                               *)

Page == INSTANCE RoomPage WITH
  NoRoom <- NoCode, MaxCalls <- MaxAnswers, MaxExpiry <- MaxLost,
  store <- roomStore, calls <- roomCalls, busy <- roomBusy,
  chosen <- roomChosen, expiries <- roomExpiries

Wizard == INSTANCE Onboarding WITH
  input <- wizardInput, busy <- wizardBusy, asked <- wizardAsked

View == INSTANCE WalletView WITH
  asked <- viewAsked, balance <- viewBalance, reads <- viewReads,
  priced <- viewPriced

\* A form whose amounts are typed, in the coin and in dollars; one whose
\* requests carry amounts; and one of a bitcoin account.
Typing == INSTANCE SendForm WITH
  Family <- "evm", Token <- None, Addresses <- TypedAddresses, Texts <- TypedAmounts,
  Requests <- PlainRequests, priced <- formPriced
Asking == INSTANCE SendForm WITH
  Family <- "evm", Token <- None, Texts <- Amounts, Requests <- EtherRequests, Dollars <- {},
  priced <- formPriced
Bitcoin == INSTANCE SendForm WITH
  Family <- "bitcoin", Token <- None, Decimals <- SatPlaces, Texts <- Amounts,
  Requests <- CoinRequests, Dollars <- {}, priced <- formPriced

Spark == INSTANCE SparkDialog WITH
  Blank <- NoWhat, MaxCalls <- SparkCalls, MaxFaults <- SparkFaults,
  balance <- sparkBalance, input <- sparkInput, quote <- sparkQuote,
  busy <- sparkBusy, done <- sparkDone, mount <- sparkMount,
  calls <- sparkCalls, asked <- sparkAsked, reads <- sparkReads,
  faults <- sparkFaults

Defi == INSTANCE DefiPanels WITH
  Chains <- Networks, MaxReads <- DefiReads, MaxFaults <- DefiFaults,
  input <- defiInput, quote <- defiQuote, busy <- defiBusy, done <- defiDone,
  reads <- defiReads, mount <- defiMount, calls <- defiCalls,
  asked <- defiAsked, faults <- defiFaults

\* The application's provider, with what earlier versions may have stored, and
\* the library's theme picker as its documentation uses it.
NoStore == [prefs |-> None, hex |-> None, migrated |-> FALSE, brand |-> None]
App == INSTANCE Appearance WITH
  Tabs <- LookTabs, InApp <- TRUE, Base <- BaseTheme, Texts <- ColourTexts, Hexes <- Colours, Stores <- LegacyStores,
  open <- lookOpen, brand <- lookBrand, page <- lookPage, store <- lookStore,
  chosen <- lookChosen
Picker == INSTANCE Appearance WITH
  Tabs <- LookTabs, InApp <- FALSE, Base <- BaseTheme, Texts <- PickerTexts, Hexes <- Colours, Stores <- {NoStore},
  open <- lookOpen, brand <- lookBrand, page <- lookPage, store <- lookStore,
  chosen <- lookChosen

Brand == INSTANCE Branding WITH
  TooBig <- BigImages, MaxReads <- MaxPicks, Hexes <- BrandColours, Texts <- BrandTexts,
  brand <- brandBrand, reads <- brandReads

ASSUME PagesAssumption ==
  /\ Page!RoomPageAssumption /\ Wizard!OnboardingAssumption /\ View!ViewAssumption
  /\ Typing!SendAssumption /\ Asking!SendAssumption /\ Bitcoin!SendAssumption
  /\ Spark!SparkAssumption /\ Defi!DefiAssumption
  /\ App!AppearanceAssumption /\ Picker!AppearanceAssumption /\ Brand!BrandingAssumption

-----------------------------------------------------------------------------
(* One part at a time                                                      *)

roomVars == <<roomStore, party, cache, url, roomCalls, roomBusy, syncing, escrow,
  roomChosen, rushed, roomExpiries>>
wizardVars == <<step, acknowledged, box, copied, wizardInput, invalid, wizardBusy,
  wizardAsked, creating, proven, vault>>
viewVars == <<unlocked, view, address, viewAsked, viewBalance, viewReads, viewPriced, usd,
  listing, tokens, dialog, sends, log>>
formVars == <<to, amount, mode, dollars, formPriced, spendable, request, filled, phase, signed>>
sparkVars == <<status, sparkBalance, pane, sparkInput, sparkQuote, sparkBusy, sparkDone,
  sparkMount, sparkCalls, sparkAsked, sparkReads, sats, rate, exits, edited,
  missed, sparkFaults>>
defiVars == <<visit, form, chain, available, gasless, defiInput, defiQuote, defiBusy, defiDone,
  position, defiReads, defiMount, defiCalls, defiAsked, allowance, halted,
  stale, crossed, defiFaults>>
lookVars == <<lookOpen, theme, hex, lookBrand, draft, lookPage, lookStore, works,
  lookChosen, alone, picked, reset>>
brandVars == <<shown, brandBrand, colours, brandReads, picks, saved, savedColours>>
all == <<part, vars, roomVars, wizardVars, viewVars, formVars, sparkVars, defiVars, lookVars, brandVars>>
Parts == {"directory", "page", "wizard", "view", "typing", "asking", "bitcoin",
          "spark", "defi", "app", "picker", "brand"}

OneOf(S) == CHOOSE x \in S : TRUE
\* A part that has several initial states has one of them when it is idle.
MCInit ==
  /\ part \in Parts /\ Init
  /\ Page!Init /\ (part # "page" => roomStore = {} /\ cache = NoCode /\ url = NoCode)
  /\ Wizard!Init
  /\ View!Init /\ (part # "view" => view = OneOf(View!Views))
  /\ IF part = "typing" THEN Typing!Init ELSE Asking!Init /\ (part \notin {"asking", "bitcoin"} => spendable = OneOf(Balances))
  /\ Spark!Init
  /\ Defi!Init /\ (part # "defi" => visit = OneOf(Visits) /\ form = OneOf(visit.forms) /\ chain = OneOf(Networks))
  /\ IF part = "app" THEN App!Init ELSE Picker!Init /\ (part # "picker" => works)
  /\ Brand!Init /\ (part # "brand" => saved = None)

\* A step of a part leaves every other one alone.
Directory == /\ part = "directory" /\ Next
             /\ UNCHANGED <<part, roomVars, wizardVars, viewVars, formVars, sparkVars, defiVars, lookVars, brandVars>>
RoomScreen == /\ part = "page" /\ Page!Next
              /\ UNCHANGED <<part, vars, wizardVars, viewVars, formVars, sparkVars, defiVars, lookVars, brandVars>>
OnboardingScreens == /\ part = "wizard" /\ Wizard!Next
                     /\ UNCHANGED <<part, vars, roomVars, viewVars, formVars, sparkVars, defiVars, lookVars, brandVars>>
WalletScreen == /\ part = "view" /\ View!Next
                /\ UNCHANGED <<part, vars, roomVars, wizardVars, formVars, sparkVars, defiVars, lookVars, brandVars>>
Sending == /\ \/ part = "typing" /\ Typing!Next
              \/ part = "asking" /\ Asking!Next
              \/ part = "bitcoin" /\ Bitcoin!Next
           /\ UNCHANGED <<part, vars, roomVars, wizardVars, viewVars, sparkVars, defiVars, lookVars, brandVars>>
SparkScreen == /\ part = "spark" /\ Spark!Next
               /\ UNCHANGED <<part, vars, roomVars, wizardVars, viewVars, formVars, defiVars, lookVars, brandVars>>
DefiScreens == /\ part = "defi" /\ Defi!Next
               /\ UNCHANGED <<part, vars, roomVars, wizardVars, viewVars, formVars, sparkVars, lookVars, brandVars>>
Theming == /\ \/ part = "app" /\ App!Next
              \/ part = "picker" /\ Picker!Next
           /\ UNCHANGED <<part, vars, roomVars, wizardVars, viewVars, formVars, sparkVars, defiVars, brandVars>>
Naming == /\ part = "brand" /\ Brand!Next
          /\ UNCHANGED <<part, vars, roomVars, wizardVars, viewVars, formVars, sparkVars, defiVars, lookVars>>

MCNext == \/ Directory \/ RoomScreen \/ OnboardingScreens \/ WalletScreen \/ Sending
          \/ SparkScreen \/ DefiScreens \/ Theming \/ Naming
MCSpec == MCInit /\ [][MCNext]_all

-----------------------------------------------------------------------------
\* The variables of every part keep to their types.
TypesOK ==
  /\ TypeOK
  /\ part = "page" => Page!TypeOK
  /\ part = "wizard" => Wizard!TypeOK
  /\ part = "view" => View!TypeOK
  /\ part = "typing" => Typing!TypeOK
  /\ part = "asking" => Asking!TypeOK
  /\ part = "bitcoin" => Bitcoin!TypeOK
  /\ part = "spark" => Spark!TypeOK
  /\ part = "defi" => Defi!TypeOK
  /\ part = "app" => App!TypeOK
  /\ part = "picker" => Picker!TypeOK
  /\ part = "brand" => Brand!TypeOK

\* What a screen shows is current, however late an answer comes.  The room, its
\* escrow and what a reload comes back to, until the user goes elsewhere during
\* a call (watch-party-screen.tsx:667, where Leave is not disabled).  Address,
\* tokens and fiat value of the account in view (wallet-provider.tsx).  Quotes,
\* unless amount, recipient or network change under their call (the inputs are
\* not disabled either, spark-dialog.tsx:297, defi-panels.tsx:149); the lending
\* position of the network in use; the Spark balance, once nothing is under way
\* and nothing happened that the dialog does not follow.  And no form is stuck,
\* or free to put its call twice.
ShownIsCurrent ==
  /\ part = "page" => Page!ShownIsChosen /\ Page!EscrowOfShown /\ Page!ReloadComesBack
  /\ part = "view" => View!ShownIsOfView /\ View!FiatIsOfBalance
  /\ part = "spark" => Spark!BusyWithMine /\ Spark!QuoteOfInputs /\ Spark!BalanceFollows
  /\ part = "defi" => Defi!BusyWithMine /\ Defi!QuoteOfInputs /\ Defi!PositionOfChain

\* Money goes where the user meant it: a vault can be restored (onboarding); a
\* send is listed where it was made; a request for the coin that was pasted and
\* not edited is paid as it asks, where one for a token is not
\* (send-dialog.tsx:98); Max can be sent; dollars agree with the coin unless a
\* request set the amount beneath them (amount-input.tsx:65); the signpost leads
\* home; a withdrawal pays a fee quoted for its speed; an approved bridge finds
\* its approval unless another of its account was given meanwhile, and leaves
\* none behind unless it failed (wallet-worker.ts:704).
MoneyAsMeant ==
  /\ part = "wizard" => Wizard!VaultIsRestorable
  /\ part = "view" => View!ListedWhereSent
  /\ part = "typing" => Typing!MaxFits /\ Typing!DollarsAgree /\ Typing!SignpostLeadsHome
  /\ part = "asking" => Asking!RequestIsPaid /\ Asking!SignpostLeadsHome
  /\ part = "bitcoin" => Bitcoin!RequestIsPaid /\ Bitcoin!SignpostLeadsHome
  /\ part = "spark" => Spark!ExitsAreBound
  /\ part = "defi" => Defi!ApprovedIsBridged

\* The look of a tab that was the only one, and the last reset in it, are those
\* of the next visit: in the application always (appearance-provider.tsx), of the
\* library's picker once the edges are a style of it (a theme with others is not
\* stored, use-theme-picker.ts:78).  So are the brand's colours, and the brand
\* unless an image of it exceeds the quota (use-brand-picker.ts:49).  The page's
\* variables are those of the theme in effect, and nothing of an older version's
\* storage shows through.
ChoicesSurvive ==
  /\ part = "app" => App!VisitIsSame /\ App!DraftAgrees /\ App!OldVisitsAreForgotten /\ App!ResetStands
  /\ part = "picker" => /\ Picker!PageIsTheme /\ Picker!MutedIsReadable
                        /\ Picker!PicksSurvive /\ Picker!SwatchIsShown
  /\ part = "brand" => Brand!BrandSurvives
============================================================================
