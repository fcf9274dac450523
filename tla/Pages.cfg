SPECIFICATION MCSpec
CONSTANTS
  c1 = c1  c2 = c2  p1 = p1  p2 = p2  h1 = h1  h2 = h2  r1 = r1  r2 = r2
  a = a  b = b  c = c   m1 = m1  m2 = m2  typo = typo  eth = eth  sol = sol  s1 = s1
  None = None
  FormatPlaces = 1
  TrimPlaces = 2
  SatPlaces = 2
  Codes = {c1, c2}  NoCode = NoCode
  Pools = {p1, p2}  Hosts = {h1, h2}  Req = {r1, r2}
  Memory = TRUE  Lucky = TRUE
  Polls = 2  Tries = 2  MaxTips = 1  MaxExpiry = 1
  Rooms = {a, b, c}  MaxAnswers = 2  MaxLost = 1
  Phrases = {m1, m2}  Typos = {typo}  Passwords <- FewPasswords  MinLength = 8  MaxAsked = 3
  Chains = {eth, sol}  Family <- EvmAndSolana  Accounts = {0, 1}  SendIds = {s1}  MaxReads = 1
  Decimals = 3  Price = 3  Addresses <- SomeAddresses  TypedAddresses <- FewAddresses
  Amounts <- OneAmount  TypedAmounts <- SomeAmounts  Dollars = {0, 7, 100, 250}
  PlainRequests <- Bare  EtherRequests <- Ethers  CoinRequests <- Bitcoins  Balances = {0, 999, 1234, 1500}
  Whats = {"blank", "w1"}  Wrong = {"blank"}  NoWhat = "blank"
  Start = 1  MaxRate = 2  SparkCalls = 2  SparkFaults = 1
  Networks = {"ethereum", "arbitrum"}  MaxAmount = 1
  Visits <- FewVisits
  Bundler = TRUE  Paymaster = TRUE  MoonPay = TRUE  DefiReads = 2  DefiFaults = 1
  LookTabs = {"t1", "t2"}  BaseTheme = "warm"
  Swatches = {"warm-orange", "cool-purple"}  Edges = {"rounded", "soft"}
  ColourTexts = {"", "#12", "#0000FF", "warm-orange"}  PickerTexts = {"", "#0000FF"}
  Colours = {"#0000FF", "warm-orange"}
  LegacyStores <- Legacy
  Names = {"GoalTip"}  Images = {"a", "b"}  BigImages = {"b"}  MaxPicks = 1
  Keys = {"bgBase", "textPrimary"}  BrandColours = {"#111111"}  BrandTexts = {"#12"}
INVARIANTS TypesOK RoomsAreDeployed ShownIsCurrent MoneyAsMeant ChoicesSurvive
PROPERTIES RoomsAreKept
CHECK_DEADLOCK FALSE
