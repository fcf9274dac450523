# GoalTip in TLA+

GoalTip is a self-custodial wallet for football watch parties. A host opens a room for a match, fans tip one of the
two nations in test USDt, and the host settles the match. The money is held by one `TipPool` contract per room on
Sepolia. A shared board, served by the web app's API, shows what has been tipped. The two are kept together by
transaction receipts only: the API asks a Sepolia RPC for the receipt behind every claim, the contract knows nothing
of the board. Keys live in a Web Worker over an encrypted vault; around it are the wallet's screens, adapters to
chains and services, and two optional sidecars.

This directory models that system and checks it with TLC; TLAPS proves the main safety results for all values of the
constants. Paths below are relative to `src/`.

## 1. The system

| component | state | operations | who it talks to |
|---|---|---|---|
| `TipPool` (`contracts/src/TipPool.sol`) | host, `settled`, `winnerNationId`, `settledAmount`, its USDt balance | `tip`, `settle`; USDt can also be transferred in plainly | called by wallets; read through receipts |
| Party API (`apps/web/src/app/api/party`, `lib/party-server.ts`) | requests in flight | create, read, append a tip, settle | reads the chain, reads and writes the store |
| Store (`lib/party-server.ts` 46-122, 180-190) | one JSON document per room, seven-day TTL | GET and SET on Upstash Redis, or an in-memory `Map` | the API only |
| Verification (`lib/verify-*.ts`) | none | tip, settle and deploy receipts against a claim | Sepolia RPC |
| Watch-party page (`components/watch-party-screen.tsx`, `lib/party-store.ts`, `lib/tip-pool.ts`) | the room as React state and in `localStorage`, optimistic tips, one busy handler | create, join, hydrate or republish, poll every 4 s, refresh, tip, settle, leave | API, wallet worker, RPC, Pears |
| Wallet worker and vault (`packages/wdk-web-core/src/worker`, `src/vault`, `src/chains/registry.ts`) | encrypted seed at rest; manager and mnemonic in memory; wallets registered with a manager | store, load, lock, clear, account and protocol calls | called by the page over Comlink |
| Wallet provider (`apps/web/src/wallet`, onboarding, unlock, dashboard, send) | phase; chain, account and what was read of them; sent transactions | create, import, unlock, lock, reset, switch, send, status poll | the worker, the adapters |
| Subscriptions (`adapters/subscription.ts`) | one socket per URL, its registrations and server ids | subscribe, unsubscribe, reconnect | WebSocket RPC |
| RPC adapter (`adapters/rpc.ts`, `retry.ts`, `rate-limit.ts`) | a token bucket and its queue | balance and status reads | chains |
| Indexer adapters (`adapters/indexer.ts`) | none; cursors go to the caller | pages of history, fallback | HTTP services |
| Pears sidecar (`pears/server.mjs`, `lib/pears-client.ts`) | rooms: swarm, peers, tips heard of | join, announce, status, tips | peers; its gossip makes a page poll |
| Coach sidecar (`coach/server.mjs`) | a lazily loaded model | ask, health | the coach tab |
| Forms and looks (`spark-dialog.tsx`, `defi-panels.tsx`, `packages/wdk-ui`) | inputs, quotes, calls under way; theme, colours and brand in `localStorage` | see section 2 | worker; the page |

**A tip.** The page checks that the room is open and the spend limit allows the tip, in its own copy of the room;
approves USDt if need be; signs `tip`; writes an optimistic entry; waits for the receipt; posts the tip. The API reads
the room, verifies the receipt, reads the room *again*, checks lock, duplicates and cap, and writes the *whole*
document back. If the post fails the page tries once more two seconds later.
**A settlement.** The host's page signs `settle`, waits for the receipt, posts it; the API verifies the `Settled` log
and locks the board.
**A session.** The page boots into onboarding or the lock screen, stores and loads a vault, and calls the worker; a
lock, a reset or a second load may overlap any call under way.

**What is hard here.** A request spans several awaits, and so does a page's handler and a worker's call; all act on
copies that go stale. Answers, receipts and polls arrive late, out of order or not at all. A page can be closed
between the chain step and the board step. The store's key expires or its process restarts, and a page with a cached
copy then republishes the room, empty. Sockets drop, sidecars restart, forms are left and opened again while their
call is under way. `PROJECT.json` lists every such hazard at its line with the properties aimed at it, or why there is
none.

**What makes each part correct.** The contract: no tip is stranded, the outcome is final, its receipts are truthful.
The API: the board shows only what the chain proves, within the cap; accepted tips stay; the lock is true and final; a
room is its host's and no create gives it away. The page: it never shows more than was proved; it catches up with the
board; its handlers end; the two halves of a tip or a settlement both happen. The wallet: behind a locked screen no
wallet is in use; a call signs with the seed it was made with; a stored wallet is not overwritten, and the open one is
the stored one. The services: what they tell the wallet is so, and arrives. The screens: what is shown is current,
money goes where the user meant it, choices survive a reload.

## 2. Modules

Money and the board:

| module | models | state and actions in terms of the code |
|---|---|---|
| `EscrowLedger` | what a reader of Sepolia sees | `receipt[h]` is what `eth_getTransactionReceipt` answers, told apart by its logs; `escrow` is `balanceOf(pool)`; `open` is `!settled` |
| `TipPool` | the contract, the token calls it makes, the life of a transaction | `Tip`, `Settle` and `Revert` are the contract's functions; `Submit`, `Approve`, `Transfer` are wallets and the token; `tipped` and `donated` are history |
| `Party` | `WatchParty`, `TipRecord` and the checks on them | `Appendable` is `appendSharedTip` up to its save, `Verified` and `SettledLog` are what the verifiers accept, `settledAmountUsdt` the rounding of verify-settle-tx.ts:111 |
| `PartyBoard` | the abstract board: one document that changes atomically | `Publish`, `Accept`, `LockBoard`, `Vanish` |
| `PartyServer` | the API over its store, await by await | `pc[r]` is where request `r` awaits, `body[r]` what it was asked, `doc[r]` what it is about to save; `accepted` is history |
| `RoomDirectory` | how rooms get codes: `POST /api/party` | `store[c]` is the room of code `c`, a pool, its host and a count of tips; `pc`, `body`, `tried` are a request's await, its body, and how often it looked for the receipt or a code |
| `WatchParty` | the pages of one room, over `PartyBoard` and `EscrowLedger` | `view` and `optimistic` are a page's copy of the room (React state and `localStorage` are written together), `handler`, `closure`, `job` its busy handler, `reply` a GET under way |
| `RoomPage` | which of several rooms a page shows | `party`, `cache`, `url`, `escrow` are the React state, `localStorage`, `?room=` and the balance beside the board; `calls` are answers still to come |

The wallet:

| module | models | state and actions in terms of the code |
|---|---|---|
| `WalletWorker` | the worker's calls, await by await, over one vault row | `blob` is the IndexedDB row, `wdk` and `managers` the manager in use and every one ever built, with those that a gasless (ERC-4337) or Spark call builds of the mnemonic and nobody disposes (`further`), `call[c]` a call with its await and what it captured, `effects` what was broadcast; `overtaken` and `stored` are history |
| `WalletSession` | the page's phase over `WalletWorker` | `phase` is the provider's; `op[c]` is the operation that awaits call `c`; `locking` a lock under way. The phase "none" is a program that drives the worker without this page, so that the worker's own interleavings are checked in the same run |
| `Onboarding` | the first-run wizard | `step`, the fields of its screens, `asked` the questions the worker has yet to answer, `proven` the phrases whose backup was typed back or that were found valid |
| `WalletView` | what the open wallet shows, and the send dialog | `view` is chain and account; `address`, `balance`, `usd`, `tokens` what is shown, named by what it was read of; `asked`, `reads`, `priced`, `listing` questions under way |
| `TxStatus` | the list of sent transactions and its poll | `watched` is the effect's set, `toAsk` and `answers` its calls, `rounds` its counter |
| `Payments`, `SendForm` | addresses, payment requests, decimal texts; the form that uses them | an address is what its decoders find; a decimal text is a number and its decimals; `signed` is what was sent, with the request it was `of` |
| `SparkDialog`, `DefiPanels` | the Spark, lending, swap, bridge, gasless and buy forms and the worker calls behind them | `calls` are calls under way with the stage they reached; `mount` tells calls of the form on screen from those of forms that were left; `sats`, `exits`, `allowance` are the services' |
| `Appearance`, `Branding` | theme, custom colour, brand and their storage | one action is a handler, the render it causes and that render's effects; `store`, `saved` are `localStorage` |

The services:

| module | models | state and actions in terms of the code |
|---|---|---|
| `Subscription` | `subscribe`, `connect`, `reestablish`, `maybeClose` and the timers | `conn[c]` is a connection: socket, attempts, registrations, `byServerId`; `client[s]` where a subscriber awaits; `loop[k]` a reconnect and its walk over the live set; `wire[c]` the provider; `past[c]` is history |
| `RpcReads` | a balance read: retries, back-off, token bucket | `queue`, `sleep`, `level`, `elapsed` are the limiter's; `ages` are the ages of the latest starts |
| `History` | a reader of pages from one adapter or the fallback | `cursor`, `list` are the reader's; transactions are numbered in the order they were mined |
| `PearsGossip` | the sidecars of a room, Hyperswarm, the pages that poll them | `room[n]`, `swarm[w]` are the map of a sidecar and its room objects, `pc`, `obj` a request's await and the room it holds, `ends`, `sent` connections and messages |
| `Coach` | the sidecar's lazy model and the tab | `stage[q]` is what question `q` awaits; `mine` the question the tab waits for |

`Services` composes the services, `Pages` the screens and the directory of rooms. `MCTipPool`, `MCPartyServer`,
`MCWatchParty`, `MCWallet`, `MCServices` and `MCPages` hold model values and symmetry (section 3). `Sums` and the
`*Proofs` modules hold theorems (section 5).

How they fit. `TipPool` implements `EscrowLedger` (property and theorem `ImplementsLedger` / `Refines`); `PartyServer`
and `WatchParty` are composed with `EscrowLedger`, so with anything that implements it. `PartyServer` with the
in-memory store implements `PartyBoard` (`ImplementsBoard`, `AtomicInMemory`); `WatchParty` is composed with
`PartyBoard`. With Redis that step is not available, as `redis_accepted` shows, so `WatchParty` says what the pages
add on top of a board that is itself right. `RoomDirectory` is about many rooms and their codes, `PartyServer` about
what happens to one of them. `WalletSession` is `WalletWorker` with the page in front, and implements it
(`SessionImplementsWorker`). `SendForm` uses `Payments`; the other screens and services share no state with each
other.

Abstractions, board. Amounts are numbers of base units; hashes, addresses and nation ids are compared after
normalisation, as the code does; the newest-first order of tips and timestamps are left out. The cap is compared
exactly where the code adds floats with an epsilon. The settled amount is stored as the text that `toFixed(2)` makes of
it (verify-settle-tx.ts:111), so the board holds the contract's payout to the nearest cent; `Cent` is how many base
units a cent is, and half a cent may go either way, as the float falls. A tip with no receipt, a wrong log, an RPC
error or a function timeout is one `Refuse`. Approving is part of the wait before `SignTip`. One room, whose nations,
pool, host and cap are constants, and a republished room has them again: `createSharedParty` refuses one with other
nations or another pool and answers any other with the room that exists, comparing neither cap nor host
(party-server.ts:153-158). Legacy rooms without `hostAddress` are left out: the create route no longer makes them.

*Why memory means atomic.* `appendSharedTip` and `settleSharedParty` await `getSharedParty`, which in memory does no
I/O. Between the read and the `Map.set` only microtasks run, and every other request is at an await on a fetch or on
its own microtask chain, started from its own event. `MayRun` says exactly this, for one process; a deployment of
several processes without Redis has several unrelated boards.

Abstractions, wallet. Key derivation and AES are opaque: a row opens with its password and with no other. One tab has
the origin. An account call is any of the worker's calls that take the manager, await, and then sign or send; a bridge
is told apart because it sends twice. In `Onboarding`, typing a password outlasts the worker's answers. In
`WalletView` a question an effect asks replaces the one before, as its cancel flag does; balance reads have no such
flag and are all kept. `SendForm` scales decimals down in the code's order (token = shown < trimmed = bitcoin <
native). `SparkDialog` and `DefiPanels` treat the protocols as external; a payment is one sat. The Spark, lend, swap
and buy screens are not mounted by the app's shell at this commit, and the brand picker is the component library's;
they are modelled as their own documentation mounts them.

Abstractions, services. In `Subscription` the code between two awaits and what a settled promise resumes is one
action; the provider answers calls in any order and numbers its subscriptions from 1 on each socket; a reconnect
visits the registrations there are, which the code keeps in order of insertion, in any order. In `PearsGossip`
a connection keeps the order and limits of its messages, tips are announced only after the board took them, and rooms
do not expire. In `RpcReads` time is ages and countdowns in ticks and a token is counted in parts, so no float is
rounded. In `History` the services list what matches, newest first.

## 3. Runs

| run | configuration | what it shows |
|---|---|---|
| `tippool` | `MCTipPool.cfg` | two wallets, four transactions, amounts 0 and 1, two USDt each: every order of approvals, transfers, tips and settlements. Four is what it takes for approve, tip, settle and something late |
| `party_redis` | `PartyRedis.cfg` | two requests in flight, three transactions, cap 2, one expiry: which promises survive overlapping read-modify-writes. Every wrong board found takes two requests; three transactions reach the cap and exceed it |
| `party_memory` | `PartyMemory.cfg` | the same in memory, cap 1, with a third nation outside the match: accepted tips stay, the lock is final, the API is the atomic board |
| `watch_party` | `WatchParty.cfg` | two pages, two transactions, a reload, an expiry, everything may be lost: no page shows anything untrue |
| `watch_faults` | `WatchPartyFaults.cfg` | liveness with losses and a reload, one transaction (more exceeds what liveness checking can do in minutes) |
| `watch_reliable` | `WatchPartyReliable.cfg` | liveness with nothing lost and two transactions, so a tip races the settlement: tips reach the board, matches lock |
| `wallet` | `Wallet.cfg` | four worker calls interleaved at every await, two seeds, two passwords, one chain, under the page and under a program without it |
| `services` | `Services.cfg` | eight parts, each under its lost connections, failing calls and restarts: sidecars and coach, status polls, subscriptions, reads, histories |
| `pages` | `Pages.cfg` | twelve parts: the directory of rooms and every screen, with answers that come late or out of order |
| `redis_accepted`, `settle_half_done`, `lock_undone` | as named | disagreements with the documents, section 4 |

*Parts.* `services` and `pages` each check several modules that share no state. `part` is chosen in the initial state
and guards every step and every fairness condition; the other parts keep an initial value. A behaviour is thus exactly
one of a single module, and the state space is the sum of the parts', not their product. `MCServices` and `MCPages`
give each part its constants:

- `services`: `gossip` (two sidecars, two tips, a join and two announces that may overlap, so a sidecar may make two
  rooms; a closed connection or a restart); `status` (two transactions, three rounds, a failing call); `notices` (two
  subscribers, one with two filters, two connections, one reconnect, two drops, refusals or ticks); `leaver` and
  `waiter` (three questions to the coach, by a user who leaves the tab and one who does not); `reads` (a Solana token,
  an EVM batch and a chain without an endpoint over a burst of two, three attempts, three errors, a clock set back by
  three ticks); `solana`, `etherscan` (pages of two over four to nine transactions mined before and between the
  calls).
- `pages`: `directory` (two codes, two pools and hosts, two requests, an expiry); `page` (three rooms, two answers
  under way, an expiry, a user who leaves when he likes); `wizard` (two phrases and a typo, passwords around the
  length limit); `view` (two chains, two accounts, a send); `typing`, `asking`, `bitcoin` (the send form when amounts
  are typed in either unit, when requests with amounts or for tokens are pasted, and on bitcoin); `spark` (every form
  of it, inputs edited under way); `defi` (two chains, two visits: one to every form, one to two bridges); `app` (the
  application's provider over what earlier versions may have stored), `picker` (the library's, of a "warm" base theme),
  both with two tabs; `brand` (two images, one of which exceeds the quota).

Deadlock checking is off in every run: transactions, expiries, reloads, calls and faults are bounded, so the models
come to rest. Bounds: the sets of hashes, requests, calls and questions bound what is in flight; every `Max...`
constant bounds the event it names, `Polls` and `Tries` are the code's own retries made small, `Horizon` in `RpcReads`
is how many starts the rate can concern, `Recent` how many tips a new peer is sent. Two of everything that races is
enough for each wrong state met while modelling; three where something is replaced while something else waits.
Symmetry is used in safety runs only, on hashes, requests, calls and interchangeable nations, never on addresses (the
host is one).

*Environment assumptions.* Four are constants. `Memory`: which store. `Lucky`: one of the five drawn codes is free.
`Leaving`: whether the user leaves the coach's tab. `Reliable`: below. Where a run sets one of them to the mild value,
what happens otherwise is in section 4.

*Claims with a history.* Some of what a component promises holds of it until something happens that the code does not
handle. The models let it happen, a history variable records it, and the property claims no more than the code keeps:
`rushed` (the user went to another room, or left, during a call), `edited` and `stale` (inputs or network changed
under a quote), `missed` (something happened that the Spark dialog does not follow: a read overtaken or failed, an
invoice paid, a dialog closed under a payment), `crossed` (an approval replaced another of the account that was still
to be used), `filled` (a request set the amount under the dollars shown), `alone` (the one tab there is), `past`
(reconnects, refusals and failed calls of a connection), `made[n] <= 1` (a sidecar made one room). What the code does
afterwards is in section 4, under the property without the condition.

Notes on single properties. `CapHolds` holds even on Redis: every document ever saved was checked against the cap as a
whole, so overlapping saves lose tips instead of exceeding it. `BoardCovered` holds because each board entry has its
own receipt. `SettleReceiptIsOutcome` is what `verify-settle-tx.ts` needs of the contract. `EveryPageCatchesUp` is
"again and again", not "from some time on": a handler that started before a poll may set a page back (`SignTip`), and
the next poll repairs it. `SignedByCallersSeed` is about a call that captured its manager before a reload: it may
fail, or sign with the old seed, never with the new one. `KeysInHand` tells three holders of keys apart: the manager
in use and the mnemonic, which agree, and the further managers, which outlive a lock and of which it says only that
their seed came through an unlock. `BridgeIsWhole` is about broadcasts: the worker answers with hashes, and either
transaction may still revert. `ShownLockedIsLocked` and `OpenWalletIsStored` are about moments when no operation of
the page is under way. `EverythingArrives` is one temporal formula for all parts of `services`, since TLC checks each
temporal property with a search of its own: gossip spreads and is shown, calls of subscribers settle and their
subscriptions are live again (unless a reconnect was refused or a call failed), coach questions are answered or
refused, reads settle, a history ends, a mined transaction is listed with its outcome.

**Fairness** (`WatchParty!Fairness`), used by the liveness runs only. Sepolia mines what it was sent. A handler's
awaits end: `waitForTxSuccess` tries 20 times, `fetch` answers or fails. The poll is a `setInterval` and fires again;
strong fairness on applying its answer says that not every answer is lost. Nobody is obliged to tip, settle, join or
reload. `Reliable` in addition assumes that no answer is lost and that mining takes less than the wait (24 s).
`StubbornHost` adds a host who keeps pressing Settle: it makes the violation of `settle_half_done` stronger, since
even that does not help. In `services`: an import, a model load and a completion settle; a message in a stream is
received and a peer is connected to; a socket that is asked for opens or is refused, a socket that was closed says so;
timers and intervals fire; the provider answers a call that reached it; a read is answered, well or badly. Nothing is
said of users, of faults (each has its bound), or of the chain mining anything new. All of it is weak fairness:
nothing here can be taken away again and again before it happens.

## 4. Disagreements with the documents

Three are runs: each checks what a line of the repository says and finds it violated by what the code does.

1. `redis_accepted` - two appends that read the same document both answer 200 and one tip is gone; no page posts it
   again. "then shows Verified" (docs/DEMO_SCRIPT.md:18). The property leaves the saves of a create aside, so it is the
   appends alone that lose the tip.
2. `settle_half_done` - if the host's page gives up or gets no answer after `TipPool.settle`, the board stays open for
   good: the page can only settle anew, which reverts. "board locks everywhere" (README.md:59).
3. `lock_undone` - `vault_load` awaits the key derivation and then installs the manager, whatever was locked or
   cleared meanwhile. "After lock(), vault_load(password) must be called again" (wallet-worker.ts:230).

### What the code does otherwise

The others are not run. The line names the property of the module, and the constants, or the condition left out of it,
under which TLC violates it; a few were read only. `core/` is `packages/wdk-web-core/src/`, `web/` is `apps/web/src/`,
`ui/` is `packages/wdk-ui/src/`.

| property | where | what the code does, and what the repository says of it |
|---|---|---|
| `PartyServer!LockIsFinal`, `Memory = FALSE` | web/lib/party-server.ts:220 | an append that read the room before the settle saves over the lock; "board locks everywhere" (README.md:59), "tips lock after this" (party-types.ts:43) |
| `PartyServer!TransferIsProof` | web/app/api/party/[code]/tips/route.ts:62 | a receipt without the `Tip` log is refused in every escrow room; a plain transfer is described as a tip (docs/PHASE2_ESCROW.md:10) |
| `WatchParty!CapBeforeSigning`, `Cap = 1`, `Reliable = TRUE` | web/components/watch-party-screen.tsx:349 | a poll answer read before the page's own append sets its copy back, and a tip over the cap is signed and escrowed; "blocks it before any signature" (docs/DEMO_SCRIPT.md:18) |
| `WatchParty!TipReachesBoard`, `Reliable = FALSE` | watch-party-screen.tsx:433 | a mined tip whose wait or appends failed is never posted again; "Tap Refresh pool" only reads, and drops the optimistic entry |
| `RoomDirectory!RoomsAreKept`, `Lucky = FALSE` | web/lib/party-server.ts:171 | the sixth code is used without looking it up; a taken code should be refused (party-server.ts:160) |
| `RoomDirectory!RoomsAreKept`, `Memory = FALSE` | party-server.ts:163 | two republications of one room: the second replaces the tips appended since the first; "idempotent republish" (party-server.ts:152) |
| `RoomPage!ShownIsChosen`, `ReloadComesBack`, without `rushed` | watch-party-screen.tsx:231 | Leave is not disabled: an answer about the room just left puts that room back on screen and in the cache while `?room=` names the new one (watch-party-screen.tsx:155) |
| `RoomPage!EscrowOfShown`, without `rushed` | watch-party-screen.tsx:89 | the balance of the old room's pool stands beside the new board; "Live TipPool USDt balance vs verified board totals" (watch-party-screen.tsx:86) |
| `WalletWorker!RegisteredOnce` | core/chains/registry.ts:112 | two overlapping calls both register a chain; "Idempotently registers" (registry.ts:55) |
| `WalletWorker!KeysInHand`, no `further` manager live | core/worker/wallet-worker.ts:747, 833 | the manager of a gasless or Spark call is never disposed and keeps its seed after a lock; "Zeroize the in-memory WDK orchestrator state" (wallet-worker.ts:226) |
| `Onboarding!ContinueIsGated` | web/components/onboarding-flow.tsx:69 | Back shows an unticked box and an enabled Continue; the box should gate it (mnemonic-display.tsx:22) |
| `WalletView!BalanceIsOfView` | web/wallet/wallet-provider.tsx:131 | a refresh that lands after a switch shows the other chain's balance; "Refresh balance when address/chain settles" (wallet-provider.tsx:139) |
| `WalletView!SendsAreListed` | web/components/send-dialog.tsx:130 | a token transfer is never recorded; "Sends you make appear here" (asset-detail.tsx:80) |
| `Subscription!TicksAreWanted`, without `Undisturbed` | core/adapters/subscription.ts:217 | a registration removed while it is re-established stays subscribed; "every active subscription" (subscription.ts:13) |
| `Subscription!SubscribedOnce`, without `Undisturbed` | subscription.ts:217 | one added after the drop is subscribed twice; "One desired subscription" (subscription.ts:120) |
| `Subscription!IdleSocketCloses`, without `Undisturbed` | subscription.ts:224 | a reconnect opens a socket for nobody; "closes only when the last is gone" (subscription.spec.ts:121) |
| `Subscription!OnItsWay`, `LiveAgain`, without `Persists` | subscription.ts:188 | the first refused reconnect is the last; "onclose reschedules while attempts remain" (subscription.ts:219) |
| `PearsGossip!AnnouncedIsKept`, listing without `made[n] <= 1` | pears/server.mjs:39 | a join and an announce that overlap across the import make two rooms, and the tip is in the one that the map lost, unlisted and not sent to new peers (README.md:62) |
| `Coach!OneModel`, `Leaving = TRUE` | coach/server.mjs:25 | a question during the load loads a second model; "first request may take a few minutes" (coach/server.mjs:24) |
| `RpcReads!NextTokenInTime`, without `slips = 0` | core/adapters/rate-limit.ts:38 | a clock set back stalls every read for as long; "Injectable monotonic clock ... Default Date.now" (rate-limit.ts:18) |
| `RpcReads!BlipsAreRetried`, for an EVM batch or a Solana token | core/adapters/rpc.ts:211, 322 | a batch whose calls failed, or a token list that came without its field, reads as zero at the first blip, and is not retried; "A single network blip should not surface as a failed balance" (retry.ts:5) |
| `History!StillPagesLineUp`, without `mined = since` | core/adapters/indexer.ts:221 | Etherscan's cursor is a page number, which repeats a record once something is mined (indexer.ts:75) |
| `History!NothingSkipped`, two sources | indexer.ts:516 | the fallback hands one service's cursor to another (indexer.ts:56, 484) |
| `History!InWindow`, Solana, `FromBlock = 2` | indexer.ts:296 | the block window is ignored; "A real indexer honors" it (indexer.ts:98) |
| `SparkDialog!ChargedIsShown` | core/worker/wallet-worker.ts:910 | a withdrawal commits to a second quote, not the one shown; "what `withdraw` charges" (spark.ts:159) |
| `SparkDialog!QuoteOfInputs`, without `edited`; `DefiPanels!QuoteOfInputs`, without `stale` | web/components/spark-dialog.tsx:297, defi-panels.tsx:149 | the inputs are not disabled while a quote is asked for, and it lands beside others |
| `SparkDialog!BalanceFollows`, without `missed` | web/components/spark-dialog.tsx:395 | a paid invoice does not refresh the balance it was paid from (spark-dialog.tsx:411) |
| `DefiPanels!GaslessPaysNone` | web/components/defi-panels.tsx:248 | gasless runs name no paymaster token and pay native gas; "pay no native gas" (defi-panels.tsx:53) |
| `DefiPanels!ApprovedIsBridged`, without `crossed` | wallet-worker.ts:704 | two bridges of an account share one allowance (wallet-worker.ts:700) |
| `SendForm!RequestIsPaid`, without `AsksForCoin` | send-dialog.tsx:98 | a request for a token: the coin is sent to the token's contract; "a scanned/copied request just works" (send-dialog.tsx:89) |
| `SendForm!DollarsAgree`, without `filled` | ui/primitives/amount-input.tsx:65 | the old dollars stand above the request's amount; "the crypto amount tracks (and vice-versa)" (amount-input.tsx:9) |
| `SendForm!DollarsAreAccepted`, a token, `Decimals = 1` | amount-input.tsx:46 | dollars make more decimals than the token has (amount-input.tsx:4) |
| `Appearance!SwatchIsShown`, `InApp = TRUE` | web/components/appearance-provider.tsx:73 | a swatch changes nothing (use-custom-primary.ts:17) |
| `Appearance!ResetStands`, `VisitIsSame`, without `alone` | appearance-provider.tsx:78 | a colour set in another tab comes back after Reset (appearance-dialog.tsx:36) |
| `Appearance!PicksSurvive`, without the edges' condition, `BaseTheme = "warm"` | ui/theme/use-theme-picker.ts:78 | with the default theme no pick is stored until an edge is picked (use-theme-picker.ts:2) |
| `Appearance!BaseStaysLive`, `Base = "institutional"` | use-theme-picker.ts:107 | an untouched base theme is stored and comes back in the picker's palette; "stay live on rehydration" (use-theme-picker.ts:5) |
| read of `Branding!ReadArrives` | ui/components/brand/brand-picker.tsx:116 | what was typed while an image was read is undone (brand-picker.tsx:10) |
| `Branding!BrandSurvives`, without `Fits` | ui/components/brand/use-brand-picker.ts:49 | a brand over the quota is not stored, silently; "the entire brand survives" (brand-picker.tsx:10) |

Read, not stated: the page signs amounts such as `.5` (web/wallet/chains.ts:92) that the server's parser refuses; the
verifier cuts a tip's text after six decimals (web/lib/verify-tip-tx.ts:60) while the board counts all of it; two
tabs share one vault row, and a tab that booted before a wallet was made may replace it (wallet-provider.tsx:80).

## 5. Proofs

Each theorem holds for every value of the constants that satisfies the assumptions named in the modules
(`LedgerAssumption`, `PoolAssumption`, `PartyAssumption`, `ServerAssumption`, `PageAssumption`, `WorkerAssumption`,
`DirectoryAssumption`, `GossipAssumption`, `ServicesAssumption`, `PagesAssumption`), which TLC evaluates in the runs:
the host is a wallet, amounts are naturals, marker values differ from what they mark, and sets of wallets, transaction
hashes, machines and requests are finite, as only finitely many exist and a total over them is only then a number.
Sets of nations, amounts, calls, seeds, chains, codes, tips and all bounds are arbitrary. Where a theorem needs more,
it says so in an ASSUME of its own: that is so for the in-memory store (`Memory`, `Lucky`) only. The other conditions
are part of the properties, as histories (section 3).

- `Sums`: what the total of weights over a finite set is (`SumRemove`), and what adding, removing, renaming or
  reweighing an element does to it. The community modules fold with CHOOSE, so that the order does not matter is
  itself proved, by induction over subsets, written as a set of subsets that is closed under the step; the library's
  induction theorems, which take an operator, are not available.
- `TipPoolProofs`: `TypeCorrect`, `Accounted`, `TipsPaidOut`, `OutcomeReceipt`, `SettledForGood`, `SumsAgree`,
  `Refines`. None of the invariants is inductive alone: the account and the one receipt of the outcome need
  `Unsettled` (an open pool has paid out nothing) and `TypeOK`; paying out every tip needs the account `poolBalance +
  settledAmount = tipped + donated` before it. `IInv` is their conjunction. `SumsAgree` (`MoneyAddsUp`) adds that the
  wallets' total moves by exactly what one transaction moves, and the receipts' total by its amount. The refinement is
  proved step by step: each contract action maps to one ledger action, `Submit` to a stutter.
- `PartyServerProofs`, either store: `TypeCorrect`, `Proven`, `LockTrue`, `CapKept`, `MoneyBehindTheBoard`. The board
  is only as true as the documents about to be saved, and those as the requests' verified bodies, so `IInv` says of
  every request what it knows at each await (`Knows`), and that receipts never change is what keeps it known. The cap
  (`CapHolds`) is kept because every document about to be saved fits it too (`Fits`), which needs that appending adds
  one tip of one wallet to one total. `LockTrue` is to the nearest cent, as the board is. The money behind the board
  needs the ledger's own books (`MoneyCovers`: the Tip receipts add up to no more than the escrow, or than the payout)
  and that a document names no receipt twice, so that its total is one over a part of the receipts.
- `PartyServerProofs`, in memory (`Memory`): `AtomicInMemory`, `AcceptedForGood`, `LockedForGood`. The strengthening
  is that a document about to be saved is the stored one plus that request's change, and that at most one exists; on
  Redis both fail.
- `WatchPartyProofs`: `TypeCorrect`, `ScoreAlwaysTrue`, `LockAlwaysTrue`. Every copy of the room - board, page, answer
  under way, closure - is `Sound`, and a handler holds a call of the right kind at each await. From the same invariant,
  `PagesKeepTheBoard`: with all pages around it, the board behaves as `PartyBoard` says. What has to be known is that
  what a handler posts after its awaits is the tip or the settle call it broadcast, whatever was reloaded in between.
- `WalletProofs`, the worker: `WorkerKeysInHand`, from `WorkerOneSeed` (manager and retained mnemonic agree),
  `WorkerNoOrphan` (every other manager is disposed, but those that gasless and Spark calls built) and
  `WorkerSeedProven` (a seed in memory, in one of those too, was written under the password that unlocked it);
  `WorkerSignedByCallersSeed`; `WorkerBridgeIsWhole`. Each needs what a call holds at its await: which manager it
  captured and what that manager's seed was, and, for a bridge (`BridgeInv`), that its approval is among the effects.
- `WalletProofs`, the page: `SessionImplementsWorker` shows that the page, its failures included, only makes the
  worker take its own steps, so the worker's results hold under it (`SessionKeysInHand`, `SessionSignedByCallersSeed`,
  `SessionBridgeIsWhole`). `LockedPagesHoldNoKey`, `OpenWalletsAreStored` and `VaultsAreKept` relate page, worker and
  vault and rest on `SInv` (`SessionInvariant`): which operations a screen can have under way, which calls await and
  how far they came, that a wallet in use under a screen without one belongs to an operation under way, and that a
  stored vault is behind every screen that has a wallet.
- `SubscriptionProofs`: three theorems over one invariant, `General`. `Base` types the state and wires it: every id a
  connection holds is one its own provider issued, to the registration it is held for. `Turns`: a call or a loop waits
  for one answer, in one place. `Held`: live registrations are of connections that were made, and a closed connection
  has none. `RoutesStayServed` needs no more. `Noted` ties the history to the state: whoever
  re-subscribes marked its connection first. `NoticesStayWanted` adds `TidyInv`, about the connections that are
  `Undisturbed`: a routed id belongs to a registration that was not given up, no registration has two, and whoever
  waits for a socket is still waiting. `LostSubscriptionsReturn` adds `ReconInv`, about those that `Persist`: a
  registration whose id was nulled by a drop has a loop that has yet to visit it. A step of one connection leaves what
  both say of the others alone.
- `ServicesProofs`: the parts of the `services` run one after the other, then their composition (`PartSteps`: a step
  of one part leaves the variables of the others alone), so that the theorems state the run's invariants.
  - Gossip: `GossipAlwaysSound`, for any number of machines, tips, overlapping requests and restarts. `GInv` says that
    the map lists the room made last and that a request which awaits the flush holds one that was made (`InHand`), so
    whatever it acknowledges is in a room of the sidecar (`AckedIsHeld`), and in the listed one while there is but one;
    the peer counter is right because each closed connection was counted in once (`CountedOut`). `Posted`: what a page
    shows is on the board.
  - Reads: `ReadsStaySound`. That the n-th latest start is `(n - Burst) * Period` old is not inductive: a start takes
    a token, and where that came from has to be known. `StartsNow` says that what was refilled since the n-th latest
    start pays for the starts since then and for what is left in the bucket; `BucketNow`, that a clock set back takes
    no more from the bucket than it was set back by. A read that ends rejected made its last attempt, or had no
    endpoint; one that ends at zero is of a kind that turns an error into one (section 4).
  - What is shown: `ShownStaysTrue`, from `TxInv` (an answer under way was true of a transaction that was asked for,
    and mined ones stay mined), `CoachInv` and `OneInv` (each question's stage, and one load while nobody leaves),
    `SolanaInv` and `EtherscanInv` (the list read so far misses nothing of what was mined before the reading began; that
    Etherscan's pages line up is claimed while nothing is mined).
  - Subscriptions: `NoticesStayWanted`, by an instance of `SubscriptionProofs`.
  - `TypesStayOK`: the type invariants of all parts.
- `PagesProofs`: the parts of the `pages` run one after the other, each with an invariant that its initial states
  satisfy (`Init...`), its steps keep (`...Keeps`) and its properties follow from (`...Shows`); `PartsInv` puts them
  together (`ScreensInvariant`), since a step is of one part (`StepOfPart`).
  - The directory: `RoomsBelongToDeployers`, from `RequestsSound` (what a request knows at each await was in a
    receipt), on either store; `RoomsKeptInMemory` (`Memory`, `Lucky`), with `Reserved`: a request about to save holds
    the only pending save, and its code is still free. `ScreensKeepDirectory` carries both over to the composition.
  - `ScreensTyped`: the type invariants of all parts.
  - `ScreensAreCurrent`. The watch-party page: `CallSound` says which room every answer under way is about, by its
    kind, and that no answer of the hydration comes once a room is shown, as long as the user was not `rushed`
    (`PageSound`). The wallet: `Questioned` says that whatever
    is not shown is being asked for, of the view in view. The Spark and DeFi forms: a form is busy exactly while it
    has a call of its own (`SparkFormSound`, `DefiFormSound`), and, for the balance, that a read under way or one yet
    to start will see what was last made (`Informed`), as long as nothing was `missed`.
  - `MoneyGoesAsMeant`. A request: until the form is edited it holds what the request asks (`AskingStands`,
    `BitcoinStands`); that is how it is paid where it asks for the coin. Dollars: an amount and the dollars made from
    it, or the other way about, agree to half a unit (`CentsAgree`, `CryptoAgrees`), which rests on what rounding
    loses (`RoundIsNear`) and on trailing zeros carrying nothing (`StripIs`, `ParseStrip`); Max, on `MaxIs`. The
    powers of ten are a recursive function: that it is one, and its laws (`TenIs`, `TenAdds`), are proved by induction
    on sets of numbers (`SetInduction`). The signpost: the families' predicates exclude each other (`Apart`), so the
    order in which the code tries them does not matter (`DetectIs`).
  - `ChoicesStay`: the stored preferences give back the theme on screen (`AppKept`, `PickerKept`), and the variables
    left on the page are those of the theme in effect, however it was reached (`InjectIs`).
  - `PagesAssumption` holds value and marker conditions only: which requests are pasted into which form, which base
    theme and how many tabs there are, and which images exceed the quota is arbitrary.

Only model-checked: all liveness (`EverythingArrives` and what `watch_faults` and `watch_reliable` check), which is
out of these provers' reach with ENABLED. Every safety property of the passing runs is proved, `AcceptedStays`,
`LockIsFinal` and `ImplementsBoard` for the in-memory store, `RoomsAreKept` for it and a free code among those drawn.

## 6. Not modelled

- Stateless mappings: JSON of the HTTP adapters, URL building, bech32, base58 and bolt11 decoders, EIP-712, EIP-3009
  and x402 encodings. Where the result matters it is a class of values (`Payments`); the bytes are for unit tests,
  which exist.
- Key derivation, AES and the chains' own signing: opaque. The mv3 message handler and the per-chain builders forward
  to the calls that are modelled.
- The relayer client, MoonPay, fiat prices: one request and one answer, nothing kept.
- Amounts as texts between page and board; the view of legacy rooms without a TipPool; two tabs over one vault; token
  preferences and stored history.
- Rendering, styling, static screens, the judge page, prompts and texts of the coach, scripts, generated bytecode.
