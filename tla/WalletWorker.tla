---------------------------- MODULE WalletWorker ----------------------------
(***************************************************************************)
(* The wallet's Web Worker: the one place that holds the decrypted seed.   *)
(* Calls arrive as messages and interleave at every await.  A call is an   *)
(* element of Calls, made at most once; a manager is named by the call that *)
(* built it.  The IndexedDB blob outlives the worker.                      *)
(***************************************************************************)
EXTENDS Naturals, FiniteSets

CONSTANTS
  Calls,      \* the calls a page makes of the worker
  Seeds,      \* plaintexts WdkManager.isValidSeed accepts
  Junk,       \* plaintexts it refuses
  Passwords,
  Chains,     \* chain ids with a loader
  Unknown,    \* a chain id without one
  None

ASSUME WorkerAssumption ==
  /\ Seeds \cap Junk = {} /\ None \notin Seeds \cup Junk
  /\ None \notin Calls /\ None \notin Passwords
  /\ Unknown \notin Chains

VARIABLES
  blob,      \* the stored vault, or NoBlob
  wdk,       \* the manager in use, or None
  mnemonic,  \* the seed kept beside it, or None
  managers,  \* what became of the manager each call built: a load the
             \* WdkManager, a gasless or Spark call a further one of its own
  call,      \* the progress of every call
  effects,   \* ghost: what calls signed or broadcast, and with which seed
  stored,    \* ghost: every (password, text) ever written to the vault
  overtaken  \* ghost: loads that were in flight when the worker was locked

vars == <<blob, wdk, mnemonic, managers, call, effects, stored, overtaken>>

Texts == Seeds \cup Junk
Blob == [password: Passwords, text: Texts]
NoBlob == [password |-> None, text |-> None]
NoManager == [seed |-> None, live |-> FALSE, further |-> FALSE,
              wallets |-> [ch \in Chains |-> 0]]

\* Where a call is suspended: one value per await, "idle" before the call is
\* made, "done" and "failed" once it has answered.
Pcs == {"idle", "deriving", "reading", "decrypting", "clearing",
        "loading", "acting", "bridging", "done", "failed"}
\* What the last await of a call brings about.
Works == {"read", "signature", "transaction", "bridge"}
Fresh == [pc |-> "idle", password |-> None, text |-> None, chain |-> Unknown,
          work |-> "read", by |-> None, seed |-> None]
InFlight(c) == call[c].pc \notin {"idle", "done", "failed"}
Loads(c) == call[c].pc \in {"reading", "decrypting"}

Init ==
  /\ blob \in Blob \cup {NoBlob}
  /\ wdk = None /\ mnemonic = None
  /\ managers = [c \in Calls |-> NoManager]
  /\ call = [c \in Calls |-> Fresh]
  /\ effects = {} /\ stored = {blob} \cap Blob /\ overtaken = {}

Goto(c, pc) == call' = [call EXCEPT ![c].pc = pc]
\* A call that is answered before its first await.
Refuse(c) == /\ Goto(c, "failed")
             /\ UNCHANGED <<blob, wdk, mnemonic, managers, effects, stored, overtaken>>
Dispose(m) == IF m = None THEN managers
              ELSE [managers EXCEPT ![m].live = FALSE]

-----------------------------------------------------------------------------
(* The vault: PBKDF2 and AES-GCM around one IndexedDB row.                 *)

\* vault_store derives the key and encrypts before it writes.
Store(c, p, t) ==
  /\ call[c].pc = "idle"
  /\ call' = [call EXCEPT ![c] = [Fresh EXCEPT !.pc = "deriving",
                                                !.password = p, !.text = t]]
  /\ UNCHANGED <<blob, wdk, mnemonic, managers, effects, stored, overtaken>>

\* Mutant: the row is written before its key was derived.
StoreWritesPlain(c) ==
  /\ call[c].pc = "deriving"
  /\ blob' = [password |-> None, text |-> call[c].text]
  /\ stored' = stored \cup {blob'}
  /\ Goto(c, "done")
  /\ UNCHANGED <<wdk, mnemonic, managers, effects, overtaken>>
StoreWrites(c) ==
  /\ call[c].pc = "deriving"
  /\ blob' = [password |-> call[c].password, text |-> call[c].text]
  /\ stored' = stored \cup {blob'}
  /\ Goto(c, "done")
  /\ UNCHANGED <<wdk, mnemonic, managers, effects, overtaken>>

Load(c, p) ==
  /\ call[c].pc = "idle"
  /\ call' = [call EXCEPT ![c] = [Fresh EXCEPT !.pc = "reading", !.password = p]]
  /\ UNCHANGED <<blob, wdk, mnemonic, managers, effects, stored, overtaken>>

\* The row read is the one the key is derived for; a wrong password shows
\* only when the derived key fails to decrypt.
LoadReads(c) ==
  /\ call[c].pc = "reading"
  /\ call' = [call EXCEPT ![c].pc = IF blob = NoBlob THEN "failed" ELSE "decrypting",
                          ![c].text = IF blob.password = call[c].password
                                      THEN blob.text ELSE None]
  /\ UNCHANGED <<blob, wdk, mnemonic, managers, effects, stored, overtaken>>

\* Decrypted bytes that are no seed are returned and change nothing.
LoadFinishes(c) ==
  /\ call[c].pc = "decrypting"
  /\ Goto(c, IF call[c].text = None THEN "failed" ELSE "done")
  /\ IF call[c].text \in Seeds
     THEN /\ managers' = [Dispose(wdk) EXCEPT ![c] = [NoManager EXCEPT !.seed = call[c].text,
                                                                       !.live = TRUE]]
          /\ wdk' = c /\ mnemonic' = call[c].text
     ELSE UNCHANGED <<managers, wdk, mnemonic>>
  /\ UNCHANGED <<blob, effects, stored, overtaken>>

\* What lock and vault_clear do before anything is awaited.
\* Mutant: the retained mnemonic is forgotten about.
ForgetManagerOnly ==
  /\ managers' = Dispose(wdk)
  /\ wdk' = None
  /\ overtaken' = overtaken \cup {c \in Calls : Loads(c)}
  /\ UNCHANGED mnemonic
Forget ==
  /\ managers' = Dispose(wdk)
  /\ wdk' = None /\ mnemonic' = None
  /\ overtaken' = overtaken \cup {c \in Calls : Loads(c)}

Lock == /\ Forget
        /\ UNCHANGED <<blob, call, effects, stored>>

Clear(c) ==
  /\ call[c].pc = "idle"
  /\ Forget
  /\ Goto(c, "clearing")
  /\ UNCHANGED <<blob, effects, stored>>

ClearDeletes(c) ==
  /\ call[c].pc = "clearing"
  /\ blob' = NoBlob
  /\ Goto(c, "done")
  /\ UNCHANGED <<wdk, mnemonic, managers, effects, stored, overtaken>>

\* IndexedDB may refuse an operation; a database that failed to open stays so
\* for the worker's life, since the promise of the handle is kept.
DbFails(c) ==
  /\ call[c].pc \in {"deriving", "reading", "clearing"}
  /\ Refuse(c)

-----------------------------------------------------------------------------
(* Account calls: a guard, the manager in hand, the chain registered with  *)
(* it, then the awaited work of the SDK account.                           *)

\* ensureChainRegistered: a chain already recorded returns at once, any other
\* awaits its loader.
EnsureChain(c, ch, w) ==
  call' = [call EXCEPT ![c] = [Fresh EXCEPT
             !.pc = IF managers[wdk].wallets[ch] > 0 THEN "acting" ELSE "loading",
             !.chain = ch, !.work = w, !.by = wdk, !.seed = mnemonic]]

\* _requireWdk hands out the manager of the moment.
WithManager(c, ch, w) ==
  /\ call[c].pc = "idle"
  /\ ch \in Chains /\ wdk # None
  /\ EnsureChain(c, ch, w)
  /\ UNCHANGED <<blob, wdk, mnemonic, managers, effects, stored, overtaken>>

\* Every account method: an unknown chain, a malformed recipient, bytes that
\* are not UTF-8 or a locked worker is an error before any await.
Refused(c, ch, wellFormed) ==
  /\ call[c].pc = "idle"
  /\ ch \notin Chains \/ ~wellFormed \/ wdk = None
  /\ Refuse(c)

\* Native sends on EVM and Solana chains.
SendNative(c, ch, validRecipient) ==
  \/ Refused(c, ch, validRecipient)
  \/ validRecipient /\ WithManager(c, ch, "transaction")

\* Address, balance and send of Bitcoin, TON and Tron accounts.
BtcTonTron(c, ch, w, validRecipient) ==
  /\ w \in {"read", "transaction"}
  /\ \/ Refused(c, ch, w = "transaction" => validRecipient)
     \/ (w = "transaction" => validRecipient) /\ WithManager(c, ch, w)

GetAddress(c, ch) == Refused(c, ch, TRUE) \/ WithManager(c, ch, "read")

\* Messages, typed data and Solana bytes.
Sign(c, ch, text) ==
  \/ Refused(c, ch, text)
  \/ text /\ WithManager(c, ch, "signature")

\* The loader's answer registers the wallet with the manager the call holds,
\* disposed or not, and records the chain.
Register(c) ==
  /\ call[c].pc = "loading"
  /\ managers' = [managers EXCEPT ![call[c].by].wallets[call[c].chain] = @ + 1]
  /\ Goto(c, "acting")
  /\ UNCHANGED <<blob, wdk, mnemonic, effects, stored, overtaken>>

\* Calls that build their own account from the retained mnemonic: gasless
\* (ERC-4337), and Spark and Lightning with their amount and address guards.
\* The seed is read before the first await and goes into a manager of the
\* call's own, which nothing ever disposes of: it ends with the worker only.
FurtherManager == [NoManager EXCEPT !.seed = mnemonic, !.live = TRUE, !.further = TRUE]

FromMnemonic(c, w, wellFormed) ==
  /\ call[c].pc = "idle"
  /\ IF wellFormed /\ mnemonic # None
     THEN /\ call' = [call EXCEPT ![c] = [Fresh EXCEPT !.pc = "acting", !.work = w,
                                                       !.seed = mnemonic]]
          /\ managers' = [managers EXCEPT ![c] = FurtherManager]
     ELSE Goto(c, "failed") /\ UNCHANGED managers
  /\ UNCHANGED <<blob, wdk, mnemonic, effects, stored, overtaken>>

SmartAccount(c, w, configured) ==
  w \in {"read", "transaction"} /\ FromMnemonic(c, w, configured)
Spark(c, w, wellFormed) ==
  w \in {"read", "transaction"} /\ FromMnemonic(c, w, wellFormed)

\* Aave, Velora and USDT0 run on the plain account or on the smart account;
\* their quotes and snapshots read, their actions send.
Protocol(c, ch, w, gasless, configured) ==
  /\ w \in {"read", "transaction", "bridge"}
  /\ IF gasless /\ ch \in Chains
     THEN FromMnemonic(c, w, configured)
     ELSE Refused(c, ch, TRUE) \/ WithManager(c, ch, w)

\* x402: no chain guard of its own, the loader lookup fails instead.
PayX402(c, ch) == Refused(c, ch, TRUE) \/ WithManager(c, ch, "signature")

\* Chain reads, prices and the MoonPay on-ramp need no key: they delegate to
\* an adapter, or answer at once when the app configured none.
Keyless(c, configured) ==
  /\ call[c].pc = "idle"
  /\ IF configured THEN call' = [call EXCEPT ![c] = [Fresh EXCEPT !.pc = "acting"]]
     ELSE \E pc \in {"done", "failed"} : Goto(c, pc)
  /\ UNCHANGED <<blob, wdk, mnemonic, managers, effects, stored, overtaken>>
RpcRead(c, configured) == Keyless(c, configured)
MoonPay(c, configured) == Keyless(c, configured)

-----------------------------------------------------------------------------
(* The SDK's answer.  It may fail before or after the effect took place:   *)
(* a lost answer, an unexpected shape, a disposed manager.                 *)

\* Mutant: the seed of the moment signs, not the one the call was given.
SignerOfTheMoment(c) == IF mnemonic # None THEN mnemonic ELSE call[c].seed
Signer(c) == IF call[c].by # None THEN managers[call[c].by].seed ELSE call[c].seed
Effect(c, what) == effects' = effects \cup {[call |-> c, what |-> what, seed |-> Signer(c)]}

Acts(c) ==
  /\ call[c].pc = "acting"
  /\ \/ Goto(c, "failed") /\ UNCHANGED effects
     \/ /\ call[c].work = "read"
        /\ Goto(c, "done") /\ UNCHANGED effects
     \/ /\ call[c].work \in {"signature", "transaction"}
        /\ \E pc \in {"done", "failed"} : Goto(c, pc)
        /\ Effect(c, call[c].work)
     \/ /\ call[c].work = "bridge"
        /\ \E pc \in {"bridging", "failed"} : Goto(c, pc)
        /\ Effect(c, "approval")
  /\ UNCHANGED <<blob, wdk, mnemonic, managers, stored, overtaken>>

\* usdt0_bridge: the approval is awaited, then the bridge; a failure here
\* leaves the allowance behind.
\* Mutant: a bridge whose answer failed reports success.
BridgesAnyway(c) ==
  /\ call[c].pc = "bridging"
  /\ Goto(c, "done")
  /\ UNCHANGED effects \/ Effect(c, "bridge")
  /\ UNCHANGED <<blob, wdk, mnemonic, managers, stored, overtaken>>
Bridges(c) ==
  /\ call[c].pc = "bridging"
  /\ \/ Goto(c, "failed") /\ UNCHANGED effects
     \/ /\ \E pc \in {"done", "failed"} : Goto(c, pc)
        /\ Effect(c, "bridge")
  /\ UNCHANGED <<blob, wdk, mnemonic, managers, stored, overtaken>>

\* The page goes away, or disposes of the worker: only the blob survives.
Terminate ==
  /\ wdk' = None /\ mnemonic' = None
  /\ managers' = [m \in Calls |-> [managers[m] EXCEPT !.live = FALSE]]
  /\ call' = [c \in Calls |-> IF InFlight(c) THEN [call[c] EXCEPT !.pc = "failed"] ELSE call[c]]
  /\ UNCHANGED <<blob, effects, stored, overtaken>>

-----------------------------------------------------------------------------
Vault == \E c \in Calls :
  \/ \E p \in Passwords : Load(c, p) \/ \E t \in Texts : Store(c, p, t)
  \/ Clear(c) \/ StoreWrites(c) \/ LoadReads(c) \/ LoadFinishes(c) \/ ClearDeletes(c)
  \/ DbFails(c)

Account == \E c \in Calls :
  \/ \E ch \in Chains \cup {Unknown}, ok \in BOOLEAN, w \in Works :
       \/ SendNative(c, ch, ok) \/ BtcTonTron(c, ch, w, ok)
       \/ GetAddress(c, ch) \/ Sign(c, ch, ok) \/ PayX402(c, ch)
       \/ \E g \in BOOLEAN : Protocol(c, ch, w, g, ok)
       \/ SmartAccount(c, w, ok) \/ Spark(c, w, ok)
       \/ RpcRead(c, ok) \/ MoonPay(c, ok)
  \/ Register(c) \/ Acts(c) \/ Bridges(c)

Next == Vault \/ Account \/ Lock \/ Terminate

Spec == Init /\ [][Next]_vars

-----------------------------------------------------------------------------
CallRecord == [pc: Pcs, password: Passwords \cup {None}, text: Texts \cup {None},
               chain: Chains \cup {Unknown}, work: Works,
               by: Calls \cup {None}, seed: Seeds \cup {None}]
Manager == [seed: Seeds \cup {None}, live: BOOLEAN, further: BOOLEAN,
            wallets: [Chains -> Nat]]

\* Every variable keeps to its type.
TypeOK ==
  /\ blob \in Blob \cup {NoBlob}
  /\ wdk \in Calls \cup {None} /\ mnemonic \in Seeds \cup {None}
  /\ managers \in [Calls -> Manager]
  /\ call \in [Calls -> CallRecord]
  /\ effects \subseteq [call: Calls, seed: Seeds,
                        what: {"signature", "transaction", "approval", "bridge"}]
  /\ stored \subseteq Blob /\ overtaken \subseteq Calls

\* The two copies of the secret agree whatever loads, locks and clears
\* overlap: there is a manager exactly when there is a mnemonic, made from it,
\* so a locked worker builds no further manager.
OneSeed == /\ wdk = None <=> mnemonic = None
           /\ wdk # None => managers[wdk].seed = mnemonic

\* No manager that a load built outlives its use: whatever loads overlap, of
\* the managers that hold key material one is in use and every other was built
\* by a gasless or Spark call.  Those outlive a lock (wallet-worker.ts 747, 833).
NoOrphanManager == \A m \in Calls : managers[m].live => m = wdk \/ managers[m].further

\* A seed in memory is one the vault gave for its password: some store wrote
\* exactly this text under the password of the load that brought it here, and
\* the further managers hold seeds that came here in this way.
SeedIsProven ==
  /\ wdk # None => [password |-> call[wdk].password, text |-> mnemonic] \in stored
  /\ \A m \in Calls : managers[m].live =>
       \E p \in Passwords : [password |-> p, text |-> managers[m].seed] \in stored

\* All three at once: manager in use and mnemonic are one proven seed; what else
\* holds a key is a manager that a gasless or Spark call built, of a seed that
\* was unlocked by its password as well.
KeysInHand == OneSeed /\ NoOrphanManager /\ SeedIsProven

\* What a call signs or sends is signed by the seed the worker held when the
\* call was made, never by one loaded while the call was suspended.
SignedByCallersSeed == \A e \in effects : e.seed = call[e.call].seed

\* A bridge that reports success has broadcast both halves, and no bridge is
\* attempted before its own approval was broadcast.  (Hashes are answered, not
\* receipts: either half may still revert.)
BridgeIsWhole == \A c \in Calls :
  LET made == {e.what : e \in {x \in effects : x.call = c}} IN
  /\ "bridge" \in made => "approval" \in made
  /\ call[c].work = "bridge" /\ call[c].pc = "done" => "bridge" \in made

\* A chain is registered at most once with a manager ("Idempotently registers
\* a chain with the WDK orchestrator", chains/registry.ts:55).
RegisteredOnce == \A m \in Calls, ch \in Chains : managers[m].wallets[ch] <= 1

\* After lock the worker stays locked until vault_load is called again
\* (worker/wallet-worker.ts:230): the manager in use is not one whose load was
\* already under way when the worker was locked.
LockedUntilLoadedAgain == wdk \notin overtaken
=============================================================================
