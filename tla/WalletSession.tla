---------------------------- MODULE WalletSession ----------------------------
(***************************************************************************)
(* The page's wallet phase (wallet-provider.tsx) over its worker.  A page  *)
(* operation awaits one worker call after another; each answer is a step   *)
(* of its own, so operations of one page overlap.  One tab has the origin  *)
(* to itself.  The worker belongs to a library: the phase "none" stands    *)
(* for a program that drives it without this page.                         *)
(***************************************************************************)
EXTENDS WalletWorker

VARIABLES
  phase,    \* what the page shows
  op,       \* which page operation awaits each call
  locking   \* lock was called and has not answered

page == <<phase, op, locking>>
sessionVars == <<vars, page>>

Closed == {"loading", "no-vault", "locked", "error"}
Phases == Closed \cup {"unlocked", "none"}
Ops == {"none", "store", "load", "unlock", "clear"}
Quiet == ~locking /\ \A c \in Calls : op[c] = "none"
Pending(ops) == \E c \in Calls : op[c] \in ops
Answered(c, o, pc) == op[c] = o /\ call[c].pc = pc

SInit == /\ Init
         /\ phase \in {"loading", "none"} /\ op = [c \in Calls |-> "none"] /\ locking = FALSE

\* On mount: does a vault exist?
\* Mutant: a stored vault is taken for none.
BootsEmpty == /\ phase = "loading"
              /\ phase' \in {"no-vault", "error"}
              /\ UNCHANGED <<vars, op, locking>>
Boot == /\ phase = "loading"
        /\ phase' \in {IF blob = NoBlob THEN "no-vault" ELSE "locked", "error"}
        /\ UNCHANGED <<vars, op, locking>>

\* createVault, called by onboarding's password screen, which takes one
\* submission at a time; the phrase is a proven one (module Onboarding).
CreateVault(c, p, t) ==
  /\ phase = "no-vault" /\ ~Pending({"store", "load"})
  /\ Store(c, p, t)
  /\ op' = [op EXCEPT ![c] = "store"]
  /\ UNCHANGED <<phase, locking>>

CreateLoads(c, d) ==
  /\ Answered(c, "store", "done")
  /\ Load(d, call[c].password)
  /\ op' = [op EXCEPT ![c] = "none", ![d] = "load"]
  /\ UNCHANGED <<phase, locking>>

\* unlock, called by the unlock screen, one submission at a time.
Unlock(c, p) ==
  /\ phase = "locked" /\ ~Pending({"unlock"})
  /\ Load(c, p)
  /\ op' = [op EXCEPT ![c] = "unlock"]
  /\ UNCHANGED <<phase, locking>>

Unlocked(c) ==
  /\ \E o \in {"load", "unlock"} : Answered(c, o, "done")
  /\ phase' = "unlocked" /\ op' = [op EXCEPT ![c] = "none"]
  /\ UNCHANGED <<vars, locking>>

\* A rejected call leaves the phase as it is: the screen shows an error.
Failed(c) ==
  /\ op[c] # "none" /\ call[c].pc = "failed"
  /\ op' = [op EXCEPT ![c] = "none"]
  /\ UNCHANGED <<vars, phase, locking>>

\* A second click of the button changes nothing.
\* Mutant: the page shows the lock screen without telling the worker.
LockShownOnly == /\ phase = "unlocked" /\ ~locking
                 /\ locking' = TRUE
                 /\ UNCHANGED <<vars, phase, op>>
LockWallet == /\ phase = "unlocked" /\ ~locking
              /\ Lock
              /\ locking' = TRUE
              /\ UNCHANGED <<phase, op>>
LockAnswered == /\ locking
                /\ phase' = "locked" /\ locking' = FALSE
                /\ UNCHANGED <<vars, op>>

\* "Forgot password? Reset wallet", offered by the unlock screen, also while
\* an unlock is under way.
Reset(c) ==
  /\ phase = "locked"
  /\ Clear(c)
  /\ op' = [op EXCEPT ![c] = "clear"]
  /\ UNCHANGED <<phase, locking>>

\* Once the vault is gone the worker is terminated: nothing it was doing
\* will ever answer.
\* Mutant: the worker is kept.
ResetKeepsWorker(c) ==
  /\ Answered(c, "clear", "done")
  /\ phase' = "no-vault" /\ op' = [op EXCEPT ![c] = "none"]
  /\ UNCHANGED <<vars, locking>>
ResetDone(c) ==
  /\ Answered(c, "clear", "done")
  /\ Terminate
  /\ phase' = "no-vault" /\ op' = [d \in Calls |-> "none"] /\ locking' = FALSE

Reload == /\ phase # "none"
          /\ Terminate
          /\ phase' = "loading" /\ op' = [c \in Calls |-> "none"] /\ locking' = FALSE

WorkerStep == /\ phase # "none"
              /\ \E c \in Calls : \/ StoreWrites(c) \/ LoadReads(c) \/ LoadFinishes(c)
                                  \/ ClearDeletes(c) \/ DbFails(c)
              /\ UNCHANGED page

\* Without the page every call of the worker's interface may come at any time.
Headless == phase = "none" /\ Next /\ UNCHANGED page

SNext == \/ Headless
         \/ Boot \/ LockWallet \/ LockAnswered \/ Reload \/ WorkerStep
         \/ \E c \in Calls :
              \/ \E p \in Passwords : Unlock(c, p) \/ \E t \in Seeds : CreateVault(c, p, t)
              \/ \E d \in Calls : CreateLoads(c, d)
              \/ Unlocked(c) \/ Failed(c) \/ Reset(c) \/ ResetDone(c)

SSpec == SInit /\ [][SNext]_sessionVars

-----------------------------------------------------------------------------
STypeOK == /\ TypeOK
           /\ phase \in Phases /\ op \in [Calls -> Ops] /\ locking \in BOOLEAN

\* A page at rest that does not show an open wallet has none to use: whatever
\* unlock, lock and reset overlapped, and whichever of them failed, the worker
\* has neither a manager in use nor a mnemonic.
ShownLockedIsLocked == Quiet /\ phase \in Closed => wdk = None /\ mnemonic = None

\* The wallet a page at rest has open is the one the vault stores: money sent
\* to its address survives a reload.  An unlock that overlaps a reset must
\* not reopen the wallet that was just erased.
OpenWalletIsStored ==
  Quiet /\ phase = "unlocked" => blob # NoBlob /\ mnemonic \in {None, blob.text}

\* A wallet is never overwritten: a stored vault is replaced only by the
\* onboarding that has just written it and could not open it, and erased only
\* by a reset.
NothingOverwritten ==
  [][phase # "none" /\ blob # NoBlob /\ blob' # blob =>
       IF blob' = NoBlob THEN Pending({"clear"})
       ELSE phase = "no-vault" /\ blob \in {[password |-> call[c].password, text |-> call[c].text] :
                                              c \in {d \in Calls : call[d].pc \in {"done", "failed"}}}
    ]_sessionVars
=============================================================================
