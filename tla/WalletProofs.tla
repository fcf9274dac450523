----------------------------- MODULE WalletProofs -----------------------------
(***************************************************************************)
(* The wallet for every number of calls, seeds, passwords and chains: the  *)
(* worker's secrets; and, of the page with its worker, that the two        *)
(* implement the worker alone, so all that is proved of it holds under the *)
(* page, and that screen, keys and vault agree.                            *)
(***************************************************************************)
EXTENDS WalletSession, TLAPS

-----------------------------------------------------------------------------
(* The worker                                                              *)

\* A call that has not been made carries nothing.
IdleIsFresh == \A c \in Calls : call[c].pc = "idle" => call[c] = Fresh

\* The manager in use was built by a load that has finished, and so was any
\* manager a call still holds, whose seed is the one recorded with the call.
HeldByDone ==
  /\ wdk # None => call[wdk].pc = "done"
  /\ \A c \in Calls : call[c].by # None =>
       /\ call[call[c].by].pc = "done"
       /\ managers[call[c].by].seed = call[c].seed

\* A call about to register or to act for the user has what that takes.
Equipped == \A c \in Calls :
  /\ call[c].pc = "loading" => call[c].by # None
  /\ call[c].pc \in {"loading", "acting", "bridging"} /\ call[c].work # "read"
       => call[c].seed \in Seeds
  /\ call[c].pc = "bridging" => call[c].work = "bridge"
  /\ call[c].pc = "deriving" => call[c].password \in Passwords /\ call[c].text \in Texts

\* The stored row, and whatever a load decrypted, was written by a store.
Provenance ==
  /\ blob # NoBlob => blob \in stored
  /\ \A c \in Calls : call[c].pc = "decrypting" /\ call[c].text # None =>
       [password |-> call[c].password, text |-> call[c].text] \in stored

\* An effect belongs to a call that was made.
EffectsOfCalls == \A e \in effects :
  call[e.call].pc # "idle" /\ e.seed = call[e.call].seed

IInv == /\ TypeOK /\ OneSeed /\ NoOrphanManager /\ SeedIsProven
        /\ IdleIsFresh /\ HeldByDone /\ Equipped /\ Provenance /\ EffectsOfCalls

\* What making a call amounts to: the call leaves "idle" with the manager and
\* the seed of the moment, or with none.
Starts(c) ==
  /\ call[c].pc = "idle"
  /\ \E r \in CallRecord :
       /\ call' = [call EXCEPT ![c] = r]
       /\ r.pc \in {"deriving", "reading", "loading", "acting", "done", "failed"}
       /\ r.by # None => r.by = wdk /\ r.seed = mnemonic
       /\ r.pc = "loading" => r.by # None
       /\ r.work # "read" /\ r.pc \in {"loading", "acting"} => r.seed \in Seeds
       /\ r.pc = "deriving" => r.password \in Passwords /\ r.text \in Texts
  /\ \/ managers' = managers
     \/ wdk # None /\ managers' = [managers EXCEPT ![c] = FurtherManager]
  /\ UNCHANGED <<blob, wdk, mnemonic, effects, stored, overtaken>>

LEMMA InitInv == Init => IInv
<1> SUFFICES ASSUME Init PROVE IInv OBVIOUS
<1> USE WorkerAssumption
<1>1. /\ \A c \in Calls : call[c] = Fresh /\ managers[c] = NoManager
      /\ wdk = None /\ mnemonic = None /\ effects = {} /\ overtaken = {}
      /\ call = [c \in Calls |-> Fresh] /\ managers = [c \in Calls |-> NoManager]
  BY DEF Init
<1>2. Fresh \in CallRecord
  BY DEF Fresh, CallRecord, Pcs, Works
<1>3. NoManager \in Manager
  BY DEF NoManager, Manager
<1>4. blob \in Blob \cup {NoBlob} /\ stored = {blob} \cap Blob
  BY DEF Init
<1>5. TypeOK
  BY <1>1, <1>2, <1>3, <1>4 DEF TypeOK
<1>6. OneSeed /\ SeedIsProven
  BY <1>1 DEF OneSeed, SeedIsProven, NoManager
<1>7. NoOrphanManager
  BY <1>1 DEF NoOrphanManager, NoManager
<1>8. IdleIsFresh /\ HeldByDone /\ Equipped /\ EffectsOfCalls
  BY <1>1 DEF IdleIsFresh, HeldByDone, Equipped, EffectsOfCalls, Fresh
<1>9. Provenance
  BY <1>1, <1>4 DEF Provenance, Fresh
<1> QED BY <1>5, <1>6, <1>7, <1>8, <1>9 DEF IInv

\* The seed of the manager in use was written under some password.
LEMMA WdkIsProven ==
  ASSUME IInv, wdk # None
  PROVE  \E p \in Passwords : [password |-> p, text |-> mnemonic] \in stored
<1>1. [password |-> call[wdk].password, text |-> mnemonic] \in Blob
  BY DEF IInv, SeedIsProven, TypeOK
<1>2. call[wdk].password \in Passwords
  BY <1>1 DEF Blob
<1> QED BY <1>2 DEF IInv, SeedIsProven

LEMMA StartsKeeps == ASSUME NEW c \in Calls, IInv, Starts(c) PROVE IInv'
<1> USE WorkerAssumption
<1>1. PICK r \in CallRecord :
       /\ call' = [call EXCEPT ![c] = r]
       /\ r.pc \in {"deriving", "reading", "loading", "acting", "done", "failed"}
       /\ r.by # None => r.by = wdk /\ r.seed = mnemonic
       /\ r.pc = "loading" => r.by # None
       /\ r.work # "read" /\ r.pc \in {"loading", "acting"} => r.seed \in Seeds
       /\ r.pc = "deriving" => r.password \in Passwords /\ r.text \in Texts
  BY DEF Starts
<1>2. /\ call[c].pc = "idle"
      /\ blob' = blob /\ wdk' = wdk /\ mnemonic' = mnemonic
      /\ effects' = effects /\ stored' = stored /\ overtaken' = overtaken
  BY DEF Starts
<1>3. call \in [Calls -> CallRecord] /\ wdk \in Calls \cup {None}
  BY DEF IInv, TypeOK
<1>4. call'[c] = r /\ \A d \in Calls \ {c} : call'[d] = call[d]
  BY <1>1, <1>3
<1>7. wdk # None => wdk # c /\ call'[wdk] = call[wdk] /\ call[wdk].pc = "done"
  BY <1>2, <1>3, <1>4 DEF IInv, HeldByDone
<1>a. /\ managers' \in [Calls -> Manager]
      /\ \A m \in Calls \ {c} : managers'[m] = managers[m]
      /\ \/ managers'[c] = managers[c]
         \/ /\ managers'[c].further /\ managers'[c].seed = mnemonic /\ mnemonic # None
            /\ wdk # None
  <2>1. managers \in [Calls -> Manager] /\ mnemonic \in Seeds \cup {None}
    BY DEF IInv, TypeOK
  <2>2. CASE managers' = managers BY <2>1, <2>2
  <2>3. CASE wdk # None /\ managers' = [managers EXCEPT ![c] = FurtherManager]
    <3>1. mnemonic # None BY <2>3 DEF IInv, OneSeed
    <3>2. /\ FurtherManager \in Manager /\ FurtherManager.further
          /\ FurtherManager.seed = mnemonic
      BY <2>1 DEF FurtherManager, NoManager, Manager
    <3> QED BY <2>1, <2>3, <3>1, <3>2
  <2> QED BY <2>2, <2>3 DEF Starts
<1>5. TypeOK'
  <2>1. call' \in [Calls -> CallRecord] BY <1>1, <1>3
  <2> QED BY <2>1, <1>2, <1>a DEF IInv, TypeOK
<1>6. OneSeed' /\ NoOrphanManager'
  BY <1>2, <1>3, <1>7, <1>a DEF IInv, OneSeed, NoOrphanManager
<1>8. SeedIsProven'
  <2>1. wdk # None =>
          \E p \in Passwords : [password |-> p, text |-> mnemonic] \in stored
    BY WdkIsProven
  <2>2. ASSUME NEW m \in Calls, managers'[m].live
        PROVE  \E p \in Passwords : [password |-> p, text |-> managers'[m].seed] \in stored
    BY <1>a, <2>1, <2>2 DEF IInv, SeedIsProven
  <2> QED BY <1>2, <1>7, <2>2 DEF IInv, SeedIsProven
<1>9. IdleIsFresh'
  BY <1>1, <1>4 DEF IInv, IdleIsFresh
<1>10. HeldByDone'
  <2>1. ASSUME NEW d \in Calls, call'[d].by # None
        PROVE  call'[call'[d].by].pc = "done" /\ managers'[call'[d].by].seed = call'[d].seed
    <3>1. CASE d = c
      BY <3>1, <2>1, <1>1, <1>3, <1>4, <1>7, <1>a DEF IInv, OneSeed
    <3>2. CASE d # c
      <4>1. call[d].by # None /\ call[d].by \in Calls /\ call'[d] = call[d]
        BY <3>2, <2>1, <1>3, <1>4 DEF CallRecord
      <4>2. call[call[d].by].pc = "done" /\ managers[call[d].by].seed = call[d].seed
        BY <4>1 DEF IInv, HeldByDone
      <4> QED BY <4>1, <4>2, <1>2, <1>4, <1>a
    <3> QED BY <3>1, <3>2
  <2> QED BY <2>1, <1>2, <1>7 DEF HeldByDone
<1>11. Equipped'
  BY <1>1, <1>4 DEF IInv, Equipped
<1>12. Provenance'
  BY <1>1, <1>2, <1>4 DEF IInv, Provenance
<1>13. EffectsOfCalls'
  <2>1. \A e \in effects : e.call \in Calls /\ e.call # c
    BY <1>2 DEF IInv, TypeOK, EffectsOfCalls
  <2> QED BY <2>1, <1>2, <1>4 DEF IInv, EffectsOfCalls
<1> QED BY <1>5, <1>6, <1>8, <1>9, <1>10, <1>11, <1>12, <1>13 DEF IInv

\* Every method of the worker makes a call in that sense.
LEMMA RefuseStarts ==
  ASSUME NEW c \in Calls, IInv, call[c].pc = "idle", Refuse(c) PROVE Starts(c)
<1>1. call[c] = Fresh /\ call[c] \in CallRecord /\ call \in [Calls -> CallRecord]
  BY DEF IInv, IdleIsFresh, TypeOK
<1> DEFINE r == [call[c] EXCEPT !.pc = "failed"]
<1>2. r \in CallRecord /\ r.pc = "failed" /\ r.by = None
  BY <1>1 DEF CallRecord, Pcs, Fresh
<1>3. call' = [call EXCEPT ![c] = r]
  BY <1>1 DEF Refuse, Goto
<1> QED BY <1>2, <1>3 DEF Refuse, Starts

LEMMA VaultStarts ==
  ASSUME NEW c \in Calls, IInv,
         \/ \E p \in Passwords : Load(c, p)
         \/ \E p \in Passwords, t \in Texts : Store(c, p, t)
  PROVE  Starts(c)
<1> USE WorkerAssumption
<1>1. CASE \E p \in Passwords : Load(c, p)
  <2>1. PICK p \in Passwords : Load(c, p) BY <1>1
  <2> DEFINE r == [Fresh EXCEPT !.pc = "reading", !.password = p]
  <2>2. r \in CallRecord /\ r.pc = "reading" /\ r.by = None
    BY DEF CallRecord, Pcs, Fresh, Works
  <2> QED BY <2>1, <2>2 DEF Load, Starts
<1>2. CASE \E p \in Passwords, t \in Texts : Store(c, p, t)
  <2>1. PICK p \in Passwords, t \in Texts : Store(c, p, t) BY <1>2
  <2> DEFINE r == [Fresh EXCEPT !.pc = "deriving", !.password = p, !.text = t]
  <2>2. /\ r \in CallRecord /\ r.pc = "deriving" /\ r.by = None
        /\ r.password \in Passwords /\ r.text \in Texts
    BY DEF CallRecord, Pcs, Fresh, Works
  <2> QED BY <2>1, <2>2 DEF Store, Starts
<1> QED BY <1>1, <1>2

LEMMA ManagerStarts ==
  ASSUME NEW c \in Calls, NEW ch, NEW w \in Works, IInv, WithManager(c, ch, w)
  PROVE  Starts(c)
<1> USE WorkerAssumption
<1>1. /\ call[c].pc = "idle" /\ ch \in Chains /\ wdk # None /\ wdk \in Calls
      /\ mnemonic \in Seeds
  BY DEF WithManager, IInv, TypeOK, OneSeed
<1> DEFINE r == [Fresh EXCEPT
             !.pc = IF managers[wdk].wallets[ch] > 0 THEN "acting" ELSE "loading",
             !.chain = ch, !.work = w, !.by = wdk, !.seed = mnemonic]
<1>2. /\ r \in CallRecord /\ r.pc \in {"acting", "loading"}
      /\ r.by = wdk /\ r.seed = mnemonic
  BY <1>1 DEF CallRecord, Pcs, Fresh, Works
<1>3. call' = [call EXCEPT ![c] = r]
  BY DEF WithManager, EnsureChain
<1> HIDE DEF r
<1> QED BY <1>1, <1>2, <1>3 DEF WithManager, Starts

LEMMA MnemonicStarts ==
  ASSUME NEW c \in Calls, NEW w \in Works, NEW ok, IInv, FromMnemonic(c, w, ok)
  PROVE  Starts(c)
<1> USE WorkerAssumption
<1>1. CASE ~(ok /\ mnemonic # None)
  BY <1>1, RefuseStarts DEF FromMnemonic, Refuse
<1>2. CASE ok /\ mnemonic # None
  <2> DEFINE r == [Fresh EXCEPT !.pc = "acting", !.work = w, !.seed = mnemonic]
  <2>1. mnemonic \in Seeds BY <1>2 DEF IInv, TypeOK
  <2>2. r \in CallRecord /\ r.pc = "acting" /\ r.by = None /\ r.seed \in Seeds
    BY <2>1 DEF CallRecord, Pcs, Fresh
  <2>3. wdk # None BY <1>2 DEF IInv, OneSeed
  <2> QED BY <1>2, <2>2, <2>3 DEF FromMnemonic, Starts
<1> QED BY <1>1, <1>2

LEMMA KeylessStarts ==
  ASSUME NEW c \in Calls, NEW ok \in BOOLEAN, IInv, Keyless(c, ok)
  PROVE  Starts(c)
<1> USE WorkerAssumption
<1>1. call[c] = Fresh /\ call[c].pc = "idle" /\ call \in [Calls -> CallRecord]
  BY DEF Keyless, IInv, IdleIsFresh, TypeOK
<1>2. PICK pc \in {"acting", "done", "failed"} :
        call' = [call EXCEPT ![c] = [Fresh EXCEPT !.pc = pc]]
  <2>1. CASE ok BY <2>1 DEF Keyless
  <2>2. CASE ~ok BY <2>2, <1>1 DEF Keyless, Goto
  <2> QED BY <2>1, <2>2
<1> DEFINE r == [Fresh EXCEPT !.pc = pc]
<1>3. r \in CallRecord /\ r.pc = pc /\ r.by = None /\ r.work = "read"
  BY DEF CallRecord, Pcs, Fresh, Works
<1>4. ~(r.pc = "loading") BY <1>3
<1> QED BY <1>1, <1>2, <1>3, <1>4 DEF Keyless, Starts

\* A step that only moves a call in flight, or ends it, leaves the rest be.
LEMMA GotoKeeps ==
  ASSUME NEW c \in Calls, NEW pc \in {"done", "failed", "acting", "bridging"}, IInv,
         Goto(c, pc), call[c].pc \notin {"idle", "done"},
         pc = "acting" => call[c].pc = "loading",
         pc = "bridging" => call[c].pc = "acting" /\ call[c].work = "bridge"
  PROVE  /\ call' \in [Calls -> CallRecord]
         /\ IdleIsFresh' /\ Equipped'
         /\ \A d \in Calls : /\ call'[d].password = call[d].password
                             /\ call'[d].text = call[d].text
                             /\ call'[d].by = call[d].by /\ call'[d].seed = call[d].seed
                             /\ call[d].pc # "idle" => call'[d].pc # "idle"
                             /\ call[d].pc = "done" => call'[d].pc = "done"
                             /\ call'[d].pc = "decrypting" => call[d].pc = "decrypting"
<1>1. call \in [Calls -> CallRecord] /\ call' = [call EXCEPT ![c].pc = pc]
  BY DEF IInv, TypeOK, Goto
<1>2. /\ \A d \in Calls \ {c} : call'[d] = call[d]
      /\ call'[c] = [call[c] EXCEPT !.pc = pc]
  BY <1>1
<1>3. call[c] \in CallRecord /\ call'[c] \in CallRecord /\ call'[c].pc = pc
  BY <1>1, <1>2 DEF CallRecord, Pcs
<1>4. /\ call'[c].password = call[c].password /\ call'[c].text = call[c].text
      /\ call'[c].by = call[c].by /\ call'[c].seed = call[c].seed
      /\ call'[c].work = call[c].work
  BY <1>2, <1>3 DEF CallRecord
<1>5. call' \in [Calls -> CallRecord]
  BY <1>1, <1>3
<1>6. IdleIsFresh'
  BY <1>2, <1>3 DEF IInv, IdleIsFresh
<1>7. Equipped'
  <2>1. ASSUME NEW d \in Calls \ {c}
        PROVE  /\ call'[d].pc = "loading" => call'[d].by # None
               /\ call'[d].pc \in {"loading", "acting", "bridging"} /\ call'[d].work # "read"
                    => call'[d].seed \in Seeds
               /\ call'[d].pc = "bridging" => call'[d].work = "bridge"
               /\ call'[d].pc = "deriving" => call'[d].password \in Passwords /\ call'[d].text \in Texts
    BY <1>2 DEF IInv, Equipped
  <2>2. call'[c].pc \notin {"loading", "deriving"}
    BY <1>3
  <2>3. call'[c].pc \in {"acting", "bridging"} /\ call'[c].work # "read" => call'[c].seed \in Seeds
    BY <1>3, <1>4 DEF IInv, Equipped
  <2>4. call'[c].pc = "bridging" => call'[c].work = "bridge"
    BY <1>3, <1>4
  <2>5. call'[c].pc \in {"loading", "acting", "bridging"} /\ call'[c].work # "read" => call'[c].seed \in Seeds
    BY <2>2, <2>3
  <2> QED BY <2>1, <2>2, <2>4, <2>5 DEF Equipped
<1> QED BY <1>2, <1>3, <1>4, <1>5, <1>6, <1>7

-----------------------------------------------------------------------------
(* The steps that follow an await, one lemma each.                         *)

\* What carries over when neither the manager in use, nor the managers, nor
\* the ghosts change and no call changes but for its pc.
LEMMA QuietKeeps ==
  ASSUME NEW c \in Calls, NEW pc \in {"done", "failed"}, IInv, Goto(c, pc),
         call[c].pc \notin {"idle", "done"},
         UNCHANGED <<wdk, mnemonic, managers, effects>>,
         blob' \in Blob \cup {NoBlob}, stored \subseteq stored', stored' \subseteq Blob,
         blob' # NoBlob => blob' \in stored', overtaken' \subseteq Calls
  PROVE  IInv'
<1>1. /\ call' \in [Calls -> CallRecord]
      /\ IdleIsFresh' /\ Equipped'
      /\ \A d \in Calls : /\ call'[d].password = call[d].password
                          /\ call'[d].text = call[d].text
                          /\ call'[d].by = call[d].by /\ call'[d].seed = call[d].seed
                          /\ call[d].pc # "idle" => call'[d].pc # "idle"
                          /\ call[d].pc = "done" => call'[d].pc = "done"
                          /\ call'[d].pc = "decrypting" => call[d].pc = "decrypting"
  BY GotoKeeps
<1>2. TypeOK'
  BY <1>1 DEF IInv, TypeOK
<1>3. OneSeed' /\ NoOrphanManager'
  BY DEF IInv, OneSeed, NoOrphanManager
<1>4. wdk \in Calls \cup {None} /\ \A d \in Calls : call[d].by \in Calls \cup {None}
  BY DEF IInv, TypeOK, CallRecord
<1>5. SeedIsProven'
  BY <1>1, <1>4 DEF IInv, SeedIsProven
<1>6. HeldByDone'
  BY <1>1, <1>4 DEF IInv, HeldByDone
<1>7. Provenance'
  BY <1>1 DEF IInv, Provenance
<1>8. EffectsOfCalls'
  <2>1. \A e \in effects : e.call \in Calls BY DEF IInv, TypeOK
  <2> QED BY <2>1, <1>1 DEF IInv, EffectsOfCalls
<1> QED BY <1>1, <1>2, <1>3, <1>5, <1>6, <1>7, <1>8 DEF IInv

LEMMA VaultSteps ==
  ASSUME NEW c \in Calls, IInv,
         StoreWrites(c) \/ ClearDeletes(c) \/ DbFails(c)
  PROVE  IInv'
<1> USE WorkerAssumption
<1>1. CASE StoreWrites(c)
  <2>1. call[c].pc = "deriving" /\ call[c] \in CallRecord
    BY <1>1 DEF StoreWrites, IInv, TypeOK
  <2>2. blob' \in Blob
    BY <1>1, <2>1 DEF StoreWrites, Blob, IInv, Equipped
  <2>3. stored' = stored \cup {blob'} /\ stored' \subseteq Blob
    BY <1>1, <2>2 DEF StoreWrites, IInv, TypeOK
  <2> QED BY <1>1, <2>1, <2>2, <2>3, QuietKeeps DEF StoreWrites, IInv, TypeOK
<1>2. CASE ClearDeletes(c)
  BY <1>2, QuietKeeps DEF ClearDeletes, IInv, TypeOK
<1>3. CASE DbFails(c)
  BY <1>3, QuietKeeps DEF DbFails, Refuse, IInv, TypeOK, Provenance
<1> QED BY <1>1, <1>2, <1>3

LEMMA LoadReadsKeeps == ASSUME NEW c \in Calls, IInv, LoadReads(c) PROVE IInv'
<1> USE WorkerAssumption
<1>1. /\ call \in [Calls -> CallRecord] /\ call[c].pc = "reading" /\ call[c] \in CallRecord
      /\ blob \in Blob \cup {NoBlob} /\ stored \subseteq Blob
      /\ UNCHANGED <<blob, wdk, mnemonic, managers, effects, stored, overtaken>>
  BY DEF IInv, TypeOK, LoadReads
<1> DEFINE pc == IF blob = NoBlob THEN "failed" ELSE "decrypting"
           t == IF blob.password = call[c].password THEN blob.text ELSE None
           r == [[call[c] EXCEPT !.pc = pc] EXCEPT !.text = t]
<1>2. t \in Texts \cup {None} /\ pc \in {"failed", "decrypting"}
  BY <1>1 DEF Blob, NoBlob
<1>3. call' = [call EXCEPT ![c] = r]
  BY <1>1 DEF LoadReads
<1>4. /\ r \in CallRecord /\ r.pc = pc /\ r.text = t /\ r.password = call[c].password
      /\ r.by = call[c].by /\ r.seed = call[c].seed
  <2> HIDE DEF pc, t
  <2> QED BY <1>1, <1>2 DEF CallRecord, Pcs
<1>5. pc = "decrypting" /\ t # None => [password |-> r.password, text |-> r.text] \in stored
  <2> SUFFICES ASSUME blob # NoBlob, t # None
               PROVE  [password |-> call[c].password, text |-> blob.text] \in stored
    BY <1>4
  <2>1. blob \in stored /\ blob \in Blob
    BY <1>1 DEF IInv, Provenance
  <2>2. blob.password = call[c].password OBVIOUS
  <2>3. blob = [password |-> blob.password, text |-> blob.text]
    BY <2>1 DEF Blob
  <2> QED BY <2>1, <2>2, <2>3
<1> HIDE DEF r, pc, t
<1>6. call'[c] = r /\ \A d \in Calls \ {c} : call'[d] = call[d]
  BY <1>1, <1>3
<1>7. TypeOK'
  <2>1. call' \in [Calls -> CallRecord] BY <1>1, <1>3, <1>4
  <2> QED BY <2>1, <1>1 DEF IInv, TypeOK
<1>8. OneSeed' /\ NoOrphanManager'
  BY <1>1 DEF IInv, OneSeed, NoOrphanManager
<1>9. \A d \in Calls : /\ call'[d].by = call[d].by /\ call'[d].seed = call[d].seed
                       /\ call[d].pc # "idle" => call'[d].pc # "idle"
                       /\ call[d].pc = "done" => call'[d] = call[d]
  BY <1>1, <1>2, <1>4, <1>6
<1>10. wdk \in Calls \cup {None} /\ \A d \in Calls : call[d].by \in Calls \cup {None}
  BY DEF IInv, TypeOK, CallRecord
<1>11. SeedIsProven'
  BY <1>1, <1>9, <1>10 DEF IInv, SeedIsProven, HeldByDone
<1>12. IdleIsFresh'
  BY <1>2, <1>4, <1>6 DEF IInv, IdleIsFresh
<1>13. HeldByDone'
  BY <1>1, <1>9, <1>10 DEF IInv, HeldByDone
<1>14. Equipped'
  BY <1>2, <1>4, <1>6 DEF IInv, Equipped
<1>15. Provenance'
  BY <1>1, <1>2, <1>4, <1>5, <1>6 DEF IInv, Provenance
<1>16. EffectsOfCalls'
  <2>1. \A e \in effects : e.call \in Calls BY DEF IInv, TypeOK
  <2> QED BY <2>1, <1>1, <1>9 DEF IInv, EffectsOfCalls
<1> QED BY <1>7, <1>8, <1>11, <1>12, <1>13, <1>14, <1>15, <1>16 DEF IInv

LEMMA DisposeFacts ==
  ASSUME IInv
  PROVE  /\ Dispose(wdk) \in [Calls -> Manager]
         /\ \A m \in Calls : /\ Dispose(wdk)[m].live =>
                                  Dispose(wdk)[m].further /\ managers[m].live
                             /\ Dispose(wdk)[m].seed = managers[m].seed
<1> USE WorkerAssumption
<1>1. managers \in [Calls -> Manager] /\ wdk \in Calls \cup {None}
  BY DEF IInv, TypeOK
<1>2. \A m \in Calls : m # wdk /\ managers[m].live => managers[m].further
  BY <1>1 DEF IInv, NoOrphanManager, Manager
<1>3. CASE wdk = None
  BY <1>1, <1>2, <1>3 DEF Dispose
<1>4. CASE wdk \in Calls
  <2>1. Dispose(wdk) = [managers EXCEPT ![wdk].live = FALSE]
    BY <1>4 DEF Dispose
  <2>2. managers[wdk] \in Manager /\ [managers[wdk] EXCEPT !.live = FALSE] \in Manager
    BY <1>1, <1>4 DEF Manager
  <2>3. /\ [managers[wdk] EXCEPT !.live = FALSE].live = FALSE
        /\ [managers[wdk] EXCEPT !.live = FALSE].seed = managers[wdk].seed
    BY <2>2 DEF Manager
  <2> QED BY <1>1, <1>2, <1>4, <2>1, <2>2, <2>3
<1> QED BY <1>1, <1>3, <1>4

LEMMA LoadFinishesKeeps == ASSUME NEW c \in Calls, IInv, LoadFinishes(c) PROVE IInv'
<1> USE WorkerAssumption
<1> DEFINE pc == IF call[c].text = None THEN "failed" ELSE "done"
<1>1. /\ call[c].pc = "decrypting" /\ Goto(c, pc)
      /\ UNCHANGED <<blob, effects, stored, overtaken>>
  BY DEF LoadFinishes
<1>2. CASE call[c].text \notin Seeds
  <2>1. UNCHANGED <<managers, wdk, mnemonic>> BY <1>2 DEF LoadFinishes
  <2>2. pc \in {"done", "failed"} OBVIOUS
  <2> HIDE DEF pc
  <2> QED BY <1>1, <2>1, <2>2, QuietKeeps DEF IInv, TypeOK, Provenance
<1>3. CASE call[c].text \in Seeds
  <2> DEFINE new == [[NoManager EXCEPT !.seed = call[c].text] EXCEPT !.live = TRUE]
  <2>1. /\ managers' = [Dispose(wdk) EXCEPT ![c] = new]
        /\ wdk' = c /\ mnemonic' = call[c].text /\ pc = "done"
    BY <1>3 DEF LoadFinishes
  <2>2. new \in Manager /\ new.seed = call[c].text /\ new.live
    BY <1>3 DEF NoManager, Manager
  <2>3. /\ Dispose(wdk) \in [Calls -> Manager]
        /\ \A m \in Calls : /\ Dispose(wdk)[m].live =>
                                 Dispose(wdk)[m].further /\ managers[m].live
                            /\ Dispose(wdk)[m].seed = managers[m].seed
    BY DisposeFacts
  <2> HIDE DEF new
  <2>4. /\ managers' \in [Calls -> Manager] /\ managers'[c] = new
        /\ \A m \in Calls \ {c} :
             /\ managers'[m].live => managers'[m].further /\ managers[m].live
             /\ managers'[m].seed = managers[m].seed
    BY <2>1, <2>2, <2>3
  <2>5. /\ call' \in [Calls -> CallRecord]
        /\ IdleIsFresh' /\ Equipped'
        /\ \A d \in Calls : /\ call'[d].password = call[d].password
                            /\ call'[d].text = call[d].text
                            /\ call'[d].by = call[d].by /\ call'[d].seed = call[d].seed
                            /\ call[d].pc # "idle" => call'[d].pc # "idle"
                            /\ call[d].pc = "done" => call'[d].pc = "done"
                            /\ call'[d].pc = "decrypting" => call[d].pc = "decrypting"
    BY <1>1, <2>1, GotoKeeps
  <2>6. call'[c].pc = "done"
    BY <1>1, <2>1 DEF Goto, IInv, TypeOK, CallRecord
  <2>7. TypeOK'
    BY <1>1, <1>3, <2>1, <2>4, <2>5 DEF IInv, TypeOK
  <2>8. OneSeed' /\ NoOrphanManager'
    BY <1>3, <2>1, <2>2, <2>4 DEF OneSeed, NoOrphanManager
  <2>9. SeedIsProven'
    <3>1. [password |-> call[c].password, text |-> call[c].text] \in stored
      BY <1>1, <1>3 DEF IInv, Provenance
    <3>2. call[c].password \in Passwords
      BY <3>1 DEF IInv, TypeOK, Blob
    <3>3. ASSUME NEW m \in Calls, managers'[m].live
          PROVE  \E p \in Passwords : [password |-> p, text |-> managers'[m].seed] \in stored
      <4>1. CASE m = c BY <4>1, <3>1, <3>2, <2>2, <2>4
      <4>2. CASE m # c BY <4>2, <3>3, <2>4 DEF IInv, SeedIsProven
      <4> QED BY <4>1, <4>2
    <3> QED BY <1>1, <2>1, <2>5, <3>1, <3>3 DEF SeedIsProven
  <2>10. HeldByDone'
    <3>1. ASSUME NEW d \in Calls, call'[d].by # None
          PROVE  call'[call'[d].by].pc = "done" /\ managers'[call'[d].by].seed = call'[d].seed
      <4>1. call[d].by # None /\ call[d].by \in Calls
        BY <3>1, <2>5 DEF IInv, TypeOK, CallRecord
      <4>2. call[call[d].by].pc = "done" /\ managers[call[d].by].seed = call[d].seed
        BY <4>1 DEF IInv, HeldByDone
      <4>3. call[d].by # c BY <4>2, <1>1
      <4> QED BY <4>1, <4>2, <4>3, <2>4, <2>5
    <3> QED BY <3>1, <2>1, <2>6 DEF HeldByDone
  <2>11. Provenance'
    BY <1>1, <2>5 DEF IInv, Provenance
  <2>12. EffectsOfCalls'
    <3>1. \A e \in effects : e.call \in Calls BY DEF IInv, TypeOK
    <3> QED BY <3>1, <1>1, <2>5 DEF IInv, EffectsOfCalls
  <2> QED BY <2>5, <2>7, <2>8, <2>9, <2>10, <2>11, <2>12 DEF IInv
<1> QED BY <1>2, <1>3

\* Forgetting the manager, by itself.
LEMMA ForgetKeeps ==
  ASSUME IInv, Forget, UNCHANGED <<blob, effects, stored>>,
         call' \in [Calls -> CallRecord], IdleIsFresh', Equipped',
         \A d \in Calls : \/ call'[d] = call[d]
                         \/ /\ call[d].pc = "idle" /\ call'[d].pc = "clearing"
                            /\ call'[d].by = None
  PROVE  IInv'
<1> USE WorkerAssumption
<1>1. /\ Dispose(wdk) \in [Calls -> Manager]
      /\ \A m \in Calls : /\ Dispose(wdk)[m].live =>
                               Dispose(wdk)[m].further /\ managers[m].live
                          /\ Dispose(wdk)[m].seed = managers[m].seed
  BY DisposeFacts
<1>2. managers' = Dispose(wdk) /\ wdk' = None /\ mnemonic' = None /\ overtaken' \subseteq Calls
  BY DEF Forget, IInv, TypeOK
<1>3. TypeOK'
  BY <1>1, <1>2 DEF IInv, TypeOK
<1>4. OneSeed' /\ NoOrphanManager' /\ SeedIsProven'
  BY <1>1, <1>2 DEF IInv, OneSeed, NoOrphanManager, SeedIsProven
<1>5. HeldByDone'
  <2>1. \A d \in Calls : call[d].by \in Calls \cup {None} BY DEF IInv, TypeOK, CallRecord
  <2>2. ASSUME NEW d \in Calls, call'[d].by # None
        PROVE  call'[call'[d].by].pc = "done" /\ managers'[call'[d].by].seed = call'[d].seed
    <3>1. call'[d] = call[d] /\ call[d].by \in Calls
      BY <2>1, <2>2
    <3>2. call[call[d].by].pc = "done" /\ managers[call[d].by].seed = call[d].seed
      BY <2>2, <3>1 DEF IInv, HeldByDone
    <3>3. call'[call[d].by] = call[call[d].by]
      BY <3>1, <3>2
    <3> QED BY <3>1, <3>2, <3>3, <1>1, <1>2
  <2> QED BY <2>2, <1>2 DEF HeldByDone
<1>6. Provenance'
  <2>1. \A d \in Calls : call'[d].pc = "decrypting" => call'[d] = call[d]
    OBVIOUS
  <2> QED BY <2>1 DEF IInv, Provenance
<1>7. EffectsOfCalls'
  <2>1. \A e \in effects : e.call \in Calls /\ call[e.call].pc # "idle"
    BY DEF IInv, TypeOK, EffectsOfCalls
  <2>2. \A e \in effects : call'[e.call] = call[e.call]
    BY <2>1
  <2> QED BY <2>1, <2>2 DEF IInv, EffectsOfCalls
<1> QED BY <1>3, <1>4, <1>5, <1>6, <1>7 DEF IInv

LEMMA ForgetSteps == ASSUME IInv, Lock \/ \E c \in Calls : Clear(c) PROVE IInv'
<1> USE WorkerAssumption
<1>1. CASE Lock
  <2>1. call' = call /\ Forget BY <1>1 DEF Lock
  <2>2. \A d \in Calls : call[d].pc = "idle" => call[d].by = None
    BY DEF IInv, IdleIsFresh, Fresh
  <2>3. IdleIsFresh' /\ Equipped' /\ call' \in [Calls -> CallRecord]
    BY <2>1 DEF IInv, TypeOK, IdleIsFresh, Equipped
  <2> QED BY <1>1, <2>1, <2>2, <2>3, ForgetKeeps DEF Lock
<1>2. ASSUME NEW c \in Calls, Clear(c) PROVE IInv'
  <2>1. /\ call[c].pc = "idle" /\ call[c] = Fresh /\ call \in [Calls -> CallRecord]
        /\ call' = [call EXCEPT ![c].pc = "clearing"]
    BY <1>2 DEF Clear, Goto, IInv, IdleIsFresh, TypeOK
  <2>2. /\ \A d \in Calls \ {c} : call'[d] = call[d]
        /\ call'[c] = [Fresh EXCEPT !.pc = "clearing"]
    BY <2>1
  <2>3. /\ call'[c] \in CallRecord /\ call'[c].pc = "clearing" /\ call'[c].by = None
    BY <2>2 DEF CallRecord, Fresh, Pcs, Works
  <2>4. call' \in [Calls -> CallRecord]
    BY <2>1, <2>3
  <2>5. IdleIsFresh' /\ Equipped'
    <3>1. call'[c].pc \notin {"idle", "loading", "acting", "bridging", "deriving"}
      BY <2>3
    <3> QED BY <2>2, <3>1 DEF IInv, IdleIsFresh, Equipped
  <2>6. \A d \in Calls : call[d].pc = "idle" => call[d].by = None
    BY DEF IInv, IdleIsFresh, Fresh
  <2> QED BY <1>2, <2>1, <2>2, <2>3, <2>4, <2>5, <2>6, ForgetKeeps DEF Clear
<1> QED BY <1>1, <1>2

LEMMA TerminateKeeps == ASSUME IInv, Terminate PROVE IInv'
<1> USE WorkerAssumption
<1>1. /\ managers' \in [Calls -> Manager]
      /\ \A m \in Calls : managers'[m].live = FALSE /\ managers'[m].seed = managers[m].seed
  <2>1. \A m \in Calls : managers[m] \in Manager
    BY DEF IInv, TypeOK
  <2>2. managers' = [m \in Calls |-> [managers[m] EXCEPT !.live = FALSE]]
    BY DEF Terminate
  <2> QED BY <2>1, <2>2 DEF Manager
<1>2. /\ wdk' = None /\ mnemonic' = None
      /\ UNCHANGED <<blob, effects, stored, overtaken>>
  BY DEF Terminate
<1>3. \A d \in Calls : /\ call[d] \in CallRecord
                       /\ call'[d] = IF InFlight(d) THEN [call[d] EXCEPT !.pc = "failed"] ELSE call[d]
  BY DEF Terminate, IInv, TypeOK
<1>4. \A d \in Calls : /\ call'[d] \in CallRecord
                       /\ call'[d].by = call[d].by /\ call'[d].seed = call[d].seed
                       /\ call'[d].pc \in {"idle", "done", "failed"}
                       /\ call'[d].pc # "failed" => call'[d] = call[d]
                       /\ call[d].pc # "idle" => call'[d].pc # "idle"
                       /\ call[d].pc = "done" => call'[d].pc = "done"
  <2> SUFFICES ASSUME NEW d \in Calls
      PROVE /\ call'[d] \in CallRecord
            /\ call'[d].by = call[d].by /\ call'[d].seed = call[d].seed
            /\ call'[d].pc \in {"idle", "done", "failed"}
            /\ call'[d].pc # "failed" => call'[d] = call[d]
            /\ call[d].pc # "idle" => call'[d].pc # "idle"
            /\ call[d].pc = "done" => call'[d].pc = "done"
    OBVIOUS
  <2>1. CASE ~InFlight(d)
    BY <2>1, <1>3 DEF InFlight
  <2>2. CASE InFlight(d)
    <3>1. call[d] \in CallRecord /\ call'[d] = [call[d] EXCEPT !.pc = "failed"]
      BY <2>2, <1>3
    <3>2. /\ call'[d] \in CallRecord /\ call'[d].pc = "failed"
          /\ call'[d].by = call[d].by /\ call'[d].seed = call[d].seed
      BY <3>1 DEF CallRecord, Pcs
    <3> QED BY <3>2, <2>2 DEF InFlight
  <2> QED BY <2>1, <2>2
<1>5. call' \in [Calls -> CallRecord]
  <2>1. call' = [d \in Calls |-> IF InFlight(d) THEN [call[d] EXCEPT !.pc = "failed"] ELSE call[d]]
    BY DEF Terminate
  <2> QED BY <2>1, <1>3, <1>4
<1>6. TypeOK'
  BY <1>1, <1>2, <1>5 DEF IInv, TypeOK
<1>7. OneSeed' /\ NoOrphanManager' /\ SeedIsProven'
  BY <1>1, <1>2 DEF OneSeed, NoOrphanManager, SeedIsProven
<1>8. HeldByDone'
  <2>1. \A d \in Calls : call[d].by \in Calls \cup {None} BY <1>3 DEF CallRecord
  <2> QED BY <2>1, <1>1, <1>2, <1>4 DEF IInv, HeldByDone
<1>9. IdleIsFresh' /\ Equipped'
  BY <1>4 DEF IInv, IdleIsFresh, Equipped
<1>10. Provenance'
  BY <1>2, <1>4 DEF IInv, Provenance
<1>11. EffectsOfCalls'
  <2>1. \A e \in effects : e.call \in Calls BY DEF IInv, TypeOK
  <2> QED BY <2>1, <1>2, <1>4 DEF IInv, EffectsOfCalls
<1> QED BY <1>6, <1>7, <1>8, <1>9, <1>10, <1>11 DEF IInv

LEMMA RegisterKeeps == ASSUME NEW c \in Calls, IInv, Register(c) PROVE IInv'
<1> USE WorkerAssumption
<1> DEFINE m == call[c].by
           ch == call[c].chain
<1>1. /\ call[c].pc = "loading" /\ Goto(c, "acting")
      /\ managers' = [managers EXCEPT ![m].wallets[ch] = @ + 1]
      /\ UNCHANGED <<blob, wdk, mnemonic, effects, stored, overtaken>>
  BY DEF Register
<1>2. m \in Calls /\ managers \in [Calls -> Manager]
  BY <1>1 DEF IInv, TypeOK, CallRecord, Equipped
<1>3. /\ managers' \in [Calls -> Manager]
      /\ \A n \in Calls : /\ managers'[n].seed = managers[n].seed
                          /\ managers'[n].live = managers[n].live
                          /\ managers'[n].further = managers[n].further
  <2>1. managers[m] \in Manager BY <1>2
  <2> DEFINE w == [managers[m].wallets EXCEPT ![ch] = @ + 1]
             new == [managers[m] EXCEPT !.wallets = w]
  <2>2. w \in [Chains -> Nat]
    <3>1. managers[m].wallets \in [Chains -> Nat] BY <2>1 DEF Manager
    <3>2. ch \in Chains => managers[m].wallets[ch] + 1 \in Nat BY <3>1
    <3> HIDE DEF m, ch
    <3> QED BY <3>1, <3>2
  <2>3. managers' = [managers EXCEPT ![m] = new]
    BY <1>1, <1>2, <2>1 DEF Manager
  <2> HIDE DEF w
  <2>4. /\ new \in Manager /\ new.seed = managers[m].seed
        /\ new.live = managers[m].live /\ new.further = managers[m].further
    BY <2>1, <2>2 DEF Manager
  <2> HIDE DEF new, m
  <2> QED BY <1>2, <2>3, <2>4
<1>4. /\ call' \in [Calls -> CallRecord]
      /\ IdleIsFresh' /\ Equipped'
      /\ \A d \in Calls : /\ call'[d].password = call[d].password
                          /\ call'[d].text = call[d].text
                          /\ call'[d].by = call[d].by /\ call'[d].seed = call[d].seed
                          /\ call[d].pc # "idle" => call'[d].pc # "idle"
                          /\ call[d].pc = "done" => call'[d].pc = "done"
                          /\ call'[d].pc = "decrypting" => call[d].pc = "decrypting"
  BY <1>1, GotoKeeps
<1>5. TypeOK'
  BY <1>1, <1>3, <1>4 DEF IInv, TypeOK
<1>6. wdk \in Calls \cup {None} /\ \A d \in Calls : call[d].by \in Calls \cup {None}
  BY DEF IInv, TypeOK, CallRecord
<1>7. OneSeed' /\ NoOrphanManager'
  BY <1>1, <1>3, <1>6 DEF IInv, OneSeed, NoOrphanManager
<1>8. SeedIsProven'
  <2>1. (wdk # None => [password |-> call[wdk].password, text |-> mnemonic] \in stored)'
    BY <1>1, <1>3, <1>4, <1>6 DEF IInv, SeedIsProven
  <2>2. ASSUME NEW n \in Calls, managers'[n].live
        PROVE  \E p \in Passwords : [password |-> p, text |-> managers'[n].seed] \in stored'
    BY <2>2, <1>1, <1>3 DEF IInv, SeedIsProven
  <2> QED BY <2>1, <2>2 DEF SeedIsProven
<1>9. HeldByDone'
  BY <1>1, <1>3, <1>4, <1>6 DEF IInv, HeldByDone
<1>10. Provenance'
  BY <1>1, <1>4 DEF IInv, Provenance
<1>11. EffectsOfCalls'
  <2>1. \A e \in effects : e.call \in Calls BY DEF IInv, TypeOK
  <2> QED BY <2>1, <1>1, <1>4 DEF IInv, EffectsOfCalls
<1> QED BY <1>4, <1>5, <1>7, <1>8, <1>9, <1>10, <1>11 DEF IInv

\* The signer of a call that acts for the user is the seed it was given.
LEMMA SignerIsCallers ==
  ASSUME NEW c \in Calls, IInv PROVE Signer(c) = call[c].seed
BY DEF IInv, HeldByDone, Signer

LEMMA ActKeeps ==
  ASSUME NEW c \in Calls, NEW pc \in {"done", "failed", "bridging"}, IInv,
         NEW what \in {"signature", "transaction", "approval", "bridge"},
         call[c].pc \in {"acting", "bridging"}, Goto(c, pc),
         pc = "bridging" => call[c].pc = "acting" /\ call[c].work = "bridge",
         UNCHANGED effects \/ (call[c].work # "read" /\ Effect(c, what)),
         UNCHANGED <<blob, wdk, mnemonic, managers, stored, overtaken>>
  PROVE  IInv'
<1> USE WorkerAssumption
<1>1. /\ call' \in [Calls -> CallRecord]
      /\ IdleIsFresh' /\ Equipped'
      /\ \A d \in Calls : /\ call'[d].password = call[d].password
                          /\ call'[d].text = call[d].text
                          /\ call'[d].by = call[d].by /\ call'[d].seed = call[d].seed
                          /\ call[d].pc # "idle" => call'[d].pc # "idle"
                          /\ call[d].pc = "done" => call'[d].pc = "done"
                          /\ call'[d].pc = "decrypting" => call[d].pc = "decrypting"
  BY GotoKeeps
<1>2. /\ \A e \in effects' : e \in effects \/ e = [call |-> c, what |-> what, seed |-> call[c].seed]
      /\ effects' = effects \/ call[c].seed \in Seeds
  BY SignerIsCallers DEF Effect, IInv, Equipped
<1>3. TypeOK'
  BY <1>1, <1>2 DEF IInv, TypeOK
<1>4. OneSeed' /\ NoOrphanManager'
  BY DEF IInv, OneSeed, NoOrphanManager
<1>5. wdk \in Calls \cup {None} /\ \A d \in Calls : call[d].by \in Calls \cup {None}
  BY DEF IInv, TypeOK, CallRecord
<1>6. SeedIsProven' /\ HeldByDone'
  BY <1>1, <1>5 DEF IInv, SeedIsProven, HeldByDone
<1>7. Provenance'
  BY <1>1 DEF IInv, Provenance
<1>8. EffectsOfCalls'
  <2>1. \A e \in effects : e.call \in Calls BY DEF IInv, TypeOK
  <2> QED BY <2>1, <1>1, <1>2 DEF IInv, EffectsOfCalls
<1> QED BY <1>1, <1>3, <1>4, <1>6, <1>7, <1>8 DEF IInv

LEMMA NextInv == IInv /\ [Next]_vars => IInv'
<1> SUFFICES ASSUME IInv, [Next]_vars PROVE IInv' OBVIOUS
<1>1. CASE UNCHANGED vars
  BY <1>1 DEF vars, IInv, TypeOK, OneSeed, NoOrphanManager, SeedIsProven, IdleIsFresh,
              HeldByDone, Equipped, Provenance, EffectsOfCalls
<1>2. CASE Vault
  <2>1. PICK c \in Calls :
          \/ \E p \in Passwords : Load(c, p) \/ \E t \in Texts : Store(c, p, t)
          \/ Clear(c) \/ StoreWrites(c) \/ LoadReads(c) \/ LoadFinishes(c) \/ ClearDeletes(c)
          \/ DbFails(c)
    BY <1>2 DEF Vault
  <2>2. CASE \E p \in Passwords : Load(c, p) \/ \E t \in Texts : Store(c, p, t)
    BY <2>2, VaultStarts, StartsKeeps
  <2>3. CASE Clear(c) BY <2>3, ForgetSteps
  <2>4. CASE StoreWrites(c) \/ ClearDeletes(c) \/ DbFails(c) BY <2>4, VaultSteps
  <2>5. CASE LoadReads(c) BY <2>5, LoadReadsKeeps
  <2>6. CASE LoadFinishes(c) BY <2>6, LoadFinishesKeeps
  <2> QED BY <2>1, <2>2, <2>3, <2>4, <2>5, <2>6
<1>3. CASE Account
  <2>1. PICK c \in Calls :
          \/ \E ch \in Chains \cup {Unknown}, ok \in BOOLEAN, w \in Works :
               \/ SendNative(c, ch, ok) \/ BtcTonTron(c, ch, w, ok)
               \/ GetAddress(c, ch) \/ Sign(c, ch, ok) \/ PayX402(c, ch)
               \/ \E g \in BOOLEAN : Protocol(c, ch, w, g, ok)
               \/ SmartAccount(c, w, ok) \/ Spark(c, w, ok)
               \/ RpcRead(c, ok) \/ MoonPay(c, ok)
          \/ Register(c) \/ Acts(c) \/ Bridges(c)
    BY <1>3 DEF Account
  <2>2. ASSUME NEW ch \in Chains \cup {Unknown}, NEW ok \in BOOLEAN, NEW w \in Works,
               \/ SendNative(c, ch, ok) \/ BtcTonTron(c, ch, w, ok)
               \/ GetAddress(c, ch) \/ Sign(c, ch, ok) \/ PayX402(c, ch)
               \/ \E g \in BOOLEAN : Protocol(c, ch, w, g, ok)
               \/ SmartAccount(c, w, ok) \/ Spark(c, w, ok)
               \/ RpcRead(c, ok) \/ MoonPay(c, ok)
        PROVE  IInv'
    <3>1. \/ call[c].pc = "idle" /\ Refuse(c)
          \/ \E v \in Works : WithManager(c, ch, v)
          \/ FromMnemonic(c, w, ok)
          \/ Keyless(c, ok)
      BY <2>2 DEF SendNative, BtcTonTron, GetAddress, Sign, PayX402, Protocol, SmartAccount,
                  Spark, RpcRead, MoonPay, Refused, Works
    <3> QED BY <3>1, RefuseStarts, ManagerStarts, MnemonicStarts, KeylessStarts, StartsKeeps
  <2>3. CASE Register(c) BY <2>3, RegisterKeeps
  <2>4. CASE Acts(c)
    <3>1. /\ call[c].pc = "acting"
          /\ UNCHANGED <<blob, wdk, mnemonic, managers, stored, overtaken>>
      BY <2>4 DEF Acts
    <3>2. CASE Goto(c, "failed") /\ UNCHANGED effects
      BY <3>1, <3>2, ActKeeps
    <3>3. CASE call[c].work = "read" /\ Goto(c, "done") /\ UNCHANGED effects
      BY <3>1, <3>3, ActKeeps
    <3>4. CASE /\ call[c].work \in {"signature", "transaction"}
               /\ \E pc \in {"done", "failed"} : Goto(c, pc)
               /\ Effect(c, call[c].work)
      BY <3>1, <3>4, ActKeeps
    <3>5. CASE /\ call[c].work = "bridge"
               /\ \E pc \in {"bridging", "failed"} : Goto(c, pc)
               /\ Effect(c, "approval")
      BY <3>1, <3>5, ActKeeps
    <3> QED BY <2>4, <3>2, <3>3, <3>4, <3>5 DEF Acts
  <2>5. CASE Bridges(c)
    <3>1. /\ call[c].pc = "bridging" /\ call[c].work = "bridge"
          /\ UNCHANGED <<blob, wdk, mnemonic, managers, stored, overtaken>>
      BY <2>5 DEF Bridges, IInv, Equipped
    <3>2. CASE Goto(c, "failed") /\ UNCHANGED effects
      BY <3>1, <3>2, ActKeeps
    <3>3. CASE (\E pc \in {"done", "failed"} : Goto(c, pc)) /\ Effect(c, "bridge")
      BY <3>1, <3>3, ActKeeps
    <3> QED BY <2>5, <3>2, <3>3 DEF Bridges
  <2> QED BY <2>1, <2>2, <2>3, <2>4, <2>5
<1>4. CASE Lock BY <1>4, ForgetSteps
<1>5. CASE Terminate BY <1>5, TerminateKeeps
<1> QED BY <1>1, <1>2, <1>3, <1>4, <1>5 DEF Next

\* What is known of vault, managers and calls in every state, whichever loads,
\* locks, clears and restarts overlap (worker/wallet-worker.ts).
THEOREM WorkerInvariant == Spec => []IInv
BY InitInv, NextInv, PTL DEF Spec

\* The worker's variables keep their types.
THEOREM WorkerTypes == Spec => []TypeOK
<1>1. IInv => TypeOK BY DEF IInv
<1> QED BY <1>1, WorkerInvariant, PTL

\* Manager and mnemonic agree whatever loads, locks and clears overlap.
THEOREM WorkerOneSeed == Spec => []OneSeed
<1>1. IInv => OneSeed BY DEF IInv
<1> QED BY <1>1, WorkerInvariant, PTL

\* Of the managers that hold a key one is in use, and every other was built by
\* a gasless or Spark call.
THEOREM WorkerNoOrphan == Spec => []NoOrphanManager
<1>1. IInv => NoOrphanManager BY DEF IInv
<1> QED BY <1>1, WorkerInvariant, PTL

\* A seed in memory was stored under the password that brought it there, the
\* seeds of the managers that outlive a lock included.
THEOREM WorkerSeedProven == Spec => []SeedIsProven
<1>1. IInv => SeedIsProven BY DEF IInv
<1> QED BY <1>1, WorkerInvariant, PTL

\* Every signature and transaction is by the seed held when it was asked for.
THEOREM WorkerSignedByCallersSeed == Spec => []SignedByCallersSeed
<1>1. IInv => SignedByCallersSeed BY DEF IInv, EffectsOfCalls, SignedByCallersSeed
<1> QED BY <1>1, WorkerInvariant, PTL

\* One seed in use, no key held by a manager that a load replaced, and a password
\* that was proven for every seed in memory, all at once.
THEOREM WorkerKeysInHand == Spec => []KeysInHand
<1>1. IInv => KeysInHand BY DEF IInv, KeysInHand
<1> QED BY <1>1, WorkerInvariant, PTL

-----------------------------------------------------------------------------
(* Bridges                                                                 *)

Did(c, what) == \E e \in effects : e.call = c /\ e.what = what

\* A bridge is approved before it is called for, and called for before it is
\* reported; no other work is ever taken for one.
BridgeInv == \A c \in Calls :
  /\ call[c].work = "bridge" => call[c].pc \in {"loading", "acting", "bridging", "done", "failed"}
  /\ call[c].pc = "bridging" => Did(c, "approval")
  /\ Did(c, "bridge") => Did(c, "approval")
  /\ call[c].work = "bridge" /\ call[c].pc = "done" => Did(c, "bridge")

\* A step without an effect, of one call: it begins, or goes on short of
\* reporting a bridge.
LEMMA NoEffectKeeps ==
  ASSUME BridgeInv, NEW c \in Calls, effects' = effects,
         \A d \in Calls : d # c => call'[d] = call[d],
         \/ call'[c].work = "read" /\ call'[c].pc # "bridging"
         \/ call'[c].pc \in {"loading", "acting", "failed"}
  PROVE  BridgeInv'
<1>1. \A d \in Calls, what \in {"approval", "bridge"} : Did(d, what)' <=> Did(d, what)
  BY DEF Did
<1> QED BY <1>1 DEF BridgeInv

LEMMA StartKeepsBridges ==
  ASSUME IInv, BridgeInv, NEW c \in Calls,
         \/ call[c].pc = "idle" /\ Refuse(c)
         \/ \E p \in Passwords : Load(c, p) \/ \E t \in Texts : Store(c, p, t)
         \/ \E ch \in Chains \cup {Unknown}, v \in Works : WithManager(c, ch, v)
         \/ \E v \in Works, ok \in BOOLEAN : FromMnemonic(c, v, ok)
         \/ \E ok \in BOOLEAN : Keyless(c, ok)
  PROVE  BridgeInv'
<1>1. call[c] = Fresh /\ call \in [Calls -> CallRecord]
  BY DEF IInv, IdleIsFresh, TypeOK, Load, Store, WithManager, FromMnemonic, Keyless
<1>2. effects' = effects BY DEF Refuse, Load, Store, WithManager, FromMnemonic, Keyless
<1>3. CASE call[c].pc = "idle" /\ Refuse(c)
  BY <1>1, <1>2, <1>3, NoEffectKeeps DEF Refuse, Goto, CallRecord
<1>4. CASE \E p \in Passwords : Load(c, p) \/ \E t \in Texts : Store(c, p, t)
  BY <1>1, <1>2, <1>4, NoEffectKeeps DEF Load, Store, Fresh
<1>5. CASE \E ch \in Chains \cup {Unknown}, v \in Works : WithManager(c, ch, v)
  BY ZenonT(60), <1>1, <1>2, <1>5, NoEffectKeeps DEF WithManager, EnsureChain, Fresh
<1>6. CASE \E v \in Works, ok \in BOOLEAN : FromMnemonic(c, v, ok)
  BY <1>1, <1>2, <1>6, NoEffectKeeps DEF FromMnemonic, Goto, Fresh, CallRecord
<1>7. CASE \E ok \in BOOLEAN : Keyless(c, ok)
  BY <1>1, <1>2, <1>7, NoEffectKeeps DEF Keyless, Goto, Fresh, CallRecord
<1> QED BY <1>3, <1>4, <1>5, <1>6, <1>7

LEMMA VaultKeepsBridges ==
  ASSUME IInv, BridgeInv, NEW c \in Calls,
         Clear(c) \/ StoreWrites(c) \/ LoadReads(c) \/ LoadFinishes(c) \/ ClearDeletes(c) \/ DbFails(c)
  PROVE  BridgeInv'
<1>1. call \in [Calls -> CallRecord] /\ effects' = effects
  BY DEF IInv, TypeOK, Clear, StoreWrites, LoadReads, LoadFinishes, ClearDeletes, DbFails, Refuse
<1>2. \A d \in Calls : d # c => call'[d] = call[d]
  BY <1>1 DEF Clear, StoreWrites, LoadReads, LoadFinishes, ClearDeletes, DbFails, Refuse, Goto
<1>3. call[c].pc \in {"idle", "deriving", "reading", "decrypting", "clearing"}
  BY DEF Clear, StoreWrites, LoadReads, LoadFinishes, ClearDeletes, DbFails
<1>4. call'[c].work = call[c].work /\ call'[c].pc # "bridging"
  BY <1>1 DEF Clear, StoreWrites, LoadReads, LoadFinishes, ClearDeletes, DbFails, Refuse, Goto, CallRecord
<1>5. call[c].work # "bridge" BY <1>3 DEF BridgeInv
<1>6. \A d \in Calls, what \in {"approval", "bridge"} : Did(d, what)' <=> Did(d, what)
  BY <1>1 DEF Did
<1> QED BY <1>2, <1>4, <1>5, <1>6 DEF BridgeInv

LEMMA EffectIsDid == ASSUME NEW c \in Calls, NEW what, Effect(c, what) PROVE Did(c, what)'
<1> DEFINE e == [call |-> c, what |-> what, seed |-> Signer(c)]
<1>1. e \in effects' /\ e.call = c /\ e.what = what BY DEF Effect
<1> HIDE DEF e
<1> QED BY <1>1 DEF Did

LEMMA ActKeepsBridges ==
  ASSUME IInv, BridgeInv, NEW c \in Calls, Register(c) \/ Acts(c) \/ Bridges(c)
  PROVE  BridgeInv'
<1>1. call \in [Calls -> CallRecord] BY DEF IInv, TypeOK
<1>2. /\ \A d \in Calls : d # c => call'[d] = call[d]
      /\ call'[c].work = call[c].work
  BY <1>1 DEF Register, Acts, Bridges, Goto, CallRecord
<1>3. \A d \in Calls, what \in {"approval", "bridge"} :
        /\ Did(d, what) => Did(d, what)'
        /\ d # c => (Did(d, what)' <=> Did(d, what))
  BY DEF Register, Acts, Bridges, Effect, Did
<1>4. CASE Register(c)
  BY <1>1, <1>2, <1>4, NoEffectKeeps DEF Register, Goto, CallRecord
<1>5. CASE Acts(c)
  <2>1. CASE call[c].work # "bridge"
    <3>1. call'[c].pc # "bridging" BY <1>1, <1>5, <2>1 DEF Acts, Goto, CallRecord
    <3>2. Did(c, "bridge")' <=> Did(c, "bridge") BY <1>5, <2>1 DEF Acts, Effect, Did
    <3> QED BY <1>2, <1>3, <2>1, <3>1, <3>2 DEF BridgeInv
  <2>2. CASE call[c].work = "bridge"
    <3>1. /\ call'[c].pc \in {"bridging", "failed"}
          /\ call'[c].pc = "bridging" => Did(c, "approval")'
      <4>1. \/ Goto(c, "failed")
            \/ (\E pc \in {"bridging", "failed"} : Goto(c, pc)) /\ Effect(c, "approval")
        BY <1>5, <2>2 DEF Acts
      <4> QED BY <1>1, <4>1, EffectIsDid DEF Goto, CallRecord
    <3>2. Did(c, "bridge")' => Did(c, "bridge") BY <1>5, <2>2 DEF Acts, Effect, Did
    <3> QED BY <1>2, <1>3, <3>1, <3>2 DEF BridgeInv
  <2> QED BY <2>1, <2>2
<1>6. CASE Bridges(c)
  <2>1. Did(c, "approval") BY <1>6 DEF Bridges, BridgeInv
  <2>2. /\ call'[c].pc \in {"done", "failed"}
        /\ call'[c].pc = "done" => Did(c, "bridge")'
    <3>1. \/ Goto(c, "failed")
          \/ (\E pc \in {"done", "failed"} : Goto(c, pc)) /\ Effect(c, "bridge")
      BY <1>6 DEF Bridges
    <3> QED BY <1>1, <3>1, EffectIsDid DEF Goto, CallRecord
  <2> QED BY <1>2, <1>3, <2>1, <2>2 DEF BridgeInv
<1> QED BY <1>4, <1>5, <1>6

LEMMA NextBridges == IInv /\ BridgeInv /\ [Next]_vars => BridgeInv'
<1> SUFFICES ASSUME IInv, BridgeInv, [Next]_vars PROVE BridgeInv' OBVIOUS
<1>1. CASE UNCHANGED vars BY <1>1 DEF vars, BridgeInv, Did
<1>2. CASE Vault BY <1>2, StartKeepsBridges, VaultKeepsBridges DEF Vault
<1>3. CASE Account
  <2>1. PICK c \in Calls :
          \/ \E ch \in Chains \cup {Unknown}, ok \in BOOLEAN, w \in Works :
               \/ SendNative(c, ch, ok) \/ BtcTonTron(c, ch, w, ok)
               \/ GetAddress(c, ch) \/ Sign(c, ch, ok) \/ PayX402(c, ch)
               \/ \E g \in BOOLEAN : Protocol(c, ch, w, g, ok)
               \/ SmartAccount(c, w, ok) \/ Spark(c, w, ok)
               \/ RpcRead(c, ok) \/ MoonPay(c, ok)
          \/ Register(c) \/ Acts(c) \/ Bridges(c)
    BY <1>3 DEF Account
  <2>2. ASSUME NEW ch \in Chains \cup {Unknown}, NEW ok \in BOOLEAN, NEW w \in Works,
               \/ SendNative(c, ch, ok) \/ BtcTonTron(c, ch, w, ok)
               \/ GetAddress(c, ch) \/ Sign(c, ch, ok) \/ PayX402(c, ch)
               \/ \E g \in BOOLEAN : Protocol(c, ch, w, g, ok)
               \/ SmartAccount(c, w, ok) \/ Spark(c, w, ok)
               \/ RpcRead(c, ok) \/ MoonPay(c, ok)
        PROVE  BridgeInv'
    <3>1. \/ call[c].pc = "idle" /\ Refuse(c)
          \/ \E v \in Works : WithManager(c, ch, v)
          \/ FromMnemonic(c, w, ok)
          \/ Keyless(c, ok)
      BY <2>2 DEF SendNative, BtcTonTron, GetAddress, Sign, PayX402, Protocol, SmartAccount,
                  Spark, RpcRead, MoonPay, Refused, Works
    <3> QED BY <3>1, StartKeepsBridges
  <2> QED BY <2>1, <2>2, ActKeepsBridges
<1>4. CASE Lock BY <1>4 DEF Lock, BridgeInv, Did
<1>5. CASE Terminate
  <2>1. /\ effects' = effects
        /\ \A c \in Calls : call'[c] = call[c] \/ (call'[c].pc = "failed" /\ call'[c].work = call[c].work)
    BY <1>5 DEF Terminate, IInv, TypeOK, CallRecord
  <2>2. \A d \in Calls, what \in {"approval", "bridge"} : Did(d, what)' <=> Did(d, what)
    BY <2>1 DEF Did
  <2> QED BY <2>1, <2>2 DEF BridgeInv
<1> QED BY <1>1, <1>2, <1>3, <1>4, <1>5 DEF Next

\* No bridge is reported that was not made, none is made unapproved.
THEOREM WorkerBridgeIsWhole == Spec => []BridgeIsWhole
<1>1. Init => BridgeInv
  BY DEF Init, BridgeInv, Did, Fresh
<1>2. Spec => []BridgeInv
  BY <1>1, WorkerInvariant, NextBridges, PTL DEF Spec
<1>3. BridgeInv => BridgeIsWhole
  BY DEF BridgeInv, BridgeIsWhole, Did
<1> QED BY <1>2, <1>3, PTL

-----------------------------------------------------------------------------
(* The page with its worker                                                *)

Entering == {"store", "load", "unlock"}
Opening == {"load", "unlock"}
Erased == \E c \in Calls : Answered(c, "clear", "done")

PageTypes == phase \in Phases /\ op \in [Calls -> Ops] /\ locking \in BOOLEAN

\* Each operation belongs to a screen, and those that open a wallet come one
\* at a time.
OpsOfScreens ==
  /\ \A c \in Calls : /\ op[c] \in {"store", "load"} => phase = "no-vault"
                      /\ op[c] = "unlock" => phase = "locked"
                      /\ op[c] = "clear" => phase \in {"locked", "unlocked"}
  /\ \A c, d \in Calls : op[c] \in Entering /\ op[d] \in Entering => c = d

\* Under the page every vault call is awaited by the operation that made it.
Awaited == phase # "none" => \A c \in Calls :
  /\ call[c].pc = "deriving" => op[c] = "store"
  /\ call[c].pc \in {"reading", "decrypting"} => op[c] \in Opening
  /\ call[c].pc = "clearing" => op[c] = "clear"

Progress == \A c \in Calls :
  /\ op[c] = "store" => /\ call[c].pc \in {"deriving", "done", "failed"}
                        /\ call[c].password \in Passwords /\ call[c].text \in Texts
  /\ op[c] \in Opening => call[c].pc \in {"reading", "decrypting", "done", "failed"}
  /\ op[c] = "clear" => call[c].pc \in {"clearing", "done", "failed"}

\* Keys behind a closed screen are those of an unlock about to answer; a lock
\* that has not answered has already been carried out.
KeysAnnounced ==
  /\ phase \in Closed /\ wdk # None => \E c \in Calls : op[c] \in Opening /\ call[c].pc = "done"
  /\ locking => phase = "unlocked" /\ wdk = None

\* Behind the lock and the wallet screen there is a vault, unless a reset has
\* just erased it; the wallet opened or about to be is the stored one.
VaultBehind ==
  /\ phase \in {"locked", "unlocked"} /\ blob = NoBlob => Erased
  /\ Erased => blob = NoBlob
  /\ \A c \in Calls : /\ op[c] = "load" => blob # NoBlob
                      /\ Answered(c, "store", "done") => blob # NoBlob
  /\ phase # "none" /\ ~Erased =>
       /\ mnemonic # None => mnemonic = blob.text
       /\ \A c \in Calls : call[c].pc = "decrypting" /\ call[c].text # None =>
            call[c].text = blob.text

\* What onboarding may overwrite is what onboarding wrote.
Written == {[password |-> call[c].password, text |-> call[c].text] :
              c \in {d \in Calls : call[d].pc \in {"done", "failed"}}}
OwnVault == phase = "no-vault" /\ blob # NoBlob => blob \in Written

SInv == /\ PageTypes /\ OpsOfScreens /\ Awaited /\ Progress
        /\ KeysAnnounced /\ VaultBehind /\ OwnVault

LEMMA SInitInv == SInit => Init /\ SInv
<1> SUFFICES ASSUME SInit PROVE Init /\ SInv OBVIOUS
<1> USE WorkerAssumption
<1>1. /\ Init /\ \A c \in Calls : op[c] = "none" /\ call[c].pc = "idle"
      /\ op = [c \in Calls |-> "none"] /\ phase \in {"loading", "none"} /\ ~locking
      /\ locking \in BOOLEAN /\ wdk = None /\ mnemonic = None
  BY DEF SInit, Init, Fresh
<1>2. PageTypes BY <1>1 DEF PageTypes, Phases, Closed, Ops
<1>3. OpsOfScreens BY <1>1 DEF OpsOfScreens, Entering
<1>4. Awaited /\ Progress BY <1>1 DEF Awaited, Progress, Opening
<1>5. KeysAnnounced BY <1>1 DEF KeysAnnounced
<1>6. VaultBehind BY <1>1 DEF VaultBehind, Erased, Answered
<1>7. OwnVault BY <1>1 DEF OwnVault
<1> QED BY <1>1, <1>2, <1>3, <1>4, <1>5, <1>6, <1>7 DEF SInv

-----------------------------------------------------------------------------
(* The page implements the worker                                          *)

\* Every step of page and worker is one of the worker's, or none of it.
LEMMA StepIsWorkers == SInv /\ [SNext]_sessionVars => [Next]_vars
<1> SUFFICES ASSUME SInv, [SNext]_sessionVars PROVE Next \/ UNCHANGED vars BY DEF vars
<1>1. CASE Headless BY <1>1 DEF Headless
<1>2. CASE Boot BY <1>2 DEF Boot
<1>3. CASE LockWallet BY <1>3 DEF LockWallet, Next
<1>4. CASE LockAnswered BY <1>4 DEF LockAnswered
<1>5. CASE Reload BY <1>5 DEF Reload, Next
<1>6. CASE WorkerStep BY <1>6 DEF WorkerStep, Next, Vault
<1>7. ASSUME NEW c \in Calls, NEW p \in Passwords, Unlock(c, p) PROVE Next
  BY <1>7 DEF Unlock, Next, Vault
<1>8. ASSUME NEW c \in Calls, NEW p \in Passwords, NEW t \in Seeds, CreateVault(c, p, t) PROVE Next
  <2>1. t \in Texts BY DEF Texts
  <2> QED BY <1>8, <2>1 DEF CreateVault, Next, Vault
<1>9. ASSUME NEW c \in Calls, NEW d \in Calls, CreateLoads(c, d) PROVE Next
  <2>1. call[c].password \in Passwords BY <1>9 DEF CreateLoads, Answered, SInv, Progress
  <2> QED BY <1>9, <2>1 DEF CreateLoads, Next, Vault
<1>10. ASSUME NEW c \in Calls, Unlocked(c) \/ Failed(c) PROVE UNCHANGED vars
  BY <1>10 DEF Unlocked, Failed
<1>11. ASSUME NEW c \in Calls, Reset(c) PROVE Next
  BY <1>11 DEF Reset, Next, Vault
<1>12. ASSUME NEW c \in Calls, ResetDone(c) PROVE Next
  BY <1>12 DEF ResetDone, Next
<1>13. CASE UNCHANGED sessionVars BY <1>13 DEF sessionVars
<1> QED BY <1>1, <1>2, <1>3, <1>4, <1>5, <1>6, <1>7, <1>8, <1>9, <1>10, <1>11, <1>12, <1>13 DEF SNext
-----------------------------------------------------------------------------
(* Screen, keys and vault agree                                            *)

\* Where no screen of onboarding or unlocking shows, nothing is under way.
LEMMA NothingUnderWay == ASSUME SInv, phase \in {"loading", "error", "none"}
                         PROVE \A c \in Calls : op[c] = "none"
BY DEF SInv, PageTypes, Ops, OpsOfScreens

LEMMA BootKeeps == ASSUME SInv, Boot PROVE SInv'
<1>1. /\ phase = "loading" /\ phase' \in {"no-vault", "locked", "error"}
      /\ phase' = "locked" => blob # NoBlob
      /\ phase' = "no-vault" => blob = NoBlob
      /\ call' = call /\ wdk' = wdk /\ mnemonic' = mnemonic /\ blob' = blob
      /\ op' = op /\ locking' = locking
  BY DEF Boot, vars
<1>2. \A c \in Calls : op[c] = "none" BY <1>1, NothingUnderWay
<1>3. ~Erased /\ ~Erased' BY <1>1, <1>2 DEF Erased, Answered
<1>4. PageTypes' BY <1>1 DEF SInv, PageTypes, Phases, Closed
<1>5. OpsOfScreens' BY <1>1, <1>2 DEF OpsOfScreens, Entering
<1>6. Awaited' BY <1>1 DEF SInv, Awaited
<1>7. Progress' BY <1>1 DEF SInv, Progress, Opening
<1>8. KeysAnnounced' BY <1>1, <1>2 DEF SInv, KeysAnnounced, Closed, Opening
<1>9. VaultBehind' BY <1>1, <1>2, <1>3 DEF SInv, VaultBehind, Answered
<1>10. OwnVault' BY <1>1 DEF OwnVault, NoBlob
<1> QED BY <1>4, <1>5, <1>6, <1>7, <1>8, <1>9, <1>10 DEF SInv

LEMMA LockAnsweredKeeps == ASSUME SInv, LockAnswered PROVE SInv'
<1>1. /\ locking /\ phase = "unlocked" /\ wdk = None /\ phase' = "locked" /\ ~locking' /\ locking' \in BOOLEAN
      /\ call' = call /\ wdk' = wdk /\ mnemonic' = mnemonic /\ blob' = blob /\ op' = op
  BY DEF LockAnswered, vars, SInv, KeysAnnounced
<1>2. \A c \in Calls : op[c] \in {"none", "clear"}
  BY <1>1 DEF SInv, PageTypes, Ops, OpsOfScreens
<1>3. Erased' <=> Erased BY <1>1 DEF Erased, Answered
<1>4. PageTypes' BY <1>1 DEF SInv, PageTypes, Phases, Closed
<1>5. OpsOfScreens' BY <1>1, <1>2 DEF SInv, OpsOfScreens, Entering
<1>6. Awaited' BY <1>1 DEF SInv, Awaited
<1>7. Progress' BY <1>1 DEF SInv, Progress, Opening
<1>8. KeysAnnounced' BY <1>1 DEF KeysAnnounced
<1>9. VaultBehind' BY <1>1, <1>2, <1>3 DEF SInv, VaultBehind, Answered
<1>10. OwnVault' BY <1>1 DEF OwnVault
<1> QED BY <1>4, <1>5, <1>6, <1>7, <1>8, <1>9, <1>10 DEF SInv

\* An operation answers: the one that opened the wallet shows it, one that
\* failed changes no screen.
LEMMA AnswerKeeps == ASSUME SInv, NEW c \in Calls, Unlocked(c) \/ Failed(c) PROVE SInv'
<1>1. /\ op' = [op EXCEPT ![c] = "none"] /\ locking' = locking
      /\ call' = call /\ wdk' = wdk /\ mnemonic' = mnemonic /\ blob' = blob
      /\ \/ op[c] \in Opening /\ call[c].pc = "done" /\ phase' = "unlocked"
         \/ op[c] # "none" /\ call[c].pc = "failed" /\ phase' = phase
  BY DEF Unlocked, Failed, Answered, vars, Opening
<1>2. op \in [Calls -> Ops] BY DEF SInv, PageTypes
<1>3. op'[c] = "none" /\ \A d \in Calls : d # c => op'[d] = op[d] BY <1>1, <1>2
<1>4. Erased' <=> Erased
  BY <1>1, <1>3 DEF Erased, Answered, Opening
<1>5. phase # "none"
  BY <1>1, NothingUnderWay DEF Opening
<1>6. PageTypes' BY <1>1, <1>2 DEF SInv, PageTypes, Phases, Ops
<1>7. OpsOfScreens'
  <2>1. CASE phase' = phase BY <1>1, <1>3, <2>1 DEF SInv, OpsOfScreens, Entering
  <2>2. CASE op[c] \in Opening /\ phase' = "unlocked"
    BY <1>3, <2>2 DEF SInv, OpsOfScreens, Entering, Opening, PageTypes, Ops
  <2> QED BY <1>1, <2>1, <2>2
<1>8. Awaited' BY <1>1, <1>3, <1>5 DEF SInv, Awaited
<1>9. Progress' BY <1>1, <1>3 DEF SInv, Progress, Opening
<1>10. KeysAnnounced' BY <1>1, <1>3 DEF SInv, KeysAnnounced, Closed, OpsOfScreens, Opening
<1>11. VaultBehind'
  <2>1. phase' \in {"locked", "unlocked"} /\ blob' = NoBlob => Erased'
    BY <1>1, <1>4 DEF SInv, VaultBehind, OpsOfScreens, Opening
  <2>2. \A d \in Calls : (op'[d] = "load" => blob' # NoBlob) /\ (Answered(d, "store", "done")' => blob' # NoBlob)
    BY <1>1, <1>3 DEF SInv, VaultBehind, Answered
  <2>3. phase' # "none" /\ ~Erased' => phase # "none" /\ ~Erased BY <1>4, <1>5
  <2> QED BY <1>1, <1>4, <2>1, <2>2, <2>3 DEF SInv, VaultBehind
<1>12. OwnVault' BY <1>1 DEF SInv, OwnVault, Written
<1> QED BY <1>6, <1>7, <1>8, <1>9, <1>10, <1>11, <1>12 DEF SInv

\* lock reaches the worker at once.
LEMMA LockWalletKeeps == ASSUME SInv, LockWallet PROVE SInv'
<1>1. /\ phase = "unlocked" /\ phase' = phase /\ op' = op /\ locking' = TRUE
      /\ wdk' = None /\ mnemonic' = None /\ blob' = blob /\ call' = call
  BY DEF LockWallet, Lock, Forget
<1>2. Erased' <=> Erased BY <1>1 DEF Erased, Answered
<1>3. PageTypes' BY <1>1 DEF SInv, PageTypes
<1>4. OpsOfScreens' BY <1>1 DEF SInv, OpsOfScreens
<1>5. Awaited' /\ Progress' BY <1>1 DEF SInv, Awaited, Progress
<1>6. KeysAnnounced' BY <1>1 DEF KeysAnnounced
<1>7. VaultBehind' BY <1>1, <1>2 DEF SInv, VaultBehind, Answered
<1>8. OwnVault' BY <1>1 DEF OwnVault
<1> QED BY <1>3, <1>4, <1>5, <1>6, <1>7, <1>8 DEF SInv

\* An operation makes a call of the worker: c is asked, and no other call moves.
Asks(c, o, pc) ==
  /\ call[c].pc = "idle" /\ op' = [op EXCEPT ![c] = o]
  /\ call'[c].pc = pc /\ \A d \in Calls : d # c => call'[d] = call[d]
  /\ phase' = phase /\ locking' = locking /\ blob' = blob

LEMMA UnlockKeeps == ASSUME SInv, TypeOK, NEW c \in Calls, NEW p \in Passwords, Unlock(c, p) PROVE SInv'
<1>1. /\ Asks(c, "unlock", "reading") /\ phase = "locked" /\ wdk' = wdk /\ mnemonic' = mnemonic
      /\ \A d \in Calls : op[d] # "unlock"
  BY DEF Unlock, Load, Asks, Fresh, TypeOK, Pending
<1>2. op[c] = "none" BY <1>1 DEF Asks, SInv, PageTypes, Ops, Progress, Opening
<1>3. op'[c] = "unlock" /\ \A d \in Calls : d # c => op'[d] = op[d] BY <1>1 DEF Asks, SInv, PageTypes
<1>4. \A d \in Calls : op[d] \notin {"store", "load"} BY <1>1 DEF SInv, OpsOfScreens
<1>5. Erased' <=> Erased BY <1>1, <1>2, <1>3 DEF Asks, Erased, Answered
<1>6. PageTypes' BY <1>1 DEF Asks, SInv, PageTypes, Ops
<1>7. OpsOfScreens' BY <1>1, <1>3, <1>4 DEF Asks, SInv, OpsOfScreens, Entering
<1>8. Awaited' BY <1>1, <1>3 DEF Asks, SInv, Awaited, Opening
<1>9. Progress' BY <1>1, <1>3 DEF Asks, SInv, Progress, Opening
<1>10. KeysAnnounced' BY <1>1, <1>3 DEF Asks, SInv, KeysAnnounced, Opening
<1>11. VaultBehind'
  <2>1. \A d \in Calls : (op'[d] = "load" => blob' # NoBlob) /\ (Answered(d, "store", "done")' => blob' # NoBlob)
    BY <1>1, <1>3, <1>4 DEF Answered
  <2>2. \A d \in Calls : call'[d].pc = "decrypting" => d # c /\ call'[d] = call[d]
    BY <1>1 DEF Asks
  <2> QED BY <1>1, <1>5, <2>1, <2>2 DEF Asks, SInv, VaultBehind
<1>12. OwnVault' BY <1>1 DEF Asks, OwnVault
<1> QED BY <1>6, <1>7, <1>8, <1>9, <1>10, <1>11, <1>12 DEF SInv

\* What a call that is not made yet has not written.
LEMMA WrittenStays ==
  ASSUME NEW c \in Calls, call[c].pc \notin {"done", "failed"}, \A d \in Calls : d # c => call'[d] = call[d]
  PROVE Written \subseteq Written'
BY DEF Written

LEMMA CreateVaultKeeps ==
  ASSUME SInv, TypeOK, NEW c \in Calls, NEW p \in Passwords, NEW t \in Seeds, CreateVault(c, p, t) PROVE SInv'
<1>1. /\ Asks(c, "store", "deriving") /\ phase = "no-vault" /\ wdk' = wdk /\ mnemonic' = mnemonic
      /\ call'[c].password = p /\ call'[c].text = t /\ t \in Texts
      /\ \A d \in Calls : op[d] \notin {"store", "load"}
  BY DEF CreateVault, Store, Asks, Fresh, TypeOK, Pending, Texts
<1>2. \A d \in Calls : op[d] = "none"
  BY <1>1 DEF SInv, PageTypes, Ops, OpsOfScreens
<1>3. op'[c] = "store" /\ \A d \in Calls : d # c => op'[d] = "none" BY <1>1, <1>2 DEF Asks, SInv, PageTypes
<1>4. ~Erased /\ ~Erased' BY <1>2, <1>3 DEF Erased, Answered
<1>5. PageTypes' BY <1>1 DEF Asks, SInv, PageTypes, Ops
<1>6. OpsOfScreens' BY <1>1, <1>3 DEF Asks, OpsOfScreens, Entering
<1>7. Awaited' BY <1>1, <1>2, <1>3 DEF Asks, SInv, Awaited, Opening
<1>8. Progress' BY <1>1, <1>3 DEF Progress, Asks, Opening
<1>9. KeysAnnounced' BY <1>1, <1>2 DEF Asks, SInv, KeysAnnounced, Closed, Opening
<1>10. VaultBehind'
  <2>1. \A d \in Calls : op'[d] # "load" /\ ~(Answered(d, "store", "done")')
    BY <1>1, <1>3 DEF Asks, Answered
  <2>2. \A d \in Calls : call'[d].pc = "decrypting" => d # c /\ call'[d] = call[d]
    BY <1>1 DEF Asks
  <2> QED BY <1>1, <1>4, <2>1, <2>2 DEF Asks, SInv, VaultBehind
<1>11. OwnVault' BY <1>1, WrittenStays DEF Asks, SInv, OwnVault
<1> QED BY <1>5, <1>6, <1>7, <1>8, <1>9, <1>10, <1>11 DEF SInv

LEMMA CreateLoadsKeeps == ASSUME SInv, TypeOK, NEW c \in Calls, NEW d \in Calls, CreateLoads(c, d) PROVE SInv'
<1>1. /\ op[c] = "store" /\ call[c].pc = "done" /\ call[d].pc = "idle" /\ c # d
      /\ op' = [op EXCEPT ![c] = "none", ![d] = "load"] /\ phase' = phase /\ locking' = locking
      /\ blob' = blob /\ wdk' = wdk /\ mnemonic' = mnemonic
      /\ call'[d].pc = "reading" /\ \A e \in Calls : e # d => call'[e] = call[e]
  BY DEF CreateLoads, Answered, Load, Fresh, TypeOK
<1>2. phase = "no-vault" /\ blob # NoBlob
  BY <1>1 DEF SInv, OpsOfScreens, VaultBehind, Answered
<1>3. \A e \in Calls : e # c => op[e] = "none"
  BY <1>1, <1>2 DEF SInv, PageTypes, Ops, OpsOfScreens, Entering
<1>4. op'[d] = "load" /\ \A e \in Calls : e # d => op'[e] = "none" BY <1>1, <1>3 DEF SInv, PageTypes
<1>5. ~Erased /\ ~Erased' BY <1>1, <1>3, <1>4 DEF Erased, Answered
<1>6. PageTypes' BY <1>1 DEF SInv, PageTypes, Ops
<1>7. OpsOfScreens' BY <1>1, <1>2, <1>4 DEF OpsOfScreens, Entering
<1>8. Awaited' BY <1>1, <1>2, <1>3, <1>4 DEF SInv, Awaited, Opening
<1>9. Progress' BY <1>1, <1>4 DEF Progress, Opening
<1>10. KeysAnnounced' BY <1>1, <1>2, <1>3 DEF SInv, KeysAnnounced, Closed, Opening
<1>11. VaultBehind'
  <2>1. \A e \in Calls : call'[e].pc = "decrypting" => e # d /\ call'[e] = call[e]
    BY <1>1
  <2> QED BY <1>1, <1>2, <1>5, <2>1 DEF SInv, VaultBehind
<1>12. OwnVault' BY <1>1, WrittenStays DEF SInv, OwnVault
<1> QED BY <1>6, <1>7, <1>8, <1>9, <1>10, <1>11, <1>12 DEF SInv

LEMMA ResetKeeps == ASSUME SInv, TypeOK, NEW c \in Calls, Reset(c) PROVE SInv'
<1>1. /\ Asks(c, "clear", "clearing") /\ phase = "locked" /\ wdk' = None /\ mnemonic' = None
  BY DEF Reset, Clear, Forget, Goto, Asks, TypeOK, CallRecord
<1>2. op[c] = "none" BY <1>1 DEF Asks, SInv, PageTypes, Ops, Progress, Opening
<1>3. op'[c] = "clear" /\ \A d \in Calls : d # c => op'[d] = op[d] BY <1>1 DEF Asks, SInv, PageTypes
<1>4. Erased' <=> Erased BY <1>1, <1>2, <1>3 DEF Asks, Erased, Answered
<1>5. PageTypes' BY <1>1 DEF Asks, SInv, PageTypes, Ops
<1>6. OpsOfScreens' BY <1>1, <1>3 DEF Asks, SInv, OpsOfScreens, Entering
<1>7. Awaited' BY <1>1, <1>3 DEF Asks, SInv, Awaited
<1>8. Progress' BY <1>1, <1>3 DEF Asks, SInv, Progress, Opening
<1>9. KeysAnnounced' BY <1>1, <1>3 DEF Asks, SInv, KeysAnnounced, Closed, Opening
<1>10. VaultBehind'
  <2>1. \A d \in Calls : op[d] \notin {"store", "load"} BY <1>1 DEF SInv, OpsOfScreens
  <2>2. \A d \in Calls : op'[d] # "load" /\ ~(Answered(d, "store", "done")')
    BY <1>3, <2>1 DEF Answered
  <2>3. \A d \in Calls : call'[d].pc = "decrypting" => d # c /\ call'[d] = call[d]
    BY <1>1 DEF Asks
  <2> QED BY <1>1, <1>4, <2>2, <2>3 DEF Asks, SInv, VaultBehind
<1>11. OwnVault' BY <1>1 DEF Asks, OwnVault
<1> QED BY <1>5, <1>6, <1>7, <1>8, <1>9, <1>10, <1>11 DEF SInv

\* The worker ends, and with it whatever the page awaited.
LEMMA EndKeeps ==
  ASSUME SInv, TypeOK, Terminate, phase' \in {"loading", "no-vault"}, phase' = "no-vault" => blob = NoBlob,
         op' = [c \in Calls |-> "none"], locking' = FALSE
  PROVE SInv'
<1>1. /\ wdk' = None /\ mnemonic' = None /\ blob' = blob
      /\ \A c \in Calls : op'[c] = "none" /\ call'[c].pc \in {"idle", "done", "failed"}
  BY DEF Terminate, InFlight, TypeOK, CallRecord
<1>2. ~Erased' BY <1>1 DEF Erased, Answered
<1>3. PageTypes' BY DEF PageTypes, Phases, Closed, Ops
<1>4. OpsOfScreens' BY <1>1 DEF OpsOfScreens, Entering
<1>5. Awaited' /\ Progress' BY <1>1 DEF Awaited, Progress, Opening
<1>6. KeysAnnounced' BY <1>1 DEF KeysAnnounced
<1>7. VaultBehind' BY <1>1, <1>2 DEF VaultBehind, Answered
<1>8. OwnVault' BY <1>1 DEF OwnVault, NoBlob
<1> QED BY <1>3, <1>4, <1>5, <1>6, <1>7, <1>8 DEF SInv

\* A step of the worker changes the call c only; the page does not move.
Moves(c, pc) ==
  /\ UNCHANGED page /\ phase # "none" /\ call' = [call EXCEPT ![c].pc = pc]

LEMMA MovesFacts ==
  ASSUME TypeOK, NEW c \in Calls, NEW pc, Moves(c, pc)
  PROVE  /\ phase' = phase /\ op' = op /\ locking' = locking /\ phase # "none"
         /\ call'[c].pc = pc /\ call'[c].text = call[c].text /\ call'[c].password = call[c].password
         /\ \A d \in Calls : d # c => call'[d] = call[d]
BY DEF Moves, page, TypeOK, CallRecord

LEMMA StoreWritesKeeps ==
  ASSUME SInv, IInv, NEW c \in Calls, StoreWrites(c), UNCHANGED page, phase # "none" PROVE SInv'
<1> USE DEF IInv
<1>1. /\ Moves(c, "done") /\ call[c].pc = "deriving" /\ wdk' = wdk /\ mnemonic' = mnemonic
      /\ blob' = [password |-> call[c].password, text |-> call[c].text]
  BY DEF StoreWrites, Goto, Moves
<1>2. /\ phase' = phase /\ op' = op /\ locking' = locking
      /\ call'[c].pc = "done" /\ call'[c].text = call[c].text /\ call'[c].password = call[c].password
      /\ \A d \in Calls : d # c => call'[d] = call[d]
  BY <1>1, MovesFacts
<1>3. op[c] = "store" /\ phase = "no-vault" /\ \A d \in Calls : d # c => op[d] = "none"
  BY <1>1 DEF SInv, PageTypes, Ops, Awaited, OpsOfScreens, Entering
<1>4. wdk = None /\ mnemonic = None
  BY <1>3, <1>1 DEF SInv, KeysAnnounced, Closed, Opening, OneSeed
<1>5. \A d \in Calls : call[d].pc # "decrypting" BY <1>1, <1>3 DEF SInv, Awaited, Opening
<1>6. blob' # NoBlob
  <2>1. call[c].password \in Passwords BY <1>1, <1>3 DEF SInv, Progress
  <2> QED BY <1>1, <2>1, WorkerAssumption DEF NoBlob
<1>7. ~Erased /\ ~Erased' BY <1>2, <1>3 DEF Erased, Answered
<1>8. PageTypes' BY <1>2 DEF SInv, PageTypes
<1>9. OpsOfScreens' BY <1>2 DEF SInv, OpsOfScreens
<1>10. Awaited' BY <1>2, <1>3 DEF SInv, Awaited
<1>11. Progress' BY <1>2, <1>3 DEF SInv, Progress, Opening
<1>12. KeysAnnounced' BY <1>1, <1>2, <1>4, <1>3 DEF SInv, KeysAnnounced
<1>13. VaultBehind' BY <1>1, <1>2, <1>3, <1>4, <1>5, <1>6, <1>7 DEF VaultBehind, Answered, NoBlob
<1>14. OwnVault' BY <1>1, <1>2 DEF OwnVault, Written
<1> QED BY <1>8, <1>9, <1>10, <1>11, <1>12, <1>13, <1>14 DEF SInv

LEMMA FailKeeps ==
  ASSUME SInv, TypeOK, NEW c \in Calls, DbFails(c), UNCHANGED page, phase # "none" PROVE SInv'
<1>1. /\ Moves(c, "failed") /\ call[c].pc \in {"deriving", "reading", "clearing"}
      /\ wdk' = wdk /\ mnemonic' = mnemonic /\ blob' = blob
  BY DEF DbFails, Refuse, Goto, Moves
<1>2. /\ phase' = phase /\ op' = op /\ locking' = locking
      /\ call'[c].pc = "failed" /\ call'[c].text = call[c].text /\ call'[c].password = call[c].password
      /\ \A d \in Calls : d # c => call'[d] = call[d]
  BY <1>1, MovesFacts
<1>3. Erased' <=> Erased BY <1>1, <1>2 DEF Erased, Answered
<1>4. PageTypes' BY <1>2 DEF SInv, PageTypes
<1>5. OpsOfScreens' BY <1>2 DEF SInv, OpsOfScreens
<1>6. Awaited' BY <1>2 DEF SInv, Awaited
<1>7. Progress' BY <1>2 DEF SInv, Progress, Opening
<1>8. KeysAnnounced' BY <1>1, <1>2 DEF SInv, KeysAnnounced
<1>9. VaultBehind'
  <2>1. \A d \in Calls : call'[d].pc = "decrypting" \/ call'[d].pc = "done" => call'[d] = call[d]
    BY <1>2
  <2> QED BY <1>1, <1>2, <1>3, <2>1 DEF SInv, VaultBehind, Answered
<1>10. OwnVault' BY <1>1, <1>2, WrittenStays DEF SInv, OwnVault
<1> QED BY <1>4, <1>5, <1>6, <1>7, <1>8, <1>9, <1>10 DEF SInv

LEMMA LoadReadsStep ==
  ASSUME SInv, TypeOK, NEW c \in Calls, LoadReads(c), UNCHANGED page, phase # "none" PROVE SInv'
<1>1. /\ call[c].pc = "reading" /\ wdk' = wdk /\ mnemonic' = mnemonic /\ blob' = blob
      /\ phase' = phase /\ op' = op /\ locking' = locking
      /\ call'[c].pc \in {"failed", "decrypting"} /\ call'[c].text \in {None, blob.text}
      /\ \A d \in Calls : d # c => call'[d] = call[d]
  BY DEF LoadReads, page, TypeOK, CallRecord
<1>2. op[c] \in Opening BY <1>1 DEF SInv, Awaited
<1>3. Erased' <=> Erased BY <1>1, <1>2 DEF Erased, Answered, Opening
<1>4. PageTypes' BY <1>1 DEF SInv, PageTypes
<1>5. OpsOfScreens' BY <1>1 DEF SInv, OpsOfScreens
<1>6. Awaited' BY <1>1, <1>2 DEF SInv, Awaited
<1>7. Progress' BY <1>1, <1>2 DEF SInv, Progress, Opening
<1>8. KeysAnnounced' BY <1>1 DEF SInv, KeysAnnounced
<1>9. VaultBehind'
  <2>1. \A d \in Calls : Answered(d, "store", "done")' => Answered(d, "store", "done")
    BY <1>1 DEF Answered
  <2> QED BY <1>1, <1>3, <2>1 DEF SInv, VaultBehind
<1>10. OwnVault' BY <1>1, WrittenStays DEF SInv, OwnVault
<1> QED BY <1>4, <1>5, <1>6, <1>7, <1>8, <1>9, <1>10 DEF SInv

LEMMA LoadFinishesStep ==
  ASSUME SInv, IInv, NEW c \in Calls, LoadFinishes(c), UNCHANGED page, phase # "none" PROVE SInv'
<1> USE DEF IInv
<1>1. /\ Moves(c, IF call[c].text = None THEN "failed" ELSE "done")
      /\ call[c].pc = "decrypting" /\ blob' = blob
      /\ \/ call[c].text \in Seeds /\ wdk' = c /\ mnemonic' = call[c].text
         \/ call[c].text \notin Seeds /\ wdk' = wdk /\ mnemonic' = mnemonic
  BY DEF LoadFinishes, Goto, Moves
<1>2. /\ phase' = phase /\ op' = op /\ locking' = locking
      /\ call'[c].pc \in {"failed", "done"}
      /\ call[c].text \in Seeds => call'[c].pc = "done" /\ call[c].text # None
      /\ \A d \in Calls : d # c => call'[d] = call[d]
  BY <1>1, MovesFacts, WorkerAssumption
<1>3. op[c] \in Opening BY <1>1 DEF SInv, Awaited
<1>4. Erased' <=> Erased BY <1>1, <1>2, <1>3 DEF Erased, Answered, Opening
<1>5. ~locking BY <1>3 DEF SInv, KeysAnnounced, OpsOfScreens, Opening
<1>6. PageTypes' BY <1>2 DEF SInv, PageTypes
<1>7. OpsOfScreens' BY <1>2 DEF SInv, OpsOfScreens
<1>8. Awaited' BY <1>2, <1>3 DEF SInv, Awaited
<1>9. Progress' BY <1>2, <1>3 DEF SInv, Progress, Opening
<1>10. KeysAnnounced' BY <1>1, <1>2, <1>3, <1>5 DEF SInv, KeysAnnounced
<1>11. VaultBehind'
  <2>1. \A d \in Calls : Answered(d, "store", "done")' => Answered(d, "store", "done")
    BY <1>2, <1>3 DEF Answered, Opening
  <2>2. ~Erased => call[c].text = None \/ call[c].text = blob.text
    BY <1>1 DEF SInv, VaultBehind, Moves
  <2>3. \A d \in Calls : call'[d].pc = "decrypting" => call'[d] = call[d]
    BY <1>2
  <2> QED BY <1>1, <1>2, <1>4, <2>1, <2>2, <2>3 DEF SInv, VaultBehind
<1>12. OwnVault' BY <1>1, <1>2, WrittenStays DEF SInv, OwnVault
<1> QED BY <1>6, <1>7, <1>8, <1>9, <1>10, <1>11, <1>12 DEF SInv

LEMMA ClearDeletesKeeps ==
  ASSUME SInv, TypeOK, NEW c \in Calls, ClearDeletes(c), UNCHANGED page, phase # "none" PROVE SInv'
<1>1. /\ Moves(c, "done") /\ call[c].pc = "clearing"
      /\ wdk' = wdk /\ mnemonic' = mnemonic /\ blob' = NoBlob
  BY DEF ClearDeletes, Goto, Moves
<1>2. /\ phase' = phase /\ op' = op /\ locking' = locking /\ call'[c].pc = "done"
      /\ \A d \in Calls : d # c => call'[d] = call[d]
  BY <1>1, MovesFacts
<1>3. op[c] = "clear" /\ phase \in {"locked", "unlocked"} BY <1>1, MovesFacts DEF SInv, Awaited, OpsOfScreens
<1>4. Erased' BY <1>2, <1>3 DEF Erased, Answered
<1>5. PageTypes' BY <1>2 DEF SInv, PageTypes
<1>6. OpsOfScreens' BY <1>2 DEF SInv, OpsOfScreens
<1>7. Awaited' BY <1>2, <1>3 DEF SInv, Awaited
<1>8. Progress' BY <1>2, <1>3 DEF SInv, Progress, Opening
<1>9. KeysAnnounced' BY <1>1, <1>2, <1>3 DEF SInv, KeysAnnounced, Opening
<1>10. VaultBehind'
  <2>1. \A d \in Calls : op'[d] # "load" /\ ~(Answered(d, "store", "done")')
    BY <1>2, <1>3 DEF Answered, SInv, OpsOfScreens
  <2> QED BY <1>1, <1>4, <2>1 DEF VaultBehind
<1>11. OwnVault' BY <1>1, <1>2, <1>3 DEF OwnVault
<1> QED BY <1>5, <1>6, <1>7, <1>8, <1>9, <1>10, <1>11 DEF SInv

\* Without the page there is no operation to speak of.
LEMMA HeadlessKeeps == ASSUME SInv, Headless PROVE SInv'
<1>1. phase = "none" /\ phase' = phase /\ op' = op /\ locking' = locking
  BY DEF Headless, page
<1>2. \A c \in Calls : op[c] = "none" /\ op'[c] = "none" BY <1>1, NothingUnderWay
<1>3. ~Erased' BY <1>2 DEF Erased, Answered
<1>4. ~locking' BY <1>1 DEF SInv, KeysAnnounced
<1>5. PageTypes' /\ OpsOfScreens' BY <1>1 DEF SInv, PageTypes, OpsOfScreens
<1>6. Awaited' /\ Progress' BY <1>1, <1>2 DEF Awaited, Progress, Opening
<1>7. KeysAnnounced' BY <1>1, <1>4 DEF KeysAnnounced, Closed
<1>8. VaultBehind' BY <1>1, <1>2, <1>3 DEF VaultBehind, Answered
<1>9. OwnVault' BY <1>1 DEF OwnVault
<1> QED BY <1>5, <1>6, <1>7, <1>8, <1>9 DEF SInv

LEMMA StepKeeps == SInv /\ IInv /\ [SNext]_sessionVars => SInv'
<1> SUFFICES ASSUME SInv, IInv, [SNext]_sessionVars PROVE SInv' OBVIOUS
<1>0. TypeOK BY DEF IInv
<1>1. CASE Headless BY <1>1, HeadlessKeeps
<1>2. CASE Boot BY <1>2, BootKeeps
<1>3. CASE LockWallet BY <1>3, LockWalletKeeps
<1>4. CASE LockAnswered BY <1>4, LockAnsweredKeeps
<1>5. CASE Reload BY <1>0, <1>5, EndKeeps DEF Reload
<1>6. CASE WorkerStep
  <2> PICK c \in Calls : StoreWrites(c) \/ LoadReads(c) \/ LoadFinishes(c) \/ ClearDeletes(c) \/ DbFails(c)
    BY <1>6 DEF WorkerStep
  <2>1. phase # "none" /\ UNCHANGED page BY <1>6 DEF WorkerStep
  <2> QED BY <1>0, <2>1, StoreWritesKeeps, LoadReadsStep, LoadFinishesStep, ClearDeletesKeeps, FailKeeps
<1>7. ASSUME NEW c \in Calls, NEW p \in Passwords, Unlock(c, p) PROVE SInv'
  BY <1>0, <1>7, UnlockKeeps
<1>8. ASSUME NEW c \in Calls, NEW p \in Passwords, NEW t \in Seeds, CreateVault(c, p, t) PROVE SInv'
  BY <1>0, <1>8, CreateVaultKeeps
<1>9. ASSUME NEW c \in Calls, NEW d \in Calls, CreateLoads(c, d) PROVE SInv'
  BY <1>0, <1>9, CreateLoadsKeeps
<1>10. ASSUME NEW c \in Calls, Unlocked(c) \/ Failed(c) PROVE SInv'
  BY <1>10, AnswerKeeps
<1>11. ASSUME NEW c \in Calls, Reset(c) PROVE SInv'
  BY <1>0, <1>11, ResetKeeps
<1>12. ASSUME NEW c \in Calls, ResetDone(c) PROVE SInv'
  <2>1. Erased BY <1>12 DEF ResetDone, Erased
  <2>2. blob = NoBlob BY <2>1 DEF SInv, VaultBehind
  <2> QED BY <1>0, <1>12, <2>2, EndKeeps DEF ResetDone
<1>13. CASE UNCHANGED sessionVars
  <2>1. /\ phase' = phase /\ op' = op /\ locking' = locking /\ call' = call /\ wdk' = wdk
        /\ mnemonic' = mnemonic /\ blob' = blob
    BY <1>13 DEF sessionVars, page, vars
  <2>2. Erased' <=> Erased BY <2>1 DEF Erased, Answered
  <2>3. PageTypes' /\ OpsOfScreens' BY <2>1 DEF SInv, PageTypes, OpsOfScreens
  <2>4. Awaited' /\ Progress' BY <2>1 DEF SInv, Awaited, Progress
  <2>5. KeysAnnounced' BY <2>1 DEF SInv, KeysAnnounced
  <2>6. VaultBehind' BY <2>1, <2>2 DEF SInv, VaultBehind, Answered
  <2>7. OwnVault' BY <2>1 DEF SInv, OwnVault, Written
  <2> QED BY <2>3, <2>4, <2>5, <2>6, <2>7 DEF SInv
<1> QED BY <1>1, <1>2, <1>3, <1>4, <1>5, <1>6, <1>7, <1>8, <1>9, <1>10, <1>11, <1>12, <1>13 DEF SNext

-----------------------------------------------------------------------------
(* Theorems                                                                *)

\* What the page believes, and what the calls it awaits are about to do, agrees
\* with worker and vault in every state (wallet-provider.tsx).
THEOREM SessionInvariant == SSpec => [](SInv /\ IInv)
<1>1. SInit => SInv /\ IInv BY SInitInv, InitInv
<1>2. (SInv /\ IInv) /\ [SNext]_sessionVars => (SInv /\ IInv)'
  BY StepKeeps, StepIsWorkers, NextInv
<1> QED BY <1>1, <1>2, PTL DEF SSpec

\* Page and worker together do nothing the worker alone could not be asked to
\* do: every theorem about the worker is one about the wallet.
THEOREM SessionImplementsWorker == SSpec => Spec
<1>1. SInit => Init BY SInitInv
<1> QED BY <1>1, StepIsWorkers, SessionInvariant, PTL DEF SSpec, Spec

\* The variables of page and worker keep their types.
THEOREM SessionTypes == SSpec => []STypeOK
<1>1. SInv /\ IInv => STypeOK BY DEF SInv, PageTypes, IInv, STypeOK
<1> QED BY <1>1, SessionInvariant, PTL

\* Under the page too, manager and mnemonic hold one seed, and what else holds a
\* key is a manager of a gasless or Spark call, of a seed that was unlocked.
THEOREM SessionKeysInHand == SSpec => []KeysInHand
BY SessionImplementsWorker, WorkerKeysInHand, PTL

\* Whatever the page was doing, the wallet signs with the seed the call was
\* made under.
THEOREM SessionSignedByCallersSeed == SSpec => []SignedByCallersSeed
BY SessionImplementsWorker, WorkerSignedByCallersSeed, PTL

\* Under the page too, no bridge is reported that was not made and approved.
THEOREM SessionBridgeIsWhole == SSpec => []BridgeIsWhole
BY SessionImplementsWorker, WorkerBridgeIsWhole, PTL

\* Behind a page at rest that shows no open wallet no manager is in use.
THEOREM LockedPagesHoldNoKey == SSpec => []ShownLockedIsLocked
<1>1. SInv /\ IInv => ShownLockedIsLocked
  <2> SUFFICES ASSUME SInv, IInv, Quiet, phase \in Closed PROVE wdk = None /\ mnemonic = None
    BY DEF ShownLockedIsLocked
  <2>1. wdk = None BY DEF SInv, KeysAnnounced, Quiet, Opening
  <2> QED BY <2>1 DEF IInv, OneSeed
<1> QED BY <1>1, SessionInvariant, PTL

\* The wallet a page at rest has open is the one in the vault.
THEOREM OpenWalletsAreStored == SSpec => []OpenWalletIsStored
<1>1. SInv /\ IInv => OpenWalletIsStored
  <2> SUFFICES ASSUME SInv, Quiet, phase = "unlocked" PROVE blob # NoBlob /\ mnemonic \in {None, blob.text}
    BY DEF OpenWalletIsStored
  <2>1. ~Erased BY DEF Quiet, Erased, Answered
  <2> QED BY <2>1 DEF SInv, VaultBehind
<1> QED BY <1>1, SessionInvariant, PTL

\* A vault is erased by a reset only, and overwritten only by the onboarding
\* that wrote it.
THEOREM VaultsAreKept == SSpec => NothingOverwritten
<1>1. ASSUME SInv, IInv, [SNext]_sessionVars, phase # "none", blob # NoBlob, blob' # blob
      PROVE  IF blob' = NoBlob THEN Pending({"clear"}) ELSE phase = "no-vault" /\ blob \in Written
  <2>1. PICK c \in Calls : StoreWrites(c) \/ ClearDeletes(c)
    BY <1>1 DEF SNext, sessionVars, vars, Headless, Boot, LockWallet, Lock, LockAnswered, Reload, Terminate,
       WorkerStep, LoadReads, LoadFinishes, DbFails, Refuse, Unlock, Load, CreateVault, Store, CreateLoads,
       Unlocked, Failed, Reset, Clear, ResetDone
  <2>2. CASE StoreWrites(c)
    <3>1. op[c] = "store" /\ blob' = [password |-> call[c].password, text |-> call[c].text]
      BY <1>1, <2>2 DEF StoreWrites, SInv, Awaited
    <3>2. blob' # NoBlob BY <1>1, <3>1, WorkerAssumption DEF SInv, Progress, NoBlob
    <3>3. phase = "no-vault" BY <1>1, <3>1 DEF SInv, OpsOfScreens
    <3> QED BY <1>1, <3>2, <3>3 DEF SInv, OwnVault
  <2>3. CASE ClearDeletes(c)
    BY <1>1, <2>3 DEF ClearDeletes, SInv, Awaited, Pending
  <2> QED BY <2>1, <2>2, <2>3
<1>2. SInv /\ IInv /\ [SNext]_sessionVars =>
        [phase # "none" /\ blob # NoBlob /\ blob' # blob =>
           IF blob' = NoBlob THEN Pending({"clear"})
           ELSE phase = "no-vault" /\ blob \in {[password |-> call[c].password, text |-> call[c].text] :
                                                  c \in {d \in Calls : call[d].pc \in {"done", "failed"}}}
        ]_sessionVars
  BY <1>1 DEF Written
<1> QED BY <1>2, SessionInvariant, PTL DEF SSpec, NothingOverwritten
=============================================================================
