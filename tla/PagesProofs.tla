---------------------------- MODULE PagesProofs ----------------------------
(***************************************************************************)
(* Pages for every value of its constants.  Each part has an invariant of  *)
(* its own, with a lemma that its initial states satisfy it (Init...), one *)
(* that its steps keep it (...Keeps) and one that its properties follow    *)
(* (...Shows); at the end they are put together, one part at a time.       *)
(***************************************************************************)
EXTENDS Pages, SequenceTheorems, WellFoundedInduction, TLAPS

-----------------------------------------------------------------------------
(* The directory of rooms: every room belongs to the host who deployed its *)
(* pool, and in memory no create gives the code of a room away.            *)

Posted == [code: Codes \cup {NoCode}, pool: Pools, host: Hosts]
Success(p, h) == receipt[p] = [status |-> "success", from |-> h]

RequestTypes ==
  /\ receipt \in [Pools -> Receipt] /\ store \in [Codes -> Room \cup {NoRoom}]
  /\ pc \in [Req -> Pc] /\ tried \in [Req -> Nat] /\ expiries \in 0..MaxExpiry
  /\ body \in [Req -> Posted \cup {NoBody}]

\* A request past the receipt has seen a deployment of its host, and one about
\* to save has a code.
RequestSound(r) ==
  /\ pc[r] = "idle" => body[r] = NoBody
  /\ pc[r] # "idle" => body[r] \in Posted
  /\ pc[r] \in {"read", "save"} => Success(body[r].pool, body[r].host)
  /\ pc[r] = "save" => body[r].code \in Codes
  /\ tried[r] \in CASE pc[r] = "verify" -> 0..Polls - 1
                    [] pc[r] = "read" -> 0..Tries
                    [] OTHER -> {0}
RequestsSound == \A r \in Req : RequestSound(r)

DirectoryInv == RequestTypes /\ RequestsSound /\ RoomsAreDeployed

LEMMA InitDirectoryInv == Init => DirectoryInv
<1> SUFFICES ASSUME Init PROVE DirectoryInv OBVIOUS
<1>1. RequestTypes
  BY DirectoryAssumption DEF Init, RequestTypes, Receipt, Pc
<1>2. RequestsSound BY DEF Init, RequestsSound, RequestSound
<1>3. RoomsAreDeployed BY DEF Init, RoomsAreDeployed
<1> QED BY <1>1, <1>2, <1>3 DEF DirectoryInv

\* Receipts of deployments that succeeded stay.
LEMMA ReceiptsStay ==
  ASSUME RequestTypes, NEW p \in Pools, NEW h \in Hosts, NEW s \in {"success", "reverted"}, Mine(p, h, s)
  PROVE  \A q \in Pools, g \in Hosts : Success(q, g) => Success(q, g)'
BY DEF RequestTypes, Mine, Success

\* A step of one request that leaves rooms and receipts alone.
LEMMA RequestKeeps ==
  ASSUME DirectoryInv, NEW r \in Req, UNCHANGED <<receipt, store, expiries>>,
         \A q \in Req : q # r => pc'[q] = pc[q] /\ body'[q] = body[q] /\ tried'[q] = tried[q],
         pc' \in [Req -> Pc], tried' \in [Req -> Nat], body' \in [Req -> Posted \cup {NoBody}],
         RequestSound(r)'
  PROVE  DirectoryInv'
<1>1. RequestTypes' BY DEF DirectoryInv, RequestTypes
<1>2. RequestsSound' BY ZenonT(60) DEF DirectoryInv, RequestsSound, RequestSound, Success
<1>3. RoomsAreDeployed' BY DEF DirectoryInv, RoomsAreDeployed
<1> QED BY <1>1, <1>2, <1>3 DEF DirectoryInv

LEMMA Finished == ASSUME DirectoryInv, NEW r \in Req, Finish(r)
                  PROVE  /\ pc' = [pc EXCEPT ![r] = "idle"] /\ pc' \in [Req -> Pc]
                         /\ tried' \in [Req -> Nat] /\ body' \in [Req -> Posted \cup {NoBody}]
                         /\ \A q \in Req : q # r => pc'[q] = pc[q] /\ body'[q] = body[q] /\ tried'[q] = tried[q]
                         /\ RequestSound(r)'
BY DEF DirectoryInv, RequestTypes, Finish, Goto, Pc, RequestSound

LEMMA PostKeeps ==
  ASSUME DirectoryInv, NEW r \in Req, NEW c \in Codes \cup {NoCode}, NEW p \in Pools, NEW h \in Hosts, Post(r, c, p, h)
  PROVE  DirectoryInv'
<1> DEFINE b == [code |-> c, pool |-> p, host |-> h]
<1>1. b \in Posted BY DEF Posted
<1>2. /\ pc[r] = "idle" /\ pc' = [pc EXCEPT ![r] = "verify"] /\ body' = [body EXCEPT ![r] = b]
      /\ tried' = tried /\ UNCHANGED <<receipt, store, expiries>>
  BY DEF Post, Goto
<1> HIDE DEF b
<1>3. RequestSound(r)'
  BY <1>1, <1>2, DirectoryAssumption DEF DirectoryInv, RequestTypes, RequestsSound, RequestSound
<1>4. pc' \in [Req -> Pc] /\ body' \in [Req -> Posted \cup {NoBody}] /\ tried' \in [Req -> Nat]
  BY <1>1, <1>2 DEF DirectoryInv, RequestTypes, Pc
<1> QED BY <1>2, <1>3, <1>4, RequestKeeps DEF DirectoryInv, RequestTypes

LEMMA ReadReceiptKeeps == ASSUME DirectoryInv, NEW r \in Req, ReadReceipt(r) PROVE DirectoryInv'
<1>1. pc[r] = "verify" /\ UNCHANGED <<receipt, store, expiries>> BY DEF ReadReceipt
<1>2. body[r] \in Posted /\ tried[r] \in 0..Polls - 1 BY <1>1 DEF DirectoryInv, RequestsSound, RequestSound
<1>3. CASE tried[r] + 1 < Polls /\ tried' = [tried EXCEPT ![r] = @ + 1] /\ UNCHANGED <<pc, body>>
  <2>1. RequestSound(r)'
    BY <1>1, <1>2, <1>3, DirectoryAssumption DEF DirectoryInv, RequestTypes, RequestSound
  <2>2. tried' \in [Req -> Nat] BY <1>3, <1>2 DEF DirectoryInv, RequestTypes
  <2> QED BY <1>1, <1>3, <2>1, <2>2, RequestKeeps DEF DirectoryInv, RequestTypes
<1>4. CASE /\ Deployed(body[r].pool, body[r].host) /\ Goto(r, "read")
           /\ tried' = [tried EXCEPT ![r] = 0] /\ UNCHANGED body
  <2>1. Success(body[r].pool, body[r].host)
    BY <1>2, <1>4 DEF Deployed, Success, DirectoryInv, RequestTypes, Receipt, Posted
  <2>2. RequestSound(r)'
    BY <1>1, <1>2, <1>4, <2>1, DirectoryAssumption DEF Goto, DirectoryInv, RequestTypes, RequestSound, Success
  <2>3. pc' \in [Req -> Pc] /\ tried' \in [Req -> Nat] BY <1>4 DEF DirectoryInv, RequestTypes, Goto, Pc
  <2> QED BY <1>1, <1>4, <2>2, <2>3, RequestKeeps DEF DirectoryInv, RequestTypes, Goto
<1>5. CASE Finish(r) BY <1>1, <1>5, Finished, RequestKeeps
<1> QED BY <1>3, <1>4, <1>5 DEF ReadReceipt

\* Looking a code up: the request stays, takes it, or is answered.
LEMMA LookupKeeps ==
  ASSUME DirectoryInv, NEW r \in Req,
         ReadRequested(r) \/ \E c \in Codes : ReadRandom(r, c)
  PROVE  DirectoryInv'
<1>1. pc[r] = "read" /\ UNCHANGED <<receipt, store, expiries>> BY DEF ReadRequested, ReadRandom
<1>2. /\ body[r] \in Posted /\ Success(body[r].pool, body[r].host) /\ tried[r] \in 0..Tries
  BY <1>1 DEF DirectoryInv, RequestsSound, RequestSound
<1>3. CASE ReadRequested(r)
  <2>1. CASE Goto(r, "save") /\ UNCHANGED <<body, tried>>
    <3>1. body[r].code \in Codes /\ tried[r] = 0 BY <1>2, <1>3 DEF ReadRequested, Posted
    <3>2. RequestSound(r)'
      BY <1>1, <1>2, <2>1, <3>1 DEF Goto, DirectoryInv, RequestTypes, RequestSound, Success
    <3> QED BY <1>1, <2>1, <3>2, RequestKeeps DEF DirectoryInv, RequestTypes, Goto, Pc
  <2>2. CASE Finish(r) BY <1>1, <2>2, Finished, RequestKeeps
  <2> QED BY <1>3, <2>1, <2>2 DEF ReadRequested
<1>4. ASSUME NEW c \in Codes, ReadRandom(r, c) PROVE DirectoryInv'
  <2>1. body' = [body EXCEPT ![r].code = c] BY <1>4 DEF ReadRandom
  <2>2. /\ body'[r] \in Posted /\ body'[r].code = c
        /\ body'[r].pool = body[r].pool /\ body'[r].host = body[r].host
        /\ body' \in [Req -> Posted \cup {NoBody}]
        /\ \A q \in Req : q # r => body'[q] = body[q]
    BY <1>2, <2>1 DEF DirectoryInv, RequestTypes, Posted
  <2>3. receipt'[body'[r].pool] = [status |-> "success", from |-> body'[r].host]
    BY <1>1, <1>2, <2>2 DEF Success
  <2>4. CASE Goto(r, "save") /\ tried' = [tried EXCEPT ![r] = 0]
    <3>1. RequestSound(r)' BY <2>2, <2>3, <2>4 DEF Goto, DirectoryInv, RequestTypes, RequestSound, Success
    <3> QED BY <1>1, <2>2, <2>4, <3>1, RequestKeeps DEF DirectoryInv, RequestTypes, Goto, Pc
  <2>5. CASE tried[r] # Tries /\ UNCHANGED pc /\ tried' = [tried EXCEPT ![r] = @ + 1]
    <3>1. RequestSound(r)'
      BY <1>1, <1>2, <2>2, <2>3, <2>5, DirectoryAssumption DEF DirectoryInv, RequestTypes, RequestSound, Success
    <3> QED BY <1>1, <2>2, <2>5, <3>1, RequestKeeps DEF DirectoryInv, RequestTypes
  <2> QED BY <1>4, <2>4, <2>5 DEF ReadRandom
<1> QED BY <1>3, <1>4

LEMMA SaveKeeps == ASSUME DirectoryInv, NEW r \in Req, Save(r) PROVE DirectoryInv'
<1> DEFINE new == [pool |-> body[r].pool, host |-> body[r].host, tips |-> 0]
<1>1. /\ pc[r] = "save" /\ store' = [store EXCEPT ![body[r].code] = new] /\ UNCHANGED <<receipt, expiries>>
      /\ Finish(r)
  BY DEF Save
<1>2. body[r] \in Posted /\ body[r].code \in Codes /\ Success(body[r].pool, body[r].host)
  BY <1>1 DEF DirectoryInv, RequestsSound, RequestSound
<1>3. new \in Room /\ new.pool = body[r].pool /\ new.host = body[r].host
  BY <1>2, DirectoryAssumption DEF Posted, Room
<1> HIDE DEF new
<1>4. RequestTypes' BY <1>1, <1>2, <1>3, Finished DEF DirectoryInv, RequestTypes
<1>5. RequestsSound'
  BY ZenonT(60), <1>1, Finished DEF DirectoryInv, RequestsSound, RequestSound, Success
<1>6. RoomsAreDeployed'
  BY <1>1, <1>2, <1>3 DEF DirectoryInv, RequestTypes, RoomsAreDeployed, Success
<1> QED BY <1>4, <1>5, <1>6 DEF DirectoryInv

LEMMA WorldKeeps ==
  ASSUME DirectoryInv,
         \/ \E p \in Pools, h \in Hosts, s \in {"success", "reverted"} : Mine(p, h, s)
         \/ \E c \in Codes : Tip(c) \/ Expire(c)
  PROVE  DirectoryInv'
<1>1. ASSUME NEW p \in Pools, NEW h \in Hosts, NEW s \in {"success", "reverted"}, Mine(p, h, s) PROVE DirectoryInv'
  <2>1. UNCHANGED <<store, pc, body, tried, expiries>> BY <1>1 DEF Mine
  <2>2. \A q \in Pools, g \in Hosts : Success(q, g) => Success(q, g)' BY <1>1, ReceiptsStay DEF DirectoryInv
  <2>3. RequestTypes'
    BY <1>1 DEF Mine, DirectoryInv, RequestTypes, Receipt
  <2>4. RequestsSound' BY <2>1, <2>2 DEF DirectoryInv, RequestsSound, RequestSound, Posted
  <2>5. RoomsAreDeployed'
    <3>1. \A c \in Codes : store[c] # NoRoom => store[c].pool \in Pools /\ store[c].host \in Hosts
      BY DEF DirectoryInv, RequestTypes, Room
    <3> QED BY <2>1, <2>2, <3>1 DEF DirectoryInv, RoomsAreDeployed, Success
  <2> QED BY <2>3, <2>4, <2>5 DEF DirectoryInv
<1>2. ASSUME NEW c \in Codes, Tip(c) PROVE DirectoryInv'
  <2>1. UNCHANGED <<receipt, pc, body, tried, expiries>> /\ store[c] \in Room /\ store[c].tips < MaxTips
    BY <1>2 DEF Tip, DirectoryInv, RequestTypes
  <2> DEFINE new == [store[c] EXCEPT !.tips = @ + 1]
  <2>2. store' = [store EXCEPT ![c] = new] BY <1>2 DEF Tip
  <2>3. new \in Room /\ new.pool = store[c].pool /\ new.host = store[c].host
    BY <2>1, DirectoryAssumption DEF Room
  <2>4. store[c] # NoRoom BY <1>2 DEF Tip
  <2> HIDE DEF new
  <2>5. RequestTypes' BY <2>1, <2>2, <2>3 DEF DirectoryInv, RequestTypes
  <2>6. RequestsSound' BY <2>1 DEF DirectoryInv, RequestsSound, RequestSound, Success
  <2>7. RoomsAreDeployed' BY <2>1, <2>2, <2>3, <2>4 DEF DirectoryInv, RequestTypes, RoomsAreDeployed
  <2> QED BY <2>5, <2>6, <2>7 DEF DirectoryInv
<1>3. ASSUME NEW c \in Codes, Expire(c) PROVE DirectoryInv'
  <2>1. UNCHANGED <<receipt, pc, body, tried>> /\ store' = [store EXCEPT ![c] = NoRoom]
    BY <1>3 DEF Expire
  <2>2. RequestTypes' BY <1>3, <2>1, DirectoryAssumption DEF Expire, DirectoryInv, RequestTypes
  <2>3. RequestsSound' BY <2>1 DEF DirectoryInv, RequestsSound, RequestSound, Success
  <2>4. RoomsAreDeployed' BY <2>1 DEF DirectoryInv, RequestTypes, RoomsAreDeployed
  <2> QED BY <2>2, <2>3, <2>4 DEF DirectoryInv
<1> QED BY <1>1, <1>2, <1>3

LEMMA DirectoryKeeps == DirectoryInv /\ [Next]_vars => DirectoryInv'
<1> SUFFICES ASSUME DirectoryInv, [Next]_vars PROVE DirectoryInv' OBVIOUS
<1>1. CASE UNCHANGED vars
  BY <1>1 DEF vars, DirectoryInv, RequestTypes, RequestsSound, RequestSound, RoomsAreDeployed, Success
<1>2. ASSUME NEW r \in Req, Fail(r) PROVE DirectoryInv'
  BY <1>2, Finished, RequestKeeps DEF Fail
<1> QED BY <1>1, <1>2, PostKeeps, ReadReceiptKeeps, LookupKeeps, SaveKeeps, WorldKeeps DEF Next

\* What is known of every request in flight, in every state.
THEOREM DirectoryInvariant == Spec => []DirectoryInv
BY InitDirectoryInv, DirectoryKeeps, PTL DEF Spec

LEMMA DirectoryTyped == DirectoryInv => TypeOK
<1> SUFFICES ASSUME DirectoryInv PROVE TypeOK OBVIOUS
<1>1. \A r \in Req : tried[r] \in 0..Polls + Tries
  BY DirectoryAssumption DEF DirectoryInv, RequestTypes, Pc, RequestsSound, RequestSound
<1>2. \A r \in Req : pc[r] # "idle" => body[r] # NoBody
  BY DirectoryAssumption DEF DirectoryInv, RequestsSound, RequestSound, Posted, NoBody
<1>3. \A r \in Req : (pc[r] = "idle") <=> (body[r] = NoBody)
  BY <1>2 DEF DirectoryInv, RequestsSound, RequestSound
<1> QED BY <1>1, <1>3 DEF DirectoryInv, RequestTypes, TypeOK, Posted

\* Requests, rooms and receipts keep their types.
THEOREM DirectoryTypes == Spec => []TypeOK
BY DirectoryTyped, DirectoryInvariant, PTL

\* Every room on the board belongs to the host who deployed its TipPool.
THEOREM RoomsBelongToDeployers == Spec => []RoomsAreDeployed
<1>1. DirectoryInv => RoomsAreDeployed BY DEF DirectoryInv
<1> QED BY <1>1, DirectoryInvariant, PTL

-----------------------------------------------------------------------------
(* In memory, when a free code is found                                    *)

\* One request at a time is between the lookup of its code and the save, and
\* that code is still free.
Reserved ==
  /\ \A r, q \in Req : pc[r] = "save" /\ pc[q] = "save" => r = q
  /\ \A r \in Req : pc[r] = "save" => store[body[r].code] = NoRoom
  /\ \A r \in Req : pc[r] = "read" => tried[r] < Tries

LEMMA NextReserved == ASSUME Memory, Lucky, DirectoryInv, Reserved, [Next]_vars PROVE Reserved'
<1> USE DEF MayRun
<1>1. CASE UNCHANGED vars BY <1>1 DEF vars, Reserved
<1>2. ASSUME NEW r \in Req, NEW c \in Codes \cup {NoCode}, NEW p \in Pools, NEW h \in Hosts, Post(r, c, p, h)
      PROVE  Reserved'
  BY <1>2 DEF Post, Goto, DirectoryInv, RequestTypes, Reserved
<1>3. ASSUME NEW r \in Req, Finish(r), UNCHANGED store, \A q \in Req \ {r} : pc[q] # "save" PROVE Reserved'
  BY <1>3, Finished DEF Reserved
<1>4. ASSUME NEW r \in Req, ReadReceipt(r) PROVE Reserved'
  <2>1. pc[r] = "verify" /\ UNCHANGED store /\ \A q \in Req \ {r} : pc[q] # "save" BY <1>4 DEF ReadReceipt
  <2>2. CASE UNCHANGED <<pc, body>> /\ tried' = [tried EXCEPT ![r] = @ + 1]
    BY <2>1, <2>2 DEF DirectoryInv, RequestTypes, Reserved
  <2>3. CASE Goto(r, "read") /\ tried' = [tried EXCEPT ![r] = 0] /\ UNCHANGED body
    BY <2>1, <2>3, DirectoryAssumption DEF Goto, DirectoryInv, RequestTypes, Reserved
  <2> QED BY <1>3, <1>4, <2>1, <2>2, <2>3 DEF ReadReceipt
<1>5. ASSUME NEW r \in Req, ReadRequested(r) PROVE Reserved'
  <2>1. UNCHANGED store /\ \A q \in Req \ {r} : pc[q] # "save" BY <1>5 DEF ReadRequested
  <2>2. CASE store[body[r].code] = NoRoom /\ Goto(r, "save") /\ UNCHANGED <<body, tried>>
    BY <2>1, <2>2 DEF Goto, DirectoryInv, RequestTypes, Reserved
  <2> QED BY <1>3, <1>5, <2>1, <2>2 DEF ReadRequested
<1>6. ASSUME NEW r \in Req, NEW c \in Codes, ReadRandom(r, c) PROVE Reserved'
  <2>1. /\ UNCHANGED store /\ (\A q \in Req \ {r} : pc[q] # "save") /\ pc[r] = "read"
        /\ body' = [body EXCEPT ![r].code = c]
    BY <1>6 DEF ReadRandom
  <2>2. body[r] \in Posted BY <2>1 DEF DirectoryInv, RequestsSound, RequestSound
  <2>3. body'[r].code = c /\ \A q \in Req : q # r => body'[q] = body[q]
    BY <2>1, <2>2 DEF DirectoryInv, RequestTypes, Posted
  <2>4. tried[r] # Tries BY <2>1, DirectoryAssumption DEF DirectoryInv, RequestTypes, Reserved
  <2>5. CASE Free(c) /\ Goto(r, "save") /\ tried' = [tried EXCEPT ![r] = 0]
    BY <2>1, <2>3, <2>5 DEF Free, Goto, DirectoryInv, RequestTypes, Reserved
  <2>6. CASE tried[r] + 1 < Tries /\ UNCHANGED pc /\ tried' = [tried EXCEPT ![r] = @ + 1]
    BY <2>1, <2>3, <2>6 DEF DirectoryInv, RequestTypes, Reserved
  <2> QED BY <1>6, <2>4, <2>5, <2>6 DEF ReadRandom
<1>7. ASSUME NEW r \in Req, Save(r) PROVE Reserved'
  <2>1. Finish(r) /\ \A q \in Req \ {r} : pc[q] # "save" BY <1>7 DEF Save
  <2> QED BY <2>1, Finished DEF Reserved
<1>8. ASSUME NEW r \in Req, Fail(r) PROVE Reserved'
  BY <1>3, <1>8 DEF Fail
<1>9. ASSUME NEW p \in Pools, NEW h \in Hosts, NEW s \in {"success", "reverted"}, Mine(p, h, s) PROVE Reserved'
  BY <1>9 DEF Mine, Reserved
<1>10. ASSUME NEW c \in Codes, Tip(c) PROVE Reserved'
  BY <1>10 DEF Tip, Reserved
<1>11. ASSUME NEW c \in Codes, Expire(c) PROVE Reserved'
  <2>1. \A r \in Req : pc[r] = "save" => body[r].code \in Codes BY DEF DirectoryInv, RequestsSound, RequestSound
  <2> QED BY <1>11, <2>1 DEF Expire, DirectoryInv, RequestTypes, Reserved
<1> QED BY <1>1, <1>2, <1>4, <1>5, <1>6, <1>7, <1>8, <1>9, <1>10, <1>11 DEF Next

\* What may become of a room in one step.
RoomKept(c) ==
  \/ store'[c] = NoRoom
  \/ store'[c].pool = store[c].pool /\ store'[c].tips >= store[c].tips

LEMMA StepKeepsRooms ==
  ASSUME Memory, Lucky, DirectoryInv, Reserved, [Next]_vars, NEW c \in Codes, store[c] # NoRoom PROVE RoomKept(c)
<1>0. store[c] \in Room /\ store[c].tips \in Nat
  BY DirectoryAssumption DEF DirectoryInv, RequestTypes, Room
<1>1. CASE store' = store BY <1>0, <1>1 DEF RoomKept
<1>2. ASSUME NEW r \in Req, Save(r) PROVE RoomKept(c)
  <2>1. store[body[r].code] = NoRoom /\ body[r].code \in Codes
    BY <1>2 DEF Save, Reserved, DirectoryInv, RequestsSound, RequestSound
  <2>2. store'[c] = store[c] BY <1>2, <2>1 DEF Save, DirectoryInv, RequestTypes
  <2> QED BY <1>0, <2>2 DEF RoomKept
<1>3. ASSUME NEW d \in Codes, Tip(d) PROVE RoomKept(c)
  <2>1. store' = [store EXCEPT ![d].tips = @ + 1] BY <1>3 DEF Tip
  <2>2. CASE d = c
    <3>1. store'[c] = [store[c] EXCEPT !.tips = @ + 1] BY <2>1, <2>2 DEF DirectoryInv, RequestTypes
    <3> QED BY <1>0, <3>1 DEF RoomKept, Room
  <2>3. CASE d # c
    BY <1>0, <2>1, <2>3 DEF RoomKept, DirectoryInv, RequestTypes
  <2> QED BY <2>2, <2>3
<1>4. ASSUME NEW d \in Codes, Expire(d) PROVE RoomKept(c)
  <2>1. store'[c] = NoRoom \/ store'[c] = store[c] BY <1>4 DEF Expire, DirectoryInv, RequestTypes
  <2> QED BY <1>0, <2>1 DEF RoomKept
<1> QED BY <1>1, <1>2, <1>3, <1>4 DEF Next, vars, Post, ReadReceipt, Fail, ReadRequested, ReadRandom, Mine

\* With the in-memory store no create, republish or tip loses a room: it keeps
\* its pool and its tips until it expires.
THEOREM RoomsKeptInMemory == ASSUME Memory, Lucky PROVE Spec => RoomsAreKept
<1>1. Init => Reserved BY DEF Init, Reserved
<1>2. DirectoryInv /\ Reserved /\ [Next]_vars => Reserved' BY NextReserved
<1>3. DirectoryInv /\ Reserved /\ [Next]_vars =>
        [\A c \in Codes : store[c] # NoRoom =>
           \/ store'[c] = NoRoom
           \/ store'[c].pool = store[c].pool /\ store'[c].tips >= store[c].tips]_vars
  BY StepKeepsRooms DEF RoomKept
<1> QED BY <1>1, <1>2, <1>3, DirectoryInvariant, PTL DEF Spec, RoomsAreKept

-----------------------------------------------------------------------------
(* The watch-party page                                                    *)

\* The room a reload comes back to.
ReloadRoom == IF url # NoCode THEN url ELSE cache

\* A call is about the room the user last went to, but for a create or a join,
\* which he waits for with no room on screen; the calls of the hydration are
\* about the room that the link and the cache name.
CallSound(c) ==
  /\ c.kind \notin {"create", "join"} => c.room = roomChosen
  /\ c.kind \in {"link", "linkCached"} => url = c.room
  /\ c.kind \in {"cached", "publish"} => url = NoCode /\ cache = c.room
  /\ c.kind \in {"create", "join", "link", "linkCached", "cached", "publish"} => party = NoCode
  /\ c.kind \notin {"create", "join", "link", "linkCached", "cached", "publish"} => party = c.room

PageTyped == Page!TypeOK /\ (party # NoCode => cache = party)

PageSound ==
  /\ PageTyped
  /\ \A c \in roomCalls : CallSound(c)
  /\ party = NoCode => \A c, d \in roomCalls : c = d
  /\ ReloadRoom \in {NoCode, roomChosen} /\ (party # NoCode => party = roomChosen /\ ReloadRoom = party)
  /\ escrow \in {NoCode, party}

\* It holds for a user who waits; what the others see has its type and is cached.
PageInv == PageTyped /\ (~rushed => PageSound)

LEMMA PageConstants == NoCode \notin Rooms /\ MaxLost \in Nat
BY PagesAssumption DEF Page!RoomPageAssumption

LEMMA HydrationCalls ==
  ASSUME {cache, url} \subseteq Rooms \cup {NoCode}, NEW c \in Page!HydrateCall(url, cache)
  PROVE  /\ c \in [kind : Page!Kinds \ Page!ofEffects, room : Rooms] /\ c.room = ReloadRoom
         /\ \/ c.kind \in {"link", "linkCached"} /\ url = c.room
            \/ c.kind = "cached" /\ url = NoCode /\ cache = c.room
<1>1. {"link", "linkCached", "cached"} \subseteq Page!Kinds \ Page!ofEffects BY DEF Page!Kinds, Page!ofEffects
<1>2. CASE url # NoCode
  <2>1. PICK k \in {"link", "linkCached"} : c = [kind |-> k, room |-> url]
    BY <1>2 DEF Page!HydrateCall, Page!Call
  <2> QED BY <1>1, <1>2, <2>1 DEF ReloadRoom
<1>3. CASE url = NoCode
  <2>1. c = [kind |-> "cached", room |-> cache] /\ cache # NoCode
    BY <1>3 DEF Page!HydrateCall, Page!Call
  <2> QED BY <1>1, <1>3, <2>1 DEF ReloadRoom
<1> QED BY <1>2, <1>3

LEMMA InitPageInv == Page!Init => PageInv
<1> SUFFICES ASSUME Page!Init PROVE PageSound BY DEF PageInv, PageSound
<1> USE PageConstants
<1>1. /\ {cache, url} \subseteq Rooms \cup {NoCode} /\ party = NoCode /\ escrow = NoCode
      /\ roomCalls = Page!HydrateCall(url, cache) /\ roomChosen = ReloadRoom
  BY DEF Page!Init, ReloadRoom
<1>2. \A c \in roomCalls :
        /\ c \in [kind : Page!Kinds \ Page!ofEffects, room : Rooms] /\ c.room = ReloadRoom
        /\ \/ c.kind \in {"link", "linkCached"} /\ url = c.room
           \/ c.kind = "cached" /\ url = NoCode /\ cache = c.room
  BY <1>1, HydrationCalls
<1>3. \A c, d \in roomCalls : c = d BY <1>1 DEF Page!HydrateCall
<1>4. Page!TypeOK
  <2>1. {party, cache, url, escrow, roomChosen} \subseteq Rooms \cup {NoCode} BY <1>1 DEF ReloadRoom
  <2>2. roomCalls \subseteq [kind : Page!Kinds, room : Rooms] /\ \A c \in roomCalls : c.kind \notin Page!ofEffects BY <1>2
  <2>3. roomStore \subseteq Rooms /\ roomBusy = FALSE /\ syncing = FALSE /\ rushed = FALSE /\ roomExpiries = 0 BY DEF Page!Init
  <2>4. 0 \in 0..MaxLost OBVIOUS
  <2> QED BY <2>1, <2>2, <2>3, <2>4 DEF Page!TypeOK
<1>5. \A c \in roomCalls : CallSound(c) BY <1>1, <1>2 DEF CallSound, ReloadRoom
<1> QED BY <1>1, <1>3, <1>4, <1>5 DEF PageSound, PageTyped, ReloadRoom

\* A step that puts one more call, about the room on screen.
LEMMA IssueKeeps ==
  ASSUME PageSound, NEW k \in Page!Kinds \ {"create", "join", "link", "linkCached", "cached", "publish"},
         party # NoCode, Page!Issue(k, party),
         UNCHANGED <<roomStore, party, cache, url, escrow, roomChosen, roomExpiries>>,
         roomBusy' \in BOOLEAN, syncing' \in BOOLEAN, rushed' \in BOOLEAN
  PROVE  PageSound'
<1>1. roomCalls' = roomCalls \cup {[kind |-> k, room |-> party]} /\ party \in Rooms
  BY DEF Page!Issue, Page!Call, PageSound, PageTyped, Page!TypeOK
<1>2. Page!TypeOK' BY <1>1 DEF PageSound, PageTyped, Page!TypeOK
<1>3. \A c \in roomCalls' : CallSound(c)' BY <1>1 DEF PageSound, PageTyped, CallSound, ReloadRoom
<1> QED BY <1>2, <1>3 DEF PageSound, PageTyped, ReloadRoom

\* A step that puts a call to enter a room.
LEMMA EnterKeeps ==
  ASSUME PageSound, ~rushed', NEW r \in Rooms, Page!Create(r) \/ Page!Join(r)
  PROVE  PageSound'
<1> USE PageConstants
<1>1. /\ party = NoCode /\ roomCalls = {} /\ UNCHANGED <<roomStore, party, cache, url, syncing, escrow, roomChosen, roomExpiries>>
      /\ roomBusy' = TRUE /\ rushed' \in BOOLEAN
  <2>1. \A c \in roomCalls : c.kind \in Page!ofEffects /\ c.room = party /\ c.room \in Rooms
    BY DEF Page!Create, Page!Join, Page!GoesElsewhere, PageSound, PageTyped, Page!TypeOK
  <2> QED BY <2>1 DEF Page!Create, Page!Join, Page!GoesElsewhere
<1>2. \E k \in {"create", "join"} : roomCalls' = {[kind |-> k, room |-> r]}
  BY <1>1 DEF Page!Create, Page!Join, Page!Issue, Page!Call
<1>3. Page!TypeOK' BY <1>1, <1>2 DEF PageSound, PageTyped, Page!TypeOK, Page!Kinds, Page!ofEffects
<1>4. \A c \in roomCalls' : CallSound(c)' BY <1>1, <1>2 DEF CallSound
<1> QED BY <1>1, <1>2, <1>3, <1>4 DEF PageSound, PageTyped, ReloadRoom

LEMMA LoadKeeps == ASSUME PageTyped, Page!Load PROVE PageSound'
<1> USE PageConstants
<1>1. /\ {cache, url} \subseteq Rooms \cup {NoCode} /\ party' = NoCode /\ escrow' = NoCode
      /\ roomCalls' = Page!HydrateCall(url, cache) /\ UNCHANGED <<roomStore, cache, url, roomExpiries>>
      /\ roomChosen' = ReloadRoom /\ roomBusy' = FALSE /\ syncing' = FALSE /\ rushed' = FALSE
  BY DEF Page!Load, PageTyped, Page!TypeOK, ReloadRoom
<1>2. \A c \in roomCalls' :
        /\ c \in [kind : Page!Kinds \ Page!ofEffects, room : Rooms] /\ c.room = ReloadRoom
        /\ \/ c.kind \in {"link", "linkCached"} /\ url = c.room
           \/ c.kind = "cached" /\ url = NoCode /\ cache = c.room
  BY <1>1, HydrationCalls
<1>3. \A c, d \in roomCalls' : c = d BY <1>1 DEF Page!HydrateCall
<1>4. Page!TypeOK'
  BY <1>1, <1>2 DEF PageTyped, Page!TypeOK, ReloadRoom
<1>5. \A c \in roomCalls' : CallSound(c)' BY <1>1, <1>2 DEF CallSound
<1> QED BY <1>1, <1>3, <1>4, <1>5 DEF PageSound, PageTyped, ReloadRoom

LEMMA LeaveKeeps == ASSUME PageSound, ~rushed', Page!Leave PROVE PageSound'
<1> USE PageConstants
<1>1. \A c \in roomCalls : c.kind \in Page!ofEffects
  BY DEF Page!Leave, Page!GoesElsewhere
<1>2. /\ party # NoCode /\ party' = NoCode /\ cache' = NoCode /\ url' = NoCode /\ roomChosen' = NoCode /\ escrow' = NoCode
      /\ roomCalls' = {} /\ UNCHANGED <<roomStore, roomBusy, syncing, roomExpiries>> /\ rushed' \in BOOLEAN
  BY <1>1 DEF Page!Leave, Page!GoesElsewhere, Page!clearParty, Page!setParty, Page!Rerun, Page!Cleared
<1>3. Page!TypeOK' BY <1>2 DEF PageSound, PageTyped, Page!TypeOK
<1> QED BY <1>2, <1>3 DEF PageSound, PageTyped, ReloadRoom

\* An answer that shows the room p it is about, with the calls cs left.
LEMMA ShowKeeps ==
  ASSUME PageSound, NEW c \in roomCalls, NEW cs,
         cs \subseteq (roomCalls \ {c}) \cup {[kind |-> "append", room |-> c.room]}, c.kind = "tip" \/ cs \subseteq roomCalls \ {c},
         Page!applyParty(c.room, cs),
         roomStore' \subseteq Rooms, UNCHANGED roomExpiries, roomBusy' \in BOOLEAN, syncing' \in BOOLEAN, rushed' \in BOOLEAN,
         url' = IF c.kind \in {"create", "join", "publish"} THEN c.room ELSE url,
         roomChosen' = IF c.kind \in {"create", "join"} THEN c.room ELSE roomChosen
  PROVE  PageSound'
<1> USE PageConstants
<1>1. /\ party' = c.room /\ cache' = c.room /\ c.room \in Rooms /\ c.room = roomChosen'
      /\ escrow' = escrow /\ roomCalls' = Page!Rerun(cs, c.room)
  BY DEF Page!applyParty, Page!setParty, Page!Cleared, PageSound, PageTyped, CallSound, Page!TypeOK
<1>2. ReloadRoom' = c.room /\ {url', roomChosen'} \subseteq Rooms \cup {NoCode}
  BY <1>1 DEF ReloadRoom, PageSound, PageTyped, CallSound, Page!TypeOK
<1>3. CASE party = NoCode
  <2>1. roomCalls = {c} /\ c.kind # "tip" BY <1>1, <1>3 DEF PageSound, PageTyped, CallSound
  <2>2. roomCalls' = {[kind |-> "escrow", room |-> c.room]}
    BY <1>1, <1>3, <2>1 DEF Page!Rerun, Page!Call
  <2>3. Page!TypeOK' BY <1>1, <1>2, <2>2 DEF PageSound, PageTyped, Page!TypeOK, Page!Kinds, Page!ofEffects
  <2>4. \A d \in roomCalls' : CallSound(d)' BY <1>1, <2>2 DEF CallSound
  <2> QED BY <1>1, <1>2, <1>3, <2>3, <2>4 DEF PageSound, PageTyped
<1>4. CASE party # NoCode
  <2>1. /\ party = c.room /\ roomChosen' = roomChosen /\ url' = url
        /\ c.kind \notin {"create", "join", "link", "linkCached", "cached", "publish"}
    BY <1>4 DEF PageSound, PageTyped, CallSound
  <2>2. roomCalls' = cs BY <1>1, <2>1 DEF Page!Rerun
  <2>3. roomCalls' \subseteq [kind : Page!Kinds, room : Rooms] /\ \A d \in roomCalls' : d.kind \in Page!ofEffects => d.room = party
    <3>1. {"append"} \subseteq Page!Kinds /\ "append" \notin Page!ofEffects BY DEF Page!Kinds, Page!ofEffects
    <3> QED BY <1>1, <2>1, <2>2, <3>1 DEF PageSound, PageTyped, Page!TypeOK
  <2>4. Page!TypeOK' BY <1>1, <1>2, <2>1, <2>3 DEF PageSound, PageTyped, Page!TypeOK
  <2>5. \A d \in roomCalls' : CallSound(d)'
    <3> SUFFICES ASSUME NEW d \in roomCalls' PROVE CallSound(d)' OBVIOUS
    <3>1. CASE d \in roomCalls BY <1>1, <1>4, <2>1, <3>1 DEF PageSound, PageTyped, CallSound
    <3>2. CASE d = [kind |-> "append", room |-> c.room] BY <1>1, <2>1, <3>2 DEF CallSound
    <3> QED BY <2>2, <3>1, <3>2
  <2> QED BY <1>1, <1>2, <1>4, <2>1, <2>4, <2>5 DEF PageSound, PageTyped
<1> QED BY <1>3, <1>4

\* An answer that finds no room, with no call left.
LEMMA ClearKeeps ==
  ASSUME PageSound, NEW c \in roomCalls, c.kind \in {"linkCached", "publish"}, Page!clearParty(roomCalls \ {c}),
         roomStore' \subseteq Rooms, UNCHANGED <<url, roomChosen, roomExpiries>>, roomBusy' \in BOOLEAN, syncing' \in BOOLEAN, rushed' \in BOOLEAN
  PROVE  PageSound'
<1> USE PageConstants
<1>1. party = NoCode /\ roomCalls = {c} BY DEF PageSound, PageTyped, CallSound
<1>2. party' = NoCode /\ cache' = NoCode /\ roomCalls' = {} /\ escrow' = NoCode
  BY <1>1 DEF Page!clearParty, Page!setParty, Page!Rerun, Page!Cleared
<1>3. Page!TypeOK' BY <1>2 DEF PageSound, PageTyped, Page!TypeOK
<1>4. ReloadRoom' \in {NoCode, roomChosen} BY <1>2 DEF ReloadRoom, PageSound, PageTyped, CallSound
<1> QED BY <1>2, <1>3, <1>4 DEF PageSound, PageTyped

\* An answer that leaves the page as it is, but for the escrow balance.
LEMMA IgnoreKeeps ==
  ASSUME PageSound, NEW c \in roomCalls, roomCalls' = roomCalls \ {c}, escrow' \in {escrow, party},
         roomStore' \subseteq Rooms, UNCHANGED <<party, cache, url, roomChosen, roomExpiries>>,
         roomBusy' \in BOOLEAN, syncing' \in BOOLEAN, rushed' \in BOOLEAN
  PROVE  PageSound'
<1>1. Page!TypeOK' BY DEF PageSound, PageTyped, Page!TypeOK
<1>2. \A d \in roomCalls' : CallSound(d)' BY DEF PageSound, PageTyped, CallSound
<1> QED BY <1>1, <1>2 DEF PageSound, PageTyped, ReloadRoom

LEMMA AnswerKeeps ==
  ASSUME PageSound, NEW c \in roomCalls, NEW found \in {"yes", "no", "error"}, Page!Answer(c, found)
  PROVE  PageSound'
<1> DEFINE cs == roomCalls \ {c}
<1>1. /\ roomStore' \subseteq Rooms /\ UNCHANGED roomExpiries /\ roomBusy' \in BOOLEAN /\ syncing' \in BOOLEAN
      /\ rushed' \in BOOLEAN
      /\ url' = (IF Page!Named(c, found) THEN c.room ELSE url)
      /\ roomChosen' = (IF found = "yes" /\ c.kind \in {"create", "join"} THEN c.room ELSE roomChosen)
      /\ found \in Page!Answers(c)
  BY DEF Page!Answer, PageSound, PageTyped, Page!TypeOK
<1>2. CASE Page!applyParty(c.room, cs) /\ found = "yes"
  BY <1>1, <1>2, ShowKeeps DEF Page!Named
<1>3. CASE UNCHANGED <<party, cache>> /\ escrow' \in {escrow, party} /\ roomCalls' = cs /\ (found # "yes" \/ c.kind = "escrow")
  BY <1>1, <1>3, IgnoreKeeps DEF Page!Named
<1>4. CASE Page!clearParty(cs) /\ c.kind \in {"linkCached", "publish"} /\ found # "yes"
  BY <1>1, <1>4, ClearKeeps DEF Page!Named
<1>5. CASE c.kind \in {"link", "linkCached"} /\ Page!LinkAnswered(c, cs, found)
  BY <1>2, <1>3, <1>4, <1>5 DEF Page!LinkAnswered
<1>6. CASE c.kind = "cached" /\ Page!CachedAnswered(c, cs, found)
  <2>1. CASE Page!applyParty(c.room, cs)
    BY <1>1, <1>6, <2>1, ShowKeeps DEF Page!Named
  <2>2. CASE found = "no" /\ roomCalls' = cs \cup {[kind |-> "publish", room |-> c.room]} /\ UNCHANGED <<party, cache, escrow>>
    <3>1. roomCalls = {c} /\ party = NoCode /\ UNCHANGED <<url, roomChosen>>
      BY <1>1, <1>6, <2>2 DEF PageSound, PageTyped, CallSound, Page!Named
    <3>2. roomCalls' = {[kind |-> "publish", room |-> c.room]} /\ c.room \in Rooms
      BY <2>2, <3>1 DEF PageSound, PageTyped, Page!TypeOK
    <3>3. Page!TypeOK' BY <1>1, <2>2, <3>1, <3>2 DEF PageSound, PageTyped, Page!TypeOK, Page!Kinds, Page!ofEffects
    <3>4. \A d \in roomCalls' : CallSound(d)' BY <1>6, <2>2, <3>1, <3>2 DEF PageSound, PageTyped, CallSound
    <3> QED BY <2>2, <3>1, <3>2, <3>3, <3>4 DEF PageSound, PageTyped, ReloadRoom
  <2> QED BY <1>6, <2>1, <2>2 DEF Page!CachedAnswered, Page!Call
<1>7. CASE c.kind = "publish" /\ Page!PublishAnswered(c, cs, found)
  BY <1>2, <1>4, <1>7 DEF Page!PublishAnswered
<1>8. CASE c.kind = "tip" /\ Page!TipAnswered(c, cs, found)
  <2>1. CASE found = "yes" BY <1>1, <1>8, <2>1, ShowKeeps DEF Page!TipAnswered, Page!Call, Page!Named
  <2>2. CASE found # "yes" BY <1>3, <1>8, <2>2 DEF Page!TipAnswered
  <2> QED BY <2>1, <2>2
<1>9. CASE c.kind = "escrow" /\ Page!EscrowAnswered(c, cs, found)
  <2>1. c.room = party BY <1>9 DEF PageSound, PageTyped, CallSound
  <2> QED BY <1>3, <1>9, <2>1 DEF Page!EscrowAnswered
<1>10. CASE Page!RoomAnswered(c, cs, found)
  BY <1>2, <1>3, <1>10 DEF Page!RoomAnswered
<1> QED BY <1>5, <1>6, <1>7, <1>8, <1>9, <1>10 DEF Page!Answer

LEMMA PatienceKeeps == ASSUME PageSound, ~rushed', [Page!Next]_roomVars PROVE PageSound'
<1> USE PageConstants
<1>1. CASE UNCHANGED roomVars
  BY <1>1 DEF roomVars, PageSound, PageTyped, Page!TypeOK, CallSound, ReloadRoom
<1>2. CASE Page!Refresh
  <2>1. "refresh" \in Page!Kinds BY DEF Page!Kinds
  <2>2. /\ party # NoCode /\ Page!Issue("refresh", party) /\ syncing' \in BOOLEAN /\ roomBusy' \in BOOLEAN /\ rushed' \in BOOLEAN
        /\ UNCHANGED <<roomStore, party, cache, url, escrow, roomChosen, roomExpiries>>
    BY <1>2 DEF Page!Refresh, PageSound, PageTyped, Page!TypeOK
  <2> QED BY <2>1, <2>2, IssueKeeps
<1>3. ASSUME NEW k \in {"tip", "settle"}, Page!TipOrSettle(k) PROVE PageSound'
  <2>1. k \in Page!Kinds BY DEF Page!Kinds
  <2>2. /\ party # NoCode /\ Page!Issue(k, party) /\ syncing' \in BOOLEAN /\ roomBusy' \in BOOLEAN /\ rushed' \in BOOLEAN
        /\ UNCHANGED <<roomStore, party, cache, url, escrow, roomChosen, roomExpiries>>
    BY <1>3 DEF Page!TipOrSettle, PageSound, PageTyped, Page!TypeOK
  <2> QED BY <2>1, <2>2, IssueKeeps
<1>4. ASSUME NEW k \in Page!ofEffects, Page!Interval(k) PROVE PageSound'
  <2>1. k \in Page!Kinds /\ k \in {"poll", "escrow"} BY DEF Page!Kinds, Page!ofEffects
  <2>2. /\ party # NoCode /\ Page!Issue(k, party) /\ syncing' \in BOOLEAN /\ roomBusy' \in BOOLEAN /\ rushed' \in BOOLEAN
        /\ UNCHANGED <<roomStore, party, cache, url, escrow, roomChosen, roomExpiries>>
    BY <1>4 DEF Page!Interval, PageSound, PageTyped, Page!TypeOK
  <2> QED BY <2>1, <2>2, IssueKeeps
<1>5. ASSUME NEW r \in Rooms, Page!Expire(r) PROVE PageSound'
  <2>1. UNCHANGED <<party, cache, url, roomCalls, roomBusy, syncing, escrow, roomChosen, rushed>> BY <1>5 DEF Page!Expire
  <2>2. Page!TypeOK' BY <1>5, <2>1 DEF Page!Expire, PageSound, PageTyped, Page!TypeOK
  <2> QED BY <2>1, <2>2 DEF PageSound, PageTyped, CallSound, ReloadRoom
<1> QED BY <1>1, <1>2, <1>3, <1>4, <1>5, LoadKeeps, LeaveKeeps, EnterKeeps, AnswerKeeps DEF Page!Next, PageSound

\* Whatever the user does, the variables keep their types and the room on screen
\* is cached.
LEMMA SetKeepsTypes ==
  ASSUME PageTyped, NEW p \in Rooms \cup {NoCode}, NEW cs, cs \subseteq [kind : Page!Kinds, room : Rooms],
         \A c \in cs : c.kind \in Page!ofEffects => c.room = party,
         Page!setParty(p, cs), cache' = p, roomStore' \subseteq Rooms, UNCHANGED roomExpiries,
         {url', roomChosen'} \subseteq Rooms \cup {NoCode}, roomBusy' \in BOOLEAN, syncing' \in BOOLEAN, rushed' \in BOOLEAN
  PROVE  PageTyped'
<1>1. party' = p /\ roomCalls' = Page!Rerun(cs, p) /\ escrow' \in {escrow, NoCode}
  BY DEF Page!setParty, Page!Cleared
<1>2. \A c \in roomCalls' : c \in [kind : Page!Kinds, room : Rooms] /\ (c.kind \in Page!ofEffects => c.room = p)
  <2>1. CASE p = party BY <1>1, <2>1 DEF Page!Rerun
  <2>2. CASE p # party
    <3> SUFFICES ASSUME NEW c \in roomCalls'
                 PROVE  c \in [kind : Page!Kinds, room : Rooms] /\ (c.kind \in Page!ofEffects => c.room = p)
      OBVIOUS
    <3>1. CASE c \in cs /\ c.kind \notin Page!ofEffects BY <3>1
    <3>2. CASE c = [kind |-> "escrow", room |-> p] /\ p # NoCode BY <3>2 DEF Page!Kinds, Page!ofEffects
    <3> QED BY <1>1, <2>2, <3>1, <3>2 DEF Page!Rerun, Page!Call
  <2> QED BY <2>1, <2>2
<1>3. Page!TypeOK' BY <1>1, <1>2 DEF PageTyped, Page!TypeOK
<1> QED BY <1>1, <1>3 DEF PageTyped

\* Or a call is put, or ends, and the room stays.
LEMMA StayKeepsTypes ==
  ASSUME PageTyped, NEW cs, cs \subseteq [kind : Page!Kinds, room : Rooms],
         \A c \in cs : c.kind \in Page!ofEffects => c.room = party,
         roomCalls' = cs, UNCHANGED <<party, cache, roomExpiries>>, escrow' \in Rooms \cup {NoCode},
         roomStore' \subseteq Rooms,
         {url', roomChosen'} \subseteq Rooms \cup {NoCode}, roomBusy' \in BOOLEAN, syncing' \in BOOLEAN, rushed' \in BOOLEAN
  PROVE  PageTyped'
BY DEF PageTyped, Page!TypeOK

LEMMA AnswerKeepsTypes ==
  ASSUME PageTyped, NEW c \in roomCalls, NEW found \in {"yes", "no", "error"}, Page!Answer(c, found)
  PROVE  PageTyped'
<1> DEFINE cs == roomCalls \ {c}
<1>1. /\ roomStore' \subseteq Rooms /\ UNCHANGED roomExpiries /\ roomBusy' \in BOOLEAN /\ syncing' \in BOOLEAN
      /\ rushed' \in BOOLEAN /\ {url', roomChosen'} \subseteq Rooms \cup {NoCode} /\ c.room \in Rooms
  BY DEF Page!Answer, PageTyped, Page!TypeOK
<1>2. /\ cs \subseteq [kind : Page!Kinds, room : Rooms] /\ \A d \in cs : d.kind \in Page!ofEffects => d.room = party
      /\ escrow \in Rooms \cup {NoCode}
  BY DEF PageTyped, Page!TypeOK
<1>3. \A k \in {"publish", "append"} : [kind |-> k, room |-> c.room] \in [kind : Page!Kinds, room : Rooms] /\ k \notin Page!ofEffects
  BY <1>1 DEF Page!Kinds, Page!ofEffects
<1>4. ASSUME NEW k \in {"publish", "append"}
      PROVE  /\ cs \cup {[kind |-> k, room |-> c.room]} \subseteq [kind : Page!Kinds, room : Rooms]
             /\ \A d \in cs \cup {[kind |-> k, room |-> c.room]} : d.kind \in Page!ofEffects => d.room = party
  BY <1>2, <1>3
<1>5. CASE Page!applyParty(c.room, cs) BY <1>1, <1>2, <1>5, SetKeepsTypes DEF Page!applyParty
<1>6. CASE Page!clearParty(cs) BY <1>1, <1>2, <1>6, SetKeepsTypes DEF Page!clearParty
<1>7. CASE roomCalls' = cs /\ UNCHANGED <<party, cache>> /\ escrow' \in {escrow, c.room}
  BY <1>1, <1>2, <1>7, StayKeepsTypes
<1>8. CASE c.kind = "tip" /\ Page!applyParty(c.room, cs \cup {[kind |-> "append", room |-> c.room]})
  BY <1>1, <1>4, <1>8, SetKeepsTypes DEF Page!applyParty
<1>9. CASE UNCHANGED <<party, cache, escrow>> /\ roomCalls' = cs \cup {[kind |-> "publish", room |-> c.room]}
  BY <1>1, <1>2, <1>4, <1>9, StayKeepsTypes
<1> QED BY <1>5, <1>6, <1>7, <1>8, <1>9
  DEF Page!Answer, Page!LinkAnswered, Page!CachedAnswered, Page!PublishAnswered, Page!TipAnswered, Page!EscrowAnswered,
      Page!RoomAnswered, Page!Call

LEMMA PageStaysTyped == ASSUME PageTyped, [Page!Next]_roomVars PROVE PageTyped'
<1> USE PageConstants
<1>1. CASE UNCHANGED roomVars BY <1>1 DEF roomVars, PageTyped, Page!TypeOK
<1>2. ASSUME NEW k \in Page!Kinds, NEW r \in Rooms, k \in Page!ofEffects => r = party, Page!Issue(k, r),
             UNCHANGED <<roomStore, party, cache, url, escrow, roomChosen, roomExpiries>>,
             roomBusy' \in BOOLEAN, syncing' \in BOOLEAN, rushed' \in BOOLEAN
      PROVE  PageTyped'
  <2>1. roomCalls' = roomCalls \cup {[kind |-> k, room |-> r]} BY <1>2 DEF Page!Issue, Page!Call
  <2>2. roomCalls' \subseteq [kind : Page!Kinds, room : Rooms] /\ \A c \in roomCalls' : c.kind \in Page!ofEffects => c.room = party
    BY <1>2, <2>1 DEF PageTyped, Page!TypeOK
  <2> QED BY <1>2, <2>2 DEF PageTyped, Page!TypeOK
<1>3. {"create", "join", "refresh", "tip", "settle"} \subseteq Page!Kinds /\ Page!ofEffects \subseteq Page!Kinds
      /\ {"create", "join"} \cap Page!ofEffects = {}
  BY DEF Page!Kinds, Page!ofEffects
<1>4. party # NoCode => party \in Rooms BY DEF PageTyped, Page!TypeOK
<1>5. CASE Page!Refresh BY <1>2, <1>3, <1>4, <1>5 DEF Page!Refresh, PageTyped, Page!TypeOK
<1>6. ASSUME NEW k \in {"tip", "settle"}, Page!TipOrSettle(k) PROVE PageTyped'
  BY <1>2, <1>3, <1>4, <1>6 DEF Page!TipOrSettle, PageTyped, Page!TypeOK
<1>7. ASSUME NEW k \in Page!ofEffects, Page!Interval(k) PROVE PageTyped'
  BY <1>2, <1>3, <1>4, <1>7 DEF Page!Interval, PageTyped, Page!TypeOK
<1>8. ASSUME NEW r \in Rooms, Page!Create(r) \/ Page!Join(r) PROVE PageTyped'
  <2>1. PICK k \in {"create", "join"} : Page!Issue(k, r) BY <1>8 DEF Page!Create, Page!Join
  <2>2. /\ UNCHANGED <<roomStore, party, cache, url, escrow, roomChosen, roomExpiries>>
        /\ roomBusy' \in BOOLEAN /\ syncing' \in BOOLEAN /\ rushed' \in BOOLEAN
    BY <1>8 DEF Page!Create, Page!Join, Page!GoesElsewhere, PageTyped, Page!TypeOK
  <2> QED BY <1>2, <1>3, <2>1, <2>2
<1>9. ASSUME NEW r \in Rooms, Page!Expire(r) PROVE PageTyped'
  BY <1>9 DEF Page!Expire, PageTyped, Page!TypeOK
<1>10. CASE Page!Leave
  <2>1. /\ roomCalls \subseteq [kind : Page!Kinds, room : Rooms] /\ \A c \in roomCalls : c.kind \in Page!ofEffects => c.room = party
        /\ roomStore' \subseteq Rooms /\ UNCHANGED roomExpiries /\ {url', roomChosen'} \subseteq Rooms \cup {NoCode}
        /\ roomBusy' \in BOOLEAN /\ syncing' \in BOOLEAN /\ rushed' \in BOOLEAN
    BY <1>10 DEF Page!Leave, Page!GoesElsewhere, PageTyped, Page!TypeOK
  <2> QED BY <1>10, <2>1, SetKeepsTypes DEF Page!Leave, Page!clearParty
<1> QED BY <1>1, <1>5, <1>6, <1>7, <1>8, <1>9, <1>10, LoadKeeps, AnswerKeepsTypes DEF Page!Next, PageSound

LEMMA PageKeeps == ASSUME PageInv, [Page!Next]_roomVars PROVE PageInv'
<1>1. PageTyped' BY PageStaysTyped DEF PageInv
<1>2. CASE Page!Load BY <1>1, <1>2, LoadKeeps DEF PageInv
<1>3. CASE ~Page!Load /\ ~rushed'
  <2>1. ~rushed
    BY <1>3 DEF Page!Next, roomVars, Page!Refresh, Page!Leave, Page!TipOrSettle, Page!Interval, Page!Create, Page!Join,
       Page!Expire, Page!Answer, Page!GoesElsewhere
  <2> QED BY <1>1, <1>3, <2>1, PatienceKeeps DEF PageInv
<1> QED BY <1>1, <1>2, <1>3 DEF PageInv

LEMMA PageShows == ASSUME PageInv PROVE Page!TypeOK /\ Page!ShownIsChosen /\ Page!EscrowOfShown /\ Page!ReloadComesBack
<1>1. Page!TypeOK BY DEF PageInv, PageTyped
<1>2. CASE rushed BY <1>1, <1>2 DEF PageInv, PageTyped, Page!ShownIsChosen, Page!EscrowOfShown, Page!ReloadComesBack
<1>3. CASE ~rushed
  BY <1>1, <1>3 DEF PageInv, PageTyped, PageSound, ReloadRoom, Page!ShownIsChosen, Page!EscrowOfShown, Page!ReloadComesBack
<1> QED BY <1>2, <1>3

-----------------------------------------------------------------------------
(* The onboarding wizard                                                   *)

Questions == [what : {"generate", "validate"}, text : Wizard!Optional]

\* The phrase on a screen past the backup's check, or past the worker's, was
\* proven; one on the screens before is a phrase.
StepSound ==
  /\ step.name \in {"create-show", "create-verify"} => step.phrase \in Phrases
  /\ step.name \in {"create-password", "import-password"} => step.phrase \in proven
WizardInv == Wizard!TypeOK /\ StepSound /\ Wizard!VaultIsRestorable

LEMMA InitWizardInv == Wizard!Init => WizardInv
<1> SUFFICES ASSUME Wizard!Init PROVE WizardInv OBVIOUS
<1>1. step = [name |-> "choice", phrase |-> None] /\ creating = None /\ vault = None /\ proven = {} /\ wizardAsked = <<>>
  BY DEF Wizard!Init
<1>2. step \in [name : Wizard!Screens, phrase : Wizard!Optional] BY <1>1 DEF Wizard!Screens, Wizard!Optional
<1>3. wizardAsked \in Seq([what : {"generate", "validate"}, text : Wizard!Optional]) BY <1>1
<1>4. Wizard!TypeOK BY <1>1, <1>2, <1>3 DEF Wizard!Init, Wizard!TypeOK, Wizard!Optional
<1> QED BY <1>1, <1>4 DEF WizardInv, StepSound, Wizard!VaultIsRestorable

\* A step that puts or takes a question.
LEMMA QuestionTaken ==
  ASSUME wizardAsked \in Seq(Questions), wizardAsked # <<>>
  PROVE  Head(wizardAsked) \in Questions /\ Tail(wizardAsked) \in Seq(Questions)
OBVIOUS

\* A step that leaves creating, proven and vault alone.
LEMMA WizardStays ==
  ASSUME WizardInv, UNCHANGED Wizard!outcome, StepSound',
         step' \in [name : Wizard!Screens, phrase : Wizard!Optional],
         acknowledged' \in BOOLEAN, box' \in BOOLEAN, copied' \in Phrases \cup {None},
         wizardInput' \in Wizard!Optional, invalid' \in BOOLEAN, wizardBusy' \in BOOLEAN, wizardAsked' \in Seq(Questions)
  PROVE  WizardInv'
BY DEF WizardInv, Wizard!TypeOK, Wizard!outcome, Wizard!VaultIsRestorable, Questions

LEMMA WizardKeeps == ASSUME WizardInv, [Wizard!Next]_wizardVars PROVE WizardInv'
<1> USE DEF Wizard!outcome, Wizard!form
<1> DEFINE Types == /\ step \in [name : Wizard!Screens, phrase : Wizard!Optional]
                    /\ acknowledged \in BOOLEAN /\ box \in BOOLEAN /\ copied \in Phrases \cup {None}
                    /\ wizardInput \in Wizard!Optional /\ invalid \in BOOLEAN /\ wizardBusy \in BOOLEAN
                    /\ wizardAsked \in Seq(Questions)
<1>0. Types /\ StepSound BY DEF WizardInv, Wizard!TypeOK, Questions
<1>1. CASE UNCHANGED wizardVars
  BY <1>1 DEF wizardVars, WizardInv, Wizard!TypeOK, StepSound, Wizard!VaultIsRestorable
<1>a. Phrases \subseteq Wizard!Optional /\ None \in Wizard!Optional BY DEF Wizard!Optional, Wizard!Texts
<1>b. {"choice", "create-show", "create-verify", "create-password", "import-input", "import-password"} = Wizard!Screens
  BY DEF Wizard!Screens
<1>2. CASE Wizard!StartCreate
  <2>1. wizardAsked' \in Seq(Questions)
    BY <1>0, <1>2, <1>a DEF Wizard!StartCreate, Wizard!Ask, Questions
  <2> QED BY <1>0, <1>2, <2>1, WizardStays DEF Wizard!StartCreate, StepSound
<1>3. CASE Wizard!StartImport
  BY <1>0, <1>3, <1>a, <1>b, WizardStays DEF Wizard!StartImport, Wizard!Screen, StepSound
<1>4. CASE Wizard!Acknowledge
  BY <1>0, <1>4, WizardStays DEF Wizard!Acknowledge, StepSound
<1>5. CASE Wizard!Copy
  BY <1>0, <1>5, WizardStays DEF Wizard!Copy, Wizard!At, StepSound
<1>6. CASE Wizard!ContinueToVerify
  BY <1>0, <1>6, <1>b, WizardStays DEF Wizard!ContinueToVerify, Wizard!Screen, Wizard!At, StepSound
<1>7. CASE Wizard!BackToShow
  BY <1>0, <1>7, <1>b, WizardStays DEF Wizard!BackToShow, Wizard!Screen, Wizard!At, StepSound
<1>8. CASE Wizard!ConfirmImport
  <2>1. wizardAsked' \in Seq(Questions)
    BY <1>0, <1>8 DEF Wizard!ConfirmImport, Wizard!Ask, Questions
  <2> QED BY <1>0, <1>8, <2>1, WizardStays DEF Wizard!ConfirmImport, StepSound
<1>9. CASE Wizard!BackToChoice
  BY <1>0, <1>9, <1>a, <1>b, WizardStays DEF Wizard!BackToChoice, Wizard!Screen, StepSound
<1>10. CASE Wizard!Validated
  <2>1. Head(wizardAsked) \in Questions /\ wizardAsked' \in Seq(Questions)
    BY <1>0, <1>10, QuestionTaken DEF Wizard!Validated
  <2>2. CASE Head(wizardAsked).text \in Phrases
    <3>1. /\ step' = [name |-> "import-password", phrase |-> Head(wizardAsked).text]
          /\ proven' = proven \cup {Head(wizardAsked).text} /\ invalid' = FALSE
          /\ UNCHANGED <<acknowledged, box, copied, wizardInput, wizardBusy, creating, vault>>
      BY <1>10, <2>2 DEF Wizard!Validated, Wizard!Screen
    <3>2. StepSound' BY <3>1 DEF StepSound
    <3>3. Wizard!VaultIsRestorable' BY <3>1 DEF WizardInv, Wizard!VaultIsRestorable
    <3>4. step' \in [name : Wizard!Screens, phrase : Wizard!Optional] BY <1>a, <1>b, <2>2, <3>1
    <3>5. Wizard!TypeOK' BY <2>1, <2>2, <3>1, <3>4 DEF WizardInv, Wizard!TypeOK, Questions
    <3> QED BY <3>2, <3>3, <3>5 DEF WizardInv
  <2>3. CASE Head(wizardAsked).text \notin Phrases
    BY <1>0, <1>10, <2>1, <2>3, WizardStays DEF Wizard!Validated, StepSound
  <2> QED BY <2>2, <2>3
<1>11. ASSUME NEW m \in Phrases, Wizard!Generated(m) PROVE WizardInv'
  <2>1. wizardAsked' \in Seq(Questions) BY <1>0, <1>11, QuestionTaken DEF Wizard!Generated
  <2>2. step' = [name |-> "create-show", phrase |-> m] BY <1>11 DEF Wizard!Generated, Wizard!Screen
  <2>3. StepSound' BY <2>2 DEF StepSound
  <2>4. step' \in [name : Wizard!Screens, phrase : Wizard!Optional] BY <1>a, <1>b, <2>2
  <2> QED BY <1>0, <1>11, <2>1, <2>3, <2>4, WizardStays DEF Wizard!Generated
<1>12. ASSUME NEW m \in Phrases, Wizard!Verified(m) PROVE WizardInv'
  <2>1. /\ step' = [name |-> "create-password", phrase |-> m] /\ proven' = proven \cup {m}
        /\ UNCHANGED <<acknowledged, box, copied, wizardInput, invalid, wizardBusy, wizardAsked, creating, vault>>
    BY <1>12 DEF Wizard!Verified, Wizard!Screen
  <2>2. StepSound' BY <2>1 DEF StepSound
  <2>3. Wizard!VaultIsRestorable' BY <2>1 DEF WizardInv, Wizard!VaultIsRestorable
  <2>4. step' \in [name : Wizard!Screens, phrase : Wizard!Optional] BY <1>a, <1>b, <2>1
  <2>5. Wizard!TypeOK' BY <2>1, <2>4 DEF WizardInv, Wizard!TypeOK
  <2> QED BY <2>2, <2>3, <2>5 DEF WizardInv
<1>13. ASSUME NEW t \in Wizard!Texts, Wizard!Type(t) PROVE WizardInv'
  BY <1>0, <1>13, WizardStays DEF Wizard!Type, Wizard!Optional, StepSound
<1>14. ASSUME NEW p \in Passwords, NEW q \in Passwords, Wizard!SubmitPassword(p, q) PROVE WizardInv'
  <2>1. /\ creating' = step.phrase /\ step.phrase \in proven /\ UNCHANGED <<vault, proven, step>>
        /\ UNCHANGED <<acknowledged, box, copied, wizardInput, invalid, wizardBusy, wizardAsked>>
    BY <1>0, <1>14 DEF Wizard!SubmitPassword, StepSound
  <2> QED BY <2>1 DEF WizardInv, Wizard!TypeOK, StepSound, Wizard!VaultIsRestorable
<1>15. ASSUME NEW ok \in BOOLEAN, Wizard!Created(ok) PROVE WizardInv'
  BY <1>15 DEF Wizard!Created, WizardInv, Wizard!TypeOK, StepSound, Wizard!VaultIsRestorable
<1> QED BY <1>1, <1>2, <1>3, <1>4, <1>5, <1>6, <1>7, <1>8, <1>9, <1>10, <1>11, <1>12, <1>13, <1>14, <1>15 DEF Wizard!Next

-----------------------------------------------------------------------------
(* What the open wallet shows                                              *)

Counts == [View!Anywhere -> Nat]
Dialogs == [phase : {"closed", "form", "review", "sending", "sent"}, token : BOOLEAN, send : SendIds \cup {None}]
Sends == [pc : {"none", "sending", "sent", "failed"}, from : View!Anywhere, by : View!Views \cup {None}, token : BOOLEAN]
ListedNow == View!Listed(view, address)

\* What is shown is of the view, or a question about it is under way.
Questioned ==
  /\ ~unlocked => address = None /\ viewAsked = None
  /\ viewAsked \in {None, view} /\ (viewAsked = None => address \in {None, view})
  /\ listing \in {None, ListedNow} /\ (listing = None => tokens = ListedNow)
  /\ viewPriced \in {None, <<view, viewBalance>>}
  /\ usd # None /\ viewPriced = None => usd = <<view, viewBalance>>
ShownTypes ==
  /\ unlocked \in BOOLEAN /\ view \in View!Views
  /\ {address, viewAsked} \subseteq View!Views \cup {None}
  /\ {viewBalance, listing, tokens} \subseteq View!Anywhere \cup {None}
  /\ viewReads \in Counts
  /\ {viewPriced, usd} \subseteq (View!Views \X View!Anywhere) \cup {None}
ShownInv == ShownTypes /\ Questioned

SendInv ==
  /\ dialog \in Dialogs /\ sends \in [SendIds -> Sends] /\ log \subseteq [send : SendIds, view : View!Views]
  /\ \A s \in SendIds : sends[s].pc # "none" => sends[s].from \in View!Views /\ sends[s].by \in View!Views
  /\ View!ListedWhereSent

LEMMA ViewConstants ==
  /\ Family \in [Chains -> {"evm", "solana", "bitcoin", "ton", "tron"}]
  /\ None \notin View!Views /\ None \notin View!Views \X View!Anywhere
BY PagesAssumption DEF View!ViewAssumption, View!Anywhere

LEMMA TargetIs == \A v, a \in View!Views : View!Target(v, a) \in View!Anywhere
BY ViewConstants DEF View!Target, View!Views, View!Anywhere

LEMMA ListedIs ==
  ASSUME NEW v \in View!Views, NEW a \in View!Views \cup {None}
  PROVE  View!Listed(v, a) \in View!Anywhere \cup {None}
BY TargetIs DEF View!Listed

LEMMA ViewShows == ASSUME ShownInv, SendInv PROVE View!TypeOK /\ View!ShownIsOfView /\ View!FiatIsOfBalance /\ View!ListedWhereSent
<1>1. View!Views \subseteq View!Anywhere BY DEF View!Anywhere
<1>2. View!TypeOK BY <1>1 DEF ShownInv, ShownTypes, SendInv, View!TypeOK, Counts, Dialogs, Sends
<1>3. View!ShownIsOfView BY DEF ShownInv, Questioned, ListedNow, View!ShownIsOfView
<1>4. View!FiatIsOfBalance BY DEF ShownInv, Questioned, View!FiatIsOfBalance
<1> QED BY <1>2, <1>3, <1>4 DEF SendInv

LEMMA InitViewInv == View!Init => ShownInv /\ SendInv
<1> SUFFICES ASSUME View!Init PROVE ShownInv /\ SendInv OBVIOUS
<1>1. View!Listed(view, None) = None BY DEF View!Listed
<1>2. ShownInv BY <1>1 DEF View!Init, ShownInv, ShownTypes, Questioned, ListedNow, Counts, View!Anywhere
<1>3. View!NoSend \in Sends /\ View!NoSend.pc = "none" BY DEF View!NoSend, Sends, View!Anywhere
<1>4. View!Closed \in Dialogs BY DEF View!Closed, Dialogs
<1>5. SendInv BY <1>3, <1>4 DEF View!Init, SendInv, View!ListedWhereSent
<1> QED BY <1>2, <1>5

\* What React does after a change of the state keeps all of it about the view.
LEMMA EffectsKeep ==
  ASSUME ShownInv, NEW pending, NEW counts \in Counts,
         unlocked' \in BOOLEAN, view' \in View!Views, address' \in View!Views \cup {None},
         viewBalance' \in View!Anywhere \cup {None},
         \/ pending = viewAsked /\ address' = address /\ (unlocked' \/ ~unlocked)
         \/ pending = viewAsked /\ address' = None /\ ~unlocked' /\ view' = view
         \/ /\ pending = None /\ viewAsked # None /\ address' \in {viewAsked, None}
            /\ unlocked' = unlocked /\ view' = view,
         View!AddressEffect(pending), View!BalanceEffect(counts),
         View!PriceEffect(viewPriced, usd), View!TokensEffect(listing, tokens)
  PROVE  ShownInv'
<1> USE DEF ShownInv
<1>1. viewAsked' = IF ~unlocked' THEN None ELSE IF unlocked' = unlocked /\ view' = view THEN pending ELSE view'
  BY DEF View!AddressEffect
<1>2. viewAsked' \in {None, view'} /\ (viewAsked' = None => address' \in {None, view'})
  BY <1>1, ViewConstants DEF Questioned, ShownTypes
<1>3. ~unlocked' => address' = None /\ viewAsked' = None
  BY <1>1 DEF Questioned, ShownTypes
<1>4. viewReads' \in Counts
  <2>1. CASE viewReads' = counts BY <2>1
  <2>2. CASE address' # None /\ viewReads' = [counts EXCEPT ![View!Target(view', address')] = @ + 1]
    <3>1. View!Target(view', address') \in View!Anywhere BY <2>2, TargetIs
    <3> QED BY <2>2, <3>1 DEF Counts
  <2> QED BY <2>1, <2>2 DEF View!BalanceEffect
<1>5. /\ {viewPriced', usd'} \subseteq (View!Views \X View!Anywhere) \cup {None}
      /\ viewPriced' \in {None, <<view', viewBalance'>>}
      /\ usd' # None /\ viewPriced' = None => usd' = <<view', viewBalance'>>
  <2>1. CASE viewPriced' = None /\ usd' = None BY <2>1
  <2>2. CASE viewBalance' # None /\ usd' = usd /\ viewPriced' = <<view', viewBalance'>>
    <3>1. <<view', viewBalance'>> \in View!Views \X View!Anywhere BY <2>2
    <3> QED BY <2>2, <3>1, ViewConstants DEF ShownTypes
  <2>3. CASE usd' = usd /\ viewPriced' = viewPriced /\ view' = view /\ viewBalance' = viewBalance
    BY <2>3 DEF ShownTypes, Questioned
  <2> QED BY <2>1, <2>2, <2>3 DEF View!PriceEffect
<1>6. ListedNow' = View!Listed(view', address') /\ ListedNow' \in View!Anywhere \cup {None}
  BY ListedIs DEF ListedNow, View!Listed, View!Target, View!Nowhere
<1>7. /\ listing' \in {None, ListedNow'} /\ (listing' = None => tokens' = ListedNow')
      /\ {listing', tokens'} \subseteq View!Anywhere \cup {None}
  <2>1. CASE listing' = ListedNow' /\ tokens' = None BY <1>6, <2>1
  <2>2. CASE ListedNow' = ListedNow /\ listing' = listing /\ tokens' = tokens BY <2>2 DEF Questioned, ShownTypes
  <2> QED BY <1>6, <2>1, <2>2 DEF View!TokensEffect, ListedNow
<1>8. ShownTypes'
  <2>1. {address', viewAsked'} \subseteq View!Views \cup {None} BY <1>2
  <2>2. View!Views' = View!Views /\ View!Anywhere' = View!Anywhere BY DEF View!Views, View!Anywhere
  <2> QED BY <1>4, <1>5, <1>7, <2>1 DEF ShownTypes
<1>9. Questioned' BY <1>2, <1>3, <1>5, <1>7 DEF Questioned
<1> QED BY <1>8, <1>9

\* The dialog's steps, and those of sends but for the read they end with.
LEMMA SendsKeep == ASSUME ShownTypes, SendInv, [View!Next]_viewVars PROVE SendInv'
<1>0. dialog \in Dialogs BY DEF SendInv
<1>1. CASE UNCHANGED <<dialog, sends, log>> BY <1>1 DEF SendInv, View!ListedWhereSent
<1>2. ASSUME dialog' \in Dialogs, UNCHANGED <<sends, log>> PROVE SendInv'
  BY <1>2 DEF SendInv, View!ListedWhereSent
<1>a. \A k \in {"form", "review", "sending", "sent"} : [dialog EXCEPT !.phase = k] \in Dialogs
  BY <1>0 DEF Dialogs
<1>b. [dialog EXCEPT !.phase = "review", !.send = None] \in Dialogs /\ [dialog EXCEPT !.phase = "form", !.send = None] \in Dialogs
  BY <1>0 DEF Dialogs
<1>c. View!Closed \in Dialogs BY DEF View!Closed, Dialogs
<1>3. CASE View!Lock \/ View!ToReview \/ View!Back \/ View!CloseSend
  BY <1>a, <1>c, <1>2, <1>3 DEF View!Lock, View!ToReview, View!Back, View!CloseSend, View!Dialog
<1>4. ASSUME NEW ok \in BOOLEAN, View!OpenSend(ok) PROVE SendInv'
  BY <1>2, <1>4 DEF View!OpenSend, View!Dialog, Dialogs
<1>5. ASSUME NEW ok \in BOOLEAN, View!AddressArrives(ok) PROVE SendInv'
  BY <1>0, <1>b, <1>2, <1>5 DEF View!AddressArrives, View!Remounted
<1>6. ASSUME NEW s \in SendIds, View!Confirm(s) PROVE SendInv'
  <2> DEFINE new == [pc |-> "sending", from |-> view, by |-> address, token |-> dialog.token]
  <2>1. sends[s].pc = "none" /\ sends' = [sends EXCEPT ![s] = new] /\ log' = log /\ address # None
        /\ dialog' = [dialog EXCEPT !.phase = "sending", !.send = s]
    BY <1>6 DEF View!Confirm, View!Dialog, View!Covered
  <2>2. new \in Sends /\ new.from \in View!Views /\ new.by \in View!Views /\ new.pc = "sending"
    BY <1>0, <2>1 DEF ShownTypes, Sends, Dialogs, View!Anywhere
  <2>3. dialog' \in Dialogs BY <1>0, <2>1 DEF Dialogs
  <2> HIDE DEF new
  <2>4. \A t \in log : t.send # s BY <2>1 DEF SendInv, View!ListedWhereSent
  <2>5. View!ListedWhereSent' BY <2>1, <2>4 DEF SendInv, View!ListedWhereSent
  <2> QED BY <2>1, <2>2, <2>3, <2>5 DEF SendInv
<1>7. ASSUME NEW s \in SendIds, NEW k \in {"sent", "failed"}, sends[s].pc = "sending",
             sends' = [sends EXCEPT ![s].pc = k], dialog' \in Dialogs,
             \/ log' = log
             \/ k = "sent" /\ log' = log \cup {[send |-> s, view |-> sends[s].from]}
      PROVE  SendInv'
  <2> DEFINE new == [sends[s] EXCEPT !.pc = k]
  <2>1. sends' = [sends EXCEPT ![s] = new] /\ sends[s] \in Sends /\ sends[s].from \in View!Views /\ sends[s].by \in View!Views
    BY <1>7 DEF SendInv
  <2>2. new \in Sends /\ new.from = sends[s].from /\ new.by = sends[s].by /\ new.pc = k BY <2>1 DEF Sends
  <2> HIDE DEF new
  <2>3. \A t \in log : t.send # s BY <1>7 DEF SendInv, View!ListedWhereSent
  <2>4. View!ListedWhereSent' BY <1>7, <2>1, <2>2, <2>3 DEF SendInv, View!ListedWhereSent
  <2> QED BY <1>7, <2>1, <2>2, <2>4 DEF SendInv
<1>8. ASSUME NEW s \in SendIds, View!Sent(s) PROVE SendInv'
  <2>1. dialog' \in Dialogs BY <1>0, <1>a, <1>8 DEF View!Sent
  <2>2. /\ sends[s].pc = "sending" /\ sends' = [sends EXCEPT ![s].pc = "sent"]
        /\ \/ log' = log
           \/ log' = log \cup {[send |-> s, view |-> sends[s].from]}
    BY <1>8 DEF View!Sent
  <2> QED BY <1>7, <2>1, <2>2
<1>9. ASSUME NEW s \in SendIds, View!SendFails(s) PROVE SendInv'
  <2>1. dialog' \in Dialogs BY <1>0, <1>b, <1>9 DEF View!SendFails
  <2>2. sends[s].pc = "sending" /\ sends' = [sends EXCEPT ![s].pc = "failed"] /\ log' = log
    BY <1>9 DEF View!SendFails
  <2> QED BY <1>7, <2>1, <2>2
<1> QED BY <1>1, <1>3, <1>4, <1>5, <1>6, <1>8, <1>9
     DEF viewVars, View!Next, View!Unlock, View!Refresh, View!TokensArrive, View!SelectView, View!PriceArrives, View!BalanceArrives

\* A step that reads a balance, or tells what was asked.
LEMMA ReadKeeps ==
  ASSUME ShownInv, viewReads' \in Counts, UNCHANGED <<unlocked, view, address, viewAsked, viewBalance, listing, tokens, viewPriced, usd>>
  PROVE  ShownInv'
BY DEF ShownInv, ShownTypes, Questioned, ListedNow

LEMMA ShownKeeps == ASSUME ShownInv, SendInv, [View!Next]_viewVars PROVE ShownInv'
<1> USE DEF View!shown
<1>0. viewReads \in Counts /\ ShownTypes BY DEF ShownInv, ShownTypes
<1>1. CASE UNCHANGED <<unlocked, view, address, viewAsked, viewBalance, viewReads, listing, tokens, viewPriced, usd>>
  BY <1>0, <1>1, ReadKeeps
<1>2. CASE View!Unlock
  BY <1>0, <1>2, EffectsKeep DEF View!Unlock, ShownTypes
<1>3. CASE View!Lock
  BY <1>0, <1>3, EffectsKeep DEF View!Lock, ShownTypes
<1>4. ASSUME NEW v \in View!Views, View!SelectView(v) PROVE ShownInv'
  BY <1>0, <1>4, EffectsKeep DEF View!SelectView, ShownTypes
<1>5. ASSUME NEW ok \in BOOLEAN, View!AddressArrives(ok) PROVE ShownInv'
  BY <1>0, <1>5, EffectsKeep DEF View!AddressArrives, ShownTypes
<1>6. ASSUME NEW v \in View!Anywhere, NEW ok \in BOOLEAN, View!BalanceArrives(v, ok) PROVE ShownInv'
  <2> DEFINE counts == [viewReads EXCEPT ![v] = @ - 1]
  <2>1. counts \in Counts BY <1>0, <1>6 DEF View!BalanceArrives, Counts
  <2>2. View!BalanceEffect(counts) /\ UNCHANGED <<unlocked, view, address>> /\ viewBalance' \in View!Anywhere \cup {None}
        /\ View!AddressEffect(viewAsked) /\ View!PriceEffect(viewPriced, usd) /\ View!TokensEffect(listing, tokens)
    BY <1>6 DEF View!BalanceArrives
  <2> HIDE DEF counts
  <2> QED BY <1>0, <2>1, <2>2, EffectsKeep DEF ShownTypes
<1>7. ASSUME NEW v \in View!Views, NEW a \in View!Views, viewReads' = View!Read(v, a) PROVE viewReads' \in Counts
  BY <1>0, <1>7, TargetIs DEF View!Read, Counts
<1>8. CASE View!Refresh
  BY <1>0, <1>7, <1>8, ReadKeeps DEF View!Refresh, ShownTypes
<1>9. ASSUME NEW s \in SendIds, View!Sent(s) PROVE ShownInv'
  <2>1. sends[s].from \in View!Views /\ sends[s].by \in View!Views BY <1>9 DEF View!Sent, SendInv
  <2>2. viewReads' \in Counts BY <1>0, <1>7, <1>9, <2>1 DEF View!Sent
  <2> QED BY <1>9, <2>2, ReadKeeps DEF View!Sent
<1>10. ASSUME NEW known \in BOOLEAN, View!PriceArrives(known) PROVE ShownInv'
  BY <1>10 DEF View!PriceArrives, ShownInv, ShownTypes, Questioned, ListedNow
<1>11. CASE View!TokensArrive
  BY <1>11 DEF View!TokensArrive, ShownInv, ShownTypes, Questioned, ListedNow
<1> QED BY <1>1, <1>2, <1>3, <1>4, <1>5, <1>6, <1>8, <1>9, <1>10, <1>11
     DEF viewVars, View!Next, View!ToReview, View!Back, View!CloseSend, View!OpenSend, View!Confirm, View!SendFails, View!Dialog, View!Anywhere

-----------------------------------------------------------------------------
(* Natural numbers                                                         *)

\* A set that holds 0 and the successors of its members holds every number.
LEMMA SetInduction ==
  ASSUME NEW P, 0 \in P, \A n \in Nat : n \in P => n + 1 \in P
  PROVE  Nat \subseteq P
<1> SUFFICES ASSUME NEW x \in Nat, x \notin P PROVE FALSE OBVIOUS
<1> DEFINE T == {n \in Nat : n \notin P}
<1>1. T \subseteq Nat /\ T # {} OBVIOUS
<1> HIDE DEF T
<1>2. PICK m \in T : \A y \in T : ~(<<y, m>> \in OpToRel(<, Nat))
  BY <1>1, NatLessThanWellFounded, WFMin
<1>3. \A y \in T : ~(y < m) BY <1>1, <1>2 DEF OpToRel
<1>4. m \in Nat /\ m # 0 /\ m - 1 \in Nat /\ m - 1 < m BY <1>1 DEF T
<1>5. m - 1 \in P BY <1>3, <1>4 DEF T
<1>6. m \in P BY <1>4, <1>5
<1> QED BY <1>6 DEF T

\* A set of numbers up to a bound has a greatest one.
LEMMA GreatestOf ==
  ASSUME NEW d \in Nat, NEW S \in SUBSET (0..d), S # {}
  PROVE  \E k \in S : \A j \in S : j <= k
<1> DEFINE P == {n \in Nat : \A R \in SUBSET (0..n) : R # {} => \E k \in R : \A j \in R : j <= k}
<1>1. 0 \in P
  <2>1. SUFFICES ASSUME NEW R \in SUBSET (0..0), R # {} PROVE \E k \in R : \A j \in R : j <= k OBVIOUS
  <2>2. \A j \in R : j = 0 OBVIOUS
  <2>3. 0 \in R BY <2>1, <2>2
  <2> QED BY <2>2, <2>3
<1>2. ASSUME NEW n \in Nat, n \in P PROVE n + 1 \in P
  <2>1. SUFFICES ASSUME NEW R \in SUBSET (0..(n + 1)), R # {} PROVE \E k \in R : \A j \in R : j <= k
    OBVIOUS
  <2>2. CASE n + 1 \in R BY <2>2
  <2>3. CASE n + 1 \notin R
    <3>1. R \in SUBSET (0..n) BY <2>3
    <3> QED BY <1>2, <2>1, <3>1
  <2> QED BY <2>2, <2>3
<1> HIDE DEF P
<1>3. Nat \subseteq P BY <1>1, <1>2, SetInduction
<1> QED BY <1>3 DEF P

-----------------------------------------------------------------------------
(* Powers of ten                                                           *)

IsPowers(n, g) == /\ g \in [0..n -> Nat]
                  /\ \A k \in 0..n : g[k] = IF k = 0 THEN 1 ELSE 10 * g[k - 1]

LEMMA PowersExist == \A n \in Nat : \E g : IsPowers(n, g)
<1> DEFINE P == {n \in Nat : \E g : IsPowers(n, g)}
<1>1. 0 \in P
  <2> DEFINE g == [k \in 0..0 |-> 1]
  <2>1. IsPowers(0, g) BY DEF IsPowers
  <2> QED BY <2>1
<1>2. ASSUME NEW n \in Nat, n \in P PROVE n + 1 \in P
  <2>1. PICK g : IsPowers(n, g) BY <1>2
  <2> DEFINE h == [k \in 0..(n + 1) |-> IF k = n + 1 THEN 10 * g[n] ELSE g[k]]
  <2>2. g \in [0..n -> Nat] /\ \A k \in 0..n : g[k] = IF k = 0 THEN 1 ELSE 10 * g[k - 1] BY <2>1 DEF IsPowers
  <2>3. h \in [0..(n + 1) -> Nat]
    <3>1. g[n] \in Nat BY <2>2
    <3>2. 10 * g[n] \in Nat BY <3>1
    <3>3. \A k \in 0..(n + 1) : k # n + 1 => g[k] \in Nat BY <2>2
    <3> QED BY <3>2, <3>3
  <2>4. ASSUME NEW k \in 0..(n + 1) PROVE h[k] = IF k = 0 THEN 1 ELSE 10 * h[k - 1]
    <3>1. CASE k = n + 1
      <4>1. k - 1 = n /\ k # 0 /\ n \in 0..(n + 1) /\ n # n + 1 BY <3>1
      <4>2. h[n] = g[n] /\ h[n + 1] = 10 * g[n] BY <4>1
      <4> HIDE DEF h
      <4> QED BY <3>1, <4>1, <4>2
    <3>2. CASE k # n + 1
      <4>1. k \in 0..n /\ h[k] = g[k] BY <3>2
      <4>2. CASE k = 0 BY <2>2, <4>1, <4>2
      <4>3. CASE k # 0
        <5>1. k - 1 \in 0..n /\ k - 1 # n + 1 /\ k - 1 \in 0..(n + 1) BY <4>1, <4>3
        <5>2. h[k - 1] = g[k - 1] BY <5>1
        <5>3. g[k] = 10 * g[k - 1] BY <2>2, <4>1, <4>3
        <5> HIDE DEF h
        <5> QED BY <4>1, <4>3, <5>2, <5>3
      <4> QED BY <4>2, <4>3
    <3> QED BY <3>1, <3>2
  <2> HIDE DEF h
  <2>5. IsPowers(n + 1, h) BY <2>3, <2>4 DEF IsPowers
  <2> QED BY <2>5
<1> HIDE DEF P
<1>3. Nat \subseteq P BY <1>1, <1>2, SetInduction
<1> QED BY <1>3 DEF P

LEMMA PowersAgree ==
  ASSUME NEW m \in Nat, NEW n \in Nat, NEW g, NEW h, IsPowers(m, g), IsPowers(n, h)
  PROVE  \A k \in 0..m : k \in 0..n => g[k] = h[k]
<1> DEFINE P == {k \in Nat : k \in 0..m /\ k \in 0..n => g[k] = h[k]}
<1>1. 0 \in P BY DEF IsPowers
<1>2. ASSUME NEW k \in Nat, k \in P PROVE k + 1 \in P
  <2>1. SUFFICES ASSUME k + 1 \in 0..m, k + 1 \in 0..n PROVE g[k + 1] = h[k + 1] OBVIOUS
  <2>2. k \in 0..m /\ k \in 0..n /\ (k + 1) - 1 = k /\ k + 1 # 0 BY <2>1
  <2>3. g[k] = h[k] BY <1>2, <2>2
  <2>4. g[k + 1] = 10 * g[k] /\ h[k + 1] = 10 * h[k] BY <2>1, <2>2 DEF IsPowers
  <2> QED BY <2>3, <2>4
<1> HIDE DEF P
<1>3. Nat \subseteq P BY <1>1, <1>2, SetInduction
<1> QED BY <1>3 DEF P

\* The recursive definition of the powers of ten defines them.
LEMMA TenIs ==
  /\ Ten[0] = 1 /\ \A k \in Nat : Ten[k + 1] = 10 * Ten[k]
  /\ \A k \in Nat : Ten[k] \in Nat \ {0}
<1> DEFINE Upto(n) == CHOOSE g : IsPowers(n, g)
           T == [k \in Nat |-> Upto(k)[k]]
<1>1. \A n \in Nat : IsPowers(n, Upto(n)) BY PowersExist
<1> HIDE DEF Upto
<1>2. ASSUME NEW k \in Nat PROVE T[k] = IF k = 0 THEN 1 ELSE 10 * T[k - 1]
  <2>1. CASE k = 0 BY <1>1, <2>1 DEF IsPowers
  <2>2. CASE k # 0
    <3>1. k - 1 \in Nat /\ k - 1 \in 0..k /\ k - 1 \in 0..(k - 1) /\ k \in 0..k BY <2>2
    <3>2. Upto(k)[k] = 10 * Upto(k)[k - 1] BY <1>1, <2>2, <3>1 DEF IsPowers
    <3>3. Upto(k)[k - 1] = Upto(k - 1)[k - 1] BY <1>1, <3>1, PowersAgree
    <3>4. T[k] = Upto(k)[k] /\ T[k - 1] = Upto(k - 1)[k - 1] BY <3>1
    <3> HIDE DEF T
    <3> QED BY <2>2, <3>2, <3>3, <3>4
  <2> QED BY <2>1, <2>2
<1>3. T = [k \in Nat |-> IF k = 0 THEN 1 ELSE 10 * T[k - 1]]
  <2>1. [k \in Nat |-> T[k]] = [k \in Nat |-> IF k = 0 THEN 1 ELSE 10 * T[k - 1]]
    <3> HIDE DEF T
    <3> QED BY <1>2
  <2>2. T = [k \in Nat |-> T[k]] OBVIOUS
  <2> HIDE DEF T
  <2> QED BY <2>1, <2>2
<1> HIDE DEF T
<1>4. Ten = [k \in Nat |-> IF k = 0 THEN 1 ELSE 10 * Ten[k - 1]]
  <2>1. \E f : f = [k \in Nat |-> IF k = 0 THEN 1 ELSE 10 * f[k - 1]] BY <1>3
  <2> QED BY <2>1, Zenon DEF Ten
<1>5. \A k \in Nat : Ten[k] = IF k = 0 THEN 1 ELSE 10 * Ten[k - 1]
  <2> DEFINE R == Ten
  <2>1. R = [k \in Nat |-> IF k = 0 THEN 1 ELSE 10 * R[k - 1]] BY <1>4
  <2> HIDE DEF R
  <2>2. \A k \in Nat : R[k] = IF k = 0 THEN 1 ELSE 10 * R[k - 1] BY <2>1
  <2> QED BY <2>2 DEF R
<1>6. Ten[0] = 1 BY <1>5
<1>7. ASSUME NEW k \in Nat PROVE Ten[k + 1] = 10 * Ten[k]
  <2>1. k + 1 \in Nat /\ k + 1 # 0 /\ (k + 1) - 1 = k OBVIOUS
  <2> QED BY <1>5, <2>1
<1> DEFINE P == {k \in Nat : Ten[k] \in Nat \ {0}}
<1>8. 0 \in P BY <1>6
<1>9. ASSUME NEW k \in Nat, k \in P PROVE k + 1 \in P BY <1>7, <1>9
<1> HIDE DEF P
<1>10. Nat \subseteq P BY <1>8, <1>9, SetInduction
<1> QED BY <1>6, <1>7, <1>10 DEF P

LEMMA TenAdds == \A j, k \in Nat : Ten[j + k] = Ten[j] * Ten[k]
<1> SUFFICES ASSUME NEW j \in Nat PROVE \A k \in Nat : Ten[j + k] = Ten[j] * Ten[k] OBVIOUS
<1> DEFINE P == {k \in Nat : Ten[j + k] = Ten[j] * Ten[k]}
<1>1. 0 \in P
  <2>1. Ten[j] \in Nat /\ Ten[0] = 1 /\ j + 0 = j BY TenIs
  <2> QED BY <2>1
<1>2. ASSUME NEW k \in Nat, k \in P PROVE k + 1 \in P
  <2>1. /\ Ten[j + k] = Ten[j] * Ten[k] /\ Ten[(j + k) + 1] = 10 * Ten[j + k] /\ Ten[k + 1] = 10 * Ten[k]
        /\ Ten[j] \in Nat /\ Ten[k] \in Nat /\ j + (k + 1) = (j + k) + 1
    BY <1>2, TenIs
  <2> DEFINE a == Ten[j]  b == Ten[k]
  <2> HIDE DEF a, b
  <2>2. a \in Nat /\ b \in Nat BY <2>1 DEF a, b
  <2>3. 10 * (a * b) = a * (10 * b) BY <2>2
  <2>4. Ten[j + (k + 1)] = Ten[j] * Ten[k + 1] BY <2>1, <2>3 DEF a, b
  <2> QED BY <2>4
<1> HIDE DEF P
<1>3. Nat \subseteq P BY <1>1, <1>2, SetInduction
<1> QED BY <1>3 DEF P

-----------------------------------------------------------------------------
(* Decimal texts                                                           *)

\* A number that a power of ten divides is its quotient times that power.
LEMMA Divides ==
  ASSUME NEW n \in Nat, NEW p \in Nat \ {0}
  PROVE  /\ n \div p \in Nat /\ (n \div p) * p <= n /\ n - (n \div p) * p < p
         /\ n % p = 0 => (n \div p) * p = n
OBVIOUS

\* Rounding is off by at most a half.
LEMMA RoundIsNear ==
  ASSUME NEW x \in Nat, NEW y \in Nat \ {0}
  PROVE  /\ Round(x, y) \in Nat
         /\ 2 * (Round(x, y) * y - x) <= y /\ 2 * (x - Round(x, y) * y) <= y
<1> DEFINE q == Round(x, y)
<1>1. q = (2 * x + y) \div (2 * y) /\ 2 * x + y \in Nat /\ 2 * y \in Nat \ {0} BY DEF Round
<1>2. q \in Nat /\ q * (2 * y) <= 2 * x + y /\ (2 * x + y) - q * (2 * y) < 2 * y
  BY <1>1, Divides
<1> HIDE DEF q
<1>3. q * (2 * y) = 2 * (q * y) /\ q * y \in Nat BY <1>2
<1>4. 2 * (q * y - x) <= y /\ 2 * (x - q * y) <= y BY <1>2, <1>3
<1> QED BY <1>2, <1>4 DEF q

\* Strip drops trailing zeros and nothing else.
LEMMA StripIs ==
  ASSUME NEW n \in Nat, NEW d \in Nat
  PROVE  \E k \in 0..d : n % Ten[k] = 0 /\ Strip(n, d) = <<n \div Ten[k], d - k>>
<1> DEFINE S == {k \in 0..d : n % Ten[k] = 0}
           Last(k) == n % Ten[k] = 0 /\ \A j \in k + 1..d : n % Ten[j] # 0
<1>1. 0 \in S
  <2>1. Ten[0] = 1 BY TenIs
  <2>2. n % 1 = 0 OBVIOUS
  <2> QED BY <2>1, <2>2
<1>2. PICK k \in S : \A j \in S : j <= k BY <1>1, GreatestOf
<1>3. k \in 0..d /\ n % Ten[k] = 0 OBVIOUS
<1>4. ASSUME NEW j \in k + 1..d PROVE n % Ten[j] # 0
  <2>1. j \in 0..d /\ ~(j <= k) BY <1>3
  <2> QED BY <1>2, <2>1
<1>5. \E i \in 0..d : Last(i) BY <1>3, <1>4
<1> DEFINE c == CHOOSE i \in 0..d : Last(i)
<1>6. c \in 0..d /\ Last(c) BY <1>5
<1>7. Strip(n, d) = <<n \div Ten[c], d - c>> BY DEF Strip
<1> HIDE DEF c
<1> QED BY <1>6, <1>7

\* What was stripped is read back as it was, at any precision as fine.
LEMMA ParseStrip ==
  ASSUME NEW n \in Nat, NEW d \in Nat, NEW D \in Nat, d <= D
  PROVE  /\ Strip(n, d) \in Nat \X Nat /\ Strip(n, d) # Blank
         /\ Parse(Strip(n, d), D) = n * Ten[D - d]
<1>1. PICK k \in 0..d : n % Ten[k] = 0 /\ Strip(n, d) = <<n \div Ten[k], d - k>> BY StripIs
<1>2. k \in Nat /\ d - k \in Nat /\ D - d \in Nat /\ D - (d - k) = k + (D - d) /\ d - k <= D OBVIOUS
<1>3. Ten[k] \in Nat \ {0} /\ Ten[D - d] \in Nat /\ Ten[D - (d - k)] = Ten[k] * Ten[D - d] BY <1>2, TenIs, TenAdds
<1>4. n \div Ten[k] \in Nat /\ (n \div Ten[k]) * Ten[k] = n BY <1>1, <1>3, Divides
<1> DEFINE q == n \div Ten[k]
<1>5. Strip(n, d) = <<q, d - k>> BY <1>1
<1>6. Strip(n, d) \in Nat \X Nat BY <1>2, <1>4, <1>5
<1>7. Strip(n, d) # Blank BY <1>5 DEF Blank
<1>8. Parse(Strip(n, d), D) = q * Ten[D - (d - k)]
  <2>1. Strip(n, d)[1] = q /\ Strip(n, d)[2] = d - k BY <1>5
  <2>2. ~(Strip(n, d)[2] > D) BY <1>2, <2>1
  <2> QED BY <1>7, <2>1, <2>2 DEF Parse
<1>9. q * (Ten[k] * Ten[D - d]) = (q * Ten[k]) * Ten[D - d]
  <2> DEFINE a == Ten[k]  b == Ten[D - d]
  <2>1. q \in Nat /\ a \in Nat /\ b \in Nat BY <1>3, <1>4
  <2> HIDE DEF q, a, b
  <2>2. q * (a * b) = (q * a) * b BY <2>1
  <2> QED BY <2>2 DEF a, b
<1>10. q * Ten[k] = n BY <1>4
<1> HIDE DEF q
<1> QED BY <1>3, <1>6, <1>7, <1>8, <1>9, <1>10

-----------------------------------------------------------------------------
(* The send form                                                           *)

\* The families know their addresses apart.
LEMMA Apart ==
  ASSUME NEW a
  PROVE  /\ IsEvm(a) => ~IsBitcoin(a) /\ ~IsTron(a) /\ ~IsTon(a) /\ ~IsSolana(a)
         /\ IsBitcoin(a) => ~IsSpark(a) /\ ~IsTron(a) /\ ~IsTon(a) /\ ~IsSolana(a)
         /\ IsSpark(a) => ~IsEvm(a) /\ ~IsTron(a) /\ ~IsTon(a) /\ ~IsSolana(a)
         /\ IsTron(a) => ~IsTon(a) /\ ~IsSolana(a)
         /\ IsTon(a) => ~IsSolana(a)
BY DEF IsEvm, IsBitcoin, IsSegwit, IsLegacy, IsSpark, IsTron, IsTon, IsSolana

\* The family detected is the one that takes the address, when there is one.
LEMMA DetectIs ==
  ASSUME NEW a
  PROVE  /\ \A f \in Families : Valid(f, a) <=> Detect(a) = f
         /\ "none" \notin Families
<1>1. /\ Valid("evm", a) <=> IsEvm(a)
      /\ Valid("solana", a) <=> IsSolana(a)
      /\ Valid("bitcoin", a) <=> IsBitcoin(a)
      /\ Valid("ton", a) <=> IsTon(a)
      /\ Valid("tron", a) <=> IsTron(a)
  BY DEF Valid
<1>2. /\ Detect(a) = "evm" <=> IsEvm(a)
      /\ Detect(a) = "solana" <=> IsSolana(a)
      /\ Detect(a) = "bitcoin" <=> IsBitcoin(a)
      /\ Detect(a) = "ton" <=> IsTon(a)
      /\ Detect(a) = "tron" <=> IsTron(a)
  BY Apart DEF Detect
<1> QED BY <1>1, <1>2 DEF Families

\* Whatever the address and the chain, the signpost leads home.
LEMMA SignpostIs ==
  ASSUME NEW f \in Families, NEW a
  PROVE  IF Valid(f, a) \/ ~\E g \in Families : Valid(g, a) THEN Signpost(f, a) = "none"
         ELSE Signpost(f, a) # f /\ Valid(Signpost(f, a), a)
<1>1. CASE Valid(f, a) BY <1>1 DEF Signpost
<1>2. CASE ~Valid(f, a) /\ \A g \in Families : ~Valid(g, a)
  <2>1. Detect(a) \notin Families BY <1>2, DetectIs
  <2> QED BY <1>2, <2>1 DEF Signpost
<1>3. CASE ~Valid(f, a) /\ \E g \in Families : Valid(g, a)
  <2>1. PICK g \in Families : Valid(g, a) BY <1>3
  <2>2. Detect(a) = g /\ g # f BY <1>3, <2>1, DetectIs
  <2>3. Signpost(f, a) = g BY <1>3, <2>2 DEF Signpost
  <2> QED BY <1>3, <2>1, <2>2, <2>3
<1> QED BY <1>1, <1>2, <1>3

\* The form computes with the operators above.
LEMMA SameTyping ==
  /\ Typing!Ten = Ten /\ Typing!Blank = Blank /\ Typing!Families = Families
  /\ \A t, d : Typing!Parse(t, d) = Parse(t, d)
  /\ \A n, d : Typing!Strip(n, d) = Strip(n, d)
  /\ \A n, d : Typing!Format(n, d) = Format(n, d)
  /\ \A n, d : Typing!FormatWhole(n, d) = FormatWhole(n, d)
  /\ \A n, d : Typing!CryptoOf(n, d) = CryptoOf(n, d)
  /\ \A n, d : Typing!CentsOf(n, d) = CentsOf(n, d)
  /\ \A f, a : Typing!Valid(f, a) = Valid(f, a)
  /\ \A f, a : Typing!Signpost(f, a) = Signpost(f, a)
<1>1. Typing!Ten = Ten BY DEF Typing!Ten, Ten
<1>2. Typing!Blank = Blank BY DEF Typing!Blank, Blank
<1>3. Typing!Families = Families BY DEF Typing!Families, Families
<1>4. \A t, d : Typing!Parse(t, d) = Parse(t, d) BY <1>1, <1>2 DEF Typing!Parse, Parse, Typing!Refused, Refused
<1>5. \A n, d : Typing!Strip(n, d) = Strip(n, d) BY <1>1 DEF Typing!Strip, Strip
<1>6. \A n, d : Typing!Format(n, d) = Format(n, d) BY <1>1, <1>5 DEF Typing!Format, Format
<1>7. \A n, d : Typing!FormatWhole(n, d) = FormatWhole(n, d) BY <1>5 DEF Typing!FormatWhole, FormatWhole
<1>8. \A n, d : Typing!Round(n, d) = Round(n, d) BY DEF Typing!Round, Round
<1>9. \A n, d : Typing!CryptoOf(n, d) = CryptoOf(n, d) BY <1>1, <1>2, <1>5, <1>8 DEF Typing!CryptoOf, CryptoOf
<1>10. \A n, d : Typing!CentsOf(n, d) = CentsOf(n, d) BY <1>1, <1>8 DEF Typing!CentsOf, CentsOf
<1>11. \A f, a : Typing!Valid(f, a) = Valid(f, a)
  BY DEF Typing!Valid, Valid, Typing!IsEvm, IsEvm, Typing!IsSolana, IsSolana, Typing!IsBitcoin, IsBitcoin, Typing!IsSegwit, IsSegwit,
         Typing!IsLegacy, IsLegacy, Typing!IsTon, IsTon, Typing!IsTron, IsTron
<1>12. \A a : Typing!Detect(a) = Detect(a)
  BY DEF Typing!Detect, Detect, Typing!IsEvm, IsEvm, Typing!IsSolana, IsSolana, Typing!IsBitcoin, IsBitcoin, Typing!IsSegwit, IsSegwit,
         Typing!IsLegacy, IsLegacy, Typing!IsTon, IsTon, Typing!IsTron, IsTron, Typing!IsSpark, IsSpark
<1>13. \A f, a : Typing!Signpost(f, a) = Signpost(f, a)
  BY <1>3, <1>11, <1>12 DEF Typing!Signpost, Signpost
<1> QED BY <1>1, <1>2, <1>3, <1>4, <1>5, <1>6, <1>7, <1>9, <1>10, <1>11, <1>13

\* Dollars taken from an amount are worth it.
LEMMA CentsAgree ==
  ASSUME NEW t \in Nat \X Nat, Price \in Nat \ {0}
  PROVE  CentsOf(t, Price) \in Nat /\ Typing!Agree(t, CentsOf(t, Price))
<1> DEFINE e == Ten[t[2]]  T == Ten[TrimPlaces]  x == t[1] * Price  c == CentsOf(t, Price)
<1>1. e \in Nat \ {0} /\ T \in Nat \ {0} /\ x \in Nat
  <2>1. t[1] \in Nat /\ t[2] \in Nat /\ TrimPlaces \in Nat BY PlacesAssumption
  <2>2. t[1] * Price \in Nat BY <2>1
  <2> QED BY <2>1, <2>2, TenIs
<1>2. c = Round(x, e) BY DEF CentsOf
<1> HIDE DEF e, T, x, c
<1>3. c \in Nat /\ 2 * (c * e - x) <= e /\ 2 * (x - c * e) <= e BY <1>1, <1>2, RoundIsNear
<1> DEFINE d == x - c * e  a == IF d < 0 THEN -d ELSE d  m == IF Price > T THEN Price ELSE T
<1>4. c * e \in Nat BY <1>1, <1>3
<1>5. a \in Nat /\ 2 * a <= e BY <1>1, <1>3, <1>4
<1>6. m \in Nat /\ T <= m BY <1>1
<1> HIDE DEF d, a, m
<1>7. (2 * a) * T <= e * T BY <1>1, <1>5
<1>8. e * T <= e * m BY <1>1, <1>6
<1>9. 2 * a * T <= e * m
  <2>1. (2 * a) * T \in Nat /\ e * T \in Nat /\ e * m \in Nat BY <1>1, <1>5, <1>6
  <2> QED BY <1>7, <1>8, <2>1
<1>10. Typing!Agree(t, c) <=> 2 * a * T <= e * m
  BY SameTyping DEF Typing!Agree, Typing!Abs, a, d, e, m, x, T
<1> QED BY <1>3, <1>9, <1>10 DEF c

\* An amount taken from dollars is worth them.
LEMMA CryptoAgrees ==
  ASSUME NEW c \in Nat, c # 0, Price \in Nat \ {0}
  PROVE  /\ CryptoOf(c, Price) \in Nat \X Nat /\ CryptoOf(c, Price) # Blank
         /\ Typing!Agree(CryptoOf(c, Price), c)
<1> DEFINE T == Ten[TrimPlaces]  n == Round(c * T, Price)  t == CryptoOf(c, Price)
<1>1. TrimPlaces \in Nat /\ T \in Nat \ {0} /\ c * T \in Nat
  <2>1. TrimPlaces \in Nat BY PlacesAssumption
  <2>2. T \in Nat \ {0} BY <2>1, TenIs
  <2> HIDE DEF T
  <2> QED BY <2>1, <2>2
<1>2. n \in Nat /\ 2 * (n * Price - c * T) <= Price /\ 2 * (c * T - n * Price) <= Price
  <2> DEFINE y == c * T
  <2> HIDE DEF y, T
  <2>1. y \in Nat BY <1>1 DEF y
  <2>2. /\ Round(y, Price) \in Nat /\ 2 * (Round(y, Price) * Price - y) <= Price
        /\ 2 * (y - Round(y, Price) * Price) <= Price
    BY <2>1, RoundIsNear
  <2> QED BY <2>2 DEF y
<1>3. t = Strip(n, TrimPlaces) BY DEF CryptoOf
<1> HIDE DEF T, n, t
<1>4. t \in Nat \X Nat /\ t # Blank BY <1>1, <1>2, <1>3, ParseStrip
<1>5. PICK k \in 0..TrimPlaces : n % Ten[k] = 0 /\ t = <<n \div Ten[k], TrimPlaces - k>>
  BY <1>1, <1>2, <1>3, StripIs
<1> DEFINE e == Ten[TrimPlaces - k]  f == Ten[k]  q == n \div f
<1>6. k \in Nat /\ TrimPlaces - k \in Nat /\ k + (TrimPlaces - k) = TrimPlaces BY <1>1
<1>7. e \in Nat \ {0} /\ f \in Nat \ {0} /\ T = f * e BY <1>6, TenIs, TenAdds DEF T
<1>8. q \in Nat /\ q * f = n BY <1>2, <1>5, <1>7, Divides
<1>9. t[1] = q /\ Ten[t[2]] = e BY <1>5
<1> HIDE DEF e, f, q
<1> DEFINE d == q * Price - c * e  a == IF d < 0 THEN -d ELSE d  m == IF Price > T THEN Price ELSE T
<1>10. d \in Int /\ a \in Nat
  <2>1. q * Price \in Nat /\ c * e \in Nat BY <1>7, <1>8
  <2> QED BY <2>1
<1>11. f * d = n * Price - c * T
  <2>1. f * (q * Price - c * e) = (q * f) * Price - c * (f * e) BY <1>7, <1>8
  <2> QED BY <1>7, <1>8, <2>1
<1>12. 2 * (f * d) <= Price /\ -(2 * (f * d)) <= Price
  <2>1. n * Price \in Nat BY <1>2
  <2>2. -(2 * (n * Price - c * T)) = 2 * (c * T - n * Price) BY <1>1, <2>1
  <2> HIDE DEF d
  <2> QED BY <1>2, <1>11, <2>2
<1>13. 2 * (f * a) <= Price
  <2>1. CASE d < 0
    <3>1. a = -d BY <2>1
    <3> HIDE DEF a, d
    <3>2. 2 * (f * (-d)) = -(2 * (f * d)) BY <1>7, <1>10
    <3> QED BY <1>12, <3>1, <3>2
  <2>2. CASE ~(d < 0)
    <3>1. a = d BY <2>2
    <3> HIDE DEF a, d
    <3> QED BY <1>12, <3>1
  <2> QED BY <2>1, <2>2
<1>14. m \in Nat /\ Price <= m BY <1>1
<1> HIDE DEF a, d, m
<1>15. 2 * a * T = (2 * (f * a)) * e BY <1>7, <1>10
<1>16. (2 * (f * a)) * e <= Price * e
  <2>1. 2 * (f * a) \in Nat BY <1>7, <1>10
  <2> DEFINE z == 2 * (f * a)
  <2> HIDE DEF z
  <2>2. z \in Nat /\ z <= Price BY <1>13, <2>1 DEF z
  <2>3. z * e <= Price * e BY <1>7, <2>2
  <2> QED BY <2>3 DEF z
<1>17. Price * e <= e * m BY <1>7, <1>14
<1>18. 2 * a * T <= e * m
  <2>1. (2 * (f * a)) * e \in Nat /\ Price * e \in Nat /\ e * m \in Nat BY <1>7, <1>10, <1>14
  <2> QED BY <1>15, <1>16, <1>17, <2>1
<1>19. Typing!Agree(t, c) <=> 2 * a * T <= e * m
  BY <1>9, SameTyping DEF Typing!Agree, Typing!Abs, a, d, m, T
<1> QED BY <1>4, <1>18, <1>19 DEF t

\* What Max fills in is at most what is spendable, and short of it by less
\* than one unit of the last decimal shown.
LEMMA MaxIs ==
  ASSUME NEW b \in Nat, NEW D \in Nat
  PROVE  /\ Format(b, D) \in Nat \X Nat /\ Format(b, D) # Blank
         /\ D >= FormatPlaces => /\ Parse(Format(b, D), D) \in 0..b
                                 /\ b - Parse(Format(b, D), D) < Ten[D - FormatPlaces]
<1>1. FormatPlaces \in Nat BY PlacesAssumption
<1>2. CASE D <= FormatPlaces
  <2>1. Format(b, D) = Strip(b, D) BY <1>2 DEF Format
  <2>2. Format(b, D) \in Nat \X Nat /\ Format(b, D) # Blank /\ Parse(Format(b, D), D) = b * Ten[D - D]
    <3>1. D <= D OBVIOUS
    <3>2. Strip(b, D) \in Nat \X Nat /\ Strip(b, D) # Blank /\ Parse(Strip(b, D), D) = b * Ten[D - D]
      BY <3>1, ParseStrip
    <3> QED BY <2>1, <3>2
  <2>3. D - D = 0 /\ Ten[0] = 1 BY TenIs
  <2>4. Parse(Format(b, D), D) = b BY <2>2, <2>3
  <2>5. D >= FormatPlaces => D - FormatPlaces = 0 BY <1>1, <1>2
  <2> QED BY <2>2, <2>3, <2>4, <2>5
<1>3. CASE ~(D <= FormatPlaces)
  <2> DEFINE p == Ten[D - FormatPlaces]  q == b \div p
  <2>1. D - FormatPlaces \in Nat /\ FormatPlaces <= D BY <1>1, <1>3
  <2>2. p \in Nat \ {0} BY <2>1, TenIs
  <2>3. Format(b, D) = Strip(q, FormatPlaces) BY <1>3 DEF Format
  <2> HIDE DEF p
  <2>4. q \in Nat /\ q * p <= b /\ b - q * p < p /\ q * p \in Nat
    <3>1. q \in Nat /\ q * p <= b /\ b - q * p < p BY <2>2, Divides
    <3> HIDE DEF q
    <3> QED BY <2>2, <3>1
  <2> HIDE DEF q
  <2>5. /\ Format(b, D) \in Nat \X Nat /\ Format(b, D) # Blank
        /\ Parse(Format(b, D), D) = q * Ten[D - FormatPlaces]
    BY <1>1, <2>1, <2>3, <2>4, ParseStrip
  <2>6. Parse(Format(b, D), D) = q * p BY <2>5 DEF p
  <2> QED BY <2>4, <2>5, <2>6 DEF p
<1> QED BY <1>2, <1>3

-----------------------------------------------------------------------------
(* A form whose amounts are typed                                          *)

\* The amount is a decimal text, the spendable balance is known, and the
\* dollars on show agree with the amount.
TypingInv == /\ Typing!TypeOK
             /\ amount = Blank \/ amount \in Nat \X Nat
             /\ dollars \in Nat \cup {None} /\ spendable \in Balances
             /\ Typing!DollarsAgree

\* The parameters of the form.
LEMMA TypingConstants ==
  /\ Decimals \in Nat /\ Price \in Nat \ {0} /\ Balances \subseteq Nat
  /\ None \notin Nat /\ None \notin PlainRequests
BY PagesAssumption DEF Typing!SendAssumption

\* The review opens on a recipient and an amount that the form let through,
\* and nothing but the form changes them.
LEMMA TypingTypesKeep ==
  ASSUME Typing!TypeOK, Typing!Next \/ UNCHANGED formVars
  PROVE  Typing!TypeOK'
<1> USE DEF Typing!Typing, Typing!box, Typing!answers
<1>1. CASE Typing!GetPrice BY <1>1 DEF Typing!TypeOK, Typing!GetPrice
<1>2. CASE Typing!Flip BY <1>2 DEF Typing!TypeOK, Typing!Flip
<1>3. CASE Typing!ApplyMax BY <1>3 DEF Typing!TypeOK, Typing!ApplyMax
<1>4. CASE Typing!ToReview BY <1>4 DEF Typing!TypeOK, Typing!ToReview, Typing!Fits
<1>5. CASE Typing!Back BY <1>5 DEF Typing!TypeOK, Typing!Back
<1>6. CASE Typing!Confirm BY <1>6 DEF Typing!TypeOK, Typing!Confirm
<1>7. CASE \E b \in Balances : Typing!GetBalance(b) BY <1>7 DEF Typing!TypeOK, Typing!GetBalance
<1>8. CASE \E a \in TypedAddresses : Typing!TypeAddress(a) BY <1>8 DEF Typing!TypeOK, Typing!TypeAddress
<1>9. CASE \E u \in PlainRequests : Typing!Paste(u)
  <2>1. PICK u \in PlainRequests : Typing!Paste(u) BY <1>9
  <2>2. UNCHANGED <<mode, formPriced, phase, signed>> /\ phase = "form" BY <2>1 DEF Typing!Paste
  <2>3. request' \in PlainRequests \cup {None} BY <2>1 DEF Typing!Paste
  <2>4. filled' \in BOOLEAN
    <3>1. CASE Typing!Fills(u)
      <4>1. filled' = (filled \/ (mode = "fiat" /\ Typing!AmountIn(u) # None)) BY <2>1, <3>1 DEF Typing!Paste
      <4> QED BY <4>1
    <3>2. CASE ~Typing!Fills(u)
      <4>1. UNCHANGED filled /\ filled \in BOOLEAN BY <2>1, <3>2 DEF Typing!Paste, Typing!TypeOK
      <4> QED BY <4>1
    <3> QED BY <3>1, <3>2
  <2> QED BY <2>2, <2>3, <2>4 DEF Typing!TypeOK
<1>10. CASE \E t \in TypedAmounts : Typing!TypeCrypto(t) BY <1>10 DEF Typing!TypeOK, Typing!TypeCrypto
<1>11. CASE \E c \in Dollars \cup {None} : Typing!TypeDollars(c)
  <2>1. /\ UNCHANGED <<mode, formPriced, phase, signed>> /\ phase = "form" /\ request' = None /\ filled' = FALSE
    BY <1>11 DEF Typing!TypeDollars
  <2> QED BY <2>1 DEF Typing!TypeOK
<1>12. CASE UNCHANGED formVars BY <1>12 DEF Typing!TypeOK, formVars
<1> QED BY <1>1, <1>2, <1>3, <1>4, <1>5, <1>6, <1>7, <1>8, <1>9, <1>10, <1>11, <1>12 DEF Typing!Next

\* The signpost of the form leads home.
LEMMA TypingLeads == Typing!SignpostLeadsHome
<1>1. "evm" \in Families BY DEF Families
<1>2. IF Valid("evm", to) \/ ~\E g \in Families : Valid(g, to) THEN Signpost("evm", to) = "none"
      ELSE Signpost("evm", to) # "evm" /\ Valid(Signpost("evm", to), to)
  BY <1>1, SignpostIs
<1> QED BY <1>2, SameTyping DEF Typing!SignpostLeadsHome

LEMMA TypingInputs ==
  /\ \A t \in TypedAmounts : t = Blank \/ t \in Nat \X Nat
  /\ Dollars \subseteq Nat
<1>1. Blank = Typing!Blank BY SameTyping
<1> QED BY <1>1, PagesAssumption DEF Typing!SendAssumption

\* What a request asks for is a number of base units.
LEMMA TypingAmounts ==
  ASSUME NEW u \in PlainRequests, Typing!Fills(u), Typing!AmountIn(u) # None
  PROVE  Typing!AmountIn(u) \in Nat
<1>1. u.scheme # "bitcoin" BY DEF Typing!Fills
<1>2. u.value = None \/ u.value \in Nat BY <1>1, PagesAssumption DEF Typing!SendAssumption
<1>3. Typing!AmountIn(u) = u.value BY <1>1 DEF Typing!AmountIn
<1> QED BY <1>2, <1>3

LEMMA InitTypingInv == ASSUME Typing!Init PROVE TypingInv
<1>1. /\ to = None /\ amount = Blank /\ mode = "crypto" /\ dollars = None /\ formPriced = FALSE
      /\ spendable \in Balances /\ request = None /\ filled = FALSE /\ phase = "form" /\ signed = {}
  BY SameTyping DEF Typing!Init
<1>2. Typing!TypeOK BY <1>1 DEF Typing!TypeOK
<1>3. Typing!DollarsAgree BY <1>1 DEF Typing!DollarsAgree
<1> QED BY <1>1, <1>2, <1>3 DEF TypingInv

\* What agrees, in the next state.
LEMMA NextAgrees ==
  ASSUME IF dollars' = None \/ amount' = Blank THEN dollars' \in {None, 0} /\ amount' = Blank
         ELSE Typing!Agree(amount', dollars')
  PROVE  Typing!DollarsAgree'
BY SameTyping DEF Typing!DollarsAgree, Typing!Agree, Typing!Abs

\* Every operation of the form leaves amount and dollars well formed, and in
\* dollars in agreement.
LEMMA TypingKeeps ==
  ASSUME TypingInv, [Typing!Next]_formVars
  PROVE  TypingInv'
<1> DEFINE Shape == /\ amount = Blank \/ amount \in Nat \X Nat
                    /\ dollars \in Nat \cup {None} /\ spendable \in Balances
<1>1. Typing!TypeOK /\ Shape /\ Typing!DollarsAgree BY DEF TypingInv
<1>2. Typing!TypeOK' BY <1>1, TypingTypesKeep
<1>3. SUFFICES Shape' /\ Typing!DollarsAgree' BY <1>2 DEF TypingInv
<1>4. ASSUME UNCHANGED <<amount, dollars, mode, phase, filled>>, spendable' \in Balances
      PROVE  Shape' /\ Typing!DollarsAgree'
  BY <1>1, <1>4 DEF Typing!DollarsAgree, Typing!Agree, Typing!Abs
<1>5. ASSUME Shape', mode' # "fiat" \/ phase' # "form" PROVE Typing!DollarsAgree'
  BY <1>5 DEF Typing!DollarsAgree
<1> USE DEF Typing!Typing, Typing!box, Typing!answers
<1>6. CASE Typing!GetPrice
  <2>1. UNCHANGED <<amount, dollars, mode, phase, filled, spendable>> BY <1>6 DEF Typing!GetPrice
  <2> QED BY <1>1, <1>4, <2>1
<1>7. CASE Typing!Flip
  <2>1. UNCHANGED <<amount, spendable>> BY <1>7 DEF Typing!Flip
  <2>2. CASE mode = "fiat"
    <3>1. mode' = "crypto" /\ UNCHANGED dollars BY <1>7, <2>2 DEF Typing!Flip
    <3>2. Shape' BY <1>1, <2>1, <3>1
    <3> QED BY <1>5, <3>1, <3>2
  <2>3. CASE mode # "fiat"
    <3>1. dollars' = IF amount = Blank THEN None ELSE CentsOf(amount, Price)
      BY <1>7, <2>3, SameTyping DEF Typing!Flip
    <3>2. CASE amount = Blank
      <4>1. dollars' = None /\ amount' = Blank BY <2>1, <3>1, <3>2
      <4> QED BY <1>1, <2>1, <4>1, NextAgrees
    <3>3. CASE amount # Blank
      <4>1. amount' \in Nat \X Nat /\ dollars' = CentsOf(amount', Price) BY <1>1, <2>1, <3>1, <3>3
      <4>2. dollars' \in Nat /\ Typing!Agree(amount', dollars') BY <4>1, TypingConstants, CentsAgree
      <4>3. dollars' # None /\ amount' # Blank BY <2>1, <3>3, <4>2, TypingConstants
      <4> QED BY <1>1, <2>1, <4>1, <4>2, <4>3, NextAgrees
    <3> QED BY <3>2, <3>3
  <2> QED BY <2>2, <2>3
<1>8. CASE Typing!ApplyMax
  <2>1. /\ amount' = Format(spendable, Decimals) /\ UNCHANGED <<mode, phase, spendable>>
        /\ dollars' = IF mode = "fiat" THEN CentsOf(Format(spendable, Decimals), Price) ELSE dollars
    BY <1>8, SameTyping DEF Typing!ApplyMax, Typing!MaxText
  <2>2. amount' \in Nat \X Nat /\ amount' # Blank BY <1>1, <2>1, TypingConstants, MaxIs
  <2>3. CASE mode = "fiat"
    <3>1. dollars' = CentsOf(amount', Price) BY <2>1, <2>3
    <3>2. dollars' \in Nat /\ Typing!Agree(amount', dollars') BY <2>2, <3>1, TypingConstants, CentsAgree
    <3>3. dollars' # None BY <3>2, TypingConstants
    <3> QED BY <1>1, <2>1, <2>2, <3>2, <3>3, NextAgrees
  <2>4. CASE mode # "fiat"
    <3>1. Shape' /\ mode' # "fiat" BY <1>1, <2>1, <2>2, <2>4
    <3> QED BY <1>5, <3>1
  <2> QED BY <2>3, <2>4
<1>9. CASE Typing!ToReview
  <2>1. UNCHANGED <<amount, dollars, spendable>> /\ phase' = "review" BY <1>9 DEF Typing!ToReview
  <2> QED BY <1>1, <1>5, <2>1
<1>10. CASE Typing!Back
  <2>1. UNCHANGED <<amount, spendable>> /\ dollars' = None /\ mode' = "crypto" BY <1>10 DEF Typing!Back
  <2>2. Shape' BY <1>1, <2>1
  <2> QED BY <1>5, <2>1, <2>2
<1>11. CASE Typing!Confirm
  <2>1. UNCHANGED <<amount, dollars, spendable>> /\ phase' # "form" BY <1>11 DEF Typing!Confirm
  <2> QED BY <1>1, <1>5, <2>1
<1>12. CASE \E b \in Balances : Typing!GetBalance(b)
  <2>1. UNCHANGED <<amount, dollars, mode, phase, filled>> /\ spendable' \in Balances BY <1>12 DEF Typing!GetBalance
  <2> QED BY <1>4, <2>1
<1>13. CASE \E a \in TypedAddresses : Typing!TypeAddress(a)
  <2>1. UNCHANGED <<amount, dollars, mode, phase, filled, spendable>> BY <1>13 DEF Typing!TypeAddress
  <2> QED BY <1>1, <1>4, <2>1
<1>14. CASE \E u \in PlainRequests : Typing!Paste(u)
  <2>1. PICK u \in PlainRequests : Typing!Paste(u) BY <1>14
  <2>2. UNCHANGED <<dollars, mode, phase, spendable>> BY <2>1 DEF Typing!Paste
  <2>3. CASE ~Typing!Fills(u) \/ Typing!AmountIn(u) = None
    <3>1. filled \in BOOLEAN BY <1>1 DEF Typing!TypeOK
    <3>2. UNCHANGED amount /\ (filled' = filled \/ filled' = (filled \/ FALSE)) BY <2>1, <2>3 DEF Typing!Paste
    <3>3. UNCHANGED filled BY <3>1, <3>2
    <3> QED BY <1>1, <1>4, <2>2, <3>2, <3>3
  <2>4. CASE Typing!Fills(u) /\ Typing!AmountIn(u) # None
    <3>1. amount' = Strip(Typing!AmountIn(u), Decimals) BY <2>1, <2>4, SameTyping DEF Typing!Paste, FormatWhole
    <3>2. mode = "fiat" => filled' BY <2>1, <2>4 DEF Typing!Paste
    <3>3. amount' \in Nat \X Nat
      <4> DEFINE v == Typing!AmountIn(u)
      <4>1. v \in Nat /\ amount' = Strip(v, Decimals) BY <2>4, <3>1, TypingAmounts
      <4> HIDE DEF v
      <4>2. Decimals <= Decimals BY TypingConstants
      <4> QED BY <4>1, <4>2, TypingConstants, ParseStrip
    <3>4. Shape' BY <1>1, <2>2, <3>3
    <3>5. Typing!DollarsAgree' BY <2>2, <3>2 DEF Typing!DollarsAgree
    <3> QED BY <3>4, <3>5
  <2> QED BY <2>3, <2>4
<1>15. CASE \E t \in TypedAmounts : Typing!TypeCrypto(t)
  <2>1. PICK t \in TypedAmounts : Typing!TypeCrypto(t) BY <1>15
  <2>2. amount' = t /\ mode' = "crypto" /\ UNCHANGED <<dollars, spendable>> BY <2>1 DEF Typing!TypeCrypto
  <2>3. Shape' BY <1>1, <2>2, TypingInputs
  <2> QED BY <1>5, <2>2, <2>3
<1>16. CASE \E c \in Dollars \cup {None} : Typing!TypeDollars(c)
  <2>1. PICK c \in Dollars \cup {None} : Typing!TypeDollars(c) BY <1>16
  <2>2. /\ dollars' = c /\ UNCHANGED spendable
        /\ amount' = IF c = None THEN Blank ELSE CryptoOf(c, Price)
    BY <2>1, SameTyping DEF Typing!TypeDollars
  <2>3. c \in Nat \cup {None} BY TypingInputs
  <2>4. CASE c = None
    <3>1. dollars' = None /\ amount' = Blank BY <2>2, <2>4
    <3> QED BY <1>1, <2>2, <3>1, NextAgrees
  <2>5. CASE c # None /\ c = 0
    <3>1. dollars' = 0 /\ amount' = Blank BY <2>2, <2>5 DEF CryptoOf
    <3> QED BY <1>1, <2>2, <3>1, NextAgrees
  <2>6. CASE c # None /\ c # 0
    <3>1. dollars' = c /\ amount' = CryptoOf(c, Price) /\ c \in Nat BY <2>2, <2>3, <2>6
    <3>2. amount' \in Nat \X Nat /\ amount' # Blank /\ Typing!Agree(amount', dollars')
      BY <2>6, <3>1, TypingConstants, CryptoAgrees
    <3> QED BY <1>1, <2>2, <2>6, <3>1, <3>2, NextAgrees
  <2> QED BY <2>4, <2>5, <2>6
<1>17. CASE UNCHANGED formVars
  <2>1. UNCHANGED <<amount, dollars, mode, phase, filled, spendable>> BY <1>17 DEF formVars
  <2> QED BY <1>1, <1>4, <2>1
<1> QED BY <1>6, <1>7, <1>8, <1>9, <1>10, <1>11, <1>12, <1>13, <1>14, <1>15, <1>16, <1>17 DEF Typing!Next

LEMMA TypingShows ==
  ASSUME TypingInv PROVE Typing!TypeOK /\ Typing!MaxFits /\ Typing!DollarsAgree /\ Typing!SignpostLeadsHome
<1>1. spendable \in Nat BY TypingConstants DEF TypingInv
<1>2. Decimals >= FormatPlaces => /\ Parse(Format(spendable, Decimals), Decimals) \in 0..spendable
                                  /\ spendable - Parse(Format(spendable, Decimals), Decimals) < Ten[Decimals - FormatPlaces]
  BY <1>1, TypingConstants, MaxIs
<1>3. Typing!MaxFits BY <1>2, SameTyping DEF Typing!MaxFits, Typing!MaxText
<1> QED BY <1>3, TypingLeads DEF TypingInv

\* The form computes with the operators above.
LEMMA SameAsking ==
  /\ Asking!Ten = Ten /\ Asking!Blank = Blank /\ Asking!Families = Families
  /\ \A t, d : Asking!Parse(t, d) = Parse(t, d)
  /\ \A n, d : Asking!Strip(n, d) = Strip(n, d)
  /\ \A n, d : Asking!Format(n, d) = Format(n, d)
  /\ \A n, d : Asking!FormatWhole(n, d) = FormatWhole(n, d)
  /\ \A n, d : Asking!CryptoOf(n, d) = CryptoOf(n, d)
  /\ \A n, d : Asking!CentsOf(n, d) = CentsOf(n, d)
  /\ \A f, a : Asking!Valid(f, a) = Valid(f, a)
  /\ \A f, a : Asking!Signpost(f, a) = Signpost(f, a)
<1>1. Asking!Ten = Ten BY DEF Asking!Ten, Ten
<1>2. Asking!Blank = Blank BY DEF Asking!Blank, Blank
<1>3. Asking!Families = Families BY DEF Asking!Families, Families
<1>4. \A t, d : Asking!Parse(t, d) = Parse(t, d) BY <1>1, <1>2 DEF Asking!Parse, Parse, Asking!Refused, Refused
<1>5. \A n, d : Asking!Strip(n, d) = Strip(n, d) BY <1>1 DEF Asking!Strip, Strip
<1>6. \A n, d : Asking!Format(n, d) = Format(n, d) BY <1>1, <1>5 DEF Asking!Format, Format
<1>7. \A n, d : Asking!FormatWhole(n, d) = FormatWhole(n, d) BY <1>5 DEF Asking!FormatWhole, FormatWhole
<1>8. \A n, d : Asking!Round(n, d) = Round(n, d) BY DEF Asking!Round, Round
<1>9. \A n, d : Asking!CryptoOf(n, d) = CryptoOf(n, d) BY <1>1, <1>2, <1>5, <1>8 DEF Asking!CryptoOf, CryptoOf
<1>10. \A n, d : Asking!CentsOf(n, d) = CentsOf(n, d) BY <1>1, <1>8 DEF Asking!CentsOf, CentsOf
<1>11. \A f, a : Asking!Valid(f, a) = Valid(f, a)
  BY DEF Asking!Valid, Valid, Asking!IsEvm, IsEvm, Asking!IsSolana, IsSolana, Asking!IsBitcoin, IsBitcoin, Asking!IsSegwit, IsSegwit,
         Asking!IsLegacy, IsLegacy, Asking!IsTon, IsTon, Asking!IsTron, IsTron
<1>12. \A a : Asking!Detect(a) = Detect(a)
  BY DEF Asking!Detect, Detect, Asking!IsEvm, IsEvm, Asking!IsSolana, IsSolana, Asking!IsBitcoin, IsBitcoin, Asking!IsSegwit, IsSegwit,
         Asking!IsLegacy, IsLegacy, Asking!IsTon, IsTon, Asking!IsTron, IsTron, Asking!IsSpark, IsSpark
<1>13. \A f, a : Asking!Signpost(f, a) = Signpost(f, a)
  BY <1>3, <1>11, <1>12 DEF Asking!Signpost, Signpost
<1> QED BY <1>1, <1>2, <1>3, <1>4, <1>5, <1>6, <1>7, <1>9, <1>10, <1>11, <1>13

\* The parameters of the form.
LEMMA AskingConstants ==
  /\ Decimals \in Nat /\ Price \in Nat \ {0} /\ Balances \subseteq Nat
  /\ None \notin Nat /\ None \notin EtherRequests
BY PagesAssumption DEF Asking!SendAssumption

\* The review opens on a recipient and an amount that the form let through,
\* and nothing but the form changes them.
LEMMA AskingTypesKeep ==
  ASSUME Asking!TypeOK, Asking!Next \/ UNCHANGED formVars
  PROVE  Asking!TypeOK'
<1> USE DEF Asking!Typing, Asking!box, Asking!answers
<1>1. CASE Asking!GetPrice BY <1>1 DEF Asking!TypeOK, Asking!GetPrice
<1>2. CASE Asking!Flip BY <1>2 DEF Asking!TypeOK, Asking!Flip
<1>3. CASE Asking!ApplyMax BY <1>3 DEF Asking!TypeOK, Asking!ApplyMax
<1>4. CASE Asking!ToReview BY <1>4 DEF Asking!TypeOK, Asking!ToReview, Asking!Fits
<1>5. CASE Asking!Back BY <1>5 DEF Asking!TypeOK, Asking!Back
<1>6. CASE Asking!Confirm BY <1>6 DEF Asking!TypeOK, Asking!Confirm
<1>7. CASE \E b \in Balances : Asking!GetBalance(b) BY <1>7 DEF Asking!TypeOK, Asking!GetBalance
<1>8. CASE \E a \in Addresses : Asking!TypeAddress(a) BY <1>8 DEF Asking!TypeOK, Asking!TypeAddress
<1>9. CASE \E u \in EtherRequests : Asking!Paste(u)
  <2>1. PICK u \in EtherRequests : Asking!Paste(u) BY <1>9
  <2>2. UNCHANGED <<mode, formPriced, phase, signed>> /\ phase = "form" BY <2>1 DEF Asking!Paste
  <2>3. request' \in EtherRequests \cup {None} BY <2>1 DEF Asking!Paste
  <2>4. filled' \in BOOLEAN
    <3>1. CASE Asking!Fills(u)
      <4>1. filled' = (filled \/ (mode = "fiat" /\ Asking!AmountIn(u) # None)) BY <2>1, <3>1 DEF Asking!Paste
      <4> QED BY <4>1
    <3>2. CASE ~Asking!Fills(u)
      <4>1. UNCHANGED filled /\ filled \in BOOLEAN BY <2>1, <3>2 DEF Asking!Paste, Asking!TypeOK
      <4> QED BY <4>1
    <3> QED BY <3>1, <3>2
  <2> QED BY <2>2, <2>3, <2>4 DEF Asking!TypeOK
<1>10. CASE \E t \in Amounts : Asking!TypeCrypto(t) BY <1>10 DEF Asking!TypeOK, Asking!TypeCrypto
<1>11. CASE \E c \in {} \cup {None} : Asking!TypeDollars(c)
  <2>1. /\ UNCHANGED <<mode, formPriced, phase, signed>> /\ phase = "form" /\ request' = None /\ filled' = FALSE
    BY <1>11 DEF Asking!TypeDollars
  <2> QED BY <2>1 DEF Asking!TypeOK
<1>12. CASE UNCHANGED formVars BY <1>12 DEF Asking!TypeOK, formVars
<1> QED BY <1>1, <1>2, <1>3, <1>4, <1>5, <1>6, <1>7, <1>8, <1>9, <1>10, <1>11, <1>12 DEF Asking!Next

\* The signpost of the form leads home.
LEMMA AskingLeads == Asking!SignpostLeadsHome
<1>1. "evm" \in Families BY DEF Families
<1>2. IF Valid("evm", to) \/ ~\E g \in Families : Valid(g, to) THEN Signpost("evm", to) = "none"
      ELSE Signpost("evm", to) # "evm" /\ Valid(Signpost("evm", to), to)
  BY <1>1, SignpostIs
<1> QED BY <1>2, SameAsking DEF Asking!SignpostLeadsHome

-----------------------------------------------------------------------------
(* A form of an account of family "evm", and its requests                     *)

\* A request that stands filled in the form what it asks.
AskingStands(u) ==
  /\ u \in EtherRequests /\ Asking!Fills(u) /\ to = u.addr
  /\ Asking!AmountIn(u) # None => Parse(amount, Decimals) = Asking!AmountIn(u)
AskingInv == Asking!TypeOK /\ (request # None => AskingStands(request)) /\ Asking!RequestIsPaid

LEMMA InitAskingInv == ASSUME Asking!Init PROVE AskingInv
<1>1. /\ to = None /\ amount = Blank /\ mode = "crypto" /\ dollars = None /\ formPriced = FALSE
      /\ request = None /\ filled = FALSE /\ phase = "form" /\ signed = {}
  BY SameAsking DEF Asking!Init
<1>2. Asking!TypeOK BY <1>1 DEF Asking!TypeOK
<1>3. Asking!RequestIsPaid BY <1>1 DEF Asking!RequestIsPaid
<1> QED BY <1>1, <1>2, <1>3 DEF AskingInv

\* What a request asks for is a number of base units.
LEMMA AskingAmounts ==
  ASSUME NEW u \in EtherRequests, Asking!Fills(u), Asking!AmountIn(u) # None
  PROVE  Asking!AmountIn(u) \in Nat
<1>1. u.scheme # "bitcoin" BY DEF Asking!Fills
<1>2. u.value = None \/ u.value \in Nat BY <1>1, PagesAssumption DEF Asking!SendAssumption
<1>3. Asking!AmountIn(u) = u.value BY <1>1 DEF Asking!AmountIn
<1> QED BY <1>2, <1>3

\* The amount of a request for the coin that fills the form.
LEMMA AskingMeant ==
  ASSUME NEW u \in EtherRequests, Asking!Fills(u), Asking!AsksForCoin(u)
  PROVE  Asking!Wanted(u) = Asking!AmountIn(u)
<1>1. u.scheme = "bitcoin" \/ u.scheme = "ethereum" BY DEF Asking!Fills
<1> QED BY <1>1 DEF Asking!AsksForCoin, Asking!Wanted, Asking!AmountIn

\* A pasted request stands until the form is edited, and a confirmation signs
\* what stands.
LEMMA AskingKeeps ==
  ASSUME AskingInv, [Asking!Next]_formVars
  PROVE  AskingInv'
<1>1. Asking!TypeOK /\ (request # None => AskingStands(request)) /\ Asking!RequestIsPaid BY DEF AskingInv
<1>2. Asking!TypeOK' BY <1>1, AskingTypesKeep
<1> DEFINE Stand == request # None => AskingStands(request)
<1>3. SUFFICES Stand' /\ Asking!RequestIsPaid' BY <1>2 DEF AskingInv
<1>4. ASSUME UNCHANGED <<to, amount, request>> PROVE Stand' BY <1>1, <1>4 DEF AskingStands
<1>5. ASSUME request' = None PROVE Stand' BY <1>5
<1>6. ASSUME UNCHANGED signed PROVE Asking!RequestIsPaid' BY <1>1, <1>6 DEF Asking!RequestIsPaid
<1> HIDE DEF Stand
<1> USE DEF Asking!Typing, Asking!box, Asking!answers
<1>7. CASE Asking!GetPrice BY <1>4, <1>6, <1>7 DEF Asking!GetPrice
<1>8. CASE Asking!Flip BY <1>4, <1>6, <1>8 DEF Asking!Flip
<1>9. CASE Asking!ApplyMax BY <1>5, <1>6, <1>9 DEF Asking!ApplyMax
<1>10. CASE Asking!ToReview BY <1>4, <1>6, <1>10 DEF Asking!ToReview
<1>11. CASE Asking!Back BY <1>4, <1>6, <1>11 DEF Asking!Back
<1>12. CASE Asking!Confirm
  <2>1. UNCHANGED <<to, amount, request>> BY <1>12 DEF Asking!Confirm
  <2> DEFINE s == [to |-> to, asset |-> None, amount |-> Parse(amount, Decimals), of |-> request]
  <2>2. signed' = {s} BY <1>12, SameAsking DEF Asking!Confirm
  <2>3. /\ s.to = to /\ s.asset = None /\ s.amount = Parse(amount, Decimals) /\ s.of = request OBVIOUS
  <2> HIDE DEF s
  <2>4. ASSUME request # None, Asking!AsksForCoin(request)
        PROVE  to = request.addr /\ (Asking!Wanted(request) # None => Parse(amount, Decimals) = Asking!Wanted(request))
    <3>1. AskingStands(request) BY <1>1, <2>4
    <3>2. request \in EtherRequests /\ Asking!Fills(request) BY <3>1 DEF AskingStands
    <3>3. Asking!Wanted(request) = Asking!AmountIn(request) BY <2>4, <3>2, AskingMeant
    <3> QED BY <3>1, <3>3 DEF AskingStands
  <2>5. \A x \in signed' : (x.of # None /\ Asking!AsksForCoin(x.of)) =>
          /\ x.to = x.of.addr /\ x.asset = None
          /\ (Asking!Wanted(x.of) # None => x.amount = Asking!Wanted(x.of))
    BY <2>2, <2>3, <2>4
  <2>6. Asking!RequestIsPaid' BY <2>5 DEF Asking!RequestIsPaid, Asking!AsksForCoin, Asking!Wanted, Asking!Satoshis
  <2> QED BY <1>4, <2>1, <2>6
<1>13. CASE \E b \in Balances : Asking!GetBalance(b) BY <1>4, <1>6, <1>13 DEF Asking!GetBalance
<1>14. CASE \E a \in Addresses : Asking!TypeAddress(a) BY <1>5, <1>6, <1>14 DEF Asking!TypeAddress
<1>15. CASE \E u \in EtherRequests : Asking!Paste(u)
  <2>1. PICK u \in EtherRequests : Asking!Paste(u) BY <1>15
  <2>2. UNCHANGED signed BY <2>1 DEF Asking!Paste
  <2>3. CASE Asking!Fills(u)
    <3>1. /\ to' = u.addr /\ request' = u
          /\ amount' = IF Asking!AmountIn(u) = None THEN amount ELSE Strip(Asking!AmountIn(u), Decimals)
      BY <2>1, <2>3, SameAsking DEF Asking!Paste, FormatWhole
    <3>2. ASSUME Asking!AmountIn(u) # None PROVE Parse(amount', Decimals) = Asking!AmountIn(u)
      <4> DEFINE v == Asking!AmountIn(u)
      <4>1. v \in Nat /\ amount' = Strip(v, Decimals) BY <2>3, <3>1, <3>2, AskingAmounts
      <4> HIDE DEF v
      <4>2. Decimals - Decimals = 0 /\ Ten[0] = 1 /\ Decimals <= Decimals BY AskingConstants, TenIs
      <4>3. Parse(Strip(v, Decimals), Decimals) = v * Ten[Decimals - Decimals] BY <4>1, <4>2, AskingConstants, ParseStrip
      <4>4. v * Ten[Decimals - Decimals] = v BY <4>1, <4>2
      <4> QED BY <4>1, <4>3, <4>4 DEF v
    <3>3. AskingStands(u)' BY <2>3, <3>1, <3>2 DEF AskingStands
    <3>4. Stand' BY <3>1, <3>3 DEF Stand, AskingStands
    <3> QED BY <1>6, <2>2, <3>4
  <2>4. CASE ~Asking!Fills(u)
    <3>1. request' = None BY <2>1, <2>4 DEF Asking!Paste
    <3> QED BY <1>5, <1>6, <2>2, <3>1
  <2> QED BY <2>3, <2>4
<1>16. CASE \E t \in Amounts : Asking!TypeCrypto(t) BY <1>5, <1>6, <1>16 DEF Asking!TypeCrypto
<1>17. CASE \E c \in {} \cup {None} : Asking!TypeDollars(c) BY <1>5, <1>6, <1>17 DEF Asking!TypeDollars
<1>18. CASE UNCHANGED formVars BY <1>4, <1>6, <1>18 DEF formVars
<1> QED BY <1>7, <1>8, <1>9, <1>10, <1>11, <1>12, <1>13, <1>14, <1>15, <1>16, <1>17, <1>18 DEF Asking!Next

LEMMA AskingShows ==
  ASSUME AskingInv PROVE Asking!TypeOK /\ Asking!RequestIsPaid /\ Asking!SignpostLeadsHome
BY AskingLeads DEF AskingInv

\* The form computes with the operators above.
LEMMA SameBitcoin ==
  /\ Bitcoin!Ten = Ten /\ Bitcoin!Blank = Blank /\ Bitcoin!Families = Families
  /\ \A t, d : Bitcoin!Parse(t, d) = Parse(t, d)
  /\ \A n, d : Bitcoin!Strip(n, d) = Strip(n, d)
  /\ \A n, d : Bitcoin!Format(n, d) = Format(n, d)
  /\ \A n, d : Bitcoin!FormatWhole(n, d) = FormatWhole(n, d)
  /\ \A n, d : Bitcoin!CryptoOf(n, d) = CryptoOf(n, d)
  /\ \A n, d : Bitcoin!CentsOf(n, d) = CentsOf(n, d)
  /\ \A f, a : Bitcoin!Valid(f, a) = Valid(f, a)
  /\ \A f, a : Bitcoin!Signpost(f, a) = Signpost(f, a)
<1>1. Bitcoin!Ten = Ten BY DEF Bitcoin!Ten, Ten
<1>2. Bitcoin!Blank = Blank BY DEF Bitcoin!Blank, Blank
<1>3. Bitcoin!Families = Families BY DEF Bitcoin!Families, Families
<1>4. \A t, d : Bitcoin!Parse(t, d) = Parse(t, d) BY <1>1, <1>2 DEF Bitcoin!Parse, Parse, Bitcoin!Refused, Refused
<1>5. \A n, d : Bitcoin!Strip(n, d) = Strip(n, d) BY <1>1 DEF Bitcoin!Strip, Strip
<1>6. \A n, d : Bitcoin!Format(n, d) = Format(n, d) BY <1>1, <1>5 DEF Bitcoin!Format, Format
<1>7. \A n, d : Bitcoin!FormatWhole(n, d) = FormatWhole(n, d) BY <1>5 DEF Bitcoin!FormatWhole, FormatWhole
<1>8. \A n, d : Bitcoin!Round(n, d) = Round(n, d) BY DEF Bitcoin!Round, Round
<1>9. \A n, d : Bitcoin!CryptoOf(n, d) = CryptoOf(n, d) BY <1>1, <1>2, <1>5, <1>8 DEF Bitcoin!CryptoOf, CryptoOf
<1>10. \A n, d : Bitcoin!CentsOf(n, d) = CentsOf(n, d) BY <1>1, <1>8 DEF Bitcoin!CentsOf, CentsOf
<1>11. \A f, a : Bitcoin!Valid(f, a) = Valid(f, a)
  BY DEF Bitcoin!Valid, Valid, Bitcoin!IsEvm, IsEvm, Bitcoin!IsSolana, IsSolana, Bitcoin!IsBitcoin, IsBitcoin, Bitcoin!IsSegwit, IsSegwit,
         Bitcoin!IsLegacy, IsLegacy, Bitcoin!IsTon, IsTon, Bitcoin!IsTron, IsTron
<1>12. \A a : Bitcoin!Detect(a) = Detect(a)
  BY DEF Bitcoin!Detect, Detect, Bitcoin!IsEvm, IsEvm, Bitcoin!IsSolana, IsSolana, Bitcoin!IsBitcoin, IsBitcoin, Bitcoin!IsSegwit, IsSegwit,
         Bitcoin!IsLegacy, IsLegacy, Bitcoin!IsTon, IsTon, Bitcoin!IsTron, IsTron, Bitcoin!IsSpark, IsSpark
<1>13. \A f, a : Bitcoin!Signpost(f, a) = Signpost(f, a)
  BY <1>3, <1>11, <1>12 DEF Bitcoin!Signpost, Signpost
<1> QED BY <1>1, <1>2, <1>3, <1>4, <1>5, <1>6, <1>7, <1>9, <1>10, <1>11, <1>13

\* The parameters of the form.
LEMMA BitcoinConstants ==
  /\ SatPlaces \in Nat /\ Price \in Nat \ {0} /\ Balances \subseteq Nat
  /\ None \notin Nat /\ None \notin CoinRequests
BY PagesAssumption DEF Bitcoin!SendAssumption

\* The review opens on a recipient and an amount that the form let through,
\* and nothing but the form changes them.
LEMMA BitcoinTypesKeep ==
  ASSUME Bitcoin!TypeOK, Bitcoin!Next \/ UNCHANGED formVars
  PROVE  Bitcoin!TypeOK'
<1> USE DEF Bitcoin!Typing, Bitcoin!box, Bitcoin!answers
<1>1. CASE Bitcoin!GetPrice BY <1>1 DEF Bitcoin!TypeOK, Bitcoin!GetPrice
<1>2. CASE Bitcoin!Flip BY <1>2 DEF Bitcoin!TypeOK, Bitcoin!Flip
<1>3. CASE Bitcoin!ApplyMax BY <1>3 DEF Bitcoin!TypeOK, Bitcoin!ApplyMax
<1>4. CASE Bitcoin!ToReview BY <1>4 DEF Bitcoin!TypeOK, Bitcoin!ToReview, Bitcoin!Fits
<1>5. CASE Bitcoin!Back BY <1>5 DEF Bitcoin!TypeOK, Bitcoin!Back
<1>6. CASE Bitcoin!Confirm BY <1>6 DEF Bitcoin!TypeOK, Bitcoin!Confirm
<1>7. CASE \E b \in Balances : Bitcoin!GetBalance(b) BY <1>7 DEF Bitcoin!TypeOK, Bitcoin!GetBalance
<1>8. CASE \E a \in Addresses : Bitcoin!TypeAddress(a) BY <1>8 DEF Bitcoin!TypeOK, Bitcoin!TypeAddress
<1>9. CASE \E u \in CoinRequests : Bitcoin!Paste(u)
  <2>1. PICK u \in CoinRequests : Bitcoin!Paste(u) BY <1>9
  <2>2. UNCHANGED <<mode, formPriced, phase, signed>> /\ phase = "form" BY <2>1 DEF Bitcoin!Paste
  <2>3. request' \in CoinRequests \cup {None} BY <2>1 DEF Bitcoin!Paste
  <2>4. filled' \in BOOLEAN
    <3>1. CASE Bitcoin!Fills(u)
      <4>1. filled' = (filled \/ (mode = "fiat" /\ Bitcoin!AmountIn(u) # None)) BY <2>1, <3>1 DEF Bitcoin!Paste
      <4> QED BY <4>1
    <3>2. CASE ~Bitcoin!Fills(u)
      <4>1. UNCHANGED filled /\ filled \in BOOLEAN BY <2>1, <3>2 DEF Bitcoin!Paste, Bitcoin!TypeOK
      <4> QED BY <4>1
    <3> QED BY <3>1, <3>2
  <2> QED BY <2>2, <2>3, <2>4 DEF Bitcoin!TypeOK
<1>10. CASE \E t \in Amounts : Bitcoin!TypeCrypto(t) BY <1>10 DEF Bitcoin!TypeOK, Bitcoin!TypeCrypto
<1>11. CASE \E c \in {} \cup {None} : Bitcoin!TypeDollars(c)
  <2>1. /\ UNCHANGED <<mode, formPriced, phase, signed>> /\ phase = "form" /\ request' = None /\ filled' = FALSE
    BY <1>11 DEF Bitcoin!TypeDollars
  <2> QED BY <2>1 DEF Bitcoin!TypeOK
<1>12. CASE UNCHANGED formVars BY <1>12 DEF Bitcoin!TypeOK, formVars
<1> QED BY <1>1, <1>2, <1>3, <1>4, <1>5, <1>6, <1>7, <1>8, <1>9, <1>10, <1>11, <1>12 DEF Bitcoin!Next

\* The signpost of the form leads home.
LEMMA BitcoinLeads == Bitcoin!SignpostLeadsHome
<1>1. "bitcoin" \in Families BY DEF Families
<1>2. IF Valid("bitcoin", to) \/ ~\E g \in Families : Valid(g, to) THEN Signpost("bitcoin", to) = "none"
      ELSE Signpost("bitcoin", to) # "bitcoin" /\ Valid(Signpost("bitcoin", to), to)
  BY <1>1, SignpostIs
<1> QED BY <1>2, SameBitcoin DEF Bitcoin!SignpostLeadsHome

-----------------------------------------------------------------------------
(* A form of an account of family "bitcoin", and its requests                     *)

\* A request that stands filled in the form what it asks.
BitcoinStands(u) ==
  /\ u \in CoinRequests /\ Bitcoin!Fills(u) /\ to = u.addr
  /\ Bitcoin!AmountIn(u) # None => Parse(amount, SatPlaces) = Bitcoin!AmountIn(u)
BitcoinInv == Bitcoin!TypeOK /\ (request # None => BitcoinStands(request)) /\ Bitcoin!RequestIsPaid

LEMMA InitBitcoinInv == ASSUME Bitcoin!Init PROVE BitcoinInv
<1>1. /\ to = None /\ amount = Blank /\ mode = "crypto" /\ dollars = None /\ formPriced = FALSE
      /\ request = None /\ filled = FALSE /\ phase = "form" /\ signed = {}
  BY SameBitcoin DEF Bitcoin!Init
<1>2. Bitcoin!TypeOK BY <1>1 DEF Bitcoin!TypeOK
<1>3. Bitcoin!RequestIsPaid BY <1>1 DEF Bitcoin!RequestIsPaid
<1> QED BY <1>1, <1>2, <1>3 DEF BitcoinInv

\* What a request asks for is a number of base units.
LEMMA BitcoinAmounts ==
  ASSUME NEW u \in CoinRequests, Bitcoin!Fills(u), Bitcoin!AmountIn(u) # None
  PROVE  Bitcoin!AmountIn(u) \in Nat
<1>1. u.scheme = "bitcoin" BY DEF Bitcoin!Fills
<1>2. u.amount = None \/ u.amount \in Nat \X Nat BY <1>1, PagesAssumption DEF Bitcoin!SendAssumption
<1>3. Bitcoin!AmountIn(u) = Bitcoin!Satoshis(u.amount) BY <1>1 DEF Bitcoin!AmountIn
<1>4. u.amount # None BY <1>3 DEF Bitcoin!Satoshis
<1> DEFINE s == Parse(u.amount, SatPlaces)
<1>5. s # Refused /\ Bitcoin!AmountIn(u) = s
  BY <1>3, <1>4, SameBitcoin DEF Bitcoin!Satoshis, Bitcoin!Refused, Refused
<1>6. u.amount[1] \in Nat /\ u.amount[2] \in Nat /\ SatPlaces \in Nat BY <1>2, <1>4, PlacesAssumption
<1>7. ~(u.amount[2] > SatPlaces) /\ s = u.amount[1] * Ten[SatPlaces - u.amount[2]] BY <1>5 DEF Parse
<1>8. SatPlaces - u.amount[2] \in Nat BY <1>6, <1>7
<1>9. Ten[SatPlaces - u.amount[2]] \in Nat BY <1>8, TenIs
<1>10. s \in Nat
  <2> DEFINE p == Ten[SatPlaces - u.amount[2]]  n == u.amount[1]
  <2> HIDE DEF p, n
  <2>1. p \in Nat /\ n \in Nat BY <1>6, <1>9 DEF p, n
  <2>2. n * p \in Nat BY <2>1
  <2> QED BY <1>7, <2>2 DEF p, n
<1> QED BY <1>5, <1>10

\* The amount of a request for the coin that fills the form.
LEMMA BitcoinMeant ==
  ASSUME NEW u \in CoinRequests, Bitcoin!Fills(u), Bitcoin!AsksForCoin(u)
  PROVE  Bitcoin!Wanted(u) = Bitcoin!AmountIn(u)
<1>1. u.scheme = "bitcoin" \/ u.scheme = "ethereum" BY DEF Bitcoin!Fills
<1> QED BY <1>1 DEF Bitcoin!AsksForCoin, Bitcoin!Wanted, Bitcoin!AmountIn

\* A pasted request stands until the form is edited, and a confirmation signs
\* what stands.
LEMMA BitcoinKeeps ==
  ASSUME BitcoinInv, [Bitcoin!Next]_formVars
  PROVE  BitcoinInv'
<1>1. Bitcoin!TypeOK /\ (request # None => BitcoinStands(request)) /\ Bitcoin!RequestIsPaid BY DEF BitcoinInv
<1>2. Bitcoin!TypeOK' BY <1>1, BitcoinTypesKeep
<1> DEFINE Stand == request # None => BitcoinStands(request)
<1>3. SUFFICES Stand' /\ Bitcoin!RequestIsPaid' BY <1>2 DEF BitcoinInv
<1>4. ASSUME UNCHANGED <<to, amount, request>> PROVE Stand' BY <1>1, <1>4 DEF BitcoinStands
<1>5. ASSUME request' = None PROVE Stand' BY <1>5
<1>6. ASSUME UNCHANGED signed PROVE Bitcoin!RequestIsPaid' BY <1>1, <1>6 DEF Bitcoin!RequestIsPaid
<1> HIDE DEF Stand
<1> USE DEF Bitcoin!Typing, Bitcoin!box, Bitcoin!answers
<1>7. CASE Bitcoin!GetPrice BY <1>4, <1>6, <1>7 DEF Bitcoin!GetPrice
<1>8. CASE Bitcoin!Flip BY <1>4, <1>6, <1>8 DEF Bitcoin!Flip
<1>9. CASE Bitcoin!ApplyMax BY <1>5, <1>6, <1>9 DEF Bitcoin!ApplyMax
<1>10. CASE Bitcoin!ToReview BY <1>4, <1>6, <1>10 DEF Bitcoin!ToReview
<1>11. CASE Bitcoin!Back BY <1>4, <1>6, <1>11 DEF Bitcoin!Back
<1>12. CASE Bitcoin!Confirm
  <2>1. UNCHANGED <<to, amount, request>> BY <1>12 DEF Bitcoin!Confirm
  <2> DEFINE s == [to |-> to, asset |-> None, amount |-> Parse(amount, SatPlaces), of |-> request]
  <2>2. signed' = {s} BY <1>12, SameBitcoin DEF Bitcoin!Confirm
  <2>3. /\ s.to = to /\ s.asset = None /\ s.amount = Parse(amount, SatPlaces) /\ s.of = request OBVIOUS
  <2> HIDE DEF s
  <2>4. ASSUME request # None, Bitcoin!AsksForCoin(request)
        PROVE  to = request.addr /\ (Bitcoin!Wanted(request) # None => Parse(amount, SatPlaces) = Bitcoin!Wanted(request))
    <3>1. BitcoinStands(request) BY <1>1, <2>4
    <3>2. request \in CoinRequests /\ Bitcoin!Fills(request) BY <3>1 DEF BitcoinStands
    <3>3. Bitcoin!Wanted(request) = Bitcoin!AmountIn(request) BY <2>4, <3>2, BitcoinMeant
    <3> QED BY <3>1, <3>3 DEF BitcoinStands
  <2>5. \A x \in signed' : (x.of # None /\ Bitcoin!AsksForCoin(x.of)) =>
          /\ x.to = x.of.addr /\ x.asset = None
          /\ (Bitcoin!Wanted(x.of) # None => x.amount = Bitcoin!Wanted(x.of))
    BY <2>2, <2>3, <2>4
  <2>6. Bitcoin!RequestIsPaid' BY <2>5 DEF Bitcoin!RequestIsPaid, Bitcoin!AsksForCoin, Bitcoin!Wanted, Bitcoin!Satoshis
  <2> QED BY <1>4, <2>1, <2>6
<1>13. CASE \E b \in Balances : Bitcoin!GetBalance(b) BY <1>4, <1>6, <1>13 DEF Bitcoin!GetBalance
<1>14. CASE \E a \in Addresses : Bitcoin!TypeAddress(a) BY <1>5, <1>6, <1>14 DEF Bitcoin!TypeAddress
<1>15. CASE \E u \in CoinRequests : Bitcoin!Paste(u)
  <2>1. PICK u \in CoinRequests : Bitcoin!Paste(u) BY <1>15
  <2>2. UNCHANGED signed BY <2>1 DEF Bitcoin!Paste
  <2>3. CASE Bitcoin!Fills(u)
    <3>1. /\ to' = u.addr /\ request' = u
          /\ amount' = IF Bitcoin!AmountIn(u) = None THEN amount ELSE Strip(Bitcoin!AmountIn(u), SatPlaces)
      BY <2>1, <2>3, SameBitcoin DEF Bitcoin!Paste, FormatWhole
    <3>2. ASSUME Bitcoin!AmountIn(u) # None PROVE Parse(amount', SatPlaces) = Bitcoin!AmountIn(u)
      <4> DEFINE v == Bitcoin!AmountIn(u)
      <4>1. v \in Nat /\ amount' = Strip(v, SatPlaces) BY <2>3, <3>1, <3>2, BitcoinAmounts
      <4> HIDE DEF v
      <4>2. SatPlaces - SatPlaces = 0 /\ Ten[0] = 1 /\ SatPlaces <= SatPlaces BY BitcoinConstants, TenIs
      <4>3. Parse(Strip(v, SatPlaces), SatPlaces) = v * Ten[SatPlaces - SatPlaces] BY <4>1, <4>2, BitcoinConstants, ParseStrip
      <4>4. v * Ten[SatPlaces - SatPlaces] = v BY <4>1, <4>2
      <4> QED BY <4>1, <4>3, <4>4 DEF v
    <3>3. BitcoinStands(u)' BY <2>3, <3>1, <3>2 DEF BitcoinStands
    <3>4. Stand' BY <3>1, <3>3 DEF Stand, BitcoinStands
    <3> QED BY <1>6, <2>2, <3>4
  <2>4. CASE ~Bitcoin!Fills(u)
    <3>1. request' = None BY <2>1, <2>4 DEF Bitcoin!Paste
    <3> QED BY <1>5, <1>6, <2>2, <3>1
  <2> QED BY <2>3, <2>4
<1>16. CASE \E t \in Amounts : Bitcoin!TypeCrypto(t) BY <1>5, <1>6, <1>16 DEF Bitcoin!TypeCrypto
<1>17. CASE \E c \in {} \cup {None} : Bitcoin!TypeDollars(c) BY <1>5, <1>6, <1>17 DEF Bitcoin!TypeDollars
<1>18. CASE UNCHANGED formVars BY <1>4, <1>6, <1>18 DEF formVars
<1> QED BY <1>7, <1>8, <1>9, <1>10, <1>11, <1>12, <1>13, <1>14, <1>15, <1>16, <1>17, <1>18 DEF Bitcoin!Next

LEMMA BitcoinShows ==
  ASSUME BitcoinInv PROVE Bitcoin!TypeOK /\ Bitcoin!RequestIsPaid /\ Bitcoin!SignpostLeadsHome
BY BitcoinLeads DEF BitcoinInv

-----------------------------------------------------------------------------
(* The Spark dialog                                                        *)

Fees == 0..MaxRate + MaxRate
SparkCallSet == [id : Nat \ {0}, kind : {"send", "deposit", "quote", "withdraw", "invoice", "pay"}, of : Spark!Inputs,
                 fee : Fees, shown : Fees, at : 0..MaxRate,
                 stage : {"put", "bound", "made"}, dropped : BOOLEAN]
SparkQuotes == [of : Spark!Inputs, fee : Fees]

SparkTypes ==
  /\ status \in {"connecting", "ready", "error"} /\ pane \in Spark!Panes /\ sparkInput \in Spark!Inputs
  /\ (sparkQuote = Spark!Nothing \/ sparkQuote \in SparkQuotes) /\ sparkBusy \in BOOLEAN /\ sparkDone \in BOOLEAN
  /\ edited \in BOOLEAN /\ sparkAsked \in Nat /\ sparkMount \in 0..sparkAsked
  /\ sparkCalls \subseteq SparkCallSet /\ \A c \in sparkCalls : c.id \in 1..sparkAsked

\* The balance and the service.
SatTypes ==
  /\ sats \in 0..Start /\ sparkBalance \in 0..Spark!Unread /\ sparkReads \in Seq(0..Spark!Unread)
  /\ rate \in 1..MaxRate /\ missed \in BOOLEAN

\* The form on screen and its one call.
SparkFormSound ==
  /\ Spark!BusyWithMine /\ ~(sparkBusy /\ sparkDone)
  /\ \A c, d \in sparkCalls : Spark!ToForm(c) /\ Spark!ToForm(d) => c = d
  /\ sparkQuote # Spark!Nothing =>
       pane = "withdraw" /\ sparkQuote.of.what \notin Wrong /\ (~edited => sparkQuote.of = sparkInput)
  /\ \A c \in sparkCalls : Spark!ToForm(c) /\ c.kind = "quote" =>
       pane = "withdraw" /\ c.of.what \notin Wrong /\ (~edited => c.of = sparkInput)

\* A fee committed to is that of its speed.
FeesSound ==
  /\ \A c \in sparkCalls : c.stage = "bound" => c.fee = Spark!Fee(c.of.speed, c.at)
  /\ Spark!ExitsAreBound

SparkInv == SparkTypes /\ SatTypes /\ SparkFormSound /\ FeesSound

LEMMA SparkConstants ==
  /\ Start \in Nat /\ MaxRate \in Nat /\ MaxRate > 0 /\ Spark!Unread = Start + 1 /\ NoWhat \in Wrong /\ Wrong \subseteq Whats
BY PagesAssumption DEF Spark!SparkAssumption, Spark!Unread

LEMMA SparkShows == ASSUME SparkInv PROVE Spark!TypeOK /\ Spark!BusyWithMine /\ Spark!QuoteOfInputs /\ Spark!ExitsAreBound
<1>1. (sparkQuote # Spark!Nothing => pane = "withdraw" /\ sparkQuote.of.what \notin Wrong) /\ Spark!QuoteOfInputs
  BY DEF SparkInv, SparkFormSound, Spark!QuoteOfInputs
<1> QED BY <1>1 DEF SparkInv, SparkTypes, SatTypes, SparkFormSound, FeesSound, Spark!TypeOK

LEMMA InitSparkInv == Spark!Init => SparkInv
<1> SUFFICES ASSUME Spark!Init PROVE SparkInv OBVIOUS
<1>0. /\ status = "connecting" /\ pane = "receive" /\ sparkInput = Spark!Empty /\ sparkQuote = Spark!Nothing
      /\ sparkBusy = FALSE /\ sparkDone = FALSE /\ sparkMount = 0 /\ sparkAsked = 0 /\ sparkCalls = {} /\ exits = {}
      /\ sats = Start /\ sparkBalance = Spark!Unread /\ sparkReads = <<>> /\ rate = 1 /\ edited = FALSE /\ missed = FALSE
  BY DEF Spark!Init
<1>1. Spark!Empty \in Spark!Inputs BY SparkConstants DEF Spark!Empty, Spark!Inputs, Spark!Speeds
<1>2. pane \in Spark!Panes BY <1>0 DEF Spark!Panes
<1>3. sparkMount \in 0..sparkAsked /\ sparkAsked \in Nat BY <1>0
<1>4. SparkTypes BY <1>0, <1>1, <1>2, <1>3 DEF SparkTypes
<1>5. sparkReads \in Seq(0..Spark!Unread) BY <1>0, EmptySeq
<1>6. sats \in 0..Start /\ sparkBalance \in 0..Spark!Unread /\ rate \in 1..MaxRate BY <1>0, SparkConstants
<1>7. SatTypes BY <1>0, <1>5, <1>6 DEF SatTypes
<1>8. SparkFormSound BY <1>0 DEF SparkFormSound, Spark!BusyWithMine
<1>9. FeesSound BY <1>0 DEF FeesSound, Spark!ExitsAreBound
<1> QED BY <1>4, <1>7, <1>8, <1>9 DEF SparkInv

\* One read taken from those under way.
LEMMA ReadTaken ==
  ASSUME sparkReads \in Seq(0..Spark!Unread), NEW i \in DOMAIN sparkReads, sparkReads' = Spark!RemoveAt(sparkReads, i)
  PROVE  /\ sparkReads' \in Seq(0..Spark!Unread) /\ Len(sparkReads') = Len(sparkReads) - 1
         /\ i = 1 => \A j \in 1..Len(sparkReads') : sparkReads'[j] = sparkReads[j + 1]
<1> DEFINE V == 0..Spark!Unread  s == sparkReads  n == Len(sparkReads)
           one == SubSeq(s, 1, i - 1)  two == SubSeq(s, i + 1, n)
<1>1. n \in Nat /\ i \in 1..n /\ \A j \in 1..n : s[j] \in V BY LenProperties, ElementOfSeq
<1>2. sparkReads' = one \o two BY DEF Spark!RemoveAt
<1> HIDE DEF V
<1>3. one \in Seq(V) /\ Len(one) = i - 1
  <2>1. \A j \in 1..(i - 1) : s[j] \in V BY <1>1
  <2> QED BY <1>1, <2>1, SubSeqProperties
<1>4. two \in Seq(V) /\ Len(two) = n - i /\ \A j \in 1..(n - i) : two[j] = s[i + j]
  <2>1. \A j \in (i + 1)..n : s[j] \in V BY <1>1
  <2>2. /\ two \in Seq(V) /\ Len(two) = IF i + 1 <= n THEN n - (i + 1) + 1 ELSE 0
        /\ \A j \in 1..(n - (i + 1) + 1) : two[j] = s[i + 1 + j - 1]
    <3> HIDE DEF two
    <3> QED BY <1>1, <2>1, SubSeqProperties DEF two
  <2> QED BY <1>1, <2>2
<1> HIDE DEF one, two
<1>5. /\ one \o two \in Seq(V) /\ Len(one \o two) = Len(one) + Len(two)
      /\ \A j \in 1..(Len(one) + Len(two)) : (one \o two)[j] = IF j <= Len(one) THEN one[j] ELSE two[j - Len(one)]
  BY <1>3, <1>4, ConcatProperties
<1>6. ASSUME i = 1, NEW j \in 1..(n - 1) PROVE (one \o two)[j] = s[j + 1]
  BY <1>1, <1>3, <1>4, <1>5, <1>6
<1>7. Len(sparkReads') = Len(sparkReads) - 1 BY <1>1, <1>2, <1>3, <1>4, <1>5
<1>8. i = 1 => \A j \in 1..Len(sparkReads') : sparkReads'[j] = sparkReads[j + 1] BY <1>2, <1>6, <1>7
<1> QED BY <1>2, <1>5, <1>7, <1>8 DEF V

\* A call moved on to another stage, and one that left.
LEMMA SparkCallMoves ==
  ASSUME SparkTypes, SparkFormSound, NEW c \in sparkCalls, NEW d \in SparkCallSet,
         d.id = c.id, d.kind = c.kind, d.of = c.of, sparkCalls' = (sparkCalls \ {c}) \cup {d},
         UNCHANGED <<status, pane, sparkInput, sparkQuote, sparkBusy, sparkDone, sparkMount, edited, sparkAsked>>
  PROVE  SparkTypes' /\ SparkFormSound'
<1>1. SparkTypes' BY DEF SparkTypes
<1>2. Spark!BusyWithMine' BY DEF SparkFormSound, Spark!BusyWithMine, Spark!ToForm
<1>3. \A e, f \in sparkCalls' : e.id > sparkMount /\ f.id > sparkMount => e = f BY DEF SparkFormSound, Spark!ToForm
<1> QED BY <1>1, <1>2, <1>3 DEF SparkFormSound, Spark!ToForm

\* A call put by a free form.
LEMMA SparkCallPut ==
  ASSUME SparkInv, NEW k \in {"send", "deposit", "quote", "withdraw", "invoice", "pay"}, Spark!Submit(k),
         k = "quote" => pane = "withdraw" /\ Spark!Right, k = "withdraw" => sparkQuote # Spark!Nothing
  PROVE  SparkInv'
<1> DEFINE d == Spark!Put(k)
<1> USE DEF SparkInv
<1>0. 0 \in Fees /\ 0 \in 0..MaxRate /\ sparkAsked \in Nat /\ sparkMount <= sparkAsked /\ sparkAsked' = sparkAsked + 1
  BY SparkConstants DEF Fees, SparkTypes, Spark!Submit
<1>1. IF k = "withdraw" THEN sparkQuote.fee \in Fees ELSE TRUE BY DEF SparkTypes, SparkQuotes
<1>2. d \in SparkCallSet BY <1>0, <1>1 DEF SparkTypes, SparkCallSet, Spark!Put
<1>3. d.id = sparkAsked + 1 /\ d.kind = k /\ d.of = sparkInput /\ d.stage = "put" BY DEF Spark!Put
<1> HIDE DEF d
<1>4. /\ sparkCalls' = sparkCalls \cup {d} /\ sparkBusy' = TRUE /\ ~sparkBusy /\ ~sparkDone
      /\ edited' \in BOOLEAN /\ (sparkQuote # Spark!Nothing /\ ~edited' => ~edited)
      /\ UNCHANGED <<status, pane, sparkInput, sparkQuote, sparkDone, sparkMount>>
      /\ UNCHANGED <<sats, sparkBalance, sparkReads, rate, missed, exits>>
  BY DEF Spark!Submit, d, Spark!service, SparkTypes
<1>5. \A c \in sparkCalls : ~(c.id > sparkMount) BY <1>4 DEF SparkFormSound, Spark!BusyWithMine, Spark!ToForm
<1>6. SparkTypes'
  <2>1. \A c \in sparkCalls : c.id \in 1..sparkAsked' BY <1>0 DEF SparkTypes
  <2> QED BY <1>0, <1>2, <1>3, <1>4, <2>1 DEF SparkTypes
<1>7. SatTypes' BY <1>4 DEF SatTypes
<1>b. d.id > sparkMount
  <2>1. sparkMount \in Nat BY DEF SparkTypes
  <2> QED BY <1>0, <1>3, <2>1
<1>8. Spark!BusyWithMine' BY <1>b, <1>4 DEF Spark!BusyWithMine, Spark!ToForm
<1>9. SparkFormSound' BY <1>3, <1>4, <1>5, <1>8 DEF SparkFormSound, Spark!ToForm, Spark!Right
<1>10. FeesSound' BY <1>3, <1>4 DEF FeesSound, Spark!ExitsAreBound
<1> QED BY <1>6, <1>7, <1>9, <1>10

LEMMA SparkKeeps == ASSUME SparkInv, [Spark!Next]_sparkVars PROVE SparkInv'
<1> USE SparkConstants DEF Spark!form, Spark!service
<1>1. CASE UNCHANGED sparkVars
  BY <1>1 DEF sparkVars, SparkInv, SparkTypes, SatTypes, SparkFormSound, FeesSound, Spark!BusyWithMine,
     Spark!ExitsAreBound, Spark!ToForm
<1>2. SparkTypes /\ SatTypes /\ SparkFormSound /\ FeesSound BY DEF SparkInv
<1>e. Spark!Empty \in Spark!Inputs BY DEF Spark!Empty, Spark!Inputs, Spark!Speeds
<1>n. \A c \in sparkCalls : ~(c.id > sparkAsked) BY <1>2 DEF SparkTypes
<1>3. CASE Spark!Connect
  <2>1. SparkTypes' /\ SparkFormSound' /\ FeesSound'
    BY <1>2, <1>3 DEF Spark!Connect, SparkTypes, SparkFormSound, FeesSound, Spark!BusyWithMine,
       Spark!ExitsAreBound, Spark!ToForm
  <2>2. SatTypes' BY <1>2, <1>3 DEF Spark!Connect, SatTypes
  <2> QED BY <2>1, <2>2 DEF SparkInv
<1>4. CASE Spark!ConnectFails
  BY <1>4 DEF Spark!ConnectFails, SparkInv, SparkTypes, SatTypes, SparkFormSound, FeesSound, Spark!BusyWithMine,
     Spark!ExitsAreBound, Spark!ToForm
<1>5. CASE Spark!Reopen
  <2> DEFINE Left(c) == [c EXCEPT !.dropped = TRUE]
  <2>1. \A c \in sparkCalls : /\ Left(c) \in SparkCallSet /\ Left(c).id = c.id /\ Left(c).of = c.of
                              /\ Left(c).fee = c.fee /\ Left(c).at = c.at /\ Left(c).stage = c.stage
    BY <1>2 DEF SparkTypes, SparkCallSet
  <2> HIDE DEF Left
  <2>2. /\ sparkCalls' = {Left(c) : c \in sparkCalls} /\ sparkInput' = Spark!Empty /\ sparkQuote' = Spark!Nothing
        /\ sparkBusy' = FALSE /\ sparkDone' = FALSE /\ sparkMount' = sparkAsked /\ sparkAsked' = sparkAsked
        /\ status' = "connecting" /\ pane' = "receive" /\ sparkBalance' = Spark!Unread /\ sparkReads' = <<>>
        /\ missed' \in BOOLEAN /\ edited' = FALSE /\ UNCHANGED <<sats, rate, exits>>
    BY <1>5 DEF Spark!Reopen, Spark!Fresh, Left
  <2>3. SparkTypes'
    <3>1. sparkInput' \in Spark!Inputs /\ pane' \in Spark!Panes BY <1>e, <2>2 DEF Spark!Panes
    <3>2. sparkAsked \in Nat /\ sparkMount' \in 0..sparkAsked' BY <1>2, <2>2 DEF SparkTypes
    <3>3. sparkCalls' \subseteq SparkCallSet /\ \A c \in sparkCalls' : c.id \in 1..sparkAsked'
      BY <1>2, <2>1, <2>2 DEF SparkTypes
    <3> QED BY <2>2, <3>1, <3>2, <3>3 DEF SparkTypes
  <2>4. SatTypes'
    <3>1. sparkReads' \in Seq(0..Spark!Unread) BY <2>2, EmptySeq
    <3>2. sparkBalance' \in 0..Spark!Unread BY <2>2
    <3> QED BY <1>2, <2>2, <3>1, <3>2 DEF SatTypes
  <2>5. \A c \in sparkCalls' : ~(c.id > sparkMount') BY <1>n, <2>1, <2>2
  <2>6. SparkFormSound' BY <2>2, <2>5 DEF SparkFormSound, Spark!BusyWithMine, Spark!ToForm
  <2>7. FeesSound' BY <1>2, <2>1, <2>2 DEF FeesSound, Spark!ExitsAreBound
  <2> QED BY <2>3, <2>4, <2>6, <2>7 DEF SparkInv
<1>6. ASSUME NEW p \in Spark!Panes, Spark!Go(p) PROVE SparkInv'
  <2>1. /\ sparkInput' = Spark!Empty /\ sparkQuote' = Spark!Nothing /\ sparkBusy' = FALSE /\ sparkDone' = FALSE
        /\ sparkMount' = sparkAsked /\ pane' = p /\ edited' = FALSE
        /\ UNCHANGED <<status, sparkCalls, sparkAsked, sats, sparkBalance, sparkReads, rate, missed, exits>>
    BY <1>6 DEF Spark!Go, Spark!Fresh
  <2>2. SparkTypes'
    <3>1. sparkAsked \in Nat /\ sparkMount' \in 0..sparkAsked' BY <1>2, <2>1 DEF SparkTypes
    <3> QED BY <1>2, <1>e, <2>1, <3>1 DEF SparkTypes
  <2>3. SparkFormSound' BY <1>n, <2>1 DEF SparkFormSound, Spark!BusyWithMine, Spark!ToForm
  <2> QED BY <1>2, <2>1, <2>2, <2>3 DEF SparkInv, SatTypes, FeesSound, Spark!ExitsAreBound
<1>7. ASSUME NEW i \in DOMAIN sparkReads, Spark!Sample(i) PROVE SparkInv'
  <2>1. i \in 1..Len(sparkReads) /\ sats \in 0..Spark!Unread BY <1>2, LenProperties DEF SatTypes
  <2>2. SatTypes' BY <1>2, <1>7, <2>1, ExceptSeq DEF SatTypes, Spark!Sample
  <2>3. SparkTypes' /\ SparkFormSound' /\ FeesSound'
    BY <1>2, <1>7 DEF Spark!Sample, SparkTypes, SparkFormSound, FeesSound, Spark!BusyWithMine,
       Spark!ExitsAreBound, Spark!ToForm
  <2> QED BY <2>2, <2>3 DEF SparkInv
<1>8. ASSUME NEW i \in DOMAIN sparkReads, Spark!Shown(i) \/ Spark!ReadFails(i) PROVE SparkInv'
  <2>1. sparkReads[i] \in 0..Spark!Unread BY <1>2, LenProperties, ElementOfSeq DEF SatTypes
  <2>2. sparkReads' \in Seq(0..Spark!Unread) BY <1>2, <1>8, ReadTaken DEF SatTypes, Spark!Shown, Spark!ReadFails
  <2>3. SatTypes' BY <1>2, <1>8, <2>1, <2>2 DEF SatTypes, Spark!Shown, Spark!ReadFails
  <2>4. SparkTypes' /\ SparkFormSound' /\ FeesSound'
    BY <1>2, <1>8 DEF Spark!Shown, Spark!ReadFails, SparkTypes, SparkFormSound, FeesSound, Spark!BusyWithMine,
       Spark!ExitsAreBound, Spark!ToForm
  <2> QED BY <2>3, <2>4 DEF SparkInv
<1>9. ASSUME NEW i \in Spark!Inputs, Spark!Edit(i) PROVE SparkInv'
  <2>1. /\ sparkInput' = i /\ sparkQuote' = Spark!Nothing /\ edited' = sparkBusy
        /\ UNCHANGED <<status, sparkBalance, pane, sparkBusy, sparkDone, sparkMount, sparkCalls, sparkAsked, sparkReads, missed, sats, rate, exits>>
    BY <1>9 DEF Spark!Edit
  <2>2. SparkTypes' BY <1>2, <2>1 DEF SparkTypes
  <2>3. SparkFormSound' BY <1>2, <2>1 DEF SparkFormSound, Spark!BusyWithMine, Spark!ToForm
  <2> QED BY <1>2, <2>1, <2>2, <2>3 DEF SparkInv, SatTypes, FeesSound, Spark!ExitsAreBound
<1>10. CASE Spark!Send BY <1>10, SparkCallPut DEF Spark!Send
<1>11. CASE Spark!Deposit BY <1>11, SparkCallPut DEF Spark!Deposit
<1>12. CASE Spark!GetQuote BY <1>12, SparkCallPut DEF Spark!GetQuote
<1>13. CASE Spark!Withdraw BY <1>13, SparkCallPut DEF Spark!Withdraw
<1>14. CASE Spark!CreateInvoice BY <1>14, SparkCallPut DEF Spark!CreateInvoice
<1>15. CASE Spark!PayInvoice BY <1>15, SparkCallPut DEF Spark!PayInvoice
<1>16. CASE Spark!Again
  <2>1. [sparkInput EXCEPT !.what = NoWhat] \in Spark!Inputs BY <1>2 DEF SparkTypes, Spark!Inputs
  <2>2. /\ sparkInput' \in Spark!Inputs /\ sparkQuote' = Spark!Nothing /\ sparkDone /\ sparkDone' = FALSE
        /\ UNCHANGED <<status, sparkBalance, pane, sparkBusy, sparkMount, edited, sparkCalls, sparkAsked, sparkReads, missed, sats, rate, exits>>
    BY <1>2, <1>16, <2>1 DEF Spark!Again, SparkTypes
  <2>3. SparkTypes' BY <1>2, <2>2 DEF SparkTypes
  <2>4. SparkFormSound' BY <1>2, <2>2 DEF SparkFormSound, Spark!BusyWithMine, Spark!ToForm
  <2> QED BY <1>2, <2>2, <2>3, <2>4 DEF SparkInv, SatTypes, FeesSound, Spark!ExitsAreBound
<1>17. ASSUME NEW c \in sparkCalls, Spark!Quotes(c) PROVE SparkInv'
  <2> DEFINE d == [c EXCEPT !.fee = Spark!Quoted(c), !.at = rate, !.stage = IF c.kind = "quote" THEN "made" ELSE "bound"]
  <2>1. Spark!Quoted(c) \in Fees /\ rate \in 0..MaxRate /\ Spark!Quoted(c) = Spark!Fee(c.of.speed, rate)
    BY <1>2 DEF SatTypes, Spark!Quoted, Spark!Fee, Fees
  <2>2. d \in SparkCallSet BY <1>2, <2>1 DEF SparkTypes, SparkCallSet
  <2>3. d.id = c.id /\ d.kind = c.kind /\ d.of = c.of /\ d.fee = Spark!Quoted(c) /\ d.at = rate
    BY <1>2 DEF SparkTypes, SparkCallSet
  <2> HIDE DEF d
  <2>4. /\ sparkCalls' = (sparkCalls \ {c}) \cup {d}
        /\ UNCHANGED <<status, sparkBalance, sparkAsked, sparkReads, missed, pane, sparkInput, sparkQuote, sparkBusy, sparkDone, sparkMount, edited, sats, rate, exits>>
    BY <1>17 DEF Spark!Quotes, d
  <2>5. SparkTypes' /\ SparkFormSound' BY <1>2, <2>2, <2>3, <2>4, SparkCallMoves
  <2>6. SatTypes' BY <1>2, <2>4 DEF SatTypes
  <2>7. FeesSound' BY <1>2, <2>1, <2>3, <2>4 DEF FeesSound, Spark!ExitsAreBound
  <2> QED BY <2>5, <2>6, <2>7 DEF SparkInv
<1>18. ASSUME NEW c \in sparkCalls, Spark!Made(c) PROVE SparkInv'
  <2> DEFINE d == [c EXCEPT !.stage = "made"]
  <2>2. d \in SparkCallSet BY <1>2 DEF SparkTypes, SparkCallSet
  <2>3. d.id = c.id /\ d.kind = c.kind /\ d.of = c.of /\ d.stage = "made"
    BY <1>2 DEF SparkTypes, SparkCallSet
  <2> HIDE DEF d
  <2>4. /\ sparkCalls' = (sparkCalls \ {c}) \cup {d} /\ (c.kind = "withdraw" => c.stage = "bound")
        /\ exits' = IF c.kind = "withdraw" THEN exits \cup {c} ELSE exits
        /\ sats' \in {sats} \cup (IF sats > 0 THEN {sats - 1} ELSE {})
        /\ UNCHANGED <<status, sparkBalance, sparkAsked, sparkReads, missed, pane, sparkInput, sparkQuote, sparkBusy, sparkDone, sparkMount, edited, rate>>
    BY <1>18 DEF Spark!Made, d
  <2>5. SparkTypes' /\ SparkFormSound' BY <1>2, <2>2, <2>3, <2>4, SparkCallMoves
  <2>6. SatTypes' BY <1>2, <2>4 DEF SatTypes
  <2>7. FeesSound' BY <1>2, <2>3, <2>4 DEF FeesSound, Spark!ExitsAreBound
  <2> QED BY <2>5, <2>6, <2>7 DEF SparkInv
<1>19. CASE Spark!RateMoves
  <2>1. SatTypes' BY <1>2, <1>19 DEF Spark!RateMoves, SatTypes
  <2>2. SparkTypes' /\ SparkFormSound' /\ FeesSound'
    BY <1>2, <1>19 DEF Spark!RateMoves, SparkTypes, SparkFormSound, FeesSound, Spark!BusyWithMine,
       Spark!ExitsAreBound, Spark!ToForm
  <2> QED BY <2>1, <2>2 DEF SparkInv
<1>20. ASSUME NEW c \in sparkCalls, Spark!Answered(c) PROVE SparkInv'
  <2>1. /\ sparkCalls' = sparkCalls \ {c} /\ sparkReads' \in {sparkReads, Append(sparkReads, Spark!Unread)}
        /\ missed' \in BOOLEAN
        /\ UNCHANGED <<status, sparkBalance, pane, sparkInput, sparkMount, edited, sparkAsked, sats, rate, exits>>
    BY <1>2, <1>20 DEF Spark!Answered, SatTypes
  <2>2. c \in SparkCallSet BY <1>2 DEF SparkTypes
  <2>3. sparkReads' \in Seq(0..Spark!Unread)
    <3>1. Spark!Unread \in 0..Spark!Unread /\ sparkReads \in Seq(0..Spark!Unread) BY <1>2 DEF SatTypes
    <3>2. Append(sparkReads, Spark!Unread) \in Seq(0..Spark!Unread) BY <3>1, AppendProperties
    <3> QED BY <2>1, <3>1, <3>2
  <2>4. SatTypes' BY <1>2, <2>1, <2>3 DEF SatTypes
  <2>5. FeesSound' BY <1>2, <2>1 DEF FeesSound, Spark!ExitsAreBound
  <2>6. CASE ~Spark!ToForm(c)
    <3>1. UNCHANGED <<sparkBusy, sparkQuote, sparkDone>> BY <1>20, <2>6 DEF Spark!Answered
    <3>2. SparkTypes' BY <1>2, <2>1, <3>1 DEF SparkTypes
    <3>3. SparkFormSound' BY <1>2, <2>1, <2>6, <3>1 DEF SparkFormSound, Spark!BusyWithMine, Spark!ToForm
    <3> QED BY <2>4, <2>5, <3>2, <3>3 DEF SparkInv
  <2>7. CASE Spark!ToForm(c)
    <3>1. sparkBusy' = FALSE /\ sparkBusy /\ ~sparkDone
      BY <1>2, <1>20, <2>7 DEF Spark!Answered, SparkFormSound, Spark!BusyWithMine
    <3>2. \A d \in sparkCalls' : ~(d.id > sparkMount) BY <1>2, <2>1, <2>7 DEF SparkFormSound, Spark!ToForm
    <3>3. CASE c.kind = "quote"
      <4>1. sparkQuote' = [of |-> c.of, fee |-> c.fee] /\ UNCHANGED sparkDone BY <1>20, <2>7, <3>3 DEF Spark!Answered
      <4>2. sparkQuote' \in SparkQuotes /\ sparkQuote'.of = c.of BY <2>2, <4>1 DEF SparkQuotes, SparkCallSet
      <4>3. (~edited => c.of = sparkInput) /\ pane = "withdraw" /\ c.of.what \notin Wrong
        BY <1>2, <2>7, <3>3 DEF SparkFormSound
      <4>4. SparkTypes' BY <1>2, <2>1, <3>1, <4>1, <4>2 DEF SparkTypes
      <4>5. SparkFormSound'
        BY <2>1, <3>1, <3>2, <4>1, <4>2, <4>3 DEF SparkFormSound, Spark!BusyWithMine, Spark!ToForm
      <4> QED BY <2>4, <2>5, <4>4, <4>5 DEF SparkInv
    <3>4. CASE c.kind # "quote"
      <4>1. sparkDone' = TRUE /\ UNCHANGED sparkQuote BY <1>20, <2>7, <3>4 DEF Spark!Answered
      <4>2. SparkTypes' BY <1>2, <2>1, <3>1, <4>1 DEF SparkTypes
      <4>3. SparkFormSound'
        BY <1>2, <2>1, <3>1, <3>2, <4>1 DEF SparkFormSound, Spark!BusyWithMine, Spark!ToForm
      <4> QED BY <2>4, <2>5, <4>2, <4>3 DEF SparkInv
    <3> QED BY <3>3, <3>4
  <2> QED BY <2>6, <2>7
<1>21. ASSUME NEW c \in sparkCalls, Spark!Fails(c) PROVE SparkInv'
  <2>1. /\ sparkCalls' = sparkCalls \ {c} /\ missed' = TRUE
        /\ sparkBusy' = IF Spark!ToForm(c) THEN FALSE ELSE sparkBusy
        /\ UNCHANGED <<status, sparkBalance, pane, sparkInput, sparkQuote, sparkDone, sparkMount, edited, sparkAsked, sparkReads, sats, rate, exits>>
    BY <1>21 DEF Spark!Fails, Spark!Tells
  <2>2. SparkTypes' BY <1>2, <2>1 DEF SparkTypes
  <2>3. SparkFormSound' BY <1>2, <2>1 DEF SparkFormSound, Spark!BusyWithMine, Spark!ToForm
  <2> QED BY <1>2, <2>1, <2>2, <2>3 DEF SparkInv, SatTypes, FeesSound, Spark!ExitsAreBound
<1> QED BY <1>1, <1>3, <1>4, <1>5, <1>6, <1>7, <1>8, <1>9, <1>10, <1>11, <1>12, <1>13, <1>14, <1>15, <1>16, <1>17, <1>18, <1>19, <1>20, <1>21
        DEF Spark!Next

-----------------------------------------------------------------------------
(* The balance of the Spark account                                        *)

\* The balance on screen is the account's, or a read that will tell it is
\* under way, or an answer that asks for one.
Informed ==
  \/ \E c \in sparkCalls : c.kind \in Spark!Pays /\ c.stage = "made"
  \/ sparkReads # <<>> /\ sparkReads[Len(sparkReads)] \in {Spark!Unread, sats}
  \/ sparkReads = <<>> /\ sparkBalance = sats
BalanceSound == ~missed =>
  /\ \A c \in sparkCalls : c.dropped => c.kind \notin Spark!Pays
  /\ status = "ready" => Informed
BalanceInv == SparkInv /\ BalanceSound

LEMMA BalanceShows == ASSUME BalanceInv PROVE Spark!BalanceFollows
BY DEF BalanceInv, BalanceSound, Informed, Spark!BalanceFollows

LEMMA InitBalanceInv == Spark!Init => BalanceInv
<1> SUFFICES ASSUME Spark!Init PROVE BalanceInv OBVIOUS
<1>2. BalanceSound BY DEF Spark!Init, BalanceSound
<1> QED BY <1>2, InitSparkInv DEF BalanceInv

\* A step that leaves reads, balance and account alone, and no made payment behind.
LEMMA StaysInformed ==
  ASSUME BalanceSound, UNCHANGED <<sparkReads, sparkBalance, sats>>, ~missed' => ~missed, status' = "ready" => status = "ready",
         ~missed' => \A c \in sparkCalls' : c.dropped => c.kind \notin Spark!Pays,
         \A c \in sparkCalls : c.kind \in Spark!Pays /\ c.stage = "made" => c \in sparkCalls'
  PROVE  BalanceSound'
BY DEF BalanceSound, Informed

LEMMA BalanceKeeps == ASSUME BalanceInv, [Spark!Next]_sparkVars PROVE BalanceInv'
<1>1. SparkInv' BY SparkKeeps DEF BalanceInv
<1>2. SparkTypes /\ SatTypes /\ BalanceSound BY DEF BalanceInv, SparkInv
<1>3. BalanceSound'
  <2> USE <1>2 DEF Spark!form, Spark!service, SatTypes
  <2>1. CASE UNCHANGED sparkVars BY <2>1, StaysInformed DEF sparkVars, BalanceSound
  <2>2. CASE Spark!Connect
    <3>1. sparkReads' = Append(sparkReads, Spark!Unread) /\ Spark!Unread \in 0..Spark!Unread
          /\ UNCHANGED <<sparkCalls, missed>>
      BY <2>2, SparkConstants DEF Spark!Connect, Spark!Unread
    <3>2. sparkReads' # <<>> /\ sparkReads'[Len(sparkReads')] = Spark!Unread
      BY <3>1, AppendProperties DEF SatTypes
    <3> QED BY <3>1, <3>2 DEF BalanceSound, Informed
  <2>3. CASE Spark!ConnectFails BY <2>3 DEF Spark!ConnectFails, BalanceSound
  <2>4. CASE Spark!Reopen
    <3> DEFINE Left(c) == [c EXCEPT !.dropped = TRUE]
    <3>1. \A c \in sparkCalls : Left(c).kind = c.kind BY DEF SparkTypes, SparkCallSet
    <3> HIDE DEF Left
    <3>2. /\ sparkCalls' = {Left(c) : c \in sparkCalls} /\ missed' = (\E c \in sparkCalls : c.kind \in Spark!Pays)
          /\ status' = "connecting"
      BY <2>4 DEF Spark!Reopen, Left
    <3> QED BY <3>1, <3>2 DEF BalanceSound
  <2>5. ASSUME NEW k, Spark!Submit(k) PROVE BalanceSound'
    <3>1. Spark!Put(k).dropped = FALSE BY DEF Spark!Put
    <3>2. sparkCalls' = sparkCalls \cup {Spark!Put(k)} /\ UNCHANGED <<sparkReads, sparkBalance, sats, status, missed>>
      BY <2>5 DEF Spark!Submit
    <3> QED BY <2>5, <3>1, <3>2, StaysInformed DEF BalanceSound
  <2>6. CASE Spark!Send BY <2>5, <2>6 DEF Spark!Send
  <2>7. CASE Spark!Deposit BY <2>5, <2>7 DEF Spark!Deposit
  <2>8. CASE Spark!GetQuote BY <2>5, <2>8 DEF Spark!GetQuote
  <2>9. CASE Spark!Withdraw BY <2>5, <2>9 DEF Spark!Withdraw
  <2>10. CASE Spark!CreateInvoice BY <2>5, <2>10 DEF Spark!CreateInvoice
  <2>11. CASE Spark!PayInvoice BY <2>5, <2>11 DEF Spark!PayInvoice
  <2>12. CASE Spark!Again BY <2>12, StaysInformed DEF Spark!Again, BalanceSound
  <2>13. ASSUME NEW p \in Spark!Panes, Spark!Go(p) PROVE BalanceSound'
    BY <2>13, StaysInformed DEF Spark!Go, BalanceSound
  <2>14. ASSUME NEW i \in Spark!Inputs, Spark!Edit(i) PROVE BalanceSound'
    BY <2>14, StaysInformed DEF Spark!Edit, BalanceSound
  <2>15. ASSUME NEW i \in DOMAIN sparkReads, Spark!Sample(i) PROVE BalanceSound'
    <3>1. /\ sparkReads' = [sparkReads EXCEPT ![i] = sats] /\ sats \in 0..Spark!Unread
          /\ UNCHANGED <<sparkCalls, sparkBalance, sats, status, missed>>
      BY <2>15, SparkConstants DEF Spark!Sample, SatTypes
    <3>2. Len(sparkReads) \in Nat /\ i \in 1..Len(sparkReads) BY LenProperties DEF SatTypes
    <3>3. /\ Len(sparkReads') = Len(sparkReads)
          /\ \A j \in 1..Len(sparkReads) : sparkReads'[j] = IF j = i THEN sats ELSE sparkReads[j]
      BY <3>1, <3>2, ExceptSeq DEF SatTypes
    <3>4. sparkReads # <<>> /\ sparkReads' # <<>> BY <3>2, <3>3 DEF SatTypes
    <3>5. sparkReads'[Len(sparkReads')] \in {sats, sparkReads[Len(sparkReads)]} BY <3>2, <3>3
    <3> QED BY <3>1, <3>4, <3>5 DEF BalanceSound, Informed
  <2>16. ASSUME NEW i \in DOMAIN sparkReads, Spark!Shown(i) PROVE BalanceSound'
    <3>0. missed' = (missed \/ i # 1) BY <2>16 DEF Spark!Shown
    <3> SUFFICES ASSUME i = 1, ~missed PROVE BalanceSound' BY <3>0 DEF BalanceSound
    <3>1. /\ sparkBalance' = sparkReads[1] /\ sparkReads' = Spark!RemoveAt(sparkReads, 1)
          /\ sparkReads[1] # Spark!Unread /\ UNCHANGED <<sparkCalls, sats, status>>
      BY <2>16 DEF Spark!Shown
    <3>2. Len(sparkReads) \in Nat /\ 1 \in 1..Len(sparkReads) BY <3>1, LenProperties DEF SatTypes
    <3>3. /\ sparkReads' \in Seq(0..Spark!Unread) /\ Len(sparkReads') = Len(sparkReads) - 1
          /\ \A j \in 1..Len(sparkReads') : sparkReads'[j] = sparkReads[j + 1]
      BY <3>1, <3>2, ReadTaken DEF SatTypes
    <3>4. CASE Len(sparkReads) = 1
      <4>1. sparkReads' = <<>> BY <3>3, <3>4, EmptySeq
      <4> QED BY <3>1, <3>4, <4>1 DEF BalanceSound, Informed
    <3>5. CASE Len(sparkReads) > 1
      <4>1. sparkReads' # <<>> /\ sparkReads'[Len(sparkReads')] = sparkReads[Len(sparkReads)] BY <3>2, <3>3, <3>5
      <4>2. sparkReads # <<>> BY <3>5
      <4> QED BY <3>1, <4>1, <4>2 DEF BalanceSound, Informed
    <3>6. \A n \in Nat : 1 \in 1..n => n = 1 \/ n > 1 OBVIOUS
    <3> QED BY <3>2, <3>4, <3>5, <3>6
  <2>17. ASSUME NEW i \in DOMAIN sparkReads, Spark!ReadFails(i) PROVE BalanceSound'
    BY <2>17 DEF Spark!ReadFails, BalanceSound
  <2>18. ASSUME NEW c \in sparkCalls, Spark!Quotes(c) PROVE BalanceSound'
    <3> DEFINE d == [c EXCEPT !.fee = Spark!Quoted(c), !.at = rate, !.stage = IF c.kind = "quote" THEN "made" ELSE "bound"]
    <3>1. d.dropped = c.dropped /\ d.kind = c.kind BY DEF SparkTypes, SparkCallSet
    <3> HIDE DEF d
    <3>2. /\ sparkCalls' = (sparkCalls \ {c}) \cup {d} /\ c.stage = "put"
          /\ UNCHANGED <<sparkReads, sparkBalance, sats, status, missed>>
      BY <2>18 DEF Spark!Quotes, d
    <3> QED BY <3>1, <3>2, StaysInformed DEF BalanceSound
  <2>19. ASSUME NEW c \in sparkCalls, Spark!Made(c) PROVE BalanceSound'
    <3> DEFINE d == [c EXCEPT !.stage = "made"]
    <3>1. d.dropped = c.dropped /\ d.kind = c.kind /\ d.stage = "made" BY DEF SparkTypes, SparkCallSet
    <3> HIDE DEF d
    <3>2. /\ sparkCalls' = (sparkCalls \ {c}) \cup {d} /\ c.stage # "made"
          /\ UNCHANGED <<sparkReads, sparkBalance, status, missed>>
          /\ sats' = IF c.kind \in Spark!Pays THEN sats - 1 ELSE sats
      BY <2>19 DEF Spark!Made, d
    <3>3. CASE c.kind \in Spark!Pays BY <3>1, <3>2, <3>3 DEF BalanceSound, Informed
    <3>4. CASE c.kind \notin Spark!Pays
      <4>1. sats' = sats BY <3>2, <3>4 DEF BalanceSound
      <4> QED BY <3>1, <3>2, <4>1, StaysInformed DEF BalanceSound
    <3> QED BY <3>3, <3>4
  <2>20. CASE Spark!RateMoves BY <2>20, StaysInformed DEF Spark!RateMoves, BalanceSound
  <2>21. ASSUME NEW c \in sparkCalls, Spark!Answered(c) PROVE BalanceSound'
    <3>1. /\ sparkCalls' = sparkCalls \ {c} /\ UNCHANGED <<sparkBalance, sats, status>>
          /\ missed' = (missed \/ c.kind = "pay")
          /\ sparkReads' = IF Spark!Rereads(c) THEN Append(sparkReads, Spark!Unread) ELSE sparkReads
      BY <2>21 DEF Spark!Answered
    <3>2. CASE Spark!Rereads(c)
      <4>1. sparkReads' # <<>> /\ sparkReads'[Len(sparkReads')] = Spark!Unread
        BY <3>1, <3>2, SparkConstants, AppendProperties DEF SatTypes
      <4> QED BY <3>1, <4>1 DEF BalanceSound, Informed
    <3>3. CASE ~Spark!Rereads(c)
      <4> SUFFICES ASSUME ~missed, c.kind # "pay" PROVE BalanceSound' BY <3>1 DEF BalanceSound
      <4>1. c.kind \notin Spark!Pays BY <3>3 DEF BalanceSound, Spark!Pays, Spark!Rereads
      <4> QED BY <3>1, <3>3, <4>1, StaysInformed DEF BalanceSound
    <3> QED BY <3>2, <3>3
  <2>22. ASSUME NEW c \in sparkCalls, Spark!Fails(c) PROVE BalanceSound'
    BY <2>22 DEF Spark!Fails, BalanceSound
  <2> QED BY <2>1, <2>2, <2>3, <2>4, <2>6, <2>7, <2>8, <2>9, <2>10, <2>11, <2>12, <2>13, <2>14, <2>15, <2>16, <2>17,
             <2>18, <2>19, <2>20, <2>21, <2>22 DEF BalanceInv, Spark!Next
<1> QED BY <1>1, <1>3 DEF BalanceInv

-----------------------------------------------------------------------------
(* The lending, swap, bridge, gasless and buy forms                        *)

DefiCallSet == [id : Nat \ {0}, kind : {"quote", "swap", "bridge", "buy", "lend", "gasless"}, of : Defi!Entries,
                chain : Networks, smart : BOOLEAN, stage : {"put", "approved", "made"}]

DefiTypes ==
  /\ visit \in Visits /\ form \in visit.forms /\ chain \in Networks /\ available \in BOOLEAN /\ gasless \in BOOLEAN
  /\ (gasless => available) /\ (available => Bundler)
  /\ defiInput \in Defi!Entries /\ defiBusy \in BOOLEAN /\ defiDone \in BOOLEAN /\ stale \in BOOLEAN
  /\ defiAsked \in Nat /\ defiMount \in 0..defiAsked
  /\ defiCalls \subseteq DefiCallSet /\ \A c \in defiCalls : c.id \in 1..defiAsked

\* The figures of the form and those that listen for them.
FiguresSound ==
  /\ defiReads \subseteq [chain : Networks, live : BOOLEAN]
  /\ \A r \in defiReads : r.live => r.chain = chain
  /\ Defi!PositionOfChain

\* The form on screen and its one call.
DefiFormSound ==
  /\ Defi!BusyWithMine /\ ~(defiBusy /\ defiDone)
  /\ \A c, d \in defiCalls : Defi!ToForm(c) /\ Defi!ToForm(d) => c = d
  /\ defiQuote # Defi!Nothing => form \in Defi!Quoting /\ (~stale => defiQuote = <<defiInput, chain>>)
  /\ \A c \in defiCalls : Defi!ToForm(c) /\ c.kind = "quote" =>
       form \in Defi!Quoting /\ (~stale => c.of = defiInput /\ c.chain = chain)

\* What the bridge contract may take: no more than an approval under way, and
\* two of the same account have crossed.
Approved(c) == c.stage = "approved"
AllowanceTypes == allowance \in [Defi!Payers -> Defi!Entries] /\ halted \subseteq Defi!Payers /\ crossed \subseteq Defi!Payers
OneApproval ==
  /\ \A c \in defiCalls : Approved(c) => allowance[Defi!Account(c)] = c.of \/ Defi!Account(c) \in crossed
  /\ \A c, d \in defiCalls : Approved(c) /\ Approved(d) /\ Defi!Account(c) = Defi!Account(d) => c = d \/ Defi!Account(c) \in crossed
NoneLeft == \A a \in Defi!Payers : allowance[a] > 0 =>
  a \in halted \/ \E c \in defiCalls : Approved(c) /\ Defi!Account(c) = a /\ allowance[a] <= c.of
AllowanceSound == AllowanceTypes /\ OneApproval /\ NoneLeft

DefiInv == DefiTypes /\ FiguresSound /\ DefiFormSound /\ AllowanceSound

LEMMA DefiConstants == MaxAmount \in Nat /\ Bundler \in BOOLEAN /\ \A v \in Visits : v.forms \subseteq Defi!Forms
BY PagesAssumption DEF Defi!DefiAssumption

LEMMA DefiShows ==
  ASSUME DefiInv
  PROVE  Defi!TypeOK /\ Defi!BusyWithMine /\ Defi!QuoteOfInputs /\ Defi!PositionOfChain /\ Defi!ApprovedIsBridged
<1>1. \A r, s \in defiReads : r.live /\ s.live => r = s
  <2> SUFFICES ASSUME NEW r \in defiReads, NEW s \in defiReads, r.live, s.live PROVE r = s OBVIOUS
  <2>1. r \in [chain : Networks, live : BOOLEAN] /\ s \in [chain : Networks, live : BOOLEAN] BY DEF DefiInv, FiguresSound
  <2>2. r.chain = s.chain /\ r.live = s.live BY <2>1 DEF DefiInv, FiguresSound
  <2> QED BY <2>1, <2>2
<1>2. Defi!TypeOK BY <1>1 DEF DefiInv, DefiTypes, DefiFormSound, AllowanceSound, AllowanceTypes, Defi!TypeOK
<1>3. Defi!ApprovedIsBridged BY DEF DefiInv, AllowanceSound, OneApproval, NoneLeft, Approved, Defi!ApprovedIsBridged
<1>4. Defi!QuoteOfInputs BY DEF DefiInv, DefiFormSound, Defi!QuoteOfInputs
<1> QED BY <1>2, <1>3, <1>4 DEF DefiInv, DefiFormSound, FiguresSound

LEMMA InitDefiInv == Defi!Init => DefiInv
<1> SUFFICES ASSUME Defi!Init PROVE DefiInv OBVIOUS
<1>0. /\ visit \in Visits /\ form \in visit.forms /\ stale = FALSE /\ crossed = {} /\ chain \in Networks /\ available = FALSE /\ gasless = FALSE /\ defiInput = 0
      /\ defiQuote = Defi!Nothing /\ defiBusy = FALSE /\ defiDone = FALSE /\ position = Defi!Nothing
      /\ defiMount = 0 /\ defiCalls = {} /\ defiAsked = 0 /\ halted = {} /\ allowance = [a \in Defi!Payers |-> 0]
      /\ defiReads = IF form \in {"lend", "gasless"} THEN {[chain |-> chain, live |-> TRUE]} ELSE {}
  BY DEF Defi!Init
<1>1. 0 \in Defi!Entries BY DefiConstants DEF Defi!Entries
<1>2. defiMount \in 0..defiAsked /\ defiAsked \in Nat BY <1>0
<1>3. DefiTypes BY <1>0, <1>1, <1>2 DEF DefiTypes
<1>4. FiguresSound
  <2>1. Defi!PositionOfChain BY <1>0 DEF Defi!PositionOfChain
  <2>2. \A r \in defiReads : r = [chain |-> chain, live |-> TRUE] BY <1>0
  <2>3. [chain |-> chain, live |-> TRUE] \in [chain : Networks, live : BOOLEAN] BY <1>0
  <2>4. defiReads \subseteq [chain : Networks, live : BOOLEAN] BY <2>2, <2>3
  <2>5. \A r \in defiReads : r.chain = chain BY <2>2
  <2> QED BY <2>1, <2>4, <2>5 DEF FiguresSound
<1>5. DefiFormSound BY <1>0 DEF DefiFormSound, Defi!BusyWithMine
<1>6. AllowanceSound BY <1>0, <1>1 DEF AllowanceSound, AllowanceTypes, OneApproval, NoneLeft
<1> QED BY <1>3, <1>4, <1>5, <1>6 DEF DefiInv

\* The effects read again: only the new read listens.
LEMMA ReadAgain ==
  ASSUME DefiInv, NEW f, NEW c \in Networks, Defi!Read(f, c)
  PROVE  /\ defiReads' \subseteq [chain : Networks, live : BOOLEAN]
         /\ \A r \in defiReads' : r.live => r.chain = c
         /\ f \in {"lend", "gasless"} => \E r \in defiReads' : r.live
<1> DEFINE Off(r) == [r EXCEPT !.live = FALSE]  now == [chain |-> c, live |-> TRUE]
<1>1. \A r \in defiReads : Off(r) \in [chain : Networks, live : BOOLEAN] /\ Off(r).live = FALSE
  BY DEF DefiInv, FiguresSound
<1>2. now \in [chain : Networks, live : BOOLEAN] /\ now.live = TRUE /\ now.chain = c OBVIOUS
<1> HIDE DEF Off, now
<1>3. defiReads' = {Off(r) : r \in defiReads} \cup (IF f \in {"lend", "gasless"} THEN {now} ELSE {})
  BY DEF Defi!Read, Off, now
<1> QED BY <1>1, <1>2, <1>3

\* A call put by a free form.
LEMMA DefiCallPut ==
  ASSUME DefiInv, NEW k \in {"quote", "swap", "bridge", "buy", "lend", "gasless"}, NEW smart \in BOOLEAN,
         Defi!Put(k, smart), k = "quote" => form \in Defi!Quoting /\ defiQuote = Defi!Nothing
  PROVE  DefiInv'
<1> DEFINE d == [id |-> defiAsked + 1, kind |-> k, of |-> defiInput, chain |-> chain, smart |-> smart, stage |-> "put"]
<1> USE DEF DefiInv
<1>0. defiAsked \in Nat /\ defiMount \in Nat /\ defiMount <= defiAsked BY DEF DefiTypes
<1>1. d \in DefiCallSet BY <1>0 DEF DefiTypes, DefiCallSet
<1>2. d.id = defiAsked + 1 /\ d.kind = k /\ d.of = defiInput /\ d.chain = chain /\ d.stage = "put" OBVIOUS
<1>3. /\ defiCalls' = defiCalls \cup {d} /\ defiBusy' = TRUE /\ ~defiBusy /\ ~defiDone /\ defiAsked' = defiAsked + 1
      /\ UNCHANGED <<visit, form, chain, available, gasless, defiInput, defiQuote, defiDone, defiMount, position, defiReads, allowance, halted, crossed>>
      /\ stale' \in BOOLEAN /\ (defiQuote # Defi!Nothing /\ ~stale' => ~stale)
  BY DEF Defi!Put, Defi!screen, Defi!chainState, DefiTypes
<1> HIDE DEF d
<1>4. \A c \in defiCalls : ~(c.id > defiMount) BY <1>3 DEF DefiFormSound, Defi!BusyWithMine, Defi!ToForm
<1>5. d.id > defiMount BY <1>0, <1>2
<1>6. DefiTypes'
  <2>1. \A c \in defiCalls : c.id \in 1..defiAsked' BY <1>0, <1>3 DEF DefiTypes
  <2>2. d.id \in 1..defiAsked' /\ defiMount' \in 0..defiAsked' /\ defiAsked' \in Nat BY <1>0, <1>2, <1>3
  <2> QED BY <1>1, <1>3, <2>1, <2>2 DEF DefiTypes
<1>7. FiguresSound' BY <1>3 DEF FiguresSound, Defi!PositionOfChain
<1>8. Defi!BusyWithMine' BY <1>3, <1>5 DEF Defi!BusyWithMine, Defi!ToForm
<1>9. DefiFormSound' BY <1>2, <1>3, <1>4, <1>5, <1>8 DEF DefiFormSound, Defi!ToForm
<1>10. AllowanceSound' BY <1>2, <1>3 DEF AllowanceSound, AllowanceTypes, OneApproval, NoneLeft, Approved, Defi!Account
<1> QED BY <1>6, <1>7, <1>9, <1>10

\* A call moved on to another stage.
LEMMA DefiCallMoves ==
  ASSUME DefiInv, NEW c \in defiCalls, NEW s \in {"approved", "made"}, Defi!Stage(c, s),
         UNCHANGED <<visit, form, chain, available, gasless, defiInput, defiQuote, defiBusy, defiDone, defiMount, stale, position, defiReads, defiAsked>>
  PROVE  /\ DefiTypes' /\ FiguresSound' /\ DefiFormSound'
         /\ \E d \in DefiCallSet : /\ defiCalls' = (defiCalls \ {c}) \cup {d} /\ d.id = c.id /\ d.kind = c.kind /\ d.of = c.of
                                   /\ d.stage = s /\ Defi!Account(d) = Defi!Account(c)
<1> DEFINE d == [c EXCEPT !.stage = s]
<1> USE DEF DefiInv
<1>1. d \in DefiCallSet BY DEF DefiTypes, DefiCallSet
<1>2. d.id = c.id /\ d.kind = c.kind /\ d.of = c.of /\ d.stage = s /\ d.smart = c.smart /\ d.chain = c.chain
  BY DEF DefiTypes, DefiCallSet
<1>3. defiCalls' = (defiCalls \ {c}) \cup {d} BY DEF Defi!Stage
<1> HIDE DEF d
<1>4. DefiTypes' BY <1>1, <1>2, <1>3 DEF DefiTypes
<1>5. FiguresSound' BY DEF FiguresSound, Defi!PositionOfChain
<1>6. Defi!BusyWithMine' BY <1>2, <1>3 DEF DefiFormSound, Defi!BusyWithMine, Defi!ToForm
<1>7. \A e, f \in defiCalls' : e.id > defiMount /\ f.id > defiMount => e = f BY <1>2, <1>3 DEF DefiFormSound, Defi!ToForm
<1>8. DefiFormSound' BY <1>2, <1>3, <1>6, <1>7 DEF DefiFormSound, Defi!ToForm
<1> QED BY <1>1, <1>2, <1>3, <1>4, <1>5, <1>8 DEF Defi!Account

\* A call that no approval is of moves on.
LEMMA DefiPlainMoves ==
  ASSUME DefiInv, NEW c \in defiCalls, c.stage = "put", Defi!Stage(c, "made"), UNCHANGED Defi!chainState,
         UNCHANGED <<visit, form, chain, available, gasless, defiInput, defiQuote, defiBusy, defiDone, defiMount, stale, position, defiReads, defiAsked>>
  PROVE  DefiInv'
<1>1. PICK d \in DefiCallSet : /\ defiCalls' = (defiCalls \ {c}) \cup {d} /\ d.kind = c.kind /\ d.stage = "made"
  BY DefiCallMoves
<1>2. \A e \in defiCalls \cup defiCalls' : Approved(e) => e \in defiCalls /\ e \in defiCalls'
  BY <1>1 DEF Approved
<1>3. UNCHANGED <<allowance, halted, crossed>> BY DEF Defi!chainState
<1>4. AllowanceSound' BY <1>2, <1>3 DEF DefiInv, AllowanceSound, AllowanceTypes, OneApproval, NoneLeft, Approved, Defi!Account
<1> QED BY <1>4, DefiCallMoves DEF DefiInv

LEMMA DefiKeeps == ASSUME DefiInv, [Defi!Next]_defiVars PROVE DefiInv'
<1> USE DefiConstants DEF Defi!screen, Defi!inputs, Defi!chainState
<1>2. DefiTypes /\ FiguresSound /\ DefiFormSound /\ AllowanceSound BY DEF DefiInv
<1>n. \A c \in defiCalls : ~(c.id > defiAsked) BY <1>2 DEF DefiTypes
<1>1. CASE UNCHANGED defiVars
  BY <1>1 DEF defiVars, DefiInv, DefiTypes, FiguresSound, DefiFormSound, AllowanceSound, AllowanceTypes, OneApproval, NoneLeft,
     Approved, Defi!Account, Defi!BusyWithMine, Defi!PositionOfChain, Defi!ToForm
<1>3. CASE Defi!Configured \/ Defi!Toggle
  <2>1. /\ UNCHANGED <<visit, form, chain, defiInput, defiQuote, defiBusy, defiDone, defiMount, stale, position, defiReads, defiCalls, defiAsked, allowance, halted, crossed>>
        /\ available' \in BOOLEAN /\ gasless' \in BOOLEAN /\ (gasless' => available') /\ (available' => Bundler)
    BY <1>2, <1>3 DEF Defi!Configured, Defi!Toggle, DefiTypes
  <2>2. DefiTypes' BY <1>2, <2>1 DEF DefiTypes
  <2> QED BY <1>2, <2>1, <2>2 DEF DefiInv, FiguresSound, DefiFormSound, AllowanceSound, AllowanceTypes, OneApproval, NoneLeft,
     Approved, Defi!Account, Defi!BusyWithMine, Defi!PositionOfChain, Defi!ToForm
<1>4. gasless \in BOOLEAN BY <1>2 DEF DefiTypes
<1>5. CASE Defi!Lend BY <1>4, <1>5, DefiCallPut DEF Defi!Lend
<1>6. CASE Defi!SendGasless BY <1>6, DefiCallPut DEF Defi!SendGasless
<1>7. CASE Defi!QuoteSwap BY <1>7, DefiCallPut DEF Defi!QuoteSwap, Defi!Quoting
<1>8. CASE Defi!QuoteBridge BY <1>8, DefiCallPut DEF Defi!QuoteBridge, Defi!Quoting
<1>9. CASE Defi!QuoteBuy BY <1>9, DefiCallPut DEF Defi!QuoteBuy, Defi!Quoting
<1>10. CASE Defi!ConfirmSwap BY <1>4, <1>10, DefiCallPut DEF Defi!ConfirmSwap
<1>11. CASE Defi!ConfirmBridge BY <1>4, <1>11, DefiCallPut DEF Defi!ConfirmBridge
<1>12. CASE Defi!ConfirmBuy BY <1>12, DefiCallPut DEF Defi!ConfirmBuy
<1>13. ASSUME NEW f \in Defi!Forms, Defi!Go(f) PROVE DefiInv'
  <2>1. /\ form' = f /\ f \in visit.forms /\ visit' = visit /\ stale' = FALSE /\ defiInput' = 0 /\ defiQuote' = Defi!Nothing /\ defiBusy' = FALSE /\ defiDone' = FALSE
        /\ defiMount' = defiAsked /\ position' = Defi!Nothing /\ Defi!Read(f, chain)
        /\ UNCHANGED <<chain, defiCalls, defiAsked, allowance, halted, crossed>>
        /\ (available' = available /\ gasless' = gasless) \/ (available' = FALSE /\ gasless' = FALSE)
    BY <1>13 DEF Defi!Go
  <2>2. available' \in BOOLEAN /\ gasless' \in BOOLEAN /\ (gasless' => available') /\ (available' => Bundler)
    <3>1. available \in BOOLEAN /\ gasless \in BOOLEAN /\ (gasless => available) /\ (available => Bundler) BY <1>2 DEF DefiTypes
    <3>2. CASE available' = available /\ gasless' = gasless BY <3>1, <3>2
    <3>3. CASE available' = FALSE /\ gasless' = FALSE BY <3>3
    <3> QED BY <2>1, <3>2, <3>3
  <2>4. DefiTypes'
    <3>1. 0 \in Defi!Entries BY DEF Defi!Entries
    <3>2. defiAsked \in Nat /\ defiMount' \in 0..defiAsked' BY <1>2, <2>1 DEF DefiTypes
    <3> QED BY <1>2, <2>1, <2>2, <3>1, <3>2 DEF DefiTypes
  <2>5. FiguresSound' BY <1>2, <2>1, ReadAgain DEF FiguresSound, Defi!PositionOfChain, DefiTypes
  <2>6. DefiFormSound' BY <1>n, <2>1 DEF DefiFormSound, Defi!BusyWithMine, Defi!ToForm
  <2>7. AllowanceSound' BY <1>2, <2>1 DEF AllowanceSound, AllowanceTypes, OneApproval, NoneLeft, Approved, Defi!Account
  <2> QED BY <2>4, <2>5, <2>6, <2>7 DEF DefiInv
<1>14. ASSUME NEW c \in Networks, Defi!SwitchChain(c) PROVE DefiInv'
  <2>1. /\ chain' = c /\ Defi!Read(form, c)
        /\ stale' = (defiBusy \/ defiQuote # Defi!Nothing)
        /\ UNCHANGED <<visit, form, available, gasless, defiInput, defiQuote, defiBusy, defiDone, defiMount, position, defiCalls, defiAsked, allowance, halted, crossed>>
    BY <1>14 DEF Defi!SwitchChain
  <2>2. DefiTypes' BY <1>2, <2>1 DEF DefiTypes
  <2>3. FiguresSound' BY <2>1, ReadAgain DEF FiguresSound, Defi!PositionOfChain
  <2>4. DefiFormSound' BY <1>2, <2>1 DEF DefiFormSound, Defi!BusyWithMine, Defi!ToForm
  <2>5. AllowanceSound' BY <1>2, <2>1 DEF AllowanceSound, AllowanceTypes, OneApproval, NoneLeft, Approved, Defi!Account
  <2> QED BY <2>2, <2>3, <2>4, <2>5 DEF DefiInv
<1>15. ASSUME NEW r \in defiReads, Defi!Figures(r) \/ Defi!NoFigures(r) PROVE DefiInv'
  <2>1. /\ defiReads' = defiReads \ {r}
        /\ \/ ~r.live /\ position' = position
           \/ r.live /\ position' = <<r.chain>>
           \/ r.live /\ position' = position /\ form # "lend"
           \/ r.live /\ position' = Defi!Nothing
        /\ UNCHANGED <<visit, form, chain, available, gasless, defiInput, defiQuote, defiBusy, defiDone, defiMount, stale, defiCalls, defiAsked, allowance, halted, crossed>>
    BY <1>15 DEF Defi!Figures, Defi!NoFigures
  <2>2. DefiTypes' BY <1>2, <2>1 DEF DefiTypes
  <2>3. FiguresSound' BY <1>2, <2>1 DEF FiguresSound, Defi!PositionOfChain
  <2>4. DefiFormSound' BY <1>2, <2>1 DEF DefiFormSound, Defi!BusyWithMine, Defi!ToForm
  <2>5. AllowanceSound' BY <1>2, <2>1 DEF AllowanceSound, AllowanceTypes, OneApproval, NoneLeft, Approved, Defi!Account
  <2> QED BY <2>2, <2>3, <2>4, <2>5 DEF DefiInv
<1>16. ASSUME NEW a \in Defi!Entries, Defi!Edit(a) PROVE DefiInv'
  <2>1. /\ defiInput' = a /\ defiQuote' = Defi!Nothing /\ stale' = defiBusy
        /\ UNCHANGED <<visit, form, chain, available, gasless, defiBusy, defiDone, defiMount, position, defiReads, defiCalls, defiAsked, allowance, halted, crossed>>
    BY <1>16 DEF Defi!Edit
  <2>2. DefiTypes' BY <1>2, <2>1 DEF DefiTypes
  <2>3. FiguresSound' BY <1>2, <2>1 DEF FiguresSound, Defi!PositionOfChain
  <2>4. DefiFormSound' BY <1>2, <2>1 DEF DefiFormSound, Defi!BusyWithMine, Defi!ToForm
  <2>5. AllowanceSound' BY <1>2, <2>1 DEF AllowanceSound, AllowanceTypes, OneApproval, NoneLeft, Approved, Defi!Account
  <2> QED BY <2>2, <2>3, <2>4, <2>5 DEF DefiInv
<1>17. ASSUME NEW c \in defiCalls, Defi!Lent(c) \/ Defi!Swapped(c) \/ Defi!SentGasless(c) PROVE DefiInv'
  <2>1. PICK k \in {"lend", "swap", "gasless"} : Defi!Run(c, k) BY <1>17 DEF Defi!Lent, Defi!Swapped, Defi!SentGasless
  <2> QED BY <2>1, DefiPlainMoves DEF Defi!Run
<1>18. ASSUME NEW c \in defiCalls, Defi!Quoted(c) \/ Defi!Widget(c) PROVE DefiInv'
  BY <1>18, DefiPlainMoves DEF Defi!Quoted, Defi!Widget
<1>19. ASSUME NEW c \in defiCalls, Defi!Approve(c) PROVE DefiInv'
  <2> DEFINE a == Defi!Account(c)
  <2>1. c \in DefiCallSet /\ a \in Defi!Payers /\ c.of \in Defi!Entries
    BY <1>2 DEF DefiTypes, DefiCallSet, Defi!Account, Defi!Payers
  <2>2. /\ Defi!Stage(c, "approved") /\ c.stage = "put" /\ allowance' = [allowance EXCEPT ![a] = c.of] /\ halted' = halted \ {a}
        /\ crossed' = IF Defi!Crosses(c) THEN crossed \cup {a} ELSE crossed \ {a}
        /\ UNCHANGED <<visit, form, chain, available, gasless, defiInput, defiQuote, defiBusy, defiDone, defiMount, stale, position, defiReads, defiAsked>>
    BY <1>19 DEF Defi!Approve, Defi!ToApprove
  <2>3. PICK d \in DefiCallSet : defiCalls' = (defiCalls \ {c}) \cup {d} /\ d.of = c.of /\ d.stage = "approved" /\ Defi!Account(d) = a
    BY <2>2, DefiCallMoves
  <2>4. DefiTypes' /\ FiguresSound' /\ DefiFormSound' BY <2>2, DefiCallMoves
  <2>5. allowance'[a] = c.of /\ \A b \in Defi!Payers : b # a => allowance'[b] = allowance[b]
    BY <1>2, <2>1, <2>2 DEF AllowanceSound, AllowanceTypes
  <2>6. \A e \in defiCalls : Defi!Account(e) \in Defi!Payers BY <1>2 DEF DefiTypes, DefiCallSet, Defi!Account, Defi!Payers
  <2>7. \A e \in defiCalls \ {c} : Approved(e) /\ Defi!Account(e) = a => a \in crossed'
    BY <2>2 DEF Defi!Crosses, Approved
  <2>8. \A b : b # a => (b \in crossed' <=> b \in crossed) /\ (b \in halted' <=> b \in halted) BY <2>2
  <2>9. AllowanceTypes' BY <1>2, <2>1, <2>2 DEF AllowanceSound, AllowanceTypes
  <2> HIDE DEF a
  <2>10. OneApproval'
    <3>1. ASSUME NEW e \in defiCalls', Approved(e) PROVE allowance'[Defi!Account(e)] = e.of \/ Defi!Account(e) \in crossed'
      <4>1. CASE e = d BY <2>3, <2>5, <4>1
      <4>2. CASE e \in defiCalls \ {c} /\ Defi!Account(e) = a BY <2>7, <3>1, <4>2
      <4>3. CASE e \in defiCalls \ {c} /\ Defi!Account(e) # a
        BY <1>2, <2>5, <2>6, <2>8, <3>1, <4>3 DEF AllowanceSound, OneApproval
      <4> QED BY <2>3, <4>1, <4>2, <4>3
    <3>2. ASSUME NEW e \in defiCalls', NEW f \in defiCalls', Approved(e), Approved(f), Defi!Account(e) = Defi!Account(f), e # f
          PROVE  Defi!Account(e) \in crossed'
      <4>1. CASE Defi!Account(e) = a BY <2>3, <2>7, <3>2, <4>1
      <4>2. CASE Defi!Account(e) # a
        <5>1. e \in defiCalls /\ f \in defiCalls BY <2>3, <3>2, <4>2
        <5> QED BY <1>2, <2>8, <3>2, <4>2, <5>1 DEF AllowanceSound, OneApproval
      <4> QED BY <4>1, <4>2
    <3> QED BY <3>1, <3>2 DEF OneApproval, Approved, Defi!Account
  <2>11. NoneLeft'
    <3> SUFFICES ASSUME NEW b \in Defi!Payers, allowance'[b] > 0
                 PROVE  b \in halted' \/ \E e \in defiCalls' : Approved(e) /\ Defi!Account(e) = b /\ allowance'[b] <= e.of
      BY DEF NoneLeft, Approved, Defi!Account
    <3>1. CASE b = a
      <4>1. c.of <= c.of BY <2>1 DEF Defi!Entries
      <4> QED BY <2>3, <2>5, <3>1, <4>1 DEF Approved
    <3>2. CASE b # a
      <4>1. allowance'[b] = allowance[b] BY <2>5, <3>2
      <4>2. CASE b \in halted BY <2>8, <3>2, <4>2
      <4>3. ASSUME NEW e \in defiCalls, Approved(e), Defi!Account(e) = b, allowance[b] <= e.of PROVE e \in defiCalls'
        BY <2>2, <2>3, <4>3 DEF Approved
      <4> QED BY <1>2, <4>1, <4>2, <4>3 DEF AllowanceSound, NoneLeft
    <3> QED BY <3>1, <3>2
  <2> QED BY <2>4, <2>9, <2>10, <2>11 DEF DefiInv, AllowanceSound
<1>22. ASSUME NEW c \in defiCalls, Defi!Bridge(c) PROVE DefiInv'
  <2> DEFINE a == Defi!Account(c)
  <2>1. c \in DefiCallSet /\ a \in Defi!Payers BY <1>2 DEF DefiTypes, DefiCallSet, Defi!Account, Defi!Payers
  <2>2. /\ Defi!Stage(c, "made") /\ c.stage = "approved" /\ allowance[a] >= c.of /\ allowance' = [allowance EXCEPT ![a] = @ - c.of]
        /\ halted' = halted /\ crossed' = crossed
        /\ UNCHANGED <<visit, form, chain, available, gasless, defiInput, defiQuote, defiBusy, defiDone, defiMount, stale, position, defiReads, defiAsked>>
    BY <1>22 DEF Defi!Bridge
  <2>3. PICK d \in DefiCallSet : defiCalls' = (defiCalls \ {c}) \cup {d} /\ d.stage = "made"
    BY <2>2, DefiCallMoves
  <2>4. DefiTypes' /\ FiguresSound' /\ DefiFormSound' BY <2>2, DefiCallMoves
  <2>5. c.of \in 0..MaxAmount /\ \A b \in Defi!Payers : allowance[b] \in 0..MaxAmount
    BY <1>2, <2>1 DEF AllowanceSound, AllowanceTypes, DefiCallSet, Defi!Entries
  <2>6. allowance'[a] = allowance[a] - c.of /\ \A b \in Defi!Payers : b # a => allowance'[b] = allowance[b]
    BY <1>2, <2>1, <2>2 DEF AllowanceSound, AllowanceTypes
  <2>7. allowance[a] - c.of \in 0..MaxAmount BY <2>1, <2>2, <2>5
  <2>8. AllowanceTypes' BY <1>2, <2>1, <2>2, <2>7 DEF AllowanceSound, AllowanceTypes, Defi!Entries
  <2> HIDE DEF a
  <2>9. \A e \in defiCalls' : Approved(e) => e \in defiCalls /\ e # c
    <3>1. ~Approved(d) BY <2>3 DEF Approved
    <3> QED BY <2>3, <3>1
  <2>10. \A e \in defiCalls : Approved(e) /\ e # c => e \in defiCalls' BY <2>3
  <2>11. Approved(c) /\ Defi!Account(c) = a BY <2>2 DEF Approved, a
  <2>12. \A e \in defiCalls : Defi!Account(e) \in Defi!Payers BY <1>2 DEF DefiTypes, DefiCallSet, Defi!Account, Defi!Payers
  <2>13. OneApproval'
    <3>1. ASSUME NEW e \in defiCalls', Approved(e) PROVE allowance'[Defi!Account(e)] = e.of \/ Defi!Account(e) \in crossed'
      <4>1. e \in defiCalls /\ e # c BY <2>9, <3>1
      <4>2. CASE Defi!Account(e) = a BY <1>2, <2>2, <2>11, <3>1, <4>1, <4>2 DEF AllowanceSound, OneApproval
      <4>3. CASE Defi!Account(e) # a BY <1>2, <2>2, <2>6, <2>12, <3>1, <4>1, <4>3 DEF AllowanceSound, OneApproval
      <4> QED BY <4>2, <4>3
    <3>2. ASSUME NEW e \in defiCalls', NEW f \in defiCalls', Approved(e), Approved(f), Defi!Account(e) = Defi!Account(f), e # f
          PROVE  Defi!Account(e) \in crossed'
      BY <1>2, <2>2, <2>9, <3>2 DEF AllowanceSound, OneApproval
    <3> QED BY <3>1, <3>2 DEF OneApproval, Approved, Defi!Account
  <2>14. NoneLeft'
    <3> SUFFICES ASSUME NEW b \in Defi!Payers, allowance'[b] > 0
                 PROVE  b \in halted' \/ \E e \in defiCalls' : Approved(e) /\ Defi!Account(e) = b /\ allowance'[b] <= e.of
      BY DEF NoneLeft, Approved, Defi!Account
    <3>1. allowance'[b] <= allowance[b] /\ allowance[b] > 0
      <4>1. CASE b = a BY <2>1, <2>5, <2>6, <4>1
      <4>2. CASE b # a BY <2>5, <2>6, <4>2
      <4> QED BY <4>1, <4>2
    <3>2. CASE b \in halted BY <2>2, <3>2
    <3>3. ASSUME NEW e \in defiCalls, Approved(e), Defi!Account(e) = b, allowance[b] <= e.of
          PROVE  e \in defiCalls' /\ allowance'[b] <= e.of
      <4>1. e.of \in Nat BY <1>2 DEF DefiTypes, DefiCallSet, Defi!Entries
      <4>2. allowance'[b] \in Nat /\ allowance[b] \in Nat BY <2>5, <2>8 DEF AllowanceTypes, Defi!Entries
      <4>3. allowance'[b] <= e.of BY <3>1, <3>3, <4>1, <4>2
      <4>4. e # c
        <5> SUFFICES ASSUME e = c PROVE FALSE OBVIOUS
        <5>1. b = a /\ allowance[a] <= c.of BY <2>11, <3>3
        <5>2. allowance[a] - c.of = 0 BY <2>1, <2>2, <2>5, <5>1
        <5> QED BY <2>6, <5>1, <5>2
      <4> QED BY <2>10, <3>3, <4>3, <4>4
    <3> QED BY <1>2, <3>1, <3>2, <3>3 DEF AllowanceSound, NoneLeft
  <2> QED BY <2>4, <2>8, <2>13, <2>14 DEF DefiInv, AllowanceSound
<1>20. ASSUME NEW c \in defiCalls, Defi!Answered(c) PROVE DefiInv'
  <2>1. /\ c.stage = "made" /\ defiCalls' = defiCalls \ {c}
        /\ UNCHANGED <<defiInput, defiMount, stale, position, defiAsked, visit, form, chain, available, gasless, allowance, halted, crossed>>
    BY <1>20 DEF Defi!Answered
  <2>2. AllowanceSound' BY <1>2, <2>1 DEF AllowanceSound, AllowanceTypes, OneApproval, NoneLeft, Approved, Defi!Account
  <2>3. CASE ~Defi!ToForm(c)
    <3>1. UNCHANGED <<defiQuote, defiBusy, defiDone, defiReads>> BY <1>20, <2>3 DEF Defi!Answered
    <3>2. DefiTypes' BY <1>2, <2>1, <3>1 DEF DefiTypes
    <3>3. FiguresSound' BY <1>2, <2>1, <3>1 DEF FiguresSound, Defi!PositionOfChain
    <3>4. DefiFormSound' BY <1>2, <2>1, <2>3, <3>1 DEF DefiFormSound, Defi!BusyWithMine, Defi!ToForm
    <3> QED BY <2>2, <3>2, <3>3, <3>4 DEF DefiInv
  <2>4. CASE Defi!ToForm(c)
    <3>1. /\ defiBusy' = FALSE /\ (c.kind = "quote" => defiQuote' = <<c.of, c.chain>>) /\ (c.kind # "quote" => defiQuote' = defiQuote)
          /\ defiDone' \in BOOLEAN
          /\ IF c.kind = "lend" THEN Defi!Read("lend", chain) ELSE UNCHANGED defiReads
      BY <1>20, <2>4 DEF Defi!Answered
    <3>2. DefiTypes' BY <1>2, <2>1, <3>1 DEF DefiTypes
    <3>3. FiguresSound'
      <4>1. CASE c.kind = "lend" BY <1>2, <2>1, <3>1, <4>1, ReadAgain DEF FiguresSound, Defi!PositionOfChain, DefiTypes
      <4>2. CASE c.kind # "lend" BY <1>2, <2>1, <3>1, <4>2 DEF FiguresSound, Defi!PositionOfChain
      <4> QED BY <4>1, <4>2
    <3>4. \A d \in defiCalls' : ~(d.id > defiMount) BY <1>2, <2>1, <2>4 DEF DefiFormSound, Defi!ToForm
    <3>6. defiQuote' # Defi!Nothing => form \in Defi!Quoting /\ (~stale => defiQuote' = <<defiInput, chain>>)
      BY <1>2, <2>1, <2>4, <3>1 DEF DefiFormSound
    <3>7. DefiFormSound' BY <2>1, <3>1, <3>4, <3>6 DEF DefiFormSound, Defi!BusyWithMine, Defi!ToForm
    <3> QED BY <2>2, <3>2, <3>3, <3>7 DEF DefiInv
  <2> QED BY <2>3, <2>4
<1>21. ASSUME NEW c \in defiCalls, Defi!Fails(c) PROVE DefiInv'
  <2>1. /\ defiCalls' = defiCalls \ {c} /\ defiBusy' = IF Defi!ToForm(c) THEN FALSE ELSE defiBusy
        /\ halted' = IF c.stage = "approved" THEN halted \cup {Defi!Account(c)} ELSE halted
        /\ UNCHANGED <<defiInput, defiQuote, defiDone, defiMount, stale, position, defiReads, defiAsked, allowance, crossed, visit, form, chain, available, gasless>>
    BY <1>21 DEF Defi!Fails, Defi!Tells
  <2>2. DefiTypes' BY <1>2, <2>1 DEF DefiTypes
  <2>3. FiguresSound' BY <1>2, <2>1 DEF FiguresSound, Defi!PositionOfChain
  <2>4. DefiFormSound' BY <1>2, <2>1 DEF DefiFormSound, Defi!BusyWithMine, Defi!ToForm
  <2>5. Defi!Account(c) \in Defi!Payers BY <1>2 DEF DefiTypes, DefiCallSet, Defi!Account, Defi!Payers
  <2>6. AllowanceTypes' BY <1>2, <2>1, <2>5 DEF AllowanceSound, AllowanceTypes
  <2>7. OneApproval' BY <1>2, <2>1 DEF AllowanceSound, OneApproval, Approved, Defi!Account
  <2>8. NoneLeft'
    <3> SUFFICES ASSUME NEW b \in Defi!Payers, allowance[b] > 0
                 PROVE  b \in halted' \/ \E e \in defiCalls' : Approved(e) /\ Defi!Account(e) = b /\ allowance[b] <= e.of
      BY <2>1 DEF NoneLeft, Approved, Defi!Account
    <3>1. CASE b \in halted BY <2>1, <3>1
    <3>2. ASSUME NEW e \in defiCalls, Approved(e), Defi!Account(e) = b, allowance[b] <= e.of
          PROVE  b \in halted' \/ e \in defiCalls'
      BY <2>1, <3>2 DEF Approved
    <3> QED BY <1>2, <3>1, <3>2 DEF AllowanceSound, NoneLeft
  <2>9. AllowanceSound' BY <2>6, <2>7, <2>8 DEF AllowanceSound
  <2> QED BY <2>2, <2>3, <2>4, <2>9 DEF DefiInv
<1> QED BY <1>1, <1>3, <1>5, <1>6, <1>7, <1>8, <1>9, <1>10, <1>11, <1>12, <1>13, <1>14, <1>15, <1>16, <1>17, <1>18, <1>19, <1>20, <1>21, <1>22
        DEF Defi!Next

-----------------------------------------------------------------------------
(* The look of the application                                             *)

AppThemes == [primary : Swatches, hover : {"warm-orange"}, palette : {"softLight", "softDark", "light", "dark"},
              muted : {"softLight", "softDark", None}, radius : Edges, mode : {"light", "dark"}]
StoreFields == {"prefs", "hex", "migrated", "brand"}
StoreTypes ==
  /\ DOMAIN lookStore = StoreFields /\ lookStore.hex \in Colours \cup {None}
  /\ lookStore.prefs = None \/ lookStore.prefs[3] \in {"light", "dark"}
AppTypes ==
  /\ lookOpen \in [LookTabs -> BOOLEAN] /\ theme \in [LookTabs -> AppThemes] /\ hex \in [LookTabs -> Colours \cup {None}]
  /\ DOMAIN lookBrand = LookTabs /\ DOMAIN draft = LookTabs /\ works \in BOOLEAN
  /\ lookChosen \in [LookTabs -> Swatches \cup {None}] /\ alone \in LookTabs \cup {None}

\* A tab that was the only one still is.
OnlyTab == alone # None => lookOpen[alone] /\ \A u \in LookTabs : lookOpen[u] => u = alone

\* What is stored is what the only tab shows, and a reset in it is what is stored.
AppKept ==
  /\ alone # None /\ works => /\ lookStore.hex = hex[alone] /\ App!Hydrated.mode = theme[alone].mode
                              /\ App!Hydrated.radius = theme[alone].radius
  /\ \A u \in LookTabs : lookOpen[u] =>
       lookBrand[u] = "goaltip" /\ (works => lookStore.brand = "goaltip" /\ lookStore.migrated)
  /\ reset /\ works => lookStore.prefs = <<"warm-orange", "rounded", "light">> /\ lookStore.hex = None /\ lookStore.migrated
AppInv == AppTypes /\ StoreTypes /\ OnlyTab /\ AppKept /\ App!DraftAgrees

LEMMA LookConstants ==
  /\ "warm-orange" \in Swatches /\ "rounded" \in Edges /\ BaseTheme \in {"warm", "cool", "institutional"}
  /\ BaseTheme = "cool" => "cool-purple" \in Swatches
  /\ BaseTheme = "institutional" => "institutional" \in Swatches /\ "soft" \in Edges
  /\ None \notin Colours /\ "" \notin Colours /\ None \notin LookTabs /\ None \notin Swatches \X Edges \X {"light", "dark"}
  /\ \A s \in LegacyStores : /\ DOMAIN s = StoreFields /\ s.hex \in Colours \cup {None}
                             /\ s.prefs = None \/ s.prefs[3] \in {"light", "dark"}
BY PagesAssumption DEF App!AppearanceAssumption, App!Modes, StoreFields

LEMMA SoftLightIs ==
  /\ App!SoftLight = [primary |-> "warm-orange", hover |-> "warm-orange", palette |-> "softLight", muted |-> "softLight",
                      radius |-> "rounded", mode |-> "light"]
  /\ App!SoftLight \in AppThemes /\ App!Initial = App!SoftLight
  /\ App!SoftLight.mode = "light" /\ App!SoftLight.radius = "rounded"
<1>1. App!SoftLight = [primary |-> "warm-orange", hover |-> "warm-orange", palette |-> "softLight", muted |-> "softLight",
                       radius |-> "rounded", mode |-> "light"]
  BY DEF App!SoftLight, App!Theme
<1>2. App!SoftLight \in AppThemes BY <1>1, LookConstants DEF AppThemes
<1>3. App!Initial = App!SoftLight BY DEF App!Initial
<1>4. App!SoftLight.mode = "light" /\ App!SoftLight.radius = "rounded" BY <1>1
<1> QED BY <1>1, <1>2, <1>3, <1>4

LEMMA SoftDarkIs ==
  App!SoftDark = [primary |-> "warm-orange", hover |-> "warm-orange", palette |-> "softDark", muted |-> "softDark",
                  radius |-> "rounded", mode |-> "dark"]
BY DEF App!SoftDark, App!Theme

\* Another colour, radius and mode keep a theme one of the application's.
LEMMA AppComposed ==
  ASSUME NEW th \in AppThemes, NEW c \in Swatches, NEW r \in Edges, NEW m \in {"light", "dark"}
  PROVE  App!Compose(th, c, r, m) \in AppThemes /\ App!Compose(th, c, r, m).radius = r /\ App!Compose(th, c, r, m).mode = m
BY DEF App!Compose, AppThemes

\* The application's surfaces keep the mode and the radius, and nothing else.
LEMMA SurfacesAre ==
  ASSUME NEW th, th.radius \in Edges, th.mode \in {"light", "dark"}, NEW h
  PROVE  /\ App!Surfaces(th, h).radius = th.radius /\ App!Surfaces(th, h).mode = th.mode
         /\ App!Surfaces(th, h).palette \in {"softLight", "softDark"}
         /\ DOMAIN App!Surfaces(th, h) = {"primary", "hover", "palette", "muted", "radius", "mode"}
         /\ App!Surfaces(th, None) \in AppThemes
<1> USE SoftLightIs, SoftDarkIs
<1>1. CASE th.mode = "dark"
  BY <1>1 DEF App!Surfaces, AppThemes
<1>2. CASE th.mode = "light"
  BY <1>2 DEF App!Surfaces, AppThemes
<1> QED BY <1>1, <1>2

LEMMA PickedIs ==
  ASSUME NEW v, DOMAIN v = {"primary", "hover", "palette", "muted", "radius", "mode"},
         NEW c, NEW r \in Edges, NEW m \in {"light", "dark"}
  PROVE  App!Surfaces(App!Compose(v, c, r, m), None) \in AppThemes
<1>1. App!Compose(v, c, r, m).radius = r /\ App!Compose(v, c, r, m).mode = m BY DEF App!Compose
<1> QED BY <1>1, SurfacesAre

\* Surfaces depend on the mode and the radius only.
LEMMA SurfacesAgree ==
  ASSUME NEW th, NEW ts, th.radius = ts.radius, th.mode = ts.mode, NEW h
  PROVE  App!Surfaces(th, h) = App!Surfaces(ts, h)
BY DEF App!Surfaces

LEMMA DerivedIs == \A th \in AppThemes : App!Derive(th) = <<th.primary, th.radius, th.mode>> /\ App!Derive(th) # None
<1> SUFFICES ASSUME NEW th \in AppThemes PROVE App!Derive(th) = <<th.primary, th.radius, th.mode>> /\ App!Derive(th) # None
  OBVIOUS
<1>1. th.primary \in Swatches /\ th.radius \in Edges /\ th.mode \in {"light", "dark"} BY DEF AppThemes
<1>2. App!Derive(th) = <<th.primary, th.radius, th.mode>> BY <1>1 DEF App!Derive
<1>3. <<th.primary, th.radius, th.mode>> \in Swatches \X Edges \X {"light", "dark"} BY <1>1
<1> QED BY <1>2, <1>3, LookConstants

LEMMA HydratedIs == ASSUME StoreTypes PROVE App!Hydrated \in AppThemes
<1> USE SoftLightIs
<1>1. CASE works /\ lookStore.prefs # None /\ lookStore.prefs[1] \in Swatches /\ lookStore.prefs[2] \in Edges
  <2>1. App!Hydrated = App!Compose(App!SoftLight, lookStore.prefs[1], lookStore.prefs[2], lookStore.prefs[3])
    BY <1>1 DEF App!Hydrated, App!Apply
  <2> QED BY <1>1, <2>1, AppComposed DEF StoreTypes
<1>2. CASE ~(works /\ lookStore.prefs # None /\ lookStore.prefs[1] \in Swatches /\ lookStore.prefs[2] \in Edges)
  BY <1>2 DEF App!Hydrated, App!Apply
<1> QED BY <1>1, <1>2

LEMMA ResetPrefs ==
  ASSUME NEW p, p = <<"warm-orange", "rounded", "light">>
  PROVE  /\ p # None /\ p[1] = "warm-orange" /\ p[2] = "rounded" /\ p[3] = "light"
         /\ p[1] \in Swatches /\ p[2] \in Edges
<1>1. "warm-orange" \in Swatches /\ "rounded" \in Edges /\ "light" \in {"light", "dark"} BY LookConstants
<1>2. p \in Swatches \X Edges \X {"light", "dark"} BY <1>1
<1>3. p # None BY <1>2, LookConstants
<1> QED BY <1>1, <1>3

\* A theme that was stored is read again.
LEMMA AppRemembers ==
  ASSUME NEW th \in AppThemes, works', lookStore'.prefs = <<th.primary, th.radius, th.mode>>
  PROVE  /\ App!Hydrated'.mode = th.mode /\ App!Hydrated'.radius = th.radius
         /\ lookStore'.prefs # None /\ lookStore'.prefs[3] \in {"light", "dark"}
<1>1. /\ th.primary \in Swatches /\ th.radius \in Edges /\ th.mode \in {"light", "dark"}
      /\ lookStore'.prefs[1] = th.primary /\ lookStore'.prefs[2] = th.radius /\ lookStore'.prefs[3] = th.mode
  BY DEF AppThemes
<1>2. lookStore'.prefs # None BY DerivedIs
<1>3. App!Hydrated' = App!Compose(App!SoftLight, th.primary, th.radius, th.mode)
  BY <1>1, <1>2, SoftLightIs DEF App!Hydrated, App!Apply
<1> QED BY <1>1, <1>2, <1>3, SoftLightIs, AppComposed

LEMMA HydratedStays ==
  ASSUME works' = works, lookStore'.prefs = lookStore.prefs
  PROVE  App!Hydrated' = App!Hydrated
<1>1. CASE works /\ lookStore.prefs # None
  BY <1>1 DEF App!Hydrated
<1>2. CASE ~(works /\ lookStore.prefs # None)
  BY <1>2 DEF App!Hydrated
<1> QED BY <1>1, <1>2

LEMMA AppShows ==
  ASSUME AppInv
  PROVE  App!TypeOK /\ App!VisitIsSame /\ App!DraftAgrees /\ App!OldVisitsAreForgotten /\ App!ResetStands
<1> USE SoftLightIs
<1>0. \A t \in LookTabs : theme[t] \in AppThemes /\ theme[t].radius \in Edges /\ theme[t].mode \in {"light", "dark"}
  BY DEF AppInv, AppTypes, AppThemes
<1>1. App!TypeOK BY <1>0 DEF AppInv, AppTypes, StoreTypes, App!TypeOK, App!Modes
<1>2. App!VisitIsSame
  <2>1. SUFFICES ASSUME alone # None, works
                 PROVE  App!Effective(App!Hydrated, App!HydratedHex) = App!Shown(alone)
    BY DEF App!VisitIsSame
  <2>2. App!HydratedHex = hex[alone] /\ App!Hydrated.mode = theme[alone].mode /\ App!Hydrated.radius = theme[alone].radius
    BY <2>1 DEF AppInv, AppKept, App!HydratedHex
  <2> QED BY <2>2, SurfacesAgree DEF App!Effective, App!Shown
<1>3. App!OldVisitsAreForgotten
  <2>1. \A t \in LookTabs : App!Shown(t).palette \in {"softLight", "softDark"}
    BY <1>0, SurfacesAre DEF App!Shown, App!Effective
  <2> QED BY <2>1 DEF App!OldVisitsAreForgotten, AppInv, AppKept, App!Template
<1>4. App!ResetStands
  <2>1. SUFFICES ASSUME reset, works PROVE App!Effective(App!Hydrated, App!HydratedHex) = App!SoftLight
    BY DEF App!ResetStands
  <2>2. lookStore.prefs = <<"warm-orange", "rounded", "light">> /\ lookStore.hex = None
    BY <2>1 DEF AppInv, AppKept
  <2>3. lookStore.prefs # None /\ lookStore.prefs[1] = "warm-orange" /\ lookStore.prefs[2] = "rounded" /\ lookStore.prefs[3] = "light"
    BY <2>2, ResetPrefs
  <2>4. App!Hydrated = App!Compose(App!SoftLight, "warm-orange", "rounded", "light")
    BY <2>1, <2>3, LookConstants DEF App!Hydrated, App!Apply
  <2>5. App!Hydrated.radius = "rounded" /\ App!Hydrated.mode = "light" BY <2>4 DEF App!Compose
  <2>6. App!Surfaces(App!Hydrated, None) = App!Surfaces(App!SoftLight, None) BY <2>5, SurfacesAgree
  <2>7. App!Surfaces(App!SoftLight, None) = App!SoftLight BY DEF App!Surfaces
  <2> QED BY <2>1, <2>2, <2>6, <2>7 DEF App!Effective, App!HydratedHex
<1> QED BY <1>1, <1>2, <1>3, <1>4 DEF AppInv

LEMMA InitAppInv == App!Init => AppInv
<1> SUFFICES ASSUME App!Init PROVE AppInv OBVIOUS
<1>1. AppTypes BY SoftLightIs DEF App!Init, AppTypes
<1>2. StoreTypes BY LookConstants DEF App!Init, StoreTypes
<1>3. OnlyTab /\ AppKept BY DEF App!Init, AppKept, OnlyTab
<1>4. App!DraftAgrees BY DEF App!Init, App!DraftAgrees
<1> QED BY <1>1, <1>2, <1>3, <1>4 DEF AppInv

\* The theme is set to one whose surfaces are the application's.
LEMMA AppThemeSet ==
  ASSUME AppInv, NEW t \in LookTabs, NEW th, App!Surfaces(th, None) \in AppThemes, App!SetTheme(t, th),
         lookChosen' \in [LookTabs -> Swatches \cup {None}]
  PROVE  AppInv'
<1> DEFINE next == App!Surfaces(th, None)
<1>1. /\ lookOpen[t] /\ theme' = [theme EXCEPT ![t] = next] /\ hex' = [hex EXCEPT ![t] = hex[t]]
      /\ lookStore' = (IF works THEN [lookStore EXCEPT !.prefs = App!SavedPrefs(next)] ELSE lookStore)
      /\ reset' = FALSE /\ UNCHANGED <<lookOpen, lookBrand, works, draft, alone>>
  BY DEF App!SetTheme, App!Show
<1> HIDE DEF next
<1>2. next \in AppThemes BY DEF next
<1>3. theme'[t] = next /\ theme' \in [LookTabs -> AppThemes] /\ hex' = hex
  BY <1>1, <1>2 DEF AppInv, AppTypes
<1>8. OnlyTab' /\ (alone' # None => alone' = t) BY <1>1 DEF AppInv, OnlyTab
<1>4. AppTypes' BY <1>1, <1>3 DEF AppInv, AppTypes
<1>5. App!DraftAgrees' BY <1>1, <1>3 DEF AppInv, App!DraftAgrees
<1>6. CASE ~works
  <2>1. StoreTypes' BY <1>1, <1>6 DEF AppInv, StoreTypes
  <2>2. AppKept' BY <1>1, <1>6 DEF AppInv, AppKept
  <2> QED BY <1>4, <1>5, <1>8, <2>1, <2>2 DEF AppInv
<1>7. CASE works
  <2>1. App!SavedPrefs(next) = <<next.primary, next.radius, next.mode>> BY <1>2, DerivedIs DEF App!SavedPrefs
  <2>2. /\ lookStore'.prefs = <<next.primary, next.radius, next.mode>> /\ DOMAIN lookStore' = StoreFields
        /\ lookStore'.hex = lookStore.hex /\ lookStore'.brand = lookStore.brand /\ lookStore'.migrated = lookStore.migrated
    BY <1>1, <1>7, <2>1 DEF AppInv, StoreTypes, StoreFields
  <2>3. works' BY <1>1, <1>7
  <2>4. App!Hydrated'.mode = next.mode /\ App!Hydrated'.radius = next.radius /\ lookStore'.prefs[3] \in {"light", "dark"}
    BY <1>2, <2>2, <2>3, AppRemembers
  <2>5. StoreTypes' BY <2>2, <2>4 DEF AppInv, StoreTypes
  <2>6. AppKept'
    <3>1. alone' # None /\ works' => /\ lookStore'.hex = hex'[alone'] /\ App!Hydrated'.mode = theme'[alone'].mode
                                    /\ App!Hydrated'.radius = theme'[alone'].radius
      BY <1>1, <1>3, <1>7, <1>8, <2>2, <2>4 DEF AppInv, AppKept
    <3> QED BY <1>1, <1>7, <2>2, <3>1 DEF AppInv, AppKept
  <2> QED BY <1>4, <1>5, <1>8, <2>5, <2>6 DEF AppInv
<1> QED BY <1>6, <1>7 DEF AppInv, AppTypes

\* The custom colour is set, and the hex box tells it.
LEMMA AppHexSet ==
  ASSUME AppInv, NEW t \in LookTabs, NEW h \in Colours \cup {None}, NEW text, App!SetHex(t, h, text), reset' = FALSE,
         lookChosen' \in [LookTabs -> Swatches \cup {None}],
         h = hex[t] => IF text \in Colours THEN h = text ELSE text = "" => h = None
  PROVE  AppInv'
<1>1. /\ lookOpen[t] /\ theme' = [theme EXCEPT ![t] = theme[t]] /\ hex' = [hex EXCEPT ![t] = h]
      /\ lookStore' = (IF works /\ h # hex[t] THEN [lookStore EXCEPT !.hex = h] ELSE lookStore)
      /\ draft' = [draft EXCEPT ![t] = IF h # hex[t] THEN (IF h = None THEN "" ELSE h) ELSE text]
      /\ UNCHANGED <<lookOpen, lookBrand, works, alone>>
  BY DEF App!SetHex, App!Show
<1>2. theme' = theme /\ hex'[t] = h /\ hex' \in [LookTabs -> Colours \cup {None}]
  BY <1>1 DEF AppInv, AppTypes
<1>3. draft'[t] = (IF h # hex[t] THEN (IF h = None THEN "" ELSE h) ELSE text) /\ DOMAIN draft' = LookTabs
  BY <1>1 DEF AppInv, AppTypes
<1>4. AppTypes' BY <1>1, <1>2, <1>3 DEF AppInv, AppTypes
<1>5. App!DraftAgrees'
  <2>1. \A u \in LookTabs : u # t => hex'[u] = hex[u] /\ draft'[u] = draft[u] BY <1>1 DEF AppInv, AppTypes
  <2>2. IF draft'[t] \in Colours THEN hex'[t] = draft'[t] ELSE draft'[t] = "" => hex'[t] = None BY <1>2, <1>3, LookConstants
  <2> QED BY <1>1, <2>1, <2>2 DEF AppInv, App!DraftAgrees
<1>10. OnlyTab' /\ (alone' # None => alone' = t) BY <1>1 DEF AppInv, OnlyTab
<1>6. /\ lookStore'.prefs = lookStore.prefs /\ DOMAIN lookStore' = StoreFields
      /\ lookStore'.brand = lookStore.brand /\ lookStore'.migrated = lookStore.migrated
      /\ lookStore'.hex \in Colours \cup {None} /\ (works /\ alone # None => lookStore'.hex = h)
  BY <1>1, <1>10 DEF AppInv, StoreTypes, StoreFields, AppKept
<1>7. App!Hydrated' = App!Hydrated BY <1>1, <1>6, HydratedStays
<1>8. StoreTypes' BY <1>6 DEF AppInv, StoreTypes
<1>9. AppKept'
  <2>1. alone' # None /\ works' => /\ lookStore'.hex = hex'[alone'] /\ App!Hydrated'.mode = theme'[alone'].mode
                                  /\ App!Hydrated'.radius = theme'[alone'].radius
    BY <1>1, <1>2, <1>6, <1>7, <1>10 DEF AppInv, AppKept
  <2> QED BY <1>1, <1>6, <2>1 DEF AppInv, AppKept
<1> QED BY <1>4, <1>5, <1>8, <1>9, <1>10 DEF AppInv

\* A step of a tab of the application.
AppStep(t) ==
  \/ App!Open(t) \/ App!Close(t) \/ App!ResetHex(t) \/ App!ResetSoftLight(t)
  \/ \E c \in Swatches : App!PickSwatch(t, c)
  \/ \E e \in Edges : App!PickEdge(t, e)
  \/ \E m \in {"light", "dark"} : App!PickMode(t, m)
  \/ \E x \in ColourTexts : App!TypeHex(t, x)

LEMMA AppStepKeeps == ASSUME AppInv, NEW t \in LookTabs, AppStep(t) PROVE AppInv'
<1> USE SoftLightIs, LookConstants
<1>0. theme[t] \in AppThemes /\ theme[t].radius \in Edges /\ theme[t].mode \in {"light", "dark"}
  BY DEF AppInv, AppTypes, AppThemes
<1>2. CASE App!Open(t)
  <2> DEFINE th == App!MigratedTheme  h == App!MigratedHex
  <2>1. th \in AppThemes BY HydratedIs DEF App!MigratedTheme, AppInv
  <2>2. h \in Colours \cup {None} BY DEF App!MigratedHex, App!HydratedHex, AppInv, StoreTypes
  <2>3. /\ lookOpen' = [lookOpen EXCEPT ![t] = TRUE] /\ theme' = [theme EXCEPT ![t] = th]
        /\ hex' = [hex EXCEPT ![t] = h] /\ draft' = [draft EXCEPT ![t] = IF h = None THEN "" ELSE h]
        /\ lookBrand' = [lookBrand EXCEPT ![t] = App!BrandShown]
        /\ lookStore' = (IF works THEN [prefs |-> App!SavedPrefs(th), hex |-> h, migrated |-> TRUE, brand |-> App!BrandShown]
                         ELSE lookStore)
        /\ lookChosen' = [lookChosen EXCEPT ![t] = None] /\ UNCHANGED <<works, reset>>
        /\ alone' = (IF \E u \in LookTabs : lookOpen[u] THEN None ELSE t)
    BY <1>2 DEF App!Open
  <2>4. App!BrandShown = "goaltip" BY DEF App!BrandShown, App!Template
  <2>5. reset /\ works => h = None /\ th.primary = "warm-orange" /\ th.radius = "rounded" /\ th.mode = "light"
    <3> SUFFICES ASSUME reset, works PROVE h = None /\ th.primary = "warm-orange" /\ th.radius = "rounded" /\ th.mode = "light"
      OBVIOUS
    <3>1. lookStore.prefs = <<"warm-orange", "rounded", "light">> /\ lookStore.hex = None /\ lookStore.migrated BY DEF AppInv, AppKept
    <3>4. /\ lookStore.prefs # None /\ lookStore.prefs[1] = "warm-orange" /\ lookStore.prefs[2] = "rounded"
          /\ lookStore.prefs[3] = "light"
      BY <3>1, ResetPrefs
    <3>3. th = App!Compose(App!SoftLight, "warm-orange", "rounded", "light")
      BY <3>1, <3>4 DEF App!MigratedTheme, App!Hydrated, App!Apply
    <3> QED BY <3>1, <3>3 DEF App!MigratedHex, App!HydratedHex, App!Compose
  <2> HIDE DEF th, h
  <2>6. /\ theme'[t] = th /\ hex'[t] = h /\ draft'[t] = (IF h = None THEN "" ELSE h) /\ lookBrand'[t] = "goaltip"
        /\ lookOpen'[t] = TRUE
    BY <2>3, <2>4 DEF AppInv, AppTypes
  <2>11. \A u \in LookTabs : u # t => lookOpen'[u] = lookOpen[u] /\ hex'[u] = hex[u] /\ draft'[u] = draft[u] /\ lookBrand'[u] = lookBrand[u]
    BY <2>3 DEF AppInv, AppTypes
  <2>12. OnlyTab' /\ (alone' # None => alone' = t) BY <2>3, <2>6, <2>11 DEF OnlyTab
  <2>7. AppTypes' BY <2>1, <2>2, <2>3 DEF AppInv, AppTypes
  <2>8. App!DraftAgrees'
    <3>1. IF draft'[t] \in Colours THEN hex'[t] = draft'[t] ELSE draft'[t] = "" => hex'[t] = None BY <2>2, <2>6
    <3> QED BY <2>11, <3>1 DEF AppInv, App!DraftAgrees
  <2>9. CASE ~works
    <3>1. StoreTypes' BY <2>3, <2>9 DEF AppInv, StoreTypes
    <3>2. lookStore' = lookStore /\ ~works' /\ reset' = reset BY <2>3, <2>9
    <3>3. \A u \in LookTabs : lookOpen'[u] => lookBrand'[u] = "goaltip" BY <2>6, <2>11 DEF AppInv, AppKept
    <3>4. AppKept' BY <3>2, <3>3 DEF AppKept
    <3> QED BY <2>7, <2>8, <2>12, <3>1, <3>4 DEF AppInv
  <2>10. CASE works
    <3>1. App!SavedPrefs(th) = <<th.primary, th.radius, th.mode>> BY <2>1, DerivedIs DEF App!SavedPrefs
    <3>2. /\ lookStore'.prefs = <<th.primary, th.radius, th.mode>> /\ DOMAIN lookStore' = StoreFields
          /\ lookStore'.hex = h /\ lookStore'.brand = "goaltip" /\ lookStore'.migrated
      BY <2>3, <2>4, <2>10, <3>1 DEF StoreFields
    <3>3. works' BY <2>3, <2>10
    <3>4. App!Hydrated'.mode = th.mode /\ App!Hydrated'.radius = th.radius /\ lookStore'.prefs[3] \in {"light", "dark"}
      BY <2>1, <3>2, <3>3, AppRemembers
    <3>5. StoreTypes' BY <2>2, <3>2, <3>4 DEF StoreTypes
    <3>6. AppKept'
      <4>1. alone' # None => /\ lookStore'.hex = hex'[alone'] /\ App!Hydrated'.mode = theme'[alone'].mode
                            /\ App!Hydrated'.radius = theme'[alone'].radius
        BY <2>6, <2>12, <3>2, <3>4
      <4>2. \A u \in LookTabs : lookOpen'[u] => lookBrand'[u] = "goaltip" BY <2>6, <2>11 DEF AppInv, AppKept
      <4>3. reset' => lookStore'.prefs = <<"warm-orange", "rounded", "light">> /\ lookStore'.hex = None /\ lookStore'.migrated
        BY <2>3, <2>5, <2>10, <3>2
      <4> QED BY <3>2, <3>3, <4>1, <4>2, <4>3 DEF AppKept
    <3> QED BY <2>7, <2>8, <2>12, <3>5, <3>6 DEF AppInv
  <2> QED BY <2>9, <2>10 DEF AppInv, AppTypes
<1>3. CASE App!Close(t)
  <2>1. /\ lookOpen' = [lookOpen EXCEPT ![t] = FALSE] /\ theme' = [theme EXCEPT ![t] = App!SoftLight]
        /\ hex' = [hex EXCEPT ![t] = None] /\ lookBrand' = [lookBrand EXCEPT ![t] = "goaltip"]
        /\ draft' = [draft EXCEPT ![t] = ""] /\ lookChosen' = [lookChosen EXCEPT ![t] = None]
        /\ alone' = None /\ UNCHANGED <<lookStore, works, reset>>
    BY <1>3 DEF App!Close, App!Template
  <2>2. lookOpen'[t] = FALSE /\ lookOpen' \in [LookTabs -> BOOLEAN] BY <2>1 DEF AppInv, AppTypes
  <2>3. \A u \in LookTabs : u # t => lookOpen'[u] = lookOpen[u] /\ hex'[u] = hex[u] /\ draft'[u] = draft[u] /\ lookBrand'[u] = lookBrand[u]
    BY <2>1 DEF AppInv, AppTypes
  <2>4. AppTypes' BY <2>1, <2>2 DEF AppInv, AppTypes
  <2>5. OnlyTab' BY <2>1 DEF OnlyTab
  <2>6. AppKept' BY <2>1, <2>2, <2>3 DEF AppInv, AppKept
  <2>7. App!DraftAgrees'
    <3> SUFFICES ASSUME NEW u \in LookTabs, lookOpen'[u]
                 PROVE  IF draft'[u] \in Colours THEN hex'[u] = draft'[u] ELSE draft'[u] = "" => hex'[u] = None
      BY DEF App!DraftAgrees
    <3>1. u # t /\ lookOpen[u] BY <2>2, <2>3
    <3>2. hex'[u] = hex[u] /\ draft'[u] = draft[u] BY <2>3, <3>1
    <3>3. IF draft[u] \in Colours THEN hex[u] = draft[u] ELSE draft[u] = "" => hex[u] = None
      BY <3>1 DEF AppInv, App!DraftAgrees
    <3> QED BY <3>2, <3>3
  <2>8. StoreTypes' BY <2>1 DEF AppInv, StoreTypes
  <2> QED BY <2>4, <2>5, <2>6, <2>7, <2>8 DEF AppInv
<1>4. CASE App!ResetHex(t)
  <2>1. App!SetHex(t, None, draft[t]) /\ hex[t] # None /\ lookChosen' = [lookChosen EXCEPT ![t] = None] /\ reset' = FALSE
    BY <1>4 DEF App!ResetHex
  <2>2. lookChosen' \in [LookTabs -> Swatches \cup {None}] BY <2>1 DEF AppInv, AppTypes
  <2> QED BY <2>1, <2>2, AppHexSet
<1>5. CASE App!ResetSoftLight(t)
  <2>1. /\ lookOpen[t] /\ theme' = [theme EXCEPT ![t] = App!SoftLight] /\ hex' = [hex EXCEPT ![t] = None]
        /\ draft' = [draft EXCEPT ![t] = ""] /\ lookChosen' = [lookChosen EXCEPT ![t] = None]
        /\ lookStore' = (IF works THEN [prefs |-> App!Derive(App!SoftLight), hex |-> IF hex[t] # None THEN None ELSE lookStore.hex,
                                        migrated |-> TRUE, brand |-> "goaltip"] ELSE lookStore)
        /\ reset' = (t = alone) /\ UNCHANGED <<lookOpen, lookBrand, works, alone>>
    BY <1>5 DEF App!ResetSoftLight, App!Show, App!Template
  <2>7. OnlyTab' /\ (alone' # None => alone' = t) BY <2>1 DEF AppInv, OnlyTab
  <2>8. \A u \in LookTabs : u # t => hex'[u] = hex[u] /\ draft'[u] = draft[u] BY <2>1 DEF AppInv, AppTypes
  <2>2. theme'[t] = App!SoftLight /\ hex'[t] = None /\ draft'[t] = "" BY <2>1 DEF AppInv, AppTypes
  <2>3. AppTypes' BY <2>1 DEF AppInv, AppTypes
  <2>4. App!DraftAgrees'
    <3>1. IF draft'[t] \in Colours THEN hex'[t] = draft'[t] ELSE draft'[t] = "" => hex'[t] = None BY <2>2
    <3> QED BY <2>1, <2>8, <3>1 DEF AppInv, App!DraftAgrees
  <2>5. CASE ~works
    <3>1. StoreTypes' BY <2>1, <2>5 DEF AppInv, StoreTypes
    <3>2. AppKept' BY <2>1, <2>5 DEF AppInv, AppKept
    <3> QED BY <2>3, <2>4, <2>7, <3>1, <3>2 DEF AppInv
  <2>6. CASE works
    <3>1. App!Derive(App!SoftLight) = <<"warm-orange", "rounded", "light">> BY DerivedIs
    <3>2. alone # None => lookStore.hex = hex[t] BY <2>1, <2>6, <2>7 DEF AppInv, AppKept
    <3>3. /\ lookStore'.prefs = <<"warm-orange", "rounded", "light">> /\ DOMAIN lookStore' = StoreFields
          /\ lookStore'.hex = (IF hex[t] # None THEN None ELSE lookStore.hex) /\ lookStore'.brand = "goaltip" /\ lookStore'.migrated
      BY <2>1, <2>6, <3>1 DEF StoreFields
    <3>4. works' BY <2>1, <2>6
    <3>5. App!Hydrated'.mode = "light" /\ App!Hydrated'.radius = "rounded" /\ lookStore'.prefs[3] \in {"light", "dark"}
      BY <3>3, <3>4, AppRemembers
    <3>6. StoreTypes' BY <3>3, <3>5 DEF AppInv, StoreTypes
    <3>7. theme'[t].mode = "light" /\ theme'[t].radius = "rounded"
      <4> HIDE SoftLightIs, LookConstants
      <4>1. App!SoftLight.mode = "light" /\ App!SoftLight.radius = "rounded" BY SoftLightIs
      <4> QED BY <2>2, <4>1
    <3>8. \A u \in LookTabs : lookOpen'[u] => lookBrand'[u] = "goaltip" BY <2>1 DEF AppInv, AppKept
    <3>9. alone # None => lookStore'.hex = None BY <3>2, <3>3
    <3>10. reset' => alone # None BY <2>1
    <3>11. alone' # None => /\ lookStore'.hex = hex'[alone'] /\ App!Hydrated'.mode = theme'[alone'].mode
                           /\ App!Hydrated'.radius = theme'[alone'].radius
      BY <2>1, <2>2, <2>7, <3>5, <3>7, <3>9
    <3>12. AppKept' BY <3>3, <3>8, <3>9, <3>10, <3>11 DEF AppKept
    <3> QED BY <2>3, <2>4, <2>7, <3>6, <3>12 DEF AppInv
  <2> QED BY <2>5, <2>6 DEF AppInv, AppTypes
<1>6. DOMAIN App!Value(t) = {"primary", "hover", "palette", "muted", "radius", "mode"}
      /\ App!Value(t).radius \in Edges /\ App!Value(t).mode \in {"light", "dark"}
  BY <1>0, SurfacesAre DEF App!Value, App!Shown, App!Effective
<1>7. ASSUME NEW c \in Swatches, App!PickSwatch(t, c) PROVE AppInv'
  <2>1. lookChosen' \in [LookTabs -> Swatches \cup {None}] BY <1>7 DEF App!PickSwatch, AppInv, AppTypes
  <2>2. App!SetTheme(t, App!Compose(App!Value(t), c, App!Value(t).radius, App!Value(t).mode)) BY <1>7 DEF App!PickSwatch
  <2> QED BY <1>6, <2>1, <2>2, PickedIs, AppThemeSet
<1>8. ASSUME NEW e \in Edges, App!PickEdge(t, e) PROVE AppInv'
  <2>1. lookChosen' \in [LookTabs -> Swatches \cup {None}] BY <1>8 DEF App!PickEdge, AppInv, AppTypes
  <2>2. App!SetTheme(t, App!Compose(App!Value(t), App!Value(t).primary, e, App!Value(t).mode)) BY <1>8 DEF App!PickEdge
  <2> QED BY <1>6, <2>1, <2>2, PickedIs, AppThemeSet
<1>9. ASSUME NEW m \in {"light", "dark"}, App!PickMode(t, m) PROVE AppInv'
  <2>1. lookChosen' \in [LookTabs -> Swatches \cup {None}] BY <1>9 DEF App!PickMode, AppInv, AppTypes
  <2>2. App!SetTheme(t, App!Compose(App!Value(t), App!Value(t).primary, App!Value(t).radius, m)) BY <1>9 DEF App!PickMode
  <2> QED BY <1>6, <2>1, <2>2, PickedIs, AppThemeSet
<1>10. ASSUME NEW x \in ColourTexts, App!TypeHex(t, x) PROVE AppInv'
  <2> DEFINE h == App!Committed(t, x)
  <2>1. /\ App!SetHex(t, h, x) /\ reset' = FALSE
        /\ lookChosen' = [lookChosen EXCEPT ![t] = IF hex'[t] # hex[t] THEN None ELSE @]
    BY <1>10 DEF App!TypeHex
  <2>2. lookChosen' \in [LookTabs -> Swatches \cup {None}] BY <2>1 DEF AppInv, AppTypes
  <2>3. h \in Colours \cup {None} /\ IF x \in Colours THEN h = x ELSE x = "" => h = None
    BY DEF App!Committed, AppInv, AppTypes
  <2> HIDE DEF h
  <2> QED BY <2>1, <2>2, <2>3, AppHexSet
<1> QED BY <1>2, <1>3, <1>4, <1>5, <1>7, <1>8, <1>9, <1>10 DEF AppStep

LEMMA AppKeeps == ASSUME AppInv, [App!Next]_lookVars PROVE AppInv'
<1>1. CASE UNCHANGED lookVars
  BY <1>1 DEF lookVars, AppInv, AppTypes, StoreTypes, OnlyTab, AppKept, App!DraftAgrees, App!Hydrated
<1>2. CASE App!Next
  <2>1. \A t, b : ~App!UseTheme(t, b) BY DEF App!UseTheme
  <2>2. \E t \in LookTabs : AppStep(t) BY <1>2, <2>1 DEF App!Next, App!Modes, AppStep
  <2> QED BY <2>2, AppStepKeeps
<1> QED BY <1>1, <1>2

-----------------------------------------------------------------------------
(* The theme picker of the library                                         *)

PickThemes == [primary : Swatches, hover : Swatches \cup {None}, palette : {"warm", "cool", "institutional", "light", "dark"},
               muted : {"warm", "cool", "institutional", None}, radius : Edges \cup {Picker!Initial.radius}, mode : {"light", "dark"}]
PickPrefs == Swatches \X Edges \X {"light", "dark"}
PickerTypes ==
  /\ lookOpen \in [LookTabs -> BOOLEAN] /\ theme \in [LookTabs -> PickThemes] /\ hex \in [LookTabs -> Colours \cup {None}]
  /\ DOMAIN lookPage = LookTabs /\ works \in BOOLEAN /\ lookChosen \in [LookTabs -> Swatches \cup {None}]
  /\ alone \in LookTabs \cup {None}
PickStore ==
  /\ DOMAIN lookStore = StoreFields /\ lookStore.hex \in Colours \cup {None} /\ lookStore.prefs \in PickPrefs \cup {None}

\* A theme has borders for its surfaces and the swatch that was picked, and
\* that of the only tab is what is stored, when its edges are a style.
PickerKept ==
  /\ \A u \in LookTabs : /\ theme[u].muted \in {None, theme[u].palette}
                         /\ lookChosen[u] # None => theme[u].primary = lookChosen[u]
  /\ alone # None /\ works =>
       /\ lookStore.hex = hex[alone]
       /\ theme[alone].radius \in Edges => lookStore.prefs = <<theme[alone].primary, theme[alone].radius, theme[alone].mode>>
PickerInv == PickerTypes /\ PickStore /\ OnlyTab /\ PickerKept /\ Picker!PageIsTheme

\* Each of the example's initial themes.
LEMMA BaseIs ==
  LET i == Picker!Initial IN
  /\ DOMAIN i = {"primary", "hover", "palette", "muted", "radius", "mode"}
  /\ i \in PickThemes /\ i.muted = i.palette /\ [i EXCEPT !.hover = None] \in PickThemes
<1> DEFINE i == Picker!Initial
<1>1. CASE BaseTheme = "warm"
  <2>1. i = [primary |-> "warm-orange", hover |-> "warm-orange", palette |-> "warm", muted |-> "warm", radius |-> "other", mode |-> "dark"]
    BY <1>1 DEF Picker!Initial, Picker!Warm, Picker!Theme
  <2> HIDE DEF i
  <2>2. Picker!Initial.radius = "other" BY <2>1 DEF i
  <2>3. i \in PickThemes /\ [i EXCEPT !.hover = None] \in PickThemes BY <2>1, <2>2, LookConstants DEF PickThemes
  <2> QED BY <2>1, <2>3 DEF i
<1>2. CASE BaseTheme = "cool"
  <2>1. i = [primary |-> "cool-purple", hover |-> "cool-purple", palette |-> "cool", muted |-> "cool", radius |-> "rounded", mode |-> "dark"]
    BY <1>2 DEF Picker!Initial, Picker!CoolDark, Picker!Theme
  <2>2. "cool-purple" \in Swatches BY <1>2, LookConstants
  <2> HIDE DEF i
  <2>3. Picker!Initial.radius = "rounded" BY <2>1 DEF i
  <2>4. i \in PickThemes /\ [i EXCEPT !.hover = None] \in PickThemes BY <2>1, <2>2, <2>3, LookConstants DEF PickThemes
  <2> QED BY <2>1, <2>4 DEF i
<1>3. CASE BaseTheme = "institutional"
  <2>1. i = [primary |-> "institutional", hover |-> "institutional", palette |-> "institutional", muted |-> "institutional",
             radius |-> "soft", mode |-> "light"]
    BY <1>3 DEF Picker!Initial, Picker!Institutional, Picker!Theme
  <2>2. "institutional" \in Swatches BY <1>3, LookConstants
  <2> HIDE DEF i
  <2>3. Picker!Initial.radius = "soft" BY <2>1 DEF i
  <2>4. i \in PickThemes /\ [i EXCEPT !.hover = None] \in PickThemes BY <2>1, <2>2, <2>3, LookConstants DEF PickThemes
  <2> QED BY <2>1, <2>4 DEF i
<1> QED BY <1>1, <1>2, <1>3, LookConstants

LEMMA PickComposed ==
  ASSUME NEW th \in PickThemes, NEW c, NEW r \in Edges \cup {Picker!Initial.radius}, NEW m \in {"light", "dark"}
  PROVE  LET next == Picker!Compose(th, c, r, m) IN
         /\ c \in Swatches => next \in PickThemes
         /\ next.primary = c /\ next.radius = r /\ next.mode = m /\ next.palette = m /\ next.muted = None
         /\ DOMAIN next = {"primary", "hover", "palette", "muted", "radius", "mode"}
BY DEF Picker!Compose, PickThemes

\* The provider leaves nothing of the theme before.
LEMMA InjectIs ==
  ASSUME NEW old, NEW new PROVE Picker!Inject(Picker!CssVariables(old), old, new) = Picker!CssVariables(new)
<1> DEFINE before == Picker!CssVariables(old)  after == Picker!CssVariables(new)
<1>1. after = [v \in DOMAIN after |-> after[v]] BY DEF Picker!CssVariables
<1> HIDE DEF before, after
<1>2. DOMAIN after \cup (DOMAIN before \ DOMAIN before) = DOMAIN after OBVIOUS
<1>3. Picker!Inject(before, old, new) = [v \in DOMAIN after |-> IF v \in DOMAIN after THEN after[v] ELSE before[v]]
  BY <1>2 DEF Picker!Inject, before, after
<1>4. [v \in DOMAIN after |-> IF v \in DOMAIN after THEN after[v] ELSE before[v]] = [v \in DOMAIN after |-> after[v]] OBVIOUS
<1> QED BY <1>1, <1>3, <1>4 DEF before, after

\* What is stored of a theme, and what stays stored when its edges are no style.
LEMMA PickSaved ==
  ASSUME PickStore, NEW th \in PickThemes
  PROVE  /\ th.radius \in Edges => Picker!SavedPrefs(th) = <<th.primary, th.radius, th.mode>>
         /\ Picker!SavedPrefs(th) \in PickPrefs \cup {None}
<1>1. th.primary \in Swatches /\ th.mode \in {"light", "dark"} BY DEF PickThemes
<1>2. CASE th.radius \in Edges
  <2>1. Picker!Derive(th) = <<th.primary, th.radius, th.mode>> BY <1>1, <1>2 DEF Picker!Derive
  <2>2. <<th.primary, th.radius, th.mode>> \in Swatches \X Edges \X {"light", "dark"} BY <1>1, <1>2
  <2>3. Picker!Derive(th) \in PickPrefs BY <2>1, <2>2 DEF PickPrefs
  <2>4. Picker!Derive(th) # None BY <2>1, <2>2, LookConstants
  <2> QED BY <2>1, <2>3, <2>4 DEF Picker!SavedPrefs
<1>3. CASE th.radius \notin Edges
  <2>1. Picker!Derive(th) = None BY <1>3 DEF Picker!Derive
  <2>2. Picker!SavedPrefs(th) = lookStore.prefs BY <2>1 DEF Picker!SavedPrefs
  <2> QED BY <1>3, <2>2 DEF PickStore
<1> QED BY <1>2, <1>3

LEMMA PickHydrated ==
  ASSUME PickStore
  PROVE  /\ Picker!Hydrated \in PickThemes /\ Picker!Hydrated.muted \in {None, Picker!Hydrated.palette}
         /\ works /\ lookStore.prefs # None =>
              lookStore.prefs = <<Picker!Hydrated.primary, Picker!Hydrated.radius, Picker!Hydrated.mode>>
<1>1. CASE works /\ lookStore.prefs # None
  <2>1. PICK p \in Swatches, r \in Edges, m \in {"light", "dark"} : lookStore.prefs = <<p, r, m>>
    BY <1>1 DEF PickStore, PickPrefs
  <2>2. Picker!Hydrated = Picker!Compose(Picker!Initial, p, r, m)
    BY <1>1, <2>1 DEF Picker!Hydrated, Picker!Apply
  <2> QED BY <2>1, <2>2, BaseIs, PickComposed
<1>2. CASE ~(works /\ lookStore.prefs # None)
  <2>1. Picker!Hydrated = Picker!Initial BY <1>2 DEF Picker!Hydrated
  <2> QED BY <1>2, <2>1, BaseIs
<1> QED BY <1>1, <1>2

LEMMA PickerShows ==
  ASSUME PickerInv
  PROVE  Picker!TypeOK /\ Picker!PageIsTheme /\ Picker!MutedIsReadable /\ Picker!PicksSurvive /\ Picker!SwatchIsShown
<1>0. \A t \in LookTabs : /\ theme[t] \in PickThemes /\ theme[t].radius \in Edges \cup {Picker!Initial.radius}
                          /\ theme[t].mode \in {"light", "dark"} /\ theme[t].primary \in Swatches
                          /\ DOMAIN theme[t] = {"primary", "hover", "palette", "muted", "radius", "mode"}
  BY DEF PickerInv, PickerTypes, PickThemes
<1>1. Picker!TypeOK BY <1>0 DEF PickerInv, PickerTypes, PickStore, Picker!TypeOK, Picker!Modes
<1>2. Picker!SwatchIsShown
  BY DEF PickerInv, PickerKept, Picker!SwatchIsShown, Picker!Shown, Picker!Effective
<1>3. Picker!MutedIsReadable
  <2>1. SUFFICES ASSUME NEW t \in LookTabs, lookOpen[t] PROVE lookPage[t].muted = lookPage[t].palette BY DEF Picker!MutedIsReadable
  <2> DEFINE s == Picker!Shown(t)  th == theme[t]
  <2>2. DOMAIN s = {"primary", "hover", "palette", "muted", "radius", "mode"} /\ s.muted \in {None, s.palette}
    <3>1. CASE hex[t] = None BY <1>0, <3>1 DEF PickerInv, PickerKept, Picker!Shown, Picker!Effective
    <3>2. CASE hex[t] # None
      <4>1. s = Picker!Compose(th, hex[t], th.radius, th.mode) BY <3>2 DEF Picker!Shown, Picker!Effective
      <4>2. th \in PickThemes /\ th.radius \in Edges \cup {Picker!Initial.radius} /\ th.mode \in {"light", "dark"} BY <1>0
      <4> HIDE DEF s, th
      <4> QED BY <4>1, <4>2, PickComposed
    <3> QED BY <3>1, <3>2
  <2>3. lookPage[t] = Picker!CssVariables(s) BY <2>1 DEF PickerInv, Picker!PageIsTheme
  <2> HIDE DEF s
  <2> QED BY <2>2, <2>3 DEF Picker!CssVariables
<1>4. Picker!PicksSurvive
  <2> DEFINE again == Picker!Effective(Picker!Hydrated, Picker!HydratedHex)  th == theme[alone]
  <2>1. SUFFICES ASSUME alone # None, works, th.radius \in Edges
                 PROVE  /\ again.primary = Picker!Shown(alone).primary /\ again.radius = Picker!Shown(alone).radius
                        /\ again.mode = Picker!Shown(alone).mode
    BY DEF Picker!PicksSurvive
  <2>2. alone \in LookTabs BY <2>1 DEF PickerInv, PickerTypes
  <2>3. th \in PickThemes /\ th.mode \in {"light", "dark"} /\ th.primary \in Swatches BY <1>0, <2>2
  <2>4. lookStore.hex = hex[alone] /\ lookStore.prefs = <<th.primary, th.radius, th.mode>> /\ lookStore.prefs # None
    <3>1. lookStore.hex = hex[alone] /\ lookStore.prefs = <<th.primary, th.radius, th.mode>> BY <2>1 DEF PickerInv, PickerKept
    <3> HIDE DEF th
    <3>2. <<th.primary, th.radius, th.mode>> \in Swatches \X Edges \X {"light", "dark"} BY <2>1, <2>3
    <3> QED BY <3>1, <3>2, LookConstants
  <2>5. /\ Picker!Hydrated \in PickThemes /\ Picker!Hydrated.primary = th.primary /\ Picker!Hydrated.radius = th.radius
        /\ Picker!Hydrated.mode = th.mode
    <3>1. /\ Picker!Hydrated \in PickThemes
          /\ <<th.primary, th.radius, th.mode>> = <<Picker!Hydrated.primary, Picker!Hydrated.radius, Picker!Hydrated.mode>>
      BY <2>1, <2>4, PickHydrated DEF PickerInv
    <3> QED BY <3>1
  <2>6. Picker!HydratedHex = hex[alone] BY <2>1, <2>4 DEF Picker!HydratedHex
  <2>7. CASE hex[alone] = None BY <2>5, <2>6, <2>7 DEF Picker!Effective, Picker!Shown
  <2>8. CASE hex[alone] # None
    <3>1. again = Picker!Compose(Picker!Hydrated, hex[alone], th.radius, th.mode) BY <2>5, <2>6, <2>8 DEF Picker!Effective
    <3>2. Picker!Shown(alone) = Picker!Compose(th, hex[alone], th.radius, th.mode) BY <2>8 DEF Picker!Effective, Picker!Shown
    <3> HIDE DEF again, th
    <3> QED BY <2>1, <2>3, <2>5, <3>1, <3>2, PickComposed
  <2> QED BY <2>7, <2>8
<1> QED BY <1>1, <1>2, <1>3, <1>4 DEF PickerInv

LEMMA InitPickerInv == Picker!Init => PickerInv
<1> SUFFICES ASSUME Picker!Init PROVE PickerInv OBVIOUS
<1>1. PickerTypes BY BaseIs DEF Picker!Init, PickerTypes
<1>2. PickStore
  <2>1. lookStore = NoStore BY DEF Picker!Init
  <2>2. DOMAIN NoStore = StoreFields /\ NoStore.prefs = None /\ NoStore.hex = None BY DEF NoStore, StoreFields
  <2> QED BY <2>1, <2>2 DEF PickStore
<1>3. OnlyTab /\ PickerKept BY BaseIs DEF Picker!Init, PickerKept, OnlyTab
<1>4. Picker!PageIsTheme BY DEF Picker!Init, Picker!PageIsTheme
<1> QED BY <1>1, <1>2, <1>3, <1>4 DEF PickerInv

\* A render with another theme or colour.
LEMMA PickShown ==
  ASSUME PickerInv, NEW t \in LookTabs, NEW th \in PickThemes, th.muted \in {None, th.palette}, NEW h \in Colours \cup {None},
         Picker!Show(t, th, h), lookChosen' \in [LookTabs -> Swatches \cup {None}],
         \A u \in LookTabs \ {t} : lookChosen'[u] = lookChosen[u], lookChosen'[t] # None => th.primary = lookChosen'[t],
         PickStore', works /\ alone = t => lookStore'.hex = h,
         works /\ alone = t /\ th.radius \in Edges => lookStore'.prefs = <<th.primary, th.radius, th.mode>>
  PROVE  PickerInv'
<1>1. /\ lookOpen[t] /\ theme' = [theme EXCEPT ![t] = th] /\ hex' = [hex EXCEPT ![t] = h]
      /\ lookPage' = [lookPage EXCEPT ![t] = Picker!Inject(lookPage[t], Picker!Shown(t), Picker!Effective(th, h))]
      /\ UNCHANGED <<lookOpen, works, alone>>
  BY DEF Picker!Show
<1>2. theme'[t] = th /\ hex'[t] = h /\ theme' \in [LookTabs -> PickThemes] /\ hex' \in [LookTabs -> Colours \cup {None}]
  BY <1>1 DEF PickerInv, PickerTypes
<1>9. \A u \in LookTabs \ {t} : theme'[u] = theme[u] /\ hex'[u] = hex[u] /\ lookPage'[u] = lookPage[u]
  BY <1>1 DEF PickerInv, PickerTypes
<1>3. lookPage[t] = Picker!CssVariables(Picker!Shown(t)) BY <1>1 DEF PickerInv, Picker!PageIsTheme
<1>4. lookPage'[t] = Picker!CssVariables(Picker!Effective(th, h)) /\ DOMAIN lookPage' = LookTabs
  BY <1>1, <1>3, InjectIs DEF PickerInv, PickerTypes
<1>5. Picker!Shown(t)' = Picker!Effective(th, h) BY <1>2 DEF Picker!Shown, Picker!Effective
<1>10. \A u \in LookTabs \ {t} : Picker!Shown(u)' = Picker!Shown(u) BY <1>9 DEF Picker!Shown
<1>6. Picker!PageIsTheme' BY <1>1, <1>4, <1>5, <1>9, <1>10 DEF PickerInv, Picker!PageIsTheme
<1>7. PickerTypes' BY <1>1, <1>2, <1>4 DEF PickerInv, PickerTypes
<1>11. OnlyTab' /\ (alone' # None => alone' = t) BY <1>1 DEF PickerInv, OnlyTab
<1>8. PickerKept'
  <2>1. \A u \in LookTabs : /\ theme'[u].muted \in {None, theme'[u].palette}
                            /\ lookChosen'[u] # None => theme'[u].primary = lookChosen'[u]
    BY <1>2, <1>9 DEF PickerInv, PickerKept
  <2>2. alone' # None /\ works' =>
          /\ lookStore'.hex = hex'[alone']
          /\ theme'[alone'].radius \in Edges => lookStore'.prefs = <<theme'[alone'].primary, theme'[alone'].radius, theme'[alone'].mode>>
    <3> SUFFICES ASSUME alone' # None, works'
                 PROVE  /\ lookStore'.hex = hex'[t]
                        /\ theme'[t].radius \in Edges => lookStore'.prefs = <<theme'[t].primary, theme'[t].radius, theme'[t].mode>>
      BY <1>11
    <3>1. works /\ alone = t BY <1>1, <1>11
    <3>2. lookStore'.hex = h /\ (th.radius \in Edges => lookStore'.prefs = <<th.primary, th.radius, th.mode>>) BY <3>1
    <3> QED BY <1>2, <3>2
  <2> QED BY <2>1, <2>2 DEF PickerKept
<1> QED BY <1>6, <1>7, <1>8, <1>11 DEF PickerInv

LEMMA PickThemeSet ==
  ASSUME PickerInv, NEW t \in LookTabs, NEW th \in PickThemes, th.muted \in {None, th.palette}, Picker!SetTheme(t, th),
         lookChosen' \in [LookTabs -> Swatches \cup {None}], \A u \in LookTabs \ {t} : lookChosen'[u] = lookChosen[u],
         lookChosen'[t] # None => th.primary = lookChosen'[t]
  PROVE  PickerInv'
<1>1. /\ Picker!Show(t, th, hex[t])
      /\ lookStore' = (IF works THEN [lookStore EXCEPT !.prefs = Picker!SavedPrefs(th)] ELSE lookStore)
  BY DEF Picker!SetTheme
<1>2. hex[t] \in Colours \cup {None} /\ works \in BOOLEAN /\ PickStore BY DEF PickerInv, PickerTypes
<1>3. /\ th.radius \in Edges => Picker!SavedPrefs(th) = <<th.primary, th.radius, th.mode>>
      /\ Picker!SavedPrefs(th) \in PickPrefs \cup {None}
  BY <1>2, PickSaved
<1>4. /\ PickStore'
      /\ works /\ alone = t => lookStore'.hex = hex[t]
      /\ works /\ alone = t /\ th.radius \in Edges => lookStore'.prefs = <<th.primary, th.radius, th.mode>>
  <2>1. CASE ~works BY <1>1, <1>2, <2>1 DEF PickStore
  <2>2. CASE works
    <3>1. /\ DOMAIN lookStore' = StoreFields /\ lookStore'.prefs = Picker!SavedPrefs(th) /\ lookStore'.hex = lookStore.hex
      BY <1>1, <1>2, <2>2 DEF PickStore, StoreFields
    <3>2. alone = t => lookStore.hex = hex[t] BY <2>2, LookConstants DEF PickerInv, PickerKept
    <3>3. PickStore' BY <1>2, <1>3, <3>1 DEF PickStore
    <3> QED BY <1>3, <3>1, <3>2, <3>3
  <2> QED BY <1>2, <2>1, <2>2
<1> QED BY <1>1, <1>2, <1>4, PickShown

LEMMA PickHexSet ==
  ASSUME PickerInv, NEW t \in LookTabs, NEW h \in Colours \cup {None}, NEW text, Picker!SetHex(t, h, text),
         lookChosen' = [lookChosen EXCEPT ![t] = IF hex'[t] # hex[t] THEN None ELSE @]
         \/ lookChosen' = [lookChosen EXCEPT ![t] = None]
  PROVE  PickerInv'
<1>1. /\ Picker!Show(t, theme[t], h)
      /\ lookStore' = (IF works /\ h # hex[t] THEN [lookStore EXCEPT !.hex = h] ELSE lookStore)
  BY DEF Picker!SetHex
<1>2. theme[t] \in PickThemes /\ theme[t].muted \in {None, theme[t].palette} BY DEF PickerInv, PickerTypes, PickerKept
<1>3. /\ lookChosen' \in [LookTabs -> Swatches \cup {None}] /\ (lookChosen'[t] # None => lookChosen'[t] = lookChosen[t])
      /\ \A u \in LookTabs \ {t} : lookChosen'[u] = lookChosen[u]
  BY DEF PickerInv, PickerTypes
<1>4. /\ DOMAIN lookStore' = StoreFields /\ lookStore'.prefs = lookStore.prefs /\ lookStore'.hex \in Colours \cup {None}
      /\ (works /\ alone = t => lookStore'.hex = h)
  BY <1>1, LookConstants DEF PickerInv, PickStore, StoreFields, PickerKept
<1>5. PickStore' BY <1>4 DEF PickerInv, PickStore
<1>6. works /\ alone = t /\ theme[t].radius \in Edges => lookStore'.prefs = <<theme[t].primary, theme[t].radius, theme[t].mode>>
  BY <1>4, LookConstants DEF PickerInv, PickerKept
<1>7. lookChosen'[t] # None => theme[t].primary = lookChosen'[t] BY <1>3 DEF PickerInv, PickerKept
<1> QED BY <1>1, <1>2, <1>3, <1>4, <1>5, <1>6, <1>7, PickShown

\* A step of a tab of the example.
PickStep(t) ==
  \/ Picker!Open(t) \/ Picker!Close(t) \/ Picker!ResetHex(t)
  \/ \E c \in Swatches : Picker!PickSwatch(t, c)
  \/ \E e \in Edges : Picker!PickEdge(t, e)
  \/ \E m \in {"light", "dark"} : Picker!PickMode(t, m)
  \/ \E b \in {Picker!Initial, [Picker!Initial EXCEPT !.hover = None]} : Picker!UseTheme(t, b)
  \/ \E x \in PickerTexts : Picker!TypeHex(t, x)

LEMMA PickStepKeeps == ASSUME PickerInv, NEW t \in LookTabs, PickStep(t) PROVE PickerInv'
<1> DEFINE th == theme[t]
<1>0. th \in PickThemes /\ th.primary \in Swatches /\ th.radius \in Edges \cup {Picker!Initial.radius} /\ th.mode \in {"light", "dark"}
      /\ th.muted \in {None, th.palette} /\ Picker!Value(t) = th
  BY DEF PickerInv, PickerTypes, PickerKept, PickThemes, Picker!Value
<1> HIDE DEF th
<1>2. CASE Picker!Open(t)
  <2> DEFINE new == Picker!Hydrated  h == Picker!HydratedHex
  <2>1. new \in PickThemes /\ new.muted \in {None, new.palette} BY PickHydrated DEF PickerInv
  <2>2. h \in Colours \cup {None} BY DEF Picker!HydratedHex, PickerInv, PickStore
  <2>3. /\ lookOpen' = [lookOpen EXCEPT ![t] = TRUE] /\ theme' = [theme EXCEPT ![t] = new] /\ hex' = [hex EXCEPT ![t] = h]
        /\ lookPage' = [lookPage EXCEPT ![t] = Picker!CssVariables(Picker!Effective(new, h))]
        /\ lookChosen' = [lookChosen EXCEPT ![t] = None] /\ UNCHANGED works
        /\ works => /\ lookStore'.prefs = Picker!SavedPrefs(new) /\ lookStore'.hex = h /\ DOMAIN lookStore' = StoreFields
        /\ ~works => lookStore' = lookStore
        /\ alone' = (IF \E u \in LookTabs : lookOpen[u] THEN None ELSE t)
    BY <1>2 DEF Picker!Open, Picker!MigratedTheme, Picker!MigratedHex, StoreFields
  <2> HIDE DEF new, h
  <2>4. /\ new.radius \in Edges => Picker!SavedPrefs(new) = <<new.primary, new.radius, new.mode>>
        /\ Picker!SavedPrefs(new) \in PickPrefs \cup {None}
    BY <2>1, PickSaved DEF PickerInv
  <2>5. /\ theme'[t] = new /\ hex'[t] = h /\ lookOpen'[t] = TRUE /\ lookChosen'[t] = None
        /\ lookPage'[t] = Picker!CssVariables(Picker!Effective(new, h))
    BY <2>3 DEF PickerInv, PickerTypes
  <2>6. PickerTypes' BY <2>1, <2>2, <2>3 DEF PickerInv, PickerTypes
  <2>7. PickStore' BY <2>2, <2>3, <2>4 DEF PickerInv, PickStore
  <2>11. \A u \in LookTabs \ {t} : /\ lookOpen'[u] = lookOpen[u] /\ theme'[u] = theme[u] /\ hex'[u] = hex[u]
                                   /\ lookPage'[u] = lookPage[u] /\ lookChosen'[u] = lookChosen[u]
    BY <2>3 DEF PickerInv, PickerTypes
  <2>12. OnlyTab' /\ (alone' # None => alone' = t) BY <2>3, <2>5, <2>11 DEF OnlyTab
  <2>8. PickerKept'
    <3>1. \A u \in LookTabs : /\ theme'[u].muted \in {None, theme'[u].palette}
                              /\ lookChosen'[u] # None => theme'[u].primary = lookChosen'[u]
      BY <2>1, <2>5, <2>11 DEF PickerInv, PickerKept
    <3>2. alone' # None /\ works' =>
            /\ lookStore'.hex = hex'[alone']
            /\ theme'[alone'].radius \in Edges => lookStore'.prefs = <<theme'[alone'].primary, theme'[alone'].radius, theme'[alone'].mode>>
      BY <2>3, <2>4, <2>5, <2>12
    <3> QED BY <3>1, <3>2 DEF PickerKept
  <2>9. Picker!Shown(t)' = Picker!Effective(new, h) BY <2>5 DEF Picker!Shown, Picker!Effective
  <2>13. \A u \in LookTabs \ {t} : Picker!Shown(u)' = Picker!Shown(u) BY <2>11 DEF Picker!Shown
  <2>10. Picker!PageIsTheme' BY <2>5, <2>9, <2>11, <2>13 DEF PickerInv, Picker!PageIsTheme
  <2> QED BY <2>6, <2>7, <2>8, <2>10, <2>12 DEF PickerInv
<1>3. CASE Picker!Close(t)
  <2>1. /\ lookOpen' = [lookOpen EXCEPT ![t] = FALSE] /\ lookPage' = [lookPage EXCEPT ![t] = Picker!Nothing]
        /\ theme' = [theme EXCEPT ![t] = Picker!Initial] /\ hex' = [hex EXCEPT ![t] = None]
        /\ lookChosen' = [lookChosen EXCEPT ![t] = None] /\ alone' = None /\ UNCHANGED <<lookStore, works>>
    BY <1>3 DEF Picker!Close
  <2>2. lookOpen'[t] = FALSE /\ lookPage'[t] = Picker!Nothing /\ theme'[t] = Picker!Initial /\ lookChosen'[t] = None
    BY <2>1 DEF PickerInv, PickerTypes
  <2>3. PickerTypes' BY <2>1, BaseIs DEF PickerInv, PickerTypes
  <2>4. \A u \in LookTabs \ {t} : /\ lookOpen'[u] = lookOpen[u] /\ theme'[u] = theme[u] /\ hex'[u] = hex[u]
                                  /\ lookPage'[u] = lookPage[u] /\ lookChosen'[u] = lookChosen[u]
    BY <2>1 DEF PickerInv, PickerTypes
  <2>5. \A u \in LookTabs \ {t} : Picker!Shown(u)' = Picker!Shown(u) BY <2>4 DEF Picker!Shown
  <2>6. Picker!PageIsTheme' BY <2>2, <2>4, <2>5 DEF PickerInv, Picker!PageIsTheme
  <2>7. OnlyTab' BY <2>1 DEF OnlyTab
  <2>8. PickerKept' BY <2>1, <2>2, <2>4, BaseIs DEF PickerInv, PickerKept
  <2>9. PickStore' BY <2>1 DEF PickerInv, PickStore
  <2> QED BY <2>3, <2>6, <2>7, <2>8, <2>9 DEF PickerInv
<1>4. CASE Picker!ResetHex(t) BY <1>4, PickHexSet DEF Picker!ResetHex
<1>6. ASSUME NEW c \in Swatches, Picker!PickSwatch(t, c) PROVE PickerInv'
  <2> DEFINE next == Picker!Compose(th, c, th.radius, th.mode)
  <2>1. Picker!SetTheme(t, next) /\ lookChosen' = [lookChosen EXCEPT ![t] = c] BY <1>0, <1>6 DEF Picker!PickSwatch
  <2>2. next \in PickThemes /\ next.muted = None /\ next.primary = c BY <1>0, PickComposed
  <2>3. /\ lookChosen' \in [LookTabs -> Swatches \cup {None}] /\ lookChosen'[t] = c
        /\ \A u \in LookTabs \ {t} : lookChosen'[u] = lookChosen[u]
    BY <2>1 DEF PickerInv, PickerTypes
  <2> HIDE DEF next
  <2> QED BY <2>1, <2>2, <2>3, PickThemeSet
<1>7. ASSUME NEW e \in Edges \cup {Picker!Initial.radius}, NEW m \in {"light", "dark"}, Picker!SetTheme(t, Picker!Compose(th, th.primary, e, m)), UNCHANGED lookChosen
      PROVE  PickerInv'
  <2> DEFINE next == Picker!Compose(th, th.primary, e, m)
  <2>1. next \in PickThemes /\ next.muted = None /\ next.primary = th.primary BY <1>0, PickComposed
  <2>2. Picker!SetTheme(t, next) BY <1>7
  <2>3. /\ lookChosen' \in [LookTabs -> Swatches \cup {None}] /\ (lookChosen'[t] # None => th.primary = lookChosen'[t])
        /\ \A u \in LookTabs \ {t} : lookChosen'[u] = lookChosen[u]
    BY <1>7 DEF PickerInv, PickerTypes, PickerKept, th
  <2> HIDE DEF next
  <2> QED BY <2>1, <2>2, <2>3, PickThemeSet
<1>8. ASSUME NEW e \in Edges, Picker!PickEdge(t, e) PROVE PickerInv' BY <1>0, <1>7, <1>8 DEF Picker!PickEdge
<1>9. ASSUME NEW m \in {"light", "dark"}, Picker!PickMode(t, m) PROVE PickerInv' BY <1>0, <1>7, <1>9 DEF Picker!PickMode
<1>10. ASSUME NEW b \in {Picker!Initial, [Picker!Initial EXCEPT !.hover = None]}, Picker!UseTheme(t, b) PROVE PickerInv'
  <2>1. b \in PickThemes /\ b.muted = b.palette BY BaseIs
  <2>2. Picker!SetTheme(t, b) /\ lookChosen' = [lookChosen EXCEPT ![t] = None] BY <1>10 DEF Picker!UseTheme
  <2>3. /\ lookChosen' \in [LookTabs -> Swatches \cup {None}] /\ lookChosen'[t] = None
        /\ \A u \in LookTabs \ {t} : lookChosen'[u] = lookChosen[u]
    BY <2>2 DEF PickerInv, PickerTypes
  <2> QED BY <2>1, <2>2, <2>3, PickThemeSet
<1>11. ASSUME NEW x \in PickerTexts, Picker!TypeHex(t, x) PROVE PickerInv'
  <2>1. Picker!Committed(t, x) \in Colours \cup {None} BY DEF Picker!Committed, PickerInv, PickerTypes
  <2> QED BY <1>11, <2>1, PickHexSet DEF Picker!TypeHex
<1> QED BY <1>2, <1>3, <1>4, <1>6, <1>8, <1>9, <1>10, <1>11 DEF PickStep

LEMMA PickerKeeps == ASSUME PickerInv, [Picker!Next]_lookVars PROVE PickerInv'
<1>1. CASE UNCHANGED lookVars
  BY <1>1 DEF lookVars, PickerInv, PickerTypes, PickStore, OnlyTab, PickerKept, Picker!PageIsTheme, Picker!Shown
<1>2. CASE Picker!Next
  <2>1. \A t : ~Picker!ResetSoftLight(t) BY DEF Picker!ResetSoftLight
  <2>2. \E t \in LookTabs : PickStep(t) BY <1>2, <2>1 DEF Picker!Next, Picker!Modes, PickStep
  <2> QED BY <2>2, PickStepKeeps
<1> QED BY <1>1, <1>2

-----------------------------------------------------------------------------
(* The brand of the library                                                *)

Blanks == [name : Names \cup {"WDK"}, src : [Brand!Fields -> Images \cup {"default", None}],
           alt : [Brand!Fields -> Names \cup Images \cup {"WDK", None}]]
ImageReads == [field : Brand!Fields, image : Images, value : Blanks, id : Nat]
BrandTypes ==
  /\ brandBrand \in Blanks /\ saved \in Blanks \cup {None} /\ picks \in 0..MaxPicks /\ shown \in BOOLEAN
  /\ brandReads \subseteq ImageReads /\ \A r \in brandReads : r.id < picks /\ \A q \in brandReads : q.id = r.id => q = r
  /\ (~shown => brandReads = {})
ColourTypes ==
  /\ colours \in [DOMAIN colours -> BrandColours] /\ DOMAIN colours \subseteq Keys
  /\ savedColours \in [DOMAIN savedColours -> BrandColours] /\ DOMAIN savedColours \subseteq Keys
BrandInv == BrandTypes /\ ColourTypes /\ Brand!BrandSurvives

LEMMA BrandConstants == MaxPicks \in Nat /\ None \notin Blanks /\ None \notin BrandColours /\ Blanks = Brand!BrandConfigs
BY PagesAssumption DEF Brand!BrandingAssumption, Brand!BrandConfigs, Blanks

LEMMA BrandShows == ASSUME BrandInv PROVE Brand!TypeOK /\ Brand!BrandSurvives
<1>1. \A r \in brandReads : r.value \in Brand!BrandConfigs BY BrandConstants DEF BrandInv, BrandTypes, ImageReads
<1>2. Brand!TypeOK BY <1>1, BrandConstants DEF BrandInv, BrandTypes, ColourTypes, Brand!TypeOK
<1> QED BY <1>2 DEF BrandInv

LEMMA StockBrands == Brand!Default \in Blanks /\ Brand!Bare \in Blanks
<1>1. "wordmark" \in Brand!Fields /\ "mark" \in Brand!Fields BY DEF Brand!Fields
<1> QED BY DEF Brand!Default, Brand!Bare, Blanks

LEMMA StoredIs == ASSUME BrandTypes PROVE Brand!TheStored \in Blanks
BY StockBrands DEF Brand!TheStored, BrandTypes

LEMMA InitBrandInv == Brand!Init => BrandInv
<1> SUFFICES ASSUME Brand!Init PROVE BrandInv OBVIOUS
<1>1. saved \in Blanks \cup {None} /\ brandBrand \in Blanks BY StockBrands DEF Brand!Init, Brand!TheStored
<1>2. /\ shown = FALSE /\ brandReads = {} /\ picks = 0 /\ colours = Brand!NoColours /\ savedColours = Brand!NoColours
  BY DEF Brand!Init
<1>3. picks \in 0..MaxPicks BY <1>2, BrandConstants
<1>4. BrandTypes BY <1>1, <1>2, <1>3 DEF BrandTypes
<1>5. ColourTypes BY <1>2 DEF ColourTypes, Brand!NoColours
<1>6. Brand!BrandSurvives BY <1>2 DEF Brand!BrandSurvives
<1> QED BY <1>4, <1>5, <1>6 DEF BrandInv

\* A brand is set and stored whole.
LEMMA BrandIsSet ==
  ASSUME BrandInv, NEW b \in Blanks, Brand!SetBrand(b), picks' = picks, brandReads' \subseteq brandReads
  PROVE  BrandInv'
<1>1. /\ shown /\ shown' = shown /\ brandBrand' = b /\ saved' = (IF Brand!Fits(b) THEN b ELSE saved)
      /\ UNCHANGED <<colours, savedColours>>
  BY DEF Brand!SetBrand, Brand!SaveBrand, Brand!colouring
<1>2. b # None BY BrandConstants
<1>3. saved' \in Blanks \cup {None} /\ (Brand!Fits(b) => saved' = b) BY <1>1 DEF BrandInv, BrandTypes
<1>4. BrandTypes' BY <1>1, <1>3 DEF BrandInv, BrandTypes
<1>5. ColourTypes' BY <1>1 DEF BrandInv, ColourTypes
<1>7. Brand!Fits(brandBrand)' => Brand!Fits(b) BY <1>1 DEF Brand!Fits
<1>8. savedColours' = colours' BY <1>1 DEF BrandInv, Brand!BrandSurvives
<1>6. Brand!BrandSurvives' BY <1>1, <1>2, <1>3, <1>7, <1>8 DEF Brand!BrandSurvives, Brand!TheStored
<1> QED BY <1>4, <1>5, <1>6 DEF BrandInv

LEMMA ColourSet ==
  ASSUME ColourTypes, NEW k \in Keys, NEW h
  PROVE  LET new == Brand!ColourOf(colours, k, h) IN new \in [DOMAIN new -> BrandColours] /\ DOMAIN new \subseteq Keys
<1>1. CASE h = None BY <1>1 DEF Brand!ColourOf, Brand!Without, ColourTypes
<1>2. CASE h # None /\ h \in BrandColours BY <1>2 DEF Brand!ColourOf, ColourTypes
<1>3. CASE h # None /\ h \notin BrandColours BY <1>3 DEF Brand!ColourOf, ColourTypes
<1> QED BY <1>1, <1>2, <1>3

LEMMA BrandKeeps == ASSUME BrandInv, [Brand!Next]_brandVars PROVE BrandInv'
<1> USE DEF Brand!colouring
<1>0. brandBrand \in Blanks /\ BrandTypes /\ ColourTypes BY DEF BrandInv, BrandTypes
<1>1. CASE UNCHANGED brandVars
  BY <1>1 DEF brandVars, BrandInv, BrandTypes, ColourTypes, Brand!BrandSurvives, Brand!TheStored, Brand!Fits
<1>2. CASE Brand!Leave
  <2>1. shown' = FALSE /\ brandReads' = {} /\ picks' = 0 /\ UNCHANGED <<brandBrand, saved, colours, savedColours>>
    BY <1>2 DEF Brand!Leave
  <2>2. picks' \in 0..MaxPicks BY <2>1, BrandConstants
  <2>3. BrandTypes' BY <1>0, <2>1, <2>2 DEF BrandTypes
  <2>4. ColourTypes' BY <1>0, <2>1 DEF ColourTypes
  <2> QED BY <2>1, <2>3, <2>4 DEF BrandInv, Brand!BrandSurvives
<1>3. CASE Brand!Mount
  <2> DEFINE b == Brand!TheStored
  <2>1. b \in Blanks BY <1>0, StoredIs
  <2>2. /\ shown' = TRUE /\ brandBrand' = b /\ saved' = (IF Brand!Fits(b) THEN b ELSE saved)
        /\ colours' = savedColours /\ UNCHANGED <<brandReads, picks, savedColours>>
    BY <1>3 DEF Brand!Mount, Brand!SaveBrand
  <2> HIDE DEF b
  <2>3. saved' \in Blanks \cup {None} /\ (Brand!Fits(b) => saved' = b) /\ b # None
    BY <1>0, <2>1, <2>2, BrandConstants DEF BrandTypes
  <2>4. BrandTypes' BY <1>0, <2>1, <2>2, <2>3 DEF BrandTypes
  <2>5. ColourTypes' BY <1>0, <2>2 DEF ColourTypes
  <2>7. Brand!Fits(brandBrand)' => Brand!Fits(b) BY <2>2 DEF Brand!Fits
  <2>8. savedColours' = colours' BY <2>2
  <2>6. Brand!BrandSurvives' BY <2>2, <2>3, <2>7, <2>8 DEF Brand!BrandSurvives, Brand!TheStored
  <2> QED BY <2>4, <2>5, <2>6 DEF BrandInv
<1>4. ASSUME colours' = savedColours', colours' \in [DOMAIN colours' -> BrandColours], DOMAIN colours' \subseteq Keys,
             UNCHANGED <<shown, brandBrand, brandReads, picks, saved>>
      PROVE  BrandInv'
  <2>1. BrandTypes' BY <1>0, <1>4 DEF BrandTypes
  <2>2. ColourTypes' BY <1>4 DEF ColourTypes
  <2>3. Brand!BrandSurvives' BY <1>4 DEF BrandInv, Brand!BrandSurvives, Brand!TheStored, Brand!Fits
  <2> QED BY <2>1, <2>2, <2>3 DEF BrandInv
<1>5. CASE Brand!ClearAll BY <1>4, <1>5 DEF Brand!ClearAll, Brand!NoColours
<1>6. ASSUME NEW k \in Keys, NEW h, Brand!SetColour(k, h) PROVE BrandInv'
  BY <1>0, <1>4, <1>6, ColourSet DEF Brand!SetColour
<1>7. CASE Brand!Reset BY <1>7, BrandIsSet, StockBrands DEF Brand!Reset
<1>8. ASSUME NEW n \in Names, Brand!TypeName(n) PROVE BrandInv'
  <2>1. [brandBrand EXCEPT !.name = n] \in Blanks BY <1>0 DEF Blanks
  <2> QED BY <1>8, <2>1, BrandIsSet DEF Brand!TypeName
<1>9. ASSUME NEW f \in Brand!Fields, Brand!Clear(f) PROVE BrandInv'
  <2>1. [brandBrand EXCEPT !.src[f] = None] \in Blanks BY <1>0 DEF Blanks
  <2> QED BY <1>9, <2>1, BrandIsSet DEF Brand!Clear
<1>10. ASSUME NEW f \in Brand!Fields, NEW n \in Names, Brand!TypeAlt(f, n) PROVE BrandInv'
  <2>1. [brandBrand EXCEPT !.alt[f] = n] \in Blanks BY <1>0 DEF Blanks
  <2> QED BY <1>10, <2>1, BrandIsSet DEF Brand!TypeAlt
<1>11. ASSUME NEW f \in Brand!Fields, NEW i \in Images, Brand!PickFile(f, i) PROVE BrandInv'
  <2> DEFINE r == [field |-> f, image |-> i, value |-> brandBrand, id |-> picks]
  <2>1. picks \in Nat /\ picks <= MaxPicks BY <1>0, BrandConstants DEF BrandTypes
  <2>2. r \in ImageReads /\ r.id = picks BY <1>0, <2>1 DEF ImageReads
  <2>3. /\ shown /\ picks < MaxPicks /\ picks' = picks + 1 /\ brandReads' = brandReads \cup {r}
        /\ UNCHANGED <<shown, brandBrand, saved, colours, savedColours>>
    BY <1>11 DEF Brand!PickFile
  <2> HIDE DEF r
  <2>4. picks' \in 0..MaxPicks BY <2>1, <2>3, BrandConstants
  <2>5. \A q \in brandReads : q.id \in Nat /\ q.id < picks BY <1>0 DEF BrandTypes, ImageReads
  <2>6. \A q \in brandReads' : q.id < picks' /\ \A p \in brandReads' : p.id = q.id => p = q
    BY <1>0, <2>1, <2>2, <2>3, <2>5 DEF BrandTypes
  <2>7. BrandTypes' BY <1>0, <2>2, <2>3, <2>4, <2>6 DEF BrandTypes
  <2>8. ColourTypes' BY <1>0, <2>3 DEF ColourTypes
  <2> QED BY <2>3, <2>7, <2>8 DEF BrandInv, Brand!BrandSurvives, Brand!TheStored, Brand!Fits
<1>12. ASSUME NEW r \in brandReads, Brand!ReadDone(r) PROVE BrandInv'
  <2>1. r.value \in Blanks /\ r.field \in Brand!Fields /\ r.image \in Images BY <1>0 DEF BrandTypes, ImageReads
  <2>2. Brand!With(r) \in Blanks BY <2>1 DEF Brand!With, Blanks
  <2> QED BY <1>12, <2>2, BrandIsSet DEF Brand!ReadDone
<1>13. ASSUME NEW r \in brandReads, Brand!ReadFails(r) PROVE BrandInv'
  BY <1>13 DEF Brand!ReadFails, BrandInv, BrandTypes, ColourTypes, Brand!BrandSurvives, Brand!TheStored
<1> QED BY <1>1, <1>2, <1>3, <1>5, <1>6, <1>7, <1>8, <1>9, <1>10, <1>11, <1>12, <1>13 DEF Brand!Next

-----------------------------------------------------------------------------
(* All the parts                                                           *)

\* The invariant of the part that the behaviour is of.
PartsInv ==
  /\ DirectoryInv
  /\ part = "page" => PageInv
  /\ part = "wizard" => WizardInv
  /\ part = "view" => ShownInv /\ SendInv
  /\ part = "typing" => TypingInv
  /\ part = "asking" => AskingInv
  /\ part = "bitcoin" => BitcoinInv
  /\ part = "spark" => BalanceInv
  /\ part = "defi" => DefiInv
  /\ part = "app" => AppInv
  /\ part = "picker" => PickerInv
  /\ part = "brand" => BrandInv

\* A step of the screens is a step of the part that the behaviour is of, or
\* leaves it alone.
LEMMA StepOfPart ==
  ASSUME [MCNext]_all
  PROVE  /\ part' = part /\ [Next]_vars
         /\ part = "page" => [Page!Next]_roomVars
         /\ part = "wizard" => [Wizard!Next]_wizardVars
         /\ part = "view" => [View!Next]_viewVars
         /\ part = "typing" => [Typing!Next]_formVars
         /\ part = "asking" => [Asking!Next]_formVars
         /\ part = "bitcoin" => [Bitcoin!Next]_formVars
         /\ part = "spark" => [Spark!Next]_sparkVars
         /\ part = "defi" => [Defi!Next]_defiVars
         /\ part = "app" => [App!Next]_lookVars
         /\ part = "picker" => [Picker!Next]_lookVars
         /\ part = "brand" => [Brand!Next]_brandVars
<1>1. CASE Directory BY <1>1 DEF Directory
<1>2. CASE RoomScreen BY <1>2 DEF RoomScreen
<1>3. CASE OnboardingScreens BY <1>3 DEF OnboardingScreens
<1>4. CASE WalletScreen BY <1>4 DEF WalletScreen
<1>5. CASE Sending BY <1>5 DEF Sending
<1>6. CASE SparkScreen BY <1>6 DEF SparkScreen
<1>7. CASE DefiScreens BY <1>7 DEF DefiScreens
<1>8. CASE Theming BY <1>8 DEF Theming
<1>9. CASE Naming BY <1>9 DEF Naming
<1>10. CASE UNCHANGED all BY <1>10 DEF all
<1> QED BY <1>1, <1>2, <1>3, <1>4, <1>5, <1>6, <1>7, <1>8, <1>9, <1>10 DEF MCNext

\* The parts that share their initial states.
LEMMA InitForms == Asking!Init => Bitcoin!Init
BY DEF Asking!Init, Bitcoin!Init, Asking!Blank, Bitcoin!Blank

LEMMA InitPartsInv == MCInit => PartsInv
<1> SUFFICES ASSUME MCInit PROVE PartsInv OBVIOUS
<1>1. /\ Init /\ Page!Init /\ Wizard!Init /\ View!Init /\ Spark!Init /\ Defi!Init /\ Brand!Init
      /\ part = "typing" => Typing!Init
      /\ part # "typing" => Asking!Init
      /\ part = "app" => App!Init
      /\ part # "app" => Picker!Init
  BY DEF MCInit
<1>2. DirectoryInv BY <1>1, InitDirectoryInv
<1>3. PageInv /\ WizardInv /\ ShownInv /\ SendInv BY <1>1, InitPageInv, InitWizardInv, InitViewInv
<1>4. part = "typing" => TypingInv BY <1>1, InitTypingInv
<1>5. part # "typing" => AskingInv /\ BitcoinInv BY <1>1, InitForms, InitAskingInv, InitBitcoinInv
<1>6. BalanceInv BY <1>1, InitBalanceInv
<1>7. DefiInv /\ BrandInv BY <1>1, InitDefiInv, InitBrandInv
<1>8. /\ part = "app" => AppInv
      /\ part = "picker" => PickerInv
  BY <1>1, InitAppInv, InitPickerInv
<1> QED BY <1>2, <1>3, <1>4, <1>5, <1>6, <1>7, <1>8 DEF PartsInv

LEMMA PartsKeep == PartsInv /\ [MCNext]_all => PartsInv'
<1> SUFFICES ASSUME PartsInv, [MCNext]_all PROVE PartsInv' OBVIOUS
<1>1. part' = part BY StepOfPart
<1>2. DirectoryInv' BY StepOfPart, DirectoryKeeps DEF PartsInv
<1>3. part = "page" => PageInv' BY StepOfPart, PageKeeps DEF PartsInv
<1>4. part = "wizard" => WizardInv' BY StepOfPart, WizardKeeps DEF PartsInv
<1>5. part = "view" => ShownInv' /\ SendInv'
  <2>1. ShownInv => ShownTypes BY DEF ShownInv
  <2> QED BY <2>1, StepOfPart, ShownKeeps, SendsKeep DEF PartsInv
<1>6. part = "typing" => TypingInv' BY StepOfPart, TypingKeeps DEF PartsInv
<1>7. part = "asking" => AskingInv' BY StepOfPart, AskingKeeps DEF PartsInv
<1>8. part = "bitcoin" => BitcoinInv' BY StepOfPart, BitcoinKeeps DEF PartsInv
<1>9. part = "spark" => BalanceInv' BY StepOfPart, BalanceKeeps DEF PartsInv
<1>11. part = "defi" => DefiInv' BY StepOfPart, DefiKeeps DEF PartsInv
<1>12. part = "app" => AppInv' BY StepOfPart, AppKeeps DEF PartsInv
<1>13. part = "picker" => PickerInv' BY StepOfPart, PickerKeeps DEF PartsInv
<1>14. part = "brand" => BrandInv' BY StepOfPart, BrandKeeps DEF PartsInv
<1> QED BY <1>1, <1>2, <1>3, <1>4, <1>5, <1>6, <1>7, <1>8, <1>9, <1>11, <1>12, <1>13, <1>14 DEF PartsInv

\* Every screen keeps its invariant, for any number of rooms, phrases,
\* accounts, addresses, amounts, requests, prices, chains, colours and brands.
THEOREM ScreensInvariant == MCSpec => []PartsInv
BY InitPartsInv, PartsKeep, PTL DEF MCSpec

\* The directory among the screens is the directory: what is proved of it
\* above holds of them.
THEOREM ScreensKeepDirectory == MCSpec => Spec
<1>1. MCInit => Init BY DEF MCInit
<1>2. [MCNext]_all => [Next]_vars BY StepOfPart
<1> QED BY <1>1, <1>2, PTL DEF MCSpec, Spec

\* The variables of every screen keep to their types.
THEOREM ScreensTyped == MCSpec => []TypesOK
<1>1. PartsInv => TypesOK
  <2> SUFFICES ASSUME PartsInv PROVE TypesOK OBVIOUS
  <2>1. TypeOK BY DirectoryTyped DEF PartsInv
  <2>2. part = "spark" => Spark!TypeOK BY SparkShows DEF PartsInv, BalanceInv
  <2>3. part = "page" => Page!TypeOK BY PageShows DEF PartsInv
  <2>4. part = "wizard" => Wizard!TypeOK BY DEF PartsInv, WizardInv
  <2>5. part = "view" => View!TypeOK BY ViewShows DEF PartsInv
  <2>6. part = "typing" => Typing!TypeOK BY TypingShows DEF PartsInv
  <2>7. part = "asking" => Asking!TypeOK BY AskingShows DEF PartsInv
  <2>8. part = "bitcoin" => Bitcoin!TypeOK BY BitcoinShows DEF PartsInv
  <2>9. part = "defi" => Defi!TypeOK BY DefiShows DEF PartsInv
  <2>10. part = "app" => App!TypeOK BY AppShows DEF PartsInv
  <2>11. part = "picker" => Picker!TypeOK BY PickerShows DEF PartsInv
  <2>12. part = "brand" => Brand!TypeOK BY BrandShows DEF PartsInv
  <2> QED BY <2>1, <2>2, <2>3, <2>4, <2>5, <2>6, <2>7, <2>8, <2>9, <2>10, <2>11, <2>12 DEF TypesOK
<1> QED BY <1>1, ScreensInvariant, PTL

\* The wallet shows what belongs to the view chosen, whatever comes late. The
\* room and its escrow are the user's until he goes elsewhere during a call, a
\* quote is of the inputs unless they or the network changed under its call, the
\* Spark balance is the service's unless something happened that the dialog does
\* not follow, and the buttons of a form that waits are its own call's.
THEOREM ScreensAreCurrent == MCSpec => []ShownIsCurrent
<1>1. PartsInv => ShownIsCurrent
  <2> SUFFICES ASSUME PartsInv PROVE ShownIsCurrent OBVIOUS
  <2>1. part = "page" => Page!ShownIsChosen /\ Page!EscrowOfShown /\ Page!ReloadComesBack BY PageShows DEF PartsInv
  <2>2. part = "view" => View!ShownIsOfView /\ View!FiatIsOfBalance BY ViewShows DEF PartsInv
  <2>3. part = "spark" => Spark!BusyWithMine /\ Spark!QuoteOfInputs BY SparkShows DEF PartsInv, BalanceInv
  <2>4. part = "spark" => Spark!BalanceFollows BY BalanceShows DEF PartsInv
  <2>5. part = "defi" => Defi!BusyWithMine /\ Defi!QuoteOfInputs /\ Defi!PositionOfChain BY DefiShows DEF PartsInv
  <2> QED BY <2>1, <2>2, <2>3, <2>4, <2>5 DEF ShownIsCurrent
<1> QED BY <1>1, ScreensInvariant, PTL

\* A stored vault can be restored, a send is listed where it was made, Max fits
\* the balance and the signpost leads to the form's asset; a request for the
\* coin, pasted and left as it is, is paid as it asks; dollars agree with the
\* coin unless a request set the amount beneath them; a withdrawal pays a fee
\* quoted for its speed; and a bridge that was approved finds its approval
\* unless another of its account was given meanwhile.
THEOREM MoneyGoesAsMeant == MCSpec => []MoneyAsMeant
<1>1. PartsInv => MoneyAsMeant
  <2> SUFFICES ASSUME PartsInv PROVE MoneyAsMeant OBVIOUS
  <2>1. part = "wizard" => Wizard!VaultIsRestorable BY DEF PartsInv, WizardInv
  <2>2. part = "view" => View!ListedWhereSent BY ViewShows DEF PartsInv
  <2>3. part = "typing" => Typing!MaxFits /\ Typing!DollarsAgree /\ Typing!SignpostLeadsHome BY TypingShows DEF PartsInv
  <2>4. part = "asking" => Asking!RequestIsPaid /\ Asking!SignpostLeadsHome BY AskingShows DEF PartsInv
  <2>5. part = "bitcoin" => Bitcoin!RequestIsPaid /\ Bitcoin!SignpostLeadsHome BY BitcoinShows DEF PartsInv
  <2>6. part = "spark" => Spark!ExitsAreBound BY SparkShows DEF PartsInv, BalanceInv
  <2>7. part = "defi" => Defi!ApprovedIsBridged BY DefiShows DEF PartsInv
  <2> QED BY <2>1, <2>2, <2>3, <2>4, <2>5, <2>6, <2>7 DEF MoneyAsMeant
<1> QED BY <1>1, ScreensInvariant, PTL

\* The look is that of the next visit of a tab that was the only one, a picked
\* theme once its edges are of the picker's own styles, and the brand unless an
\* image exceeds what the browser stores.
THEOREM ChoicesStay == MCSpec => []ChoicesSurvive
<1>1. PartsInv => ChoicesSurvive
  <2> SUFFICES ASSUME PartsInv PROVE ChoicesSurvive OBVIOUS
  <2>1. part = "app" => App!VisitIsSame /\ App!DraftAgrees /\ App!OldVisitsAreForgotten /\ App!ResetStands
    BY AppShows DEF PartsInv
  <2>2. part = "picker" => /\ Picker!PageIsTheme /\ Picker!MutedIsReadable
                           /\ Picker!PicksSurvive /\ Picker!SwatchIsShown
    BY PickerShows DEF PartsInv
  <2>3. part = "brand" => Brand!BrandSurvives BY BrandShows DEF PartsInv
  <2> QED BY <2>1, <2>2, <2>3 DEF ChoicesSurvive
<1> QED BY <1>1, ScreensInvariant, PTL
=============================================================================
