--------------------------- MODULE RoomDirectory ---------------------------
(***************************************************************************)
(* How rooms get their codes: POST /api/party (api/party/route.ts) waits   *)
(* for the receipt of the TipPool's deployment (verify-deploy-tx.ts), then *)
(* takes a free code, or the one it was asked for, and saves the room      *)
(* (party-server.ts), while other requests create rooms and tip in them.   *)
(* PartyServer models what happens to one room afterwards.                 *)
(***************************************************************************)
EXTENDS Naturals, FiniteSets

CONSTANTS
  Codes,     \* room codes
  NoCode,    \* a request that leaves the code to the server
  Pools,     \* TipPool deployments, named by the contract they made
  Hosts,
  Req,       \* requests that may be in flight at once
  Memory,    \* TRUE: in-memory Map; FALSE: Upstash Redis
  Lucky,     \* TRUE: of five random codes one is free
  Polls,     \* attempts to read the receipt: 12 in the code
  Tries,     \* random codes that are looked up: 5 in the code
  MaxTips, MaxExpiry  \* bounds: tips of a room, rooms that expire

ASSUME DirectoryAssumption ==
  /\ NoCode \notin Codes /\ "none" \notin Pools \cup Hosts
  /\ Memory \in BOOLEAN /\ Lucky \in BOOLEAN
  /\ {Polls, Tries} \subseteq Nat \ {0} /\ MaxTips \in Nat /\ MaxExpiry \in Nat

NoRoom == [pool |-> "none", host |-> "none", tips |-> 0]
Room == [pool: Pools, host: Hosts, tips: 0..MaxTips]
Receipt == [status: {"success", "reverted"}, from: Hosts] \cup {[status |-> "none", from |-> "none"]}

VARIABLES
  receipt,  \* of each deployment
  store,    \* the room under each code
  pc, body, \* where each request is, and what it asked for
  tried,    \* receipts read, then codes looked up
  expiries

vars == <<receipt, store, pc, body, tried, expiries>>
Pc == {"idle", "verify", "read", "save"}
NoBody == [code |-> NoCode, pool |-> "none", host |-> "none"]

Init == /\ receipt = [p \in Pools |-> [status |-> "none", from |-> "none"]]
        /\ store = [c \in Codes |-> NoRoom]
        /\ pc = [r \in Req |-> "idle"] /\ body = [r \in Req |-> NoBody]
        /\ tried = [r \in Req |-> 0] /\ expiries = 0

\* In memory nothing runs between the lookup of a code and the save.
MayRun(r) == Memory => \A q \in Req \ {r} : pc[q] # "save"
Goto(r, at) == pc' = [pc EXCEPT ![r] = at]
Finish(r) == /\ Goto(r, "idle") /\ body' = [body EXCEPT ![r] = NoBody]
             /\ tried' = [tried EXCEPT ![r] = 0]

\* POST /api/party: with a code when a page publishes the room of its cache.
Post(r, c, p, h) == /\ MayRun(r) /\ pc[r] = "idle" /\ Goto(r, "verify")
                    /\ body' = [body EXCEPT ![r] = [code |-> c, pool |-> p, host |-> h]]
                    /\ UNCHANGED <<receipt, store, tried, expiries>>

\* verifyTipPoolDeploy: the receipt is asked for until it is there.
\* Mutant: whoever sent the deployment.
DeployedByAny(p, h) == receipt[p].status = "success"
Deployed(p, h) == receipt[p].status = "success" /\ receipt[p].from = h
ReadReceipt(r) ==
  /\ MayRun(r) /\ pc[r] = "verify"
  /\ CASE receipt[body[r].pool].status = "none" /\ tried[r] + 1 < Polls ->
            tried' = [tried EXCEPT ![r] = @ + 1] /\ UNCHANGED <<pc, body>>
       [] Deployed(body[r].pool, body[r].host) ->
            Goto(r, "read") /\ tried' = [tried EXCEPT ![r] = 0] /\ UNCHANGED body
       [] OTHER -> Finish(r)
  /\ UNCHANGED <<receipt, store, expiries>>
\* The RPC or the store fails: a 400 or a 500.
Fail(r) == /\ MayRun(r) /\ pc[r] # "idle" /\ Finish(r)
           /\ UNCHANGED <<receipt, store, expiries>>

\* The code that was asked for: the room that is there is returned when its
\* settings are the same, and refused when they are not.
ReadRequested(r) ==
  /\ MayRun(r) /\ pc[r] = "read" /\ body[r].code # NoCode /\ tried[r] = 0
  /\ IF store[body[r].code] = NoRoom THEN Goto(r, "save") /\ UNCHANGED <<body, tried>>
                                     ELSE Finish(r)
  /\ UNCHANGED <<receipt, store, expiries>>

\* A random code is looked up, and another one is made when it is taken; the
\* one that is made last is not looked up.
\* Mutant: the code is taken as it comes.
FreeAlways(c) == TRUE
Free(c) == store[c] = NoRoom
ReadRandom(r, c) ==
  /\ MayRun(r) /\ pc[r] = "read" /\ (body[r].code = NoCode \/ tried[r] > 0)
  /\ body' = [body EXCEPT ![r].code = c]
  /\ IF Free(c) \/ tried[r] = Tries
     THEN Goto(r, "save") /\ tried' = [tried EXCEPT ![r] = 0]
     ELSE /\ Lucky => tried[r] + 1 < Tries
          /\ UNCHANGED pc /\ tried' = [tried EXCEPT ![r] = @ + 1]
  /\ UNCHANGED <<receipt, store, expiries>>

Save(r) == /\ MayRun(r) /\ pc[r] = "save"
           /\ store' = [store EXCEPT ![body[r].code] =
                          [pool |-> body[r].pool, host |-> body[r].host, tips |-> 0]]
           /\ Finish(r)
           /\ UNCHANGED <<receipt, expiries>>

\* Deployments are mined, tips appended, and a room's TTL runs out.
Mine(p, h, s) == /\ receipt[p].status = "none"
                 /\ receipt' = [receipt EXCEPT ![p] = [status |-> s, from |-> h]]
                 /\ UNCHANGED <<store, pc, body, tried, expiries>>
Tip(c) == /\ Memory => \A r \in Req : pc[r] # "save"
          /\ store[c] # NoRoom /\ store[c].tips < MaxTips
          /\ store' = [store EXCEPT ![c].tips = @ + 1]
          /\ UNCHANGED <<receipt, pc, body, tried, expiries>>
Expire(c) == /\ store[c] # NoRoom /\ expiries < MaxExpiry
             /\ store' = [store EXCEPT ![c] = NoRoom] /\ expiries' = expiries + 1
             /\ UNCHANGED <<receipt, pc, body, tried>>

Next == \/ \E r \in Req : \/ \E c \in Codes \cup {NoCode}, p \in Pools, h \in Hosts : Post(r, c, p, h)
                          \/ ReadReceipt(r) \/ Fail(r) \/ ReadRequested(r) \/ Save(r)
                          \/ \E c \in Codes : ReadRandom(r, c)
        \/ \E p \in Pools, h \in Hosts, s \in {"success", "reverted"} : Mine(p, h, s)
        \/ \E c \in Codes : Tip(c) \/ Expire(c)
Spec == Init /\ [][Next]_vars

-----------------------------------------------------------------------------
TypeOK ==
  /\ receipt \in [Pools -> Receipt]
  /\ store \in [Codes -> Room \cup {NoRoom}]
  /\ pc \in [Req -> Pc] /\ tried \in [Req -> 0..Polls + Tries] /\ expiries \in 0..MaxExpiry
  /\ body \in [Req -> [code: Codes \cup {NoCode}, pool: Pools, host: Hosts] \cup {NoBody}]
  /\ \A r \in Req : (pc[r] = "idle") <=> (body[r] = NoBody)

\* Every room on the board belongs to the host who deployed its TipPool
\* ("Ensures escrowDeployTxHash deployed poolAddress from hostAddress",
\* verify-deploy-tx.ts:57).
RoomsAreDeployed ==
  \A c \in Codes : store[c] # NoRoom =>
    receipt[store[c].pool] = [status |-> "success", from |-> store[c].host]

\* A room keeps its code and its tips until it expires: no create gives its
\* code away, and publishing it again changes nothing ("idempotent republish",
\* party-server.ts:152).
RoomsAreKept ==
  [][\A c \in Codes : store[c] # NoRoom =>
       \/ store'[c] = NoRoom
       \/ store'[c].pool = store[c].pool /\ store'[c].tips >= store[c].tips]_vars
=============================================================================
