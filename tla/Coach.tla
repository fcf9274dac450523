-------------------------------- MODULE Coach --------------------------------
(***************************************************************************)
(* The on-device coach: the sidecar that loads the model at the first      *)
(* question (coach/server.mjs) and the Coach tab, which checks the sidecar *)
(* and then asks (coach-screen.tsx).  Leaving the tab unmounts it: the     *)
(* question goes on in the sidecar and the tab, when it is opened again,   *)
(* knows nothing of it.                                                    *)
(***************************************************************************)
EXTENDS Naturals

CONSTANTS
  MaxQuestions, \* bound: questions put
  Leaving,      \* TRUE: the tab may be left while a question is under way
  MaxFaults     \* bound: failing imports, loads, completions and restarts

CoachAssumption == Leaving \in BOOLEAN /\ {MaxQuestions, MaxFaults} \subseteq Nat
Questions == 1..MaxQuestions

VARIABLES
  up,       \* the sidecar runs
  qvac,     \* the SDK is imported
  modelId,  \* the model in use, 0 for null
  loaded,   \* models in memory
  loads,    \* models loaded so far
  stage,    \* what each question awaits
  asked,    \* the last question put
  mine,     \* the last question of the mounted tab, 0 for none
  mount,    \* questions put before it was mounted
  busy, online, answer, error, \* the tab's state; answer is the question answered, or 0
  faults

vars == <<up, qvac, modelId, loaded, loads, stage, asked, mine, mount, busy, online, answer, error, faults>>
tab == <<mine, mount, busy, online, answer, error>>
sidecar == <<up, qvac, modelId, loaded, loads>>
Stages == {"idle", "check", "import", "load", "complete", "answered", "refused"}

Init == /\ up = TRUE /\ qvac = FALSE /\ modelId = 0 /\ loaded = {} /\ loads = 0
        /\ stage = [q \in Questions |-> "idle"]
        /\ asked = 0 /\ mine = 0 /\ mount = 0 /\ busy = FALSE /\ online = "checking" /\ answer = 0 /\ error = FALSE
        /\ faults = 0

Fault == faults < MaxFaults /\ faults' = faults + 1
ToTab(q) == q > mount  \* the tab that put q is still mounted
Stage(q, s) == stage' = [stage EXCEPT ![q] = s]

-----------------------------------------------------------------------------
(* The tab                                                                 *)

\* askCoach, up to the health check.
Ask(q) == /\ q = asked + 1 /\ ~busy /\ asked' = q /\ Stage(q, "check")
          /\ mine' = q /\ busy' = TRUE /\ answer' = 0 /\ error' = FALSE
          /\ UNCHANGED <<mount, online, faults>> /\ UNCHANGED sidecar

\* ensureModel: what a question has to await.
Needs == IF modelId # 0 THEN "complete" ELSE IF qvac THEN "load" ELSE "import"

\* checkCoach answers: the question is posted, or the tab says offline.
Checked(q) ==
  /\ stage[q] = "check"
  /\ Stage(q, IF ~up THEN "refused" ELSE Needs)
  /\ IF ToTab(q) THEN /\ online' = IF up THEN "yes" ELSE "no"
                      /\ error' = ~up /\ busy' = up
     ELSE UNCHANGED <<online, error, busy>>
  /\ UNCHANGED <<up, qvac, modelId, loaded, loads, asked, mine, mount, answer, faults>>

\* The tab is left and opened again: new state, and a check of its own; the
\* check can be asked for at any time.
Leave == /\ Leaving /\ mine # 0
         /\ mine' = 0 /\ mount' = asked /\ busy' = FALSE /\ answer' = 0 /\ error' = FALSE /\ online' = "checking"
         /\ UNCHANGED <<stage, asked, faults>> /\ UNCHANGED sidecar
Rechecked == /\ online' = IF up THEN "yes" ELSE "no"
             /\ UNCHANGED <<mine, mount, busy, answer, error, stage, asked, faults>> /\ UNCHANGED sidecar

\* The answer, or the error, of the question the tab waits for.
Shows(q, ok) == IF ToTab(q) THEN busy' = FALSE /\ answer' = (IF ok THEN q ELSE 0) /\ error' = ~ok
                ELSE UNCHANGED <<busy, answer, error>>

-----------------------------------------------------------------------------
(* The sidecar                                                             *)

Imported(q) == /\ stage[q] = "import" /\ qvac' = TRUE /\ Stage(q, "load")
               /\ UNCHANGED <<up, modelId, loaded, loads, asked, faults>> /\ UNCHANGED tab

\* modelId = await qvac.loadModel(...)
Loaded(q) ==
  /\ stage[q] = "load" /\ loads' = loads + 1
  /\ modelId' = loads' /\ loaded' = loaded \cup {loads'}
  /\ Stage(q, "complete")
  /\ UNCHANGED <<up, qvac, asked, faults>> /\ UNCHANGED tab

Completed(q) == /\ stage[q] = "complete" /\ Stage(q, "answered") /\ Shows(q, TRUE)
                /\ UNCHANGED <<asked, mine, mount, online, faults>> /\ UNCHANGED sidecar

\* The SDK is missing, the model does not load, the completion fails.
Fails(q) == /\ stage[q] \in {"import", "load", "complete"} /\ Fault
            /\ Stage(q, "refused") /\ Shows(q, FALSE)
            /\ UNCHANGED <<asked, mine, mount, online>> /\ UNCHANGED sidecar

\* SIGINT: the model in use is unloaded, the process ends, questions fail.
Stop == /\ up /\ Fault /\ up' = FALSE
        /\ qvac' = FALSE /\ modelId' = 0 /\ loaded' = loaded \ {modelId}
        /\ stage' = [q \in Questions |-> IF stage[q] \in {"import", "load", "complete"} THEN "refused" ELSE stage[q]]
        /\ IF mine # 0 /\ stage[mine] # "check" THEN Shows(mine, stage[mine] = "answered")
           ELSE UNCHANGED <<busy, answer, error>>
        /\ UNCHANGED <<loads, asked, mine, mount, online>>
Start == /\ ~up /\ up' = TRUE /\ UNCHANGED <<qvac, modelId, loaded, loads, stage, asked, faults>> /\ UNCHANGED tab

-----------------------------------------------------------------------------
Next == \/ \E q \in Questions : Ask(q) \/ Checked(q) \/ Imported(q) \/ Loaded(q) \/ Completed(q) \/ Fails(q)
        \/ Leave \/ Rechecked \/ Stop \/ Start
Fairness == \A q \in Questions : WF_vars(Checked(q)) /\ WF_vars(Imported(q)) /\ WF_vars(Loaded(q)) /\ WF_vars(Completed(q))
Spec == Init /\ [][Next]_vars
FairSpec == Spec /\ Fairness

-----------------------------------------------------------------------------
TypeOK == /\ modelId \in loaded \cup {0} /\ loads \in 0..MaxQuestions /\ stage \in [Questions -> Stages]
          /\ mine \in {0} \cup (mount + 1)..asked /\ mount \in 0..asked /\ answer \in {0, mine} /\ asked \in Questions \cup {0}
          /\ (busy => mine # 0) /\ ~(error /\ answer # 0)

\* The model is loaded once ("first request may take a few minutes"), and the
\* one the sidecar unloads when it stops is all there is.
OneModel == loaded \subseteq {modelId}

\* The tab shows the answer to its last question, and waits exactly while that
\* one is under way: neither an earlier answer nor a failure, a stopped sidecar
\* or a check that comes too late changes that.
BusyWithMine == busy <=> (mine # 0 /\ stage[mine] \in {"check", "import", "load", "complete"})

\* A question is answered or refused in the end.
AllAnswered == ~busy /\ \A q \in Questions : stage[q] \in {"idle", "answered", "refused"}
AnsweredOrRefused == []<>AllAnswered
=============================================================================
