------------------------ MODULE ReactController_proof ------------------------
(***************************************************************************)
(* What holds of the controller for every set of tasks, every limit and    *)
(* every length of plan.  Most actions of a run either go on to the next   *)
(* iteration or leave the loop with a result (LoopAction), so they share   *)
(* one proof; the others have one each.                                    *)
(*                                                                         *)
(* SuccessHasWork needs WorkKnown (between iterations, a graph with nodes  *)
(* has one that succeeded or one that failed), because the reducer calls a *)
(* verified graph completed unless it sees either.  StartedRowEnds needs to*)
(* know which rows are open in which phase, and that a plan is touched only*)
(* by the run that was routed to it.                                       *)
(* The refinement adds that a task has no row before it enters the loop    *)
(* (RowsFresh).  PlanHonest speaks of all units of a plan at once: its     *)
(* invariant keeps the frontier, the last unit reached, as a witness, so   *)
(* that no induction over the units is needed.                             *)
(*                                                                         *)
(* Two parts are not about a property that is run.  RunsAdvance and        *)
(* OnlyJamsStick are the safety halves of EveryRunReturns: what is left to *)
(* do only gets less, and nobody waits for what nobody does, except in the *)
(* jam that EveryRunReturns' instance has too few complex tasks for.       *)
(* CompletedPlansLost says of every instance what a run finds of one.      *)
(***************************************************************************)
EXTENDS ReactController, FiniteSetTheorems, TLAPS

WorkSeen(l) == l.nodes > 0 => l.ok # {} \/ l.bad

WorkKnown == \A r \in Runs : pc[r] \in {"top", "planning"} => WorkSeen(loop[r])

Sound(result) ==
    /\ result \in Results
    /\ result.status = "success" => result.produced \/ result.replied \/ result.gap

\* What the loop itself says; only a plan's end says "completed".
OfLoop(result) == Sound(result) /\ result.status # "completed"

ResultsSound == \A r \in Runs : Sound(final[r])

OutputsMatch ==
    \A t \in Complex : \A u \in Units :
        /\ plan[t].unit[u] = "completed" => plan[t].output[u] = "produced"
        /\ plan[t].unit[u] = "degraded" => plan[t].output[u] = "failed"

Touched(t) == plan[t].unit[1] # "pending"
Unrouted == {"idle", "queued", "top", "planning", "executing"}

PlansUntouched == \A t \in Complex : pc[t] \in Unrouted => ~Touched(t)

RowsOpen ==
    \A r \in Runs :
        /\ pc[r] \in Looping \cup {"ending", "raising"}
               => row[r].status \in {"created", "planned", "running"}
        /\ pc[r] \in {"returned", "raised"} => row[r].status \notin {"running", "waiting"}

PlannedRowsRun ==
    \A t \in Complex :
        Touched(t) =>
            /\ pc[t] \in {"ending", "raising"} => row[t].status = "running"
            /\ pc[t] \in {"returned", "raised"} => row[t].status \notin Unfinished

RowInv == PlansUntouched /\ RowsOpen /\ PlannedRowsRun
PlanInv == OutputsMatch /\ UnitNeedsMet
ControllerInv == TypeOK /\ WorkKnown /\ ResultsSound /\ PlanInv /\ RowInv

-----------------------------------------------------------------------------
(* Constants, loop states and results.                                     *)

LEMMA ConstantFacts ==
    /\ Tasks \subseteq Runs /\ Complex \subseteq Tasks
    /\ \A t \in Complex : UnitRun[t] \in Runs /\ UnitRun[t] \notin Tasks
    /\ 1 \in Units
BY RunsAssumption, NumUnitsAssumption DEF Runs, Children, Units

LEMMA FirstLoopTypes ==
    ASSUME TypeOK, NEW r \in Runs
    PROVE  FirstLoop(r) \in LoopStates /\ WorkSeen(FirstLoop(r))
<1> DEFINE n == IF Parent(r) = {} THEN 0 ELSE loop[CHOOSE t \in Parent(r) : TRUE].truncations
<1>1. LoopStart \in LoopStates /\ LoopStart.nodes = 0
  BY DEF LoopStart, LoopStates
<1>2. n \in Nat
  <2>1. CASE Parent(r) # {}
    <3>1. (CHOOSE t \in Parent(r) : TRUE) \in Runs
      BY <2>1, ConstantFacts DEF Parent
    <3> QED BY <2>1, <3>1 DEF TypeOK, LoopStates
  <2> QED BY <2>1
<1> HIDE DEF n
<1>3. FirstLoop(r) = [LoopStart EXCEPT !.truncations = n]
  BY Zenon DEF FirstLoop, n
<1>4. [LoopStart EXCEPT !.truncations = n] \in LoopStates
  BY <1>1, <1>2 DEF LoopStates
<1>5. [LoopStart EXCEPT !.truncations = n].nodes = 0
  BY <1>1 DEF LoopStates
<1> QED BY <1>3, <1>4, <1>5 DEF WorkSeen

LEMMA FailureSound ==
    ASSUME NEW l \in LoopStates
    PROVE  OfLoop(Failure(l)) /\ \A s \in {"partial_success", "failed"} : OfLoop(Result(l, s, FALSE))
BY DEF OfLoop, Failure, Result, Sound, Results, LoopStates

\* A graph the reducer calls completed has a node that succeeded.
LEMMA BreaksSound ==
    ASSUME NEW r \in Runs, NEW l \in LoopStates, WorkSeen(l),
           NEW verified \in BOOLEAN, NEW stuck \in BOOLEAN,
           Breaks(r, l, verified, stuck)
    PROVE  \E result : OfLoop(result) /\ Returns(r, result)
<1>1. PICK d \in Deliveries(r, l) :
          LET status == FinalStatus(l, d, verified, stuck)
          IN  Returns(r, [Result(l, status, status # "failed") EXCEPT !.replied = l.reply])
  BY DEF Breaks
<1> DEFINE g == [total |-> l.nodes > 0, succeeded |-> l.ok # {}, failed |-> l.bad]
           outcome == ReduceSimple(g, d, verified)
           status == FinalStatus(l, d, verified, stuck)
           result == [Result(l, status, status # "failed") EXCEPT !.replied = l.reply]
<1>2. outcome \in Outcome
  BY DEF ReduceSimple, Outcome
<1>3. ResultStatus[outcome] \in {"success", "partial_success", "failed"}
      /\ (ResultStatus[outcome] = "success" => outcome = "completed")
  BY <1>2 DEF ResultStatus, Outcome
<1>4. outcome = "completed" => l.ok # {}
  <2> SUFFICES ASSUME outcome = "completed", l.ok = {} PROVE FALSE
    OBVIOUS
  <2>1. d \in {"none", "unmet"}
    BY DEF Deliveries
  <2>2. l.nodes > 0 /\ ~l.bad
    BY <2>1 DEF ReduceSimple
  <2> QED BY <2>2 DEF WorkSeen
<1>5. status \in {"success", "partial_success", "failed"}
      /\ (status = "success" => l.reply \/ l.ok # {})
  <2>1. CASE l.reply
    BY <2>1 DEF FinalStatus
  <2>2. CASE ~l.reply /\ stuck
    BY <2>2 DEF FinalStatus
  <2>3. CASE ~l.reply /\ ~stuck
    <3>1. status = ResultStatus[outcome]
      BY <2>3 DEF FinalStatus
    <3> QED BY <3>1, <1>3, <1>4
  <2> QED BY <2>1, <2>2, <2>3
<1>6. l.reply \in BOOLEAN
  BY DEF LoopStates
<1> HIDE DEF outcome, status
<1> DEFINE plain == Result(l, status, status # "failed")
<1>7. plain \in Results /\ plain.status = status /\ plain.produced = (l.ok # {})
  BY <1>5 DEF Result, Results
<1> HIDE DEF plain
<1>8. /\ [plain EXCEPT !.replied = l.reply] \in Results
      /\ [plain EXCEPT !.replied = l.reply].status = status
      /\ [plain EXCEPT !.replied = l.reply].produced = (l.ok # {})
      /\ [plain EXCEPT !.replied = l.reply].replied = l.reply
  BY <1>6, <1>7 DEF Results
<1>9. OfLoop([plain EXCEPT !.replied = l.reply])
  BY <1>5, <1>8 DEF OfLoop, Sound
<1>10. Returns(r, [plain EXCEPT !.replied = l.reply])
  BY <1>1, Zenon DEF plain, status
<1> QED BY <1>9, <1>10

LEMMA AfterCycleTypes ==
    ASSUME NEW r \in Runs, loop[r] \in LoopStates,
           NEW outcome \in {"success", "failed", "unexecuted"},
           outcome = "unexecuted" => loop[r].bad
    PROVE  AfterCycle(r, outcome) \in LoopStates /\ WorkSeen(AfterCycle(r, outcome))
<1> DEFINE l == loop[r]
           ok == IF outcome = "success" THEN l.ok \cup {l.nodes} ELSE l.ok
           bad == l.bad \/ outcome = "failed"
           failures == IF outcome = "success" THEN 0 ELSE l.failures + 1
           after == [[[l EXCEPT !.ok = ok] EXCEPT !.bad = bad] EXCEPT !.failures = failures]
<1>1. l \in LoopStates
  OBVIOUS
<1>2. ok \in SUBSET Nat /\ bad \in BOOLEAN /\ failures \in Nat
  BY <1>1 DEF LoopStates
<1>3. ok # {} \/ bad
  OBVIOUS
<1>4. AfterCycle(r, outcome) = after
  BY <1>1 DEF AfterCycle, LoopStates
<1> HIDE DEF l, ok, bad, failures
<1>5. after \in LoopStates /\ after.ok = ok /\ after.bad = bad
  BY <1>1, <1>2 DEF LoopStates
<1> QED BY <1>3, <1>4, <1>5 DEF WorkSeen

LEMMA ProposedTypes ==
    ASSUME NEW r \in Runs, loop[r] \in LoopStates
    PROVE  /\ Proposed(r) \in LoopStates
           /\ WorkSeen(loop[r]) => WorkSeen(Proposed(r))
BY DEF Proposed, LoopStates, WorkSeen

LEMMA AfterFinishTypes ==
    ASSUME NEW r \in Runs, loop[r] \in LoopStates, NEW l \in AfterFinish(r)
    PROVE  l \in LoopStates /\ (WorkSeen(loop[r]) => WorkSeen(l))
BY DEF AfterFinish, LoopStates, WorkSeen

-----------------------------------------------------------------------------
(* Rows.                                                                   *)

LEMMA RowFacts ==
    ASSUME NEW w \in SessionRow
    PROVE  /\ \A s \in SessionStatus : Transition(w, s) \in SessionRow
           /\ CleanUp(w) \in SessionRow /\ Archived(w) \in SessionRow
           /\ w.status \in {"created", "planned", "running"} =>
                 /\ Transition(w, "planned").status \in {"planned", "running"}
                 /\ Transition(w, "running").status = "running"
                 /\ Transition(w, "failed").status = "failed"
                 /\ Transition(w, "completed").status \in {"planned", "completed"}
                 /\ w.status = "running" => Transition(w, "completed").status = "completed"
           /\ CleanUp(w).status \in {w.status, "failed"}
           /\ Archived(w).status \in {w.status, "archived"}
           /\ w.status \in {"completed", "failed", "cancelled", "archived", "absent"} =>
                 Archived(w).status \notin Unfinished
<1>1. \A s \in SessionStatus : Transition(w, s) \in SessionRow
  BY DEF Transition, SessionRow
<1>2. CleanUp(w) \in SessionRow /\ CleanUp(w).status \in {w.status, "failed"}
  BY DEF CleanUp, SessionRow, SessionStatus
<1>3. /\ Archived(w) \in SessionRow /\ Archived(w).status \in {w.status, "archived"}
      /\ w.status \in {"completed", "failed", "cancelled", "archived", "absent"} =>
             Archived(w).status \notin Unfinished
  BY DEF Archived, SessionRow, SessionStatus, EndStatus, Unfinished
<1>4. ASSUME NEW s \in SessionStatus, w.status \in SessionStatus
      PROVE  Transition(w, s).status =
                 IF s \in SessionTransitions[w.status] THEN s ELSE w.status
  BY <1>4 DEF Transition, SessionRow
<1>5. /\ SessionTransitions["created"]
             = {"planned", "running", "completed", "failed", "cancelled"}
      /\ SessionTransitions["planned"] = {"running", "failed", "cancelled"}
      /\ SessionTransitions["running"] = {"waiting", "completed", "failed", "cancelled"}
  BY DEF SessionTransitions, SessionStatus
<1>6. {"created", "planned", "running", "completed", "failed"} \subseteq SessionStatus
  BY DEF SessionStatus
<1> QED BY <1>1, <1>2, <1>3, <1>4, <1>5, <1>6

-----------------------------------------------------------------------------
(* Steps of one run that leave the plans alone.                            *)

Opened == {"created", "planned", "running"}

\* What such a step may do to the run's phase and row.
Admissible(r, p, w) ==
    /\ p \in Looping \cup {"ending", "raising"} => w.status \in Opened
    /\ p \in {"returned", "raised"} => w.status \notin {"running", "waiting"}
    /\ r \in Complex /\ p \in Unrouted => ~Touched(r)
    /\ r \in Complex /\ Touched(r) =>
          /\ p \in {"ending", "raising"} => w.status = "running"
          /\ p \in {"returned", "raised"} => w.status \notin Unfinished

LEMMA RunStep ==
    ASSUME ControllerInv, NEW r \in Runs, NEW p \in Phases, NEW w \in SessionRow,
           Admissible(r, p, w),
           pc' = [pc EXCEPT ![r] = p], row' = [row EXCEPT ![r] = w], plan' = plan
    PROVE  pc' \in [Runs -> Phases] /\ row' \in [Runs -> SessionRow] /\ RowInv' /\ PlanInv'
<1>1. pc \in [Runs -> Phases] /\ row \in [Runs -> SessionRow]
  BY DEF ControllerInv, TypeOK
<1>2. pc' \in [Runs -> Phases] /\ row' \in [Runs -> SessionRow]
  BY <1>1
<1>3. /\ pc'[r] = p /\ row'[r] = w
      /\ \A s \in Runs \ {r} : pc'[s] = pc[s] /\ row'[s] = row[s]
  BY <1>1
<1>4. \A t \in Complex : t \in Runs /\ Touched(t)' = Touched(t)
  BY ConstantFacts DEF Touched
<1>5. RowsOpen'
  BY <1>3 DEF ControllerInv, RowInv, RowsOpen, Admissible, Opened
<1>6. PlansUntouched'
  BY <1>3, <1>4 DEF ControllerInv, RowInv, PlansUntouched, Admissible
<1>7. PlannedRowsRun'
  BY <1>3, <1>4 DEF ControllerInv, RowInv, PlannedRowsRun, Admissible
<1>8. PlanInv'
  BY DEF ControllerInv, PlanInv, OutputsMatch, UnitNeedsMet
<1> QED BY <1>2, <1>5, <1>6, <1>7, <1>8 DEF RowInv

\* A run in its loop may keep its row, or move it on to "planned" or "running".
LEMMA InLoop ==
    ASSUME ControllerInv, NEW r \in Runs, pc[r] \in {"top", "planning", "executing"}
    PROVE  /\ row[r] \in SessionRow /\ row[r].status \in Opened
           /\ PlannedRow(r) \in SessionRow /\ PlannedRow(r).status \in Opened
           /\ r \in Complex => ~Touched(r)
<1>1. row[r] \in SessionRow /\ row[r].status \in Opened
  BY DEF ControllerInv, TypeOK, RowInv, RowsOpen, Looping, Opened
<1>2. "planned" \in SessionStatus
  BY DEF SessionStatus
<1>3. PlannedRow(r) \in SessionRow /\ PlannedRow(r).status \in Opened
  BY <1>1, <1>2, RowFacts DEF PlannedRow, Opened
<1>4. r \in Complex => ~Touched(r)
  BY DEF ControllerInv, RowInv, PlansUntouched, Unrouted
<1> QED BY <1>1, <1>3, <1>4

ProgressStates == [seen : SUBSET Nat, still : Nat]

LoopAction(r) ==
    /\ pc[r] \in {"top", "planning", "executing"}
    /\ \/ \E l \in LoopStates : WorkSeen(l) /\ Continues(r, l)
       \/ \E result : OfLoop(result) /\ Returns(r, result)
    /\ row' = row \/ row' = [row EXCEPT ![r] = PlannedRow(r)]
    /\ budget' \in Nat
    /\ progress' \in ProgressStates
    /\ UNCHANGED shared

LEMMA LoopActionKeeps ==
    ASSUME ControllerInv, NEW r \in Runs, LoopAction(r)
    PROVE  ControllerInv'
<1>1. PICK p \in {"top", "ending"} : pc' = [pc EXCEPT ![r] = p]
  BY DEF LoopAction, Continues, Returns
<1>2. PICK w \in {row[r], PlannedRow(r)} : row' = [row EXCEPT ![r] = w]
  <2>1. row = [row EXCEPT ![r] = row[r]]
    BY DEF ControllerInv, TypeOK
  <2> QED BY <2>1 DEF LoopAction
<1>3. w \in SessionRow /\ w.status \in Opened /\ (r \in Complex => ~Touched(r))
  BY <1>2, InLoop DEF LoopAction
<1>4. p \in Phases /\ Admissible(r, p, w)
  BY <1>1, <1>3 DEF Admissible, Phases
<1>5. pc' \in [Runs -> Phases] /\ row' \in [Runs -> SessionRow] /\ RowInv' /\ PlanInv'
  BY <1>1, <1>2, <1>3, <1>4, RunStep DEF LoopAction, shared
<1>6. PICK l \in LoopStates : loop' = [loop EXCEPT ![r] = l] /\ (p = "top" => WorkSeen(l))
  <2>1. CASE \E l \in LoopStates : WorkSeen(l) /\ Continues(r, l)
    BY <2>1 DEF Continues
  <2>2. CASE \E result : OfLoop(result) /\ Returns(r, result)
    <3>1. LoopStart \in LoopStates /\ WorkSeen(LoopStart)
      BY DEF LoopStart, LoopStates, WorkSeen
    <3> QED BY <3>1, <2>2 DEF Returns
  <2> QED BY <2>1, <2>2 DEF LoopAction
<1>7. WorkKnown'
  BY <1>1, <1>6 DEF ControllerInv, WorkKnown, TypeOK
<1>8. ResultsSound' /\ final' \in [Runs -> Results]
  <2>1. CASE final' = final
    BY <2>1 DEF ControllerInv, ResultsSound, TypeOK
  <2>2. CASE \E result : OfLoop(result) /\ final' = [final EXCEPT ![r] = result]
    BY <2>2 DEF ControllerInv, ResultsSound, TypeOK, OfLoop, Sound
  <2> QED BY <2>1, <2>2 DEF LoopAction, Continues, Returns
<1>9. TypeOK'
  <2>1. loop' \in [Runs -> LoopStates]
    BY <1>6 DEF ControllerInv, TypeOK
  <2>2. plan' \in [Complex -> PlanStates] /\ cancelled' \subseteq Tasks
        /\ restarts' \in 0..MaxRestarts
    BY DEF ControllerInv, TypeOK, LoopAction, shared
  <2> QED BY <1>5, <1>8, <2>1, <2>2 DEF TypeOK, LoopAction, ProgressStates
<1> QED BY <1>5, <1>7, <1>8, <1>9 DEF ControllerInv

\* The loop states such a step goes on with.
LEMMA LoopUpdates ==
    ASSUME NEW l \in LoopStates, WorkSeen(l)
    PROVE  /\ [l EXCEPT !.truncations = @ + 1] \in LoopStates /\ WorkSeen([l EXCEPT !.truncations = @ + 1])
           /\ [l EXCEPT !.rejections = @ + 1] \in LoopStates /\ WorkSeen([l EXCEPT !.rejections = @ + 1])
           /\ [l EXCEPT !.schemas = @ + 1] \in LoopStates /\ WorkSeen([l EXCEPT !.schemas = @ + 1])
           /\ [l EXCEPT !.calls = @ + 1] \in LoopStates /\ WorkSeen([l EXCEPT !.calls = @ + 1])
           /\ [l EXCEPT !.rejections = 0] \in LoopStates /\ WorkSeen([l EXCEPT !.rejections = 0])
           /\ [l EXCEPT !.deduped = TRUE] \in LoopStates /\ WorkSeen([l EXCEPT !.deduped = TRUE])
           /\ [l EXCEPT !.reply = TRUE] \in LoopStates /\ WorkSeen([l EXCEPT !.reply = TRUE])
<1>1. [l EXCEPT !.truncations = @ + 1] \in LoopStates /\ WorkSeen([l EXCEPT !.truncations = @ + 1])
  BY DEF LoopStates, WorkSeen
<1>2. [l EXCEPT !.rejections = @ + 1] \in LoopStates /\ WorkSeen([l EXCEPT !.rejections = @ + 1])
  BY DEF LoopStates, WorkSeen
<1>3. [l EXCEPT !.schemas = @ + 1] \in LoopStates /\ WorkSeen([l EXCEPT !.schemas = @ + 1])
  BY DEF LoopStates, WorkSeen
<1>4. [l EXCEPT !.calls = @ + 1] \in LoopStates /\ WorkSeen([l EXCEPT !.calls = @ + 1])
  BY DEF LoopStates, WorkSeen
<1>5. [l EXCEPT !.rejections = 0] \in LoopStates /\ WorkSeen([l EXCEPT !.rejections = 0])
  BY DEF LoopStates, WorkSeen
<1>6. [l EXCEPT !.deduped = TRUE] \in LoopStates /\ WorkSeen([l EXCEPT !.deduped = TRUE])
  BY DEF LoopStates, WorkSeen
<1>7. [l EXCEPT !.reply = TRUE] \in LoopStates /\ WorkSeen([l EXCEPT !.reply = TRUE])
  BY DEF LoopStates, WorkSeen
<1> QED BY <1>1, <1>2, <1>3, <1>4, <1>5, <1>6, <1>7

LEMMA RepairUpdate ==
    ASSUME NEW l \in LoopStates
    PROVE  /\ [l EXCEPT !.repairs = @ + 1] \in LoopStates
           /\ WorkSeen(l) => WorkSeen([l EXCEPT !.repairs = @ + 1])
BY DEF LoopStates, WorkSeen

LEMMA LoopActions ==
    ASSUME ControllerInv, NEW r \in Runs,
           \/ Stopped(r) \/ ExceedsLimit(r) \/ ShowsEvidence(r) \/ PlanTruncated(r)
           \/ DirectReply(r) \/ FinishRejected(r) \/ FinishVerified(r) \/ FinishRefused(r)
           \/ GuardRefuses(r) \/ SchemaViolated(r) \/ Duplicate(r) \/ Execute(r)
    PROVE  LoopAction(r)
<1>1. /\ loop[r] \in LoopStates /\ progress \in ProgressStates
      /\ budget \in Nat /\ budget + 1 \in Nat
  BY DEF ControllerInv, TypeOK, ProgressStates
<1>2. pc[r] \in {"top", "planning"} => WorkSeen(loop[r])
  BY DEF ControllerInv, WorkKnown
<1>3. Proposed(r) \in LoopStates /\ (WorkSeen(loop[r]) => WorkSeen(Proposed(r)))
  BY <1>1, ProposedTypes
<1>4. OfLoop(Failure(loop[r])) /\ OfLoop(Failure(Proposed(r)))
  BY <1>1, <1>3, FailureSound
<1>5. \A l \in AfterFinish(r) : l \in LoopStates /\ (WorkSeen(loop[r]) => WorkSeen(l))
  BY <1>1, AfterFinishTypes
<1>6. CASE Stopped(r)
  BY <1>1, <1>4, <1>6, Zenon DEF Stopped, LoopAction
<1>7. CASE ExceedsLimit(r)
  BY <1>1, <1>4, <1>7, Zenon DEF ExceedsLimit, LoopAction
<1>8. CASE ShowsEvidence(r)
  <2>1. \E result : OfLoop(result) /\ Returns(r, result)
    BY <1>1, <1>2, <1>8, BreaksSound DEF ShowsEvidence, MayPlan
  <2> QED BY <1>1, <1>8, <2>1, Zenon DEF ShowsEvidence, MayPlan, LoopAction
<1>9. CASE PlanTruncated(r)
  <2> DEFINE l == [loop[r] EXCEPT !.truncations = @ + 1]
  <2>1. l \in LoopStates /\ WorkSeen(l)
    BY <1>1, <1>2, <1>9, LoopUpdates DEF PlanTruncated
  <2>2. \/ Continues(r, l)
        \/ Returns(r, Failure(loop[r]))
    BY <1>9, Zenon DEF PlanTruncated
  <2> HIDE DEF l
  <2> QED BY <1>1, <1>4, <1>9, <2>1, <2>2, Zenon DEF PlanTruncated, LoopAction
<1>10. CASE DirectReply(r)
  <2> DEFINE l == [loop[r] EXCEPT !.reply = TRUE]
  <2>1. l \in LoopStates /\ WorkSeen(l)
    BY <1>1, <1>2, <1>10, LoopUpdates DEF DirectReply, Planned
  <2>2. Continues(r, l) \/ Breaks(r, l, FALSE, FALSE)
    BY <1>10, Zenon DEF DirectReply
  <2> HIDE DEF l
  <2>3. Breaks(r, l, FALSE, FALSE) => \E result : OfLoop(result) /\ Returns(r, result)
    BY <2>1, BreaksSound
  <2> QED BY <1>1, <1>10, <2>1, <2>2, <2>3, Zenon DEF DirectReply, Planned, LoopAction
<1>11. CASE FinishRejected(r)
  <2>1. PICK l \in AfterFinish(r) : Continues(r, [l EXCEPT !.rejections = @ + 1])
    BY <1>11 DEF FinishRejected
  <2> DEFINE m == [l EXCEPT !.rejections = @ + 1]
  <2>2. m \in LoopStates /\ WorkSeen(m)
    <3>1. l \in LoopStates /\ WorkSeen(l)
      BY <1>2, <1>5, <1>11 DEF FinishRejected, Planned
    <3> QED BY <3>1, LoopUpdates
  <2>3. Continues(r, m)
    BY <2>1
  <2> HIDE DEF m
  <2> QED BY <1>1, <1>11, <2>2, <2>3, Zenon DEF FinishRejected, Planned, LoopAction
<1>12. CASE FinishVerified(r)
  <2>1. PICK l \in AfterFinish(r) : Breaks(r, l, TRUE, FALSE)
    BY <1>12 DEF FinishVerified
  <2>2. l \in LoopStates /\ WorkSeen(l)
    BY <1>2, <1>5, <1>12 DEF FinishVerified, Planned
  <2>3. \E result : OfLoop(result) /\ Returns(r, result)
    BY <2>1, <2>2, BreaksSound
  <2> QED BY <1>1, <1>12, <2>3, Zenon DEF FinishVerified, Planned, LoopAction
<1>13. CASE FinishRefused(r)
  <2>1. \E result : OfLoop(result) /\ Returns(r, result)
    BY <1>1, <1>13, FailureSound, Zenon DEF FinishRefused
  <2> QED BY <1>1, <1>13, <2>1, Zenon DEF FinishRefused, Planned, LoopAction
<1>14. CASE GuardRefuses(r)
  BY <1>1, <1>4, <1>14, Zenon DEF GuardRefuses, Planned, LoopAction
<1>15. CASE SchemaViolated(r)
  <2> DEFINE l == [Proposed(r) EXCEPT !.schemas = @ + 1]
  <2>1. l \in LoopStates /\ WorkSeen(l)
    BY <1>2, <1>3, <1>15, LoopUpdates DEF SchemaViolated, Planned
  <2>2. Continues(r, l) \/ Returns(r, Failure(Proposed(r)))
    BY <1>15, Zenon DEF SchemaViolated
  <2> HIDE DEF l
  <2> QED BY <1>1, <1>4, <1>15, <2>1, <2>2, Zenon DEF SchemaViolated, Planned, LoopAction
<1>16. CASE Duplicate(r)
  <2> DEFINE l == [Proposed(r) EXCEPT !.deduped = TRUE]
  <2>1. l \in LoopStates /\ WorkSeen(l) /\ WorkSeen(Proposed(r))
    BY <1>2, <1>3, <1>16, LoopUpdates DEF Duplicate, Planned
  <2>2. Continues(r, l) \/ Breaks(r, Proposed(r), FALSE, TRUE)
    BY <1>16, Zenon DEF Duplicate
  <2> HIDE DEF l
  <2>3. Breaks(r, Proposed(r), FALSE, TRUE) => \E result : OfLoop(result) /\ Returns(r, result)
    BY <1>3, <2>1, BreaksSound
  <2> QED BY <1>1, <1>16, <2>1, <2>2, <2>3, Zenon DEF Duplicate, Planned, LoopAction
<1>17. CASE Execute(r)
  <2>1. PICK outcome \in {"success", "failed", "unexecuted"} :
            (outcome = "unexecuted" => loop[r].bad) /\ CycleEnds(r, outcome)
    BY <1>17 DEF Execute
  <2> DEFINE l == AfterCycle(r, outcome)
             stuck == l.ok \subseteq progress.seen
             still == IF stuck THEN progress.still + 1 ELSE 0
  <2>2. l \in LoopStates /\ WorkSeen(l)
    BY <1>1, <2>1, AfterCycleTypes
  <2>3. still \in Nat /\ l.ok \in SUBSET Nat
    BY <1>1, <2>2 DEF ProgressStates, LoopStates
  <2>4. \/ Returns(r, Failure(l)) /\ progress' = progress
        \/ Breaks(r, l, FALSE, FALSE) /\ progress' = [progress EXCEPT !.still = still]
        \/ Continues(r, l) /\ progress' = [seen |-> l.ok, still |-> still]
    BY <2>1, Zenon DEF CycleEnds
  <2> HIDE DEF l, still
  <2>5. progress' \in ProgressStates
    <3>1. [progress EXCEPT !.still = still] \in ProgressStates
          /\ [seen |-> l.ok, still |-> still] \in ProgressStates
      BY <1>1, <2>3 DEF ProgressStates
    <3> QED BY <1>1, <2>4, <3>1, Zenon
  <2>6. OfLoop(Failure(l)) /\ (Breaks(r, l, FALSE, FALSE) =>
                                 \E result : OfLoop(result) /\ Returns(r, result))
    BY <2>2, FailureSound, BreaksSound
  <2> QED BY <1>1, <1>17, <2>2, <2>4, <2>5, <2>6, Zenon DEF Execute, LoopAction
<1> QED BY <1>6, <1>7, <1>8, <1>9, <1>10, <1>11, <1>12, <1>13, <1>14, <1>15, <1>16, <1>17

-----------------------------------------------------------------------------
(* The other steps of a run.                                               *)

LEMMA TransitionOpen ==
    ASSUME NEW w \in SessionRow, w.status \in Opened
    PROVE  /\ \A s \in {"planned", "running", "completed", "failed"} :
                  Transition(w, s) \in SessionRow
           /\ Transition(w, "running").status = "running"
           /\ \A s \in {"completed", "failed"} :
                  /\ Transition(w, s).status \notin {"running", "waiting"}
                  /\ w.status = "running" => Transition(w, s).status \notin Unfinished
BY RowFacts DEF Opened, SessionStatus, Unfinished

\* The steps that begin, count, execute or end a run.
LEMMA RunStepsKeep ==
    ASSUME ControllerInv, NEW r \in Runs,
           \/ r \in Tasks /\ Submit(r)
           \/ EnterLoop(r) \/ AnswerGap(r) \/ CallPlanner(r) \/ PlannerRaises(r)
           \/ GuardRaises(r) \/ FinishRepaired(r) \/ ApplyPatch(r) \/ Finalize(r)
    PROVE  ControllerInv'
<1>1. TypeOK /\ WorkKnown /\ ResultsSound /\ PlanInv /\ RowInv
  BY DEF ControllerInv
<1>2. LoopStart \in LoopStates /\ WorkSeen(LoopStart)
  BY DEF LoopStart, LoopStates, WorkSeen
<1>3. NewRow \in SessionRow /\ NewRow.status = "created"
  BY DEF NewRow, NoRow, SessionRow, SessionStatus
<1>4. loop[r] \in LoopStates /\ row[r] \in SessionRow /\ pc[r] \in Phases
  BY <1>1 DEF TypeOK
<1>5. row = [row EXCEPT ![r] = row[r]]
  BY <1>1 DEF TypeOK
<1>6. budget + 1 \in Nat /\ FreshProgress \in ProgressStates
  BY <1>1 DEF TypeOK, FreshProgress, ProgressStates
<1>7. pc[r] \in Unrouted /\ r \in Complex => ~Touched(r)
  BY <1>1 DEF RowInv, PlansUntouched
\* A step that is admissible and keeps the loop states and results right.
<1>8. ASSUME NEW p \in Phases, NEW w \in SessionRow, Admissible(r, p, w),
             pc' = [pc EXCEPT ![r] = p], row' = [row EXCEPT ![r] = w], plan' = plan,
             loop' \in [Runs -> LoopStates],
             \A s \in Runs : pc'[s] \in {"top", "planning"} => WorkSeen(loop'[s]),
             \/ final' = final
             \/ \E result : Sound(result) /\ final' = [final EXCEPT ![r] = result],
             budget' \in Nat, progress' \in ProgressStates, cancelled' \subseteq Tasks,
             restarts' = restarts
      PROVE  ControllerInv'
  <2>1. pc' \in [Runs -> Phases] /\ row' \in [Runs -> SessionRow] /\ RowInv' /\ PlanInv'
    BY <1>8, RunStep
  <2>2. ResultsSound' /\ final' \in [Runs -> Results]
    <3>1. CASE final' = final
      BY <1>1, <3>1 DEF ResultsSound, TypeOK
    <3>2. CASE \E result : Sound(result) /\ final' = [final EXCEPT ![r] = result]
      BY <1>1, <3>2 DEF ResultsSound, TypeOK, Sound
    <3> QED BY <1>8, <3>1, <3>2
  <2>3. plan' \in [Complex -> PlanStates] /\ restarts' \in 0..MaxRestarts
    BY <1>1, <1>8 DEF TypeOK
  <2>4. TypeOK'
    BY <1>8, <2>1, <2>2, <2>3 DEF TypeOK, ProgressStates
  <2>5. WorkKnown'
    BY <1>8 DEF WorkKnown
  <2> QED BY <2>1, <2>2, <2>4, <2>5 DEF ControllerInv
\* The loop states when only this run's changes.
<1>9. ASSUME NEW p \in Phases, NEW l \in LoopStates, p \in {"top", "planning"} => WorkSeen(l),
             pc' = [pc EXCEPT ![r] = p], loop' = [loop EXCEPT ![r] = l]
      PROVE  /\ loop' \in [Runs -> LoopStates]
             /\ \A s \in Runs : pc'[s] \in {"top", "planning"} => WorkSeen(loop'[s])
  BY <1>1, <1>9 DEF TypeOK, WorkKnown
<1>10. loop = [loop EXCEPT ![r] = loop[r]]
  BY <1>1 DEF TypeOK
<1>11. progress \in ProgressStates /\ budget \in Nat /\ cancelled \subseteq Tasks
       /\ cancelled \ {r} \subseteq Tasks /\ 0 \in Nat
  BY <1>1 DEF TypeOK, ProgressStates
<1>12. CASE r \in Tasks /\ Submit(r)
  <2>1. Admissible(r, "queued", row[r])
    BY <1>7, <1>12 DEF Submit, Admissible, Looping, Unrouted
  <2>2. /\ loop' \in [Runs -> LoopStates]
        /\ \A s \in Runs : pc'[s] \in {"top", "planning"} => WorkSeen(loop'[s])
    BY <1>1, <1>12 DEF TypeOK, WorkKnown, Submit
  <2>3. "queued" \in Phases
    BY DEF Phases
  <2> QED BY <1>4, <1>5, <1>8, <1>11, <1>12, <2>1, <2>2, <2>3 DEF Submit, shared
<1>13. CASE EnterLoop(r)
  <2>1. Admissible(r, "top", NewRow)
    BY <1>3, <1>7, <1>13 DEF EnterLoop, Admissible, Looping, Unrouted, Opened
  <2>2. FirstLoop(r) \in LoopStates /\ WorkSeen(FirstLoop(r)) /\ "top" \in Phases
    BY <1>1, FirstLoopTypes DEF Phases
  <2>3. /\ loop' \in [Runs -> LoopStates]
        /\ \A s \in Runs : pc'[s] \in {"top", "planning"} => WorkSeen(loop'[s])
    BY <1>9, <1>13, <2>2 DEF EnterLoop
  <2> QED BY <1>3, <1>6, <1>8, <1>11, <1>13, <2>1, <2>2, <2>3 DEF EnterLoop, shared
<1>14. CASE AnswerGap(r)
  <2>1. Admissible(r, "returned", NewRow)
    BY <1>3, <1>7, <1>14 DEF AnswerGap, Admissible, Looping, Unrouted
  <2>2. /\ loop' \in [Runs -> LoopStates]
        /\ \A s \in Runs : pc'[s] \in {"top", "planning"} => WorkSeen(loop'[s])
    BY <1>1, <1>14 DEF TypeOK, WorkKnown, AnswerGap
  <2>3. Sound([Result(LoopStart, "success", TRUE) EXCEPT !.gap = TRUE])
        /\ "returned" \in Phases
    BY DEF Sound, Result, Results, LoopStart, Phases
  <2> QED BY <1>3, <1>8, <1>11, <1>14, <2>1, <2>2, <2>3 DEF AnswerGap
<1>15. CASE CallPlanner(r)
  <2> DEFINE l == [loop[r] EXCEPT !.calls = @ + 1]
  <2>1. /\ row[r].status \in Opened /\ (r \in Complex => ~Touched(r))
        /\ WorkSeen(loop[r])
    BY <1>1, <1>15, InLoop DEF CallPlanner, MayPlan, WorkKnown
  <2>2. Admissible(r, "planning", row[r]) /\ "planning" \in Phases
    BY <2>1 DEF Admissible, Phases, Looping
  <2>3. l \in LoopStates /\ WorkSeen(l)
    BY <1>4, <2>1, LoopUpdates
  <2>4. loop' = [loop EXCEPT ![r] = l]
    BY <1>15 DEF CallPlanner
  <2> HIDE DEF l
  <2>5. /\ loop' \in [Runs -> LoopStates]
        /\ \A s \in Runs : pc'[s] \in {"top", "planning"} => WorkSeen(loop'[s])
    BY <1>9, <1>15, <2>2, <2>3, <2>4 DEF CallPlanner
  <2> QED BY <1>4, <1>5, <1>8, <1>11, <1>15, <2>2, <2>5 DEF CallPlanner, shared
<1>16. CASE PlannerRaises(r) \/ GuardRaises(r)
  <2>1. PICK w \in {row[r], PlannedRow(r)} : row' = [row EXCEPT ![r] = w]
    BY <1>5, <1>16 DEF PlannerRaises, GuardRaises
  <2>2. /\ w \in SessionRow /\ w.status \in Opened
        /\ (r \in Complex => ~Touched(r))
    BY <1>16, <2>1, InLoop DEF PlannerRaises, GuardRaises, Planned
  <2>3. Admissible(r, "raising", w) /\ "raising" \in Phases
    BY <2>2 DEF Admissible, Phases, Looping
  <2>4. /\ loop' \in [Runs -> LoopStates]
        /\ \A s \in Runs : pc'[s] \in {"top", "planning"} => WorkSeen(loop'[s])
    BY <1>2, <1>9, <1>16, <2>3 DEF PlannerRaises, GuardRaises
  <2> QED BY <1>6, <1>8, <1>11, <1>16, <2>1, <2>2, <2>3, <2>4
          DEF PlannerRaises, GuardRaises, Planned, shared
<1>17. CASE FinishRepaired(r)
  <2> DEFINE owner == RepairOwner(r)
  <2>1. PICK l \in AfterFinish(r) :
            loop' = [[loop EXCEPT ![r] = [l EXCEPT !.rejections = 0]]
                          EXCEPT ![owner].repairs = @ + 1]
    BY <1>17 DEF FinishRepaired
  <2> DEFINE m == [l EXCEPT !.rejections = 0]
             between == [loop EXCEPT ![r] = m]
             n == [between[owner] EXCEPT !.repairs = @ + 1]
  <2>2. owner \in Runs
    BY ConstantFacts DEF RepairOwner, Parent
  <2>3. /\ row[r].status \in Opened /\ (r \in Complex => ~Touched(r))
        /\ WorkSeen(loop[r])
    BY <1>1, <1>17, InLoop DEF FinishRepaired, Planned, WorkKnown
  <2>4. l \in LoopStates /\ WorkSeen(l)
    BY <1>4, <2>3, AfterFinishTypes
  <2>5. m \in LoopStates /\ WorkSeen(m)
    BY <2>4, LoopUpdates
  <2> HIDE DEF m, owner
  <2>6. /\ between \in [Runs -> LoopStates] /\ between[r] = m
        /\ \A s \in Runs \ {r} : between[s] = loop[s]
    BY <1>1, <2>5 DEF TypeOK
  <2>7. loop' = [between EXCEPT ![owner] = n]
    BY <2>1 DEF m
  <2> HIDE DEF between
  <2>8. n \in LoopStates /\ (WorkSeen(between[owner]) => WorkSeen(n))
    <3>1. between[owner] \in LoopStates
      BY <2>2, <2>6
    <3> QED BY <3>1, RepairUpdate, Zenon
  <2> HIDE DEF n
  <2>9. loop' \in [Runs -> LoopStates]
    BY <2>2, <2>6, <2>7, <2>8
  <2>10. pc' = [pc EXCEPT ![r] = "top"]
    BY <1>17 DEF FinishRepaired
  <2>11. \A s \in Runs : pc'[s] \in {"top", "planning"} => WorkSeen(loop'[s])
    BY <1>1, <2>2, <2>5, <2>6, <2>7, <2>8, <2>10 DEF WorkKnown, TypeOK
  <2>12. Admissible(r, "top", row[r]) /\ "top" \in Phases
    BY <2>3 DEF Admissible, Phases, Looping
  <2> QED BY <1>4, <1>5, <1>6, <1>8, <1>11, <1>17, <2>9, <2>10, <2>11, <2>12
          DEF FinishRepaired, Planned, shared
<1>18. CASE ApplyPatch(r)
  <2> DEFINE l == [Proposed(r) EXCEPT !.nodes = @ + 1]
             w == Transition(PlannedRow(r), "running")
  <2>1. Proposed(r) \in LoopStates
    BY <1>4, ProposedTypes
  <2>2. l \in LoopStates
    BY <2>1 DEF LoopStates
  <2>3. w \in SessionRow /\ w.status = "running" /\ (r \in Complex => ~Touched(r))
    BY <1>18, InLoop, TransitionOpen DEF ApplyPatch, Planned
  <2>4. /\ pc' = [pc EXCEPT ![r] = "executing"] /\ loop' = [loop EXCEPT ![r] = l]
        /\ row' = [row EXCEPT ![r] = w]
    BY <1>18, Zenon DEF ApplyPatch
  <2> HIDE DEF l, w
  <2>5. Admissible(r, "executing", w) /\ "executing" \in Phases
    BY <2>3 DEF Admissible, Phases, Looping, Opened
  <2>6. /\ loop' \in [Runs -> LoopStates]
        /\ \A s \in Runs : pc'[s] \in {"top", "planning"} => WorkSeen(loop'[s])
    BY <1>9, <2>2, <2>4, <2>5
  <2> QED BY <1>6, <1>8, <1>11, <1>18, <2>3, <2>4, <2>5, <2>6 DEF ApplyPatch, Planned, shared
<1>19. CASE Finalize(r)
  <2> DEFINE p == IF pc[r] = "ending" THEN "returned" ELSE "raised"
             w == Transition(row[r], LifecycleOf(final[r].status))
  <2>1. row[r].status \in Opened
    BY <1>1, <1>19 DEF Finalize, RowInv, RowsOpen, Opened
  <2>2. LifecycleOf(final[r].status) \in {"completed", "failed"}
    BY DEF LifecycleOf
  <2>3. /\ w \in SessionRow /\ w.status \notin {"running", "waiting"}
        /\ row[r].status = "running" => w.status \notin Unfinished
    BY <1>4, <2>1, <2>2, TransitionOpen
  <2>4. r \in Complex /\ Touched(r) => row[r].status = "running"
    BY <1>1, <1>19 DEF Finalize, RowInv, PlannedRowsRun
  <2>5. pc' = [pc EXCEPT ![r] = p] /\ row' = [row EXCEPT ![r] = w]
    BY <1>19 DEF Finalize
  <2>6. p \in Phases /\ p \in {"returned", "raised"}
    BY DEF Phases
  <2> HIDE DEF p, w
  <2>7. Admissible(r, p, w)
    BY <2>3, <2>4, <2>6 DEF Admissible, Looping, Unrouted
  <2>8. /\ loop' \in [Runs -> LoopStates]
        /\ \A s \in Runs : pc'[s] \in {"top", "planning"} => WorkSeen(loop'[s])
    BY <1>1, <1>19, <2>5, <2>6 DEF TypeOK, WorkKnown, Finalize
  <2> QED BY <1>8, <1>11, <1>19, <2>3, <2>5, <2>6, <2>7, <2>8 DEF Finalize
<1> QED BY <1>12, <1>13, <1>14, <1>15, <1>16, <1>17, <1>18, <1>19

-----------------------------------------------------------------------------
(* Plans.                                                                  *)

PlanSound(p) ==
    /\ p \in PlanStates
    /\ \A u \in Units :
          /\ p.unit[u] = "completed" => p.output[u] = "produced"
          /\ p.unit[u] = "degraded" => p.output[u] = "failed"
    /\ \A u \in Current(p) : \A d \in DependsOn(u) :
          p.unit[d] \in {"completed", "degraded"} /\ p.output[d] = "produced"

LEMMA NewPlanSound == PlanSound(NewPlan) /\ NewPlan.unit[1] = "pending"
<1>1. NewPlan \in PlanStates
  BY LimitsAssumption DEF NewPlan, PlanStates, UnitStatus, OutputStatus
<1>2. \A u \in Units : NewPlan.unit[u] = "pending"
  BY DEF NewPlan
<1>3. Current(NewPlan) = {}
  BY <1>2 DEF Current
<1> QED BY <1>1, <1>2, <1>3, ConstantFacts DEF PlanSound

LEMMA BlockedSound ==
    ASSUME NEW p, PlanSound(p), NEW last \in Nat
    PROVE  /\ PlanSound(BlockedBefore(p, last))
           /\ BlockedBefore(p, last).output = p.output
           /\ \A u \in Units : BlockedBefore(p, last).unit[u] \in {p.unit[u], "blocked"}
           /\ \A u \in Units : BlockedBefore(p, last).unit[u] = "blocked" =>
                 p.unit[u] \in {"blocked", "pending"}
           /\ \A u \in Units : u >= last => BlockedBefore(p, last).unit[u] = p.unit[u]
<1> DEFINE q == BlockedBefore(p, last)
           unit == [u \in Units |->
                IF u < last /\ p.unit[u] = "pending" /\ DepsDone(p, u) /\ RefMissing(p, u)
                    THEN "blocked" ELSE p.unit[u]]
<1>1. p \in PlanStates
  BY DEF PlanSound
<1>2. unit \in [Units -> UnitStatus]
  BY <1>1 DEF PlanStates, UnitStatus
<1>3. /\ \A u \in Units : unit[u] \in {p.unit[u], "blocked"}
      /\ \A u \in Units : unit[u] = "blocked" => p.unit[u] \in {"blocked", "pending"}
      /\ \A u \in Units : u >= last => unit[u] = p.unit[u]
  BY DEF Units
<1>4. q = [p EXCEPT !.unit = unit]
  BY DEF BlockedBefore
<1> HIDE DEF q, unit
<1>5. q \in PlanStates /\ q.unit = unit /\ q.output = p.output
  BY <1>1, <1>2, <1>4 DEF PlanStates
<1>6. \A u \in Current(q) : u \in Current(p)
  BY <1>3, <1>5 DEF Current
<1>7. PlanSound(q)
  <2>1. \A u \in Units : p.unit[u] \in {"completed", "degraded"} => unit[u] = p.unit[u]
    BY <1>3
  <2>2. \A u \in Units : unit[u] \in {"completed", "degraded"} => unit[u] = p.unit[u]
    BY <1>3
  <2>3. \A u : DependsOn(u) \subseteq Units
    BY DEF DependsOn
  <2> QED BY <1>5, <1>6, <2>1, <2>2, <2>3 DEF PlanSound
<1> QED BY <1>3, <1>5, <1>7 DEF q

\* Where a plan is not being worked on, only "pending" units become current.
LEMMA BeginSound ==
    ASSUME NEW p, PlanSound(p), Current(p) = {}, NEW u \in Units, IsNext(p, u)
    PROVE  PlanSound(Begin(p, u))
<1> DEFINE q == BlockedBefore(p, u)
           b == Begin(p, u)
<1>1. u \in Nat /\ \A d : DependsOn(d) \subseteq Units
  BY DEF Units, DependsOn
<1>2. PlanSound(q) /\ q.output = p.output /\ q \in PlanStates
  BY <1>1, BlockedSound DEF PlanSound
<1>3. \A v \in Units : q.unit[v] \in {p.unit[v], "blocked"}
      /\ (q.unit[v] = "blocked" => p.unit[v] \in {"blocked", "pending"})
  BY <1>1, BlockedSound
<1>4. 1 \in 0..(MaxRetries + 1)
  BY LimitsAssumption
<1>5. b = [[q EXCEPT !.unit = [@ EXCEPT ![u] = "in_progress"]] EXCEPT !.attempt = 1]
  BY <1>2 DEF Begin, PlanStates
<1> HIDE DEF q, b
<1>6. b \in PlanStates /\ b.unit = [q.unit EXCEPT ![u] = "in_progress"] /\ b.output = q.output
  BY <1>2, <1>4, <1>5 DEF PlanStates, UnitStatus
<1>7. Current(b) = {u}
  <2>1. Current(q) = {}
    BY <1>3 DEF Current
  <2> QED BY <1>2, <1>6, <2>1 DEF Current, PlanStates
<1>8. \A d \in DependsOn(u) :
          /\ p.unit[d] \in {"completed", "degraded"} /\ d # u /\ d \in Units
          /\ ~(p.unit[d] = "degraded" /\ p.output[d] = "failed")
  BY <1>1 DEF IsNext, Executable, DepsDone, RefMissing, RefersTo, DependsOn, Units
<1>9. \A d \in DependsOn(u) :
          b.unit[d] \in {"completed", "degraded"} /\ b.output[d] = "produced"
  <2> SUFFICES ASSUME NEW d \in DependsOn(u)
               PROVE  b.unit[d] \in {"completed", "degraded"} /\ b.output[d] = "produced"
    OBVIOUS
  <2>1. p.unit[d] = "completed" /\ p.output[d] = "produced"
    BY <1>8 DEF PlanSound
  <2>2. q.unit[d] = p.unit[d]
    BY <1>3, <1>8, <2>1
  <2>3. b.unit[d] = q.unit[d]
    BY <1>2, <1>6, <1>8 DEF PlanStates
  <2> QED BY <1>2, <1>6, <2>1, <2>2, <2>3
<1>10. \A v \in Units : b.unit[v] \in {"completed", "degraded"} => b.unit[v] = q.unit[v]
  BY <1>2, <1>6 DEF PlanStates
<1> QED BY <1>2, <1>6, <1>7, <1>9, <1>10 DEF PlanSound, b

\* Nothing that is current depends on a unit that is.
LEMMA CurrentApart ==
    ASSUME NEW p, PlanSound(p), NEW u \in Current(p), NEW v \in Current(p)
    PROVE  u \notin DependsOn(v)
BY DEF PlanSound, Current

LEMMA CompletedSound ==
    ASSUME NEW p, PlanSound(p), NEW u \in Current(p), NEW produced \in BOOLEAN
    PROVE  PlanSound(MarkCompleted(p, u, produced))
<1> DEFINE s == IF produced THEN "completed" ELSE "degraded"
           o == IF produced THEN "produced" ELSE "failed"
           q == MarkCompleted(p, u, produced)
<1>1. p \in PlanStates /\ u \in Units /\ p.unit[u] = "in_progress"
  BY DEF PlanSound, Current
<1>2. s \in UnitStatus /\ o \in OutputStatus /\ 0 \in 0..(MaxRetries + 1)
      /\ s # "in_progress" /\ (s = "completed" => o = "produced")
      /\ (s = "degraded" => o = "failed")
  BY LimitsAssumption DEF UnitStatus, OutputStatus
<1>3. q = [[[p EXCEPT !.unit = [@ EXCEPT ![u] = s]] EXCEPT !.output = [@ EXCEPT ![u] = o]]
               EXCEPT !.attempt = 0]
  BY <1>1 DEF MarkCompleted, PlanStates
<1> HIDE DEF s, o, q
<1>4. /\ q \in PlanStates /\ q.unit = [p.unit EXCEPT ![u] = s]
      /\ q.output = [p.output EXCEPT ![u] = o]
  BY <1>1, <1>2, <1>3 DEF PlanStates
<1>5. /\ q.unit[u] = s /\ q.output[u] = o
      /\ \A v \in Units \ {u} : q.unit[v] = p.unit[v] /\ q.output[v] = p.output[v]
  BY <1>1, <1>4 DEF PlanStates
<1>6. \A v \in Current(q) : v \in Current(p) /\ v # u
  BY <1>2, <1>5 DEF Current
<1>7. \A v \in Current(q) : DependsOn(v) \subseteq Units \ {u}
  BY <1>6, CurrentApart DEF DependsOn
<1> QED BY <1>2, <1>4, <1>5, <1>6, <1>7 DEF PlanSound, q

LEMMA FailedSound ==
    ASSUME NEW p, PlanSound(p), NEW u \in Current(p)
    PROVE  PlanSound(MarkFailed(p, u))
<1> DEFINE q == MarkFailed(p, u)
<1>1. p \in PlanStates /\ u \in Units /\ p.unit[u] = "in_progress"
  BY DEF PlanSound, Current
<1>2. 0 \in 0..(MaxRetries + 1)
  BY LimitsAssumption
<1>3. \A v \in Downstream(p, u) : v \in Units /\ p.unit[v] = "pending"
  BY <1>1 DEF Downstream, Units
<1>4. q \in PlanStates
  BY <1>1, <1>2 DEF MarkFailed, PlanStates, UnitStatus, OutputStatus
<1>5. /\ q.unit[u] = "failed"
      /\ \A v \in Units \ {u} :
          /\ q.output[v] = p.output[v]
          /\ q.unit[v] \in {p.unit[v], "blocked"}
          /\ v \notin Downstream(p, u) => q.unit[v] = p.unit[v]
  BY <1>1 DEF MarkFailed, PlanStates
<1> HIDE DEF q
<1>6. \A v \in Current(q) : v \in Current(p) /\ v # u
  BY <1>5 DEF Current
<1>7. \A v \in Current(q) : DependsOn(v) \subseteq Units \ {u}
  BY <1>6, CurrentApart DEF DependsOn
<1>8. \A v \in Units : q.unit[v] \in {"completed", "degraded"} =>
                         v # u /\ q.unit[v] = p.unit[v]
  BY <1>5
<1>9. \A v \in Units \ {u} : p.unit[v] \in {"completed", "degraded"} => q.unit[v] = p.unit[v]
  BY <1>3, <1>5
<1> QED BY <1>4, <1>5, <1>6, <1>7, <1>8, <1>9 DEF PlanSound, q

-----------------------------------------------------------------------------
(* Steps of plans.                                                         *)

LEMMA PlansSound ==
    ASSUME ControllerInv
    PROVE  \A t \in Complex : PlanSound(plan[t])
BY DEF ControllerInv, TypeOK, PlanInv, OutputsMatch, UnitNeedsMet, PlanSound

LEMMA PlansStaySound ==
    ASSUME plan \in [Complex -> PlanStates], NEW t \in Complex, NEW p, PlanSound(p),
           \A s \in Complex : PlanSound(plan[s]), plan' = [plan EXCEPT ![t] = p]
    PROVE  plan' \in [Complex -> PlanStates] /\ PlanInv'
<1>1. plan' \in [Complex -> PlanStates]
  BY DEF PlanSound
<1>2. \A s \in Complex : PlanSound(plan'[s])
  OBVIOUS
<1> QED BY <1>1, <1>2 DEF PlanSound, PlanInv, OutputsMatch, UnitNeedsMet

\* What StartUnit, UnitEnds, RetryUnit and UnitFails have in common.
LEMMA UnitStep ==
    ASSUME ControllerInv, NEW t \in Complex, pc[t] = "routed",
           NEW p, PlanSound(p), NEW q \in {"idle", "queued"},
           plan' = [plan EXCEPT ![t] = p], pc' = [pc EXCEPT ![UnitRun[t]] = q],
           final' = final \/ final' = [final EXCEPT ![UnitRun[t]] = NoResult],
           UNCHANGED <<loop, row, budget, progress, cancelled, restarts>>
    PROVE  ControllerInv'
<1>1. TypeOK /\ WorkKnown /\ ResultsSound /\ RowInv
  BY DEF ControllerInv
<1>2. plan' \in [Complex -> PlanStates] /\ PlanInv'
  BY <1>1, PlansSound, PlansStaySound DEF TypeOK
<1>3. UnitRun[t] \in Runs /\ \A s \in Complex : s \in Runs /\ s # UnitRun[t]
  BY ConstantFacts
<1>4. pc'[UnitRun[t]] = q /\ \A r \in Runs \ {UnitRun[t]} : pc'[r] = pc[r]
  BY <1>1, <1>3 DEF TypeOK
<1>5. Sound(NoResult) /\ q \in Phases
  BY DEF Sound, NoResult, Results, Phases
<1>6. ResultsSound' /\ final' \in [Runs -> Results]
  <2>1. CASE final' = final
    BY <1>1, <2>1 DEF TypeOK, ResultsSound
  <2>2. CASE final' = [final EXCEPT ![UnitRun[t]] = NoResult]
    BY <1>1, <1>5, <2>2 DEF TypeOK, ResultsSound, Sound
  <2> QED BY <2>1, <2>2
<1>7. TypeOK'
  <2>1. pc' \in [Runs -> Phases]
    BY <1>1, <1>5 DEF TypeOK
  <2> QED BY <1>1, <1>2, <1>6, <2>1 DEF TypeOK
<1>8. WorkKnown'
  BY <1>1, <1>4 DEF WorkKnown
<1>9. \A s \in Complex : pc'[s] = pc[s] /\ (s # t => Touched(s)' = Touched(s))
  BY <1>1, <1>3, <1>4 DEF Touched, TypeOK
<1>10. RowInv'
  <2>1. PlansUntouched'
    BY <1>1, <1>9 DEF RowInv, PlansUntouched, Unrouted
  <2>2. RowsOpen'
    BY <1>1, <1>4 DEF RowInv, RowsOpen, Looping
  <2>3. PlannedRowsRun'
    BY <1>1, <1>9 DEF RowInv, PlannedRowsRun
  <2> QED BY <2>1, <2>2, <2>3 DEF RowInv
<1> QED BY <1>2, <1>6, <1>7, <1>8, <1>10 DEF ControllerInv

LEMMA UnitStepsKeep ==
    ASSUME ControllerInv, NEW t \in Complex,
           StartUnit(t) \/ UnitEnds(t) \/ RetryUnit(t) \/ UnitFails(t)
    PROVE  ControllerInv'
<1>1. PlanSound(plan[t]) /\ plan[t] \in PlanStates
  BY PlansSound DEF PlanSound
<1>2. CASE StartUnit(t)
  <2>1. PICK u \in Units : IsNext(plan[t], u) /\ StartAttempt(t, Begin(plan[t], u))
    BY <1>2 DEF StartUnit
  <2>2. PlanSound(Begin(plan[t], u))
    BY <1>1, <1>2, <2>1, BeginSound DEF StartUnit
  <2> QED BY <1>2, <2>1, <2>2, UnitStep DEF StartUnit, StartAttempt
<1>3. CASE UnitEnds(t)
  <2>1. PICK u \in Current(plan[t]), produced \in {FALSE, final[UnitRun[t]].produced} :
            plan' = [plan EXCEPT ![t] = MarkCompleted(plan[t], u, produced)]
    BY <1>3 DEF UnitEnds
  <2>2. produced \in BOOLEAN
    BY ConstantFacts DEF ControllerInv, TypeOK, Results
  <2>3. PlanSound(MarkCompleted(plan[t], u, produced))
    BY <1>1, <2>2, CompletedSound
  <2> QED BY <1>3, <2>1, <2>3, UnitStep DEF UnitEnds, AttemptOver
<1>4. CASE RetryUnit(t)
  <2> DEFINE p == [plan[t] EXCEPT !.attempt = @ + 1]
  <2>1. plan[t].attempt \in Nat /\ plan[t].attempt + 1 \in 0..(MaxRetries + 1)
    BY <1>1, <1>4, LimitsAssumption DEF PlanStates, RetryUnit
  <2>2. p \in PlanStates /\ p.unit = plan[t].unit /\ p.output = plan[t].output
    BY <1>1, <2>1 DEF PlanStates
  <2>3. StartAttempt(t, p)
    BY <1>4 DEF RetryUnit
  <2> HIDE DEF p
  <2>4. PlanSound(p)
    BY <1>1, <2>2 DEF PlanSound, Current
  <2> QED BY <1>4, <2>3, <2>4, UnitStep DEF RetryUnit, AttemptOver, StartAttempt
<1>5. CASE UnitFails(t)
  <2>1. PICK u \in Current(plan[t]) : plan' = [plan EXCEPT ![t] = MarkFailed(plan[t], u)]
    BY <1>5 DEF UnitFails
  <2>2. PlanSound(MarkFailed(plan[t], u))
    BY <1>1, FailedSound
  <2> QED BY <1>5, <2>1, <2>2, UnitStep DEF UnitFails, AttemptOver
<1> QED BY <1>2, <1>3, <1>4, <1>5

\* What Routed and PlanEnds have in common: the plan, phase and row of one task.
LEMMA TaskStep ==
    ASSUME ControllerInv, NEW t \in Complex, NEW p, PlanSound(p),
           NEW q \in {"routed", "ending"}, NEW w \in SessionRow, w.status \in Opened,
           q = "ending" => w.status = "running", NEW l \in LoopStates,
           plan' = [plan EXCEPT ![t] = p], pc' = [pc EXCEPT ![t] = q],
           row' = [row EXCEPT ![t] = w], loop' = [loop EXCEPT ![t] = l],
           final' = final \/ \E result : Sound(result) /\ final' = [final EXCEPT ![t] = result],
           budget' \in Nat, UNCHANGED <<progress, cancelled, restarts>>
    PROVE  ControllerInv'
<1>1. TypeOK /\ WorkKnown /\ ResultsSound /\ RowInv
  BY DEF ControllerInv
<1>2. plan' \in [Complex -> PlanStates] /\ PlanInv'
  BY <1>1, PlansSound, PlansStaySound DEF TypeOK
<1>3. t \in Runs /\ q \in Phases /\ \A s \in Complex : s \in Runs
  BY ConstantFacts DEF Phases
<1>4. /\ pc'[t] = q /\ row'[t] = w
      /\ \A r \in Runs \ {t} : pc'[r] = pc[r] /\ row'[r] = row[r] /\ loop'[r] = loop[r]
  BY <1>1, <1>3 DEF TypeOK
<1>5. ResultsSound' /\ final' \in [Runs -> Results]
  <2>1. CASE final' = final
    BY <1>1, <2>1 DEF TypeOK, ResultsSound
  <2>2. CASE \E result : Sound(result) /\ final' = [final EXCEPT ![t] = result]
    BY <1>1, <2>2 DEF TypeOK, ResultsSound, Sound
  <2> QED BY <2>1, <2>2
<1>6. TypeOK'
  <2>1. /\ pc' \in [Runs -> Phases] /\ row' \in [Runs -> SessionRow]
        /\ loop' \in [Runs -> LoopStates]
    BY <1>1, <1>3 DEF TypeOK
  <2> QED BY <1>1, <1>2, <1>5, <2>1 DEF TypeOK
<1>7. WorkKnown'
  BY <1>1, <1>4 DEF WorkKnown
<1>8. \A s \in Complex \ {t} : Touched(s)' = Touched(s)
  BY <1>1 DEF Touched, TypeOK
<1>9. RowInv'
  <2>1. PlansUntouched'
    BY <1>1, <1>3, <1>4, <1>8 DEF RowInv, PlansUntouched, Unrouted
  <2>2. RowsOpen'
    BY <1>1, <1>4 DEF RowInv, RowsOpen, Looping, Opened
  <2>3. PlannedRowsRun'
    BY <1>1, <1>3, <1>4, <1>8 DEF RowInv, PlannedRowsRun
  <2> QED BY <2>1, <2>2, <2>3 DEF RowInv
<1> QED BY <1>2, <1>5, <1>6, <1>7, <1>9 DEF ControllerInv

LEMMA RoutedKeeps ==
    ASSUME ControllerInv, NEW r \in Runs, Routed(r)
    PROVE  ControllerInv'
<1>1. r \in Complex
  BY DEF Routed
<1>2. loop[r] \in LoopStates /\ budget + 1 \in Nat
  BY DEF ControllerInv, TypeOK
<1>3. Proposed(r) \in LoopStates
  BY <1>2, ProposedTypes
<1>4. PlannedRow(r) \in SessionRow /\ PlannedRow(r).status \in Opened
  BY InLoop DEF Routed, Planned
<1>5. /\ plan' = [plan EXCEPT ![r] = NewPlan] /\ pc' = [pc EXCEPT ![r] = "routed"]
      /\ row' = [row EXCEPT ![r] = PlannedRow(r)] /\ loop' = [loop EXCEPT ![r] = Proposed(r)]
      /\ final' = final /\ budget' = budget + 1 /\ UNCHANGED <<progress, cancelled, restarts>>
  BY DEF Routed, Planned
<1> QED BY <1>1, <1>2, <1>3, <1>4, <1>5, NewPlanSound, TaskStep

LEMMA PlanEndsKeeps ==
    ASSUME ControllerInv, NEW t \in Complex, PlanEnds(t)
    PROVE  ControllerInv'
<1> DEFINE p == BlockedBefore(plan[t], NumUnits + 1)
           status == PlanStatus[ReduceWithPlan(p.unit)]
           produced == \E u \in Units : p.output[u] = "produced"
           plain == Result(loop[t], status, status # "failed")
           w == Transition(row[t], "running")
<1>1. PlanSound(p)
  BY PlansSound, BlockedSound, NumUnitsAssumption
<1>2. ReduceWithPlan(p.unit) \in Outcome
  BY DEF ReduceWithPlan, Outcome
<1>3. status \in {"completed", "partial_success", "failed"}
  BY <1>2 DEF PlanStatus, Outcome
<1>4. t \in Runs /\ row[t] \in SessionRow /\ row[t].status \in Opened /\ budget \in Nat
  BY ConstantFacts DEF ControllerInv, TypeOK, RowInv, RowsOpen, Looping, Opened, PlanEnds
<1>5. w \in SessionRow /\ w.status = "running"
  BY <1>4, TransitionOpen
<1>6. LoopStart \in LoopStates
  BY DEF LoopStart, LoopStates
<1>7. /\ plan' = [plan EXCEPT ![t] = p] /\ pc' = [pc EXCEPT ![t] = "ending"]
      /\ row' = [row EXCEPT ![t] = w] /\ loop' = [loop EXCEPT ![t] = LoopStart]
      /\ final' = [final EXCEPT ![t] = [plain EXCEPT !.produced = produced]]
      /\ UNCHANGED <<budget, progress, cancelled, restarts>>
  BY Zenon DEF PlanEnds, Returns
<1> HIDE DEF p, status, w
<1>8. plain \in Results /\ plain.status = status
  BY <1>3 DEF Result, Results
<1>9. produced \in BOOLEAN
  OBVIOUS
<1> HIDE DEF plain, produced
<1>10. /\ [plain EXCEPT !.produced = produced] \in Results
       /\ [plain EXCEPT !.produced = produced].status = status
  BY <1>8, <1>9 DEF Results
<1>11. Sound([plain EXCEPT !.produced = produced])
  BY <1>3, <1>10 DEF Sound
<1> QED BY <1>1, <1>4, <1>5, <1>6, <1>7, <1>11, TaskStep DEF Opened

-----------------------------------------------------------------------------
(* The environment's steps.                                                *)

LEMMA CancelKeeps ==
    ASSUME ControllerInv, NEW t \in Tasks, Cancel(t)
    PROVE  ControllerInv'
<1>1. UNCHANGED <<pc, loop, final, row, plan, budget, progress, restarts>>
      /\ cancelled' = cancelled \cup {t}
  BY DEF Cancel
<1>2. TypeOK'
  BY <1>1 DEF ControllerInv, TypeOK
<1>3. WorkKnown' /\ ResultsSound' /\ PlanInv' /\ RowInv'
  BY <1>1 DEF ControllerInv, WorkKnown, ResultsSound, PlanInv, OutputsMatch, UnitNeedsMet,
              RowInv, PlansUntouched, RowsOpen, PlannedRowsRun, Touched
<1> QED BY <1>2, <1>3 DEF ControllerInv

LEMMA ArchiveKeeps ==
    ASSUME ControllerInv, NEW r \in Runs, Archive(r)
    PROVE  ControllerInv'
<1> DEFINE w == Archived(row[r])
<1>1. /\ pc[r] \in Over \cup {"idle"} /\ row[r].status \in EndStatus
      /\ row' = [row EXCEPT ![r] = w]
      /\ UNCHANGED <<pc, loop, final, plan, budget, progress, cancelled, restarts>>
  BY DEF Archive
<1>2. row[r] \in SessionRow /\ pc[r] \in Phases /\ pc = [pc EXCEPT ![r] = pc[r]]
  BY DEF ControllerInv, TypeOK
<1>3. w \in SessionRow /\ w.status \notin Unfinished
  BY <1>1, <1>2, RowFacts DEF EndStatus
<1> HIDE DEF w
<1>4. pc[r] = "idle" /\ r \in Complex => ~Touched(r)
  BY DEF ControllerInv, RowInv, PlansUntouched, Unrouted
<1>5. Admissible(r, pc[r], w)
  BY <1>1, <1>3, <1>4 DEF Admissible, Over, Looping, Unrouted, Unfinished
<1>6. pc' \in [Runs -> Phases] /\ row' \in [Runs -> SessionRow] /\ RowInv' /\ PlanInv'
  BY <1>1, <1>2, <1>3, <1>5, RunStep
<1>7. TypeOK' /\ WorkKnown' /\ ResultsSound'
  BY <1>1, <1>6 DEF ControllerInv, TypeOK, WorkKnown, ResultsSound
<1> QED BY <1>6, <1>7 DEF ControllerInv

LEMMA RestartKeeps ==
    ASSUME ControllerInv, Restart
    PROVE  ControllerInv'
<1>1. TypeOK /\ ResultsSound /\ RowInv
  BY DEF ControllerInv
<1>2. PICK old \in SUBSET Runs :
          row' = [r \in Runs |-> IF r \in old THEN CleanUp(row[r]) ELSE row[r]]
  BY DEF Restart
<1>3. \A r \in Runs :
          /\ pc'[r] \in Over \cup {"idle"}
          /\ pc'[r] # "lost" => pc'[r] = pc[r]
  BY <1>1 DEF Restart, Over, TypeOK
<1>4. \A r \in Runs : row'[r] \in SessionRow /\ row'[r].status \in {row[r].status, "failed"}
  BY <1>1, <1>2, RowFacts DEF TypeOK
<1>5. \A t \in Complex : PlanSound(plan'[t])
  <2>1. \A t \in Complex : plan'[t] \in {plan[t], NewPlan}
    BY DEF Restart
  <2> QED BY <2>1, PlansSound, NewPlanSound
<1>6. PlanInv'
  BY <1>5 DEF PlanSound, PlanInv, OutputsMatch, UnitNeedsMet
<1>7. TypeOK'
  <2>1. pc' \in [Runs -> Phases]
    BY <1>1 DEF Restart, TypeOK, Phases
  <2>2. row' \in [Runs -> SessionRow]
    BY <1>2, <1>4
  <2>3. loop' \in [Runs -> LoopStates]
    BY DEF Restart, LoopStart, LoopStates
  <2>4. plan' \in [Complex -> PlanStates]
    BY <1>5 DEF Restart, PlanSound
  <2>5. /\ budget' \in Nat /\ progress' \in [seen : SUBSET Nat, still : Nat]
        /\ cancelled' \subseteq Tasks /\ restarts' \in 0..MaxRestarts
        /\ final' \in [Runs -> Results]
    BY <1>1, LimitsAssumption DEF Restart, TypeOK, FreshProgress
  <2> QED BY <2>1, <2>2, <2>3, <2>4, <2>5 DEF TypeOK
<1>8. WorkKnown' /\ ResultsSound'
  BY <1>1, <1>3 DEF WorkKnown, ResultsSound, Over, Restart
<1>9. \A t \in Complex : Touched(t)' => Touched(t)
  BY NewPlanSound DEF Restart, Touched
<1>10. RowInv'
  <2>1. PlansUntouched'
    BY <1>1, <1>3, <1>9, ConstantFacts DEF RowInv, PlansUntouched, Unrouted, Over
  <2>2. RowsOpen'
    BY <1>1, <1>3, <1>4 DEF RowInv, RowsOpen, Looping, Over
  <2>3. PlannedRowsRun'
    BY <1>1, <1>3, <1>4, <1>9, ConstantFacts DEF RowInv, PlannedRowsRun, Over, Unfinished
  <2> QED BY <2>1, <2>2, <2>3 DEF RowInv
<1> QED BY <1>6, <1>7, <1>8, <1>10 DEF ControllerInv

-----------------------------------------------------------------------------
(* The inductive invariant, and the theorems that rest on it.              *)

LEMMA ControllerInit == Init => ControllerInv
<1> SUFFICES ASSUME Init PROVE ControllerInv
  OBVIOUS
<1>1. \A t \in Complex : t \in Runs /\ PlanSound(plan[t]) /\ ~Touched(t)
  BY ConstantFacts, NewPlanSound DEF Init, Touched
<1>2. TypeOK
  <2>1. /\ pc \in [Runs -> Phases] /\ loop \in [Runs -> LoopStates]
        /\ final \in [Runs -> Results] /\ row \in [Runs -> SessionRow]
    BY DEF Init, Phases, LoopStart, LoopStates, NoResult, Results, NoRow, SessionRow
  <2>2. plan \in [Complex -> PlanStates]
    BY <1>1 DEF Init, PlanSound
  <2>3. /\ budget \in Nat /\ progress \in [seen : SUBSET Nat, still : Nat]
        /\ cancelled \subseteq Tasks /\ restarts \in 0..MaxRestarts
    BY LimitsAssumption DEF Init, FreshProgress
  <2> QED BY <2>1, <2>2, <2>3 DEF TypeOK
<1>3. WorkKnown /\ ResultsSound
  BY DEF Init, WorkKnown, WorkSeen, LoopStart, ResultsSound, Sound, NoResult, Results
<1>4. PlanInv
  BY <1>1 DEF PlanSound, PlanInv, OutputsMatch, UnitNeedsMet
<1>5. RowInv
  BY <1>1 DEF Init, RowInv, PlansUntouched, RowsOpen, PlannedRowsRun, Looping
<1> QED BY <1>2, <1>3, <1>4, <1>5 DEF ControllerInv

LEMMA ControllerStep == ControllerInv /\ [Next]_vars => ControllerInv'
<1> SUFFICES ASSUME ControllerInv, [Next]_vars PROVE ControllerInv'
  OBVIOUS
<1>1. CASE \E t \in Tasks : Submit(t) \/ Cancel(t)
  BY <1>1, ConstantFacts, RunStepsKeep, CancelKeeps
<1>2. ASSUME NEW r \in Runs, Step(r) PROVE ControllerInv'
  <2>1. CASE \/ EnterLoop(r) \/ AnswerGap(r) \/ CallPlanner(r) \/ PlannerRaises(r)
             \/ GuardRaises(r) \/ FinishRepaired(r) \/ ApplyPatch(r) \/ Finalize(r)
    BY <2>1, RunStepsKeep
  <2>2. CASE \/ Stopped(r) \/ ExceedsLimit(r) \/ ShowsEvidence(r) \/ PlanTruncated(r)
             \/ DirectReply(r) \/ FinishRejected(r) \/ FinishVerified(r) \/ FinishRefused(r)
             \/ GuardRefuses(r) \/ SchemaViolated(r) \/ Duplicate(r) \/ Execute(r)
    BY <2>2, LoopActions, LoopActionKeeps
  <2>3. CASE Routed(r)
    BY <2>3, RoutedKeeps
  <2> QED BY <1>2, <2>1, <2>2, <2>3 DEF Step, Planning
<1>3. CASE \E r \in Runs : Archive(r)
  BY <1>3, ArchiveKeeps
<1>4. CASE \E t \in Complex : PlanStep(t)
  BY <1>4, UnitStepsKeep, PlanEndsKeeps DEF PlanStep
<1>5. CASE Restart
  BY <1>5, RestartKeeps
<1>6. CASE UNCHANGED vars
  <2>1. TypeOK'
    BY <1>6 DEF vars, ControllerInv, TypeOK
  <2>2. WorkKnown' /\ ResultsSound' /\ PlanInv' /\ RowInv'
    BY <1>6 DEF vars, ControllerInv, WorkKnown, ResultsSound, PlanInv, OutputsMatch,
                UnitNeedsMet, RowInv, PlansUntouched, RowsOpen, PlannedRowsRun, Touched
  <2> QED BY <2>1, <2>2 DEF ControllerInv
<1> QED BY <1>1, <1>2, <1>3, <1>4, <1>5, <1>6 DEF Next

\* What the phases of runs say about results, rows and plans holds throughout.
THEOREM ControllerInvariant == Spec => []ControllerInv
<1> QED BY ControllerInit, ControllerStep, PTL DEF Spec

\* Every variable keeps its type: no unit is attempted more than 1 + max_retries
\* times, whatever the planner, the users and the process do.
THEOREM TypeCorrect == Spec => []TypeOK
<1>1. ControllerInv => TypeOK
  BY DEF ControllerInv
<1> QED BY <1>1, ControllerInvariant, PTL

\* _compute_final_result never calls a run a success that neither produced
\* anything nor was answered by the planner itself.
THEOREM SuccessIsEarned == Spec => []SuccessHasWork
<1>1. ControllerInv => SuccessHasWork
  BY DEF ControllerInv, ResultsSound, Sound, SuccessHasWork
<1> QED BY <1>1, ControllerInvariant, PTL

\* TaskPlanExecutor works on a unit only when what it refers to is there, for
\* plans of any length.
THEOREM UnitsInOrder == Spec => []UnitNeedsMet
<1>1. ControllerInv => UnitNeedsMet
  BY DEF ControllerInv, PlanInv
<1> QED BY <1>1, ControllerInvariant, PTL

\* Every exit of _execute_react_mode ends the row of a run that has executed.
THEOREM RowsEnd == Spec => []StartedRowEnds
<1>1. ControllerInv => StartedRowEnds
  BY ConstantFacts DEF ControllerInv, RowInv, RowsOpen, PlannedRowsRun, StartedRowEnds,
                       Executed, Touched
<1> QED BY <1>1, ControllerInvariant, PTL

-----------------------------------------------------------------------------
(* The rows of tasks implement the abstract life cycle.                    *)

\* A task has no row before it enters the loop.
RowsFresh ==
    \A t \in Tasks :
        pc[t] \in {"idle", "queued"} => row[t].status = "absent" /\ row[t].stamped = FALSE

\* A row stays, is created, or moves along the table and is stamped at its end.
RowStep(w, x) ==
    \/ x.status = w.status /\ x.stamped = w.stamped
    \/ /\ w.status = "absent" /\ w.stamped = FALSE
       /\ x.status = "created" /\ x.stamped = FALSE
    \/ /\ w.status \in SessionStatus /\ x.status \in SessionTransitions[w.status]
       /\ x.stamped = (w.stamped \/ x.status \in EndStatus)

LEMMA TableFacts ==
    /\ \A s \in SessionStatus : SessionTransitions[s] \subseteq SessionStatus
    /\ \A s \in Unfinished : s \in SessionStatus /\ "failed" \in SessionTransitions[s]
    /\ \A s \in EndStatus : s \in SessionStatus /\ SessionTransitions[s] = {"archived"}
    /\ "running" \in SessionTransitions["created"]
    /\ "planned" \in SessionTransitions["created"]
    /\ SessionTransitions["planned"] = {"running", "failed", "cancelled"}
    /\ "planned" \notin SessionTransitions["running"]
BY DEF SessionTransitions, SessionStatus, Unfinished, EndStatus

LEMMA RowSteps ==
    ASSUME NEW w \in SessionRow
    PROVE  /\ \A s \in SessionStatus : RowStep(w, Transition(w, s))
           /\ RowStep(w, CleanUp(w)) /\ RowStep(w, Archived(w))
           /\ w.status \in Opened => RowStep(w, Transition(Transition(w, "planned"), "running"))
<1>1. \A s \in SessionStatus : RowStep(w, Transition(w, s))
  BY DEF Transition, SessionRow, RowStep
<1>2. RowStep(w, CleanUp(w))
  BY TableFacts DEF CleanUp, SessionRow, RowStep, EndStatus
<1>3. RowStep(w, Archived(w))
  BY TableFacts DEF Archived, SessionRow, RowStep, EndStatus
<1>4. ASSUME w.status \in Opened
      PROVE  RowStep(w, Transition(Transition(w, "planned"), "running"))
  <2> DEFINE x == Transition(w, "planned")
  <2>1. "planned" \in SessionStatus /\ "running" \in SessionStatus /\ Opened \subseteq SessionStatus
    BY DEF SessionStatus, Opened
  <2>2. x \in SessionRow
    BY <2>1, RowFacts
  <2>3. CASE w.status = "created"
    <3>1. x.status = "planned" /\ x.stamped = w.stamped
      BY <2>1, <2>3, TableFacts DEF Transition, SessionRow, EndStatus
    <3> HIDE DEF x
    <3>2. Transition(x, "running").status = "running" /\ Transition(x, "running").stamped = x.stamped
      BY <2>1, <2>2, <3>1, TableFacts DEF Transition, SessionRow, EndStatus
    <3> QED BY <2>1, <2>3, <3>1, <3>2, TableFacts DEF RowStep, EndStatus, SessionRow, x
  <2>4. CASE w.status \in {"planned", "running"}
    <3>1. x = w
      BY <2>4, TableFacts DEF Transition
    <3> QED BY <1>1, <2>1, <3>1
  <2> QED BY <1>4, <2>3, <2>4 DEF Opened
<1> QED BY <1>1, <1>2, <1>3, <1>4

\* One step of one run, when no task goes back to a phase without a row.
LEMMA FreshStep ==
    ASSUME ControllerInv, RowsFresh, NEW r \in Runs, NEW p, NEW w,
           pc' = [pc EXCEPT ![r] = p], row' = [row EXCEPT ![r] = w],
           r \in Tasks => RowStep(row[r], w),
           r \in Tasks /\ p \in {"idle", "queued"} =>
                 pc[r] \in {"idle", "queued"} /\ w = row[r]
    PROVE  RowsFresh' /\ \A t \in Tasks : RowStep(row[t], row'[t])
<1>1. /\ pc'[r] = p /\ row'[r] = w
      /\ \A s \in Runs \ {r} : pc'[s] = pc[s] /\ row'[s] = row[s]
  BY DEF ControllerInv, TypeOK
<1>2. \A t \in Tasks : t \in Runs
  BY ConstantFacts
<1> QED BY <1>1, <1>2 DEF RowsFresh, RowStep

LEMMA RunStepFresh ==
    ASSUME ControllerInv, RowsFresh, NEW r \in Runs,
           (r \in Tasks /\ Submit(r)) \/ Step(r)
    PROVE  RowsFresh' /\ \A t \in Tasks : RowStep(row[t], row'[t])
<1>1. row[r] \in SessionRow /\ row = [row EXCEPT ![r] = row[r]]
  BY DEF ControllerInv, TypeOK
<1>2. {"planned", "running", "completed", "failed"} \subseteq SessionStatus
  BY DEF SessionStatus
<1>3. RowStep(row[r], row[r]) /\ RowStep(row[r], PlannedRow(r))
  BY <1>1, <1>2, RowSteps DEF PlannedRow, RowStep
<1>4. CASE r \in Tasks /\ Submit(r)
  BY <1>1, <1>3, <1>4, FreshStep DEF Submit
<1>5. CASE EnterLoop(r) \/ AnswerGap(r)
  <2>1. PICK p \in {"top", "returned"} :
            pc' = [pc EXCEPT ![r] = p] /\ row' = [row EXCEPT ![r] = NewRow]
    BY <1>5 DEF EnterLoop, AnswerGap
  <2>2. r \in Tasks => RowStep(row[r], NewRow)
    BY <1>5 DEF EnterLoop, AnswerGap, RowsFresh, RowStep, NewRow, NoRow
  <2> QED BY <2>1, <2>2, FreshStep
<1>6. CASE \/ CallPlanner(r) \/ PlannerRaises(r) \/ GuardRaises(r)
           \/ FinishRepaired(r) \/ Routed(r)
  <2>1. PICK p \in {"planning", "raising", "top", "routed"} : pc' = [pc EXCEPT ![r] = p]
    BY <1>6 DEF CallPlanner, PlannerRaises, GuardRaises, FinishRepaired, Routed
  <2>2. PICK w \in {row[r], PlannedRow(r)} : row' = [row EXCEPT ![r] = w]
    BY <1>1, <1>6 DEF CallPlanner, PlannerRaises, GuardRaises, FinishRepaired, Routed
  <2> QED BY <1>3, <2>1, <2>2, FreshStep
<1>7. CASE \/ Stopped(r) \/ ExceedsLimit(r) \/ ShowsEvidence(r) \/ PlanTruncated(r)
           \/ DirectReply(r) \/ FinishRejected(r) \/ FinishVerified(r) \/ FinishRefused(r)
           \/ GuardRefuses(r) \/ SchemaViolated(r) \/ Duplicate(r) \/ Execute(r)
  <2>1. LoopAction(r)
    BY <1>7, LoopActions
  <2>2. PICK p \in {"top", "ending"} : pc' = [pc EXCEPT ![r] = p]
    BY <2>1 DEF LoopAction, Continues, Returns
  <2>3. PICK w \in {row[r], PlannedRow(r)} : row' = [row EXCEPT ![r] = w]
    BY <1>1, <2>1 DEF LoopAction
  <2> QED BY <1>3, <2>2, <2>3, FreshStep
<1>8. CASE ApplyPatch(r)
  <2> DEFINE w == Transition(PlannedRow(r), "running")
  <2>1. row[r].status \in Opened
    BY <1>8, InLoop DEF ApplyPatch, Planned
  <2>2. RowStep(row[r], w)
    BY <1>1, <1>2, <2>1, RowSteps DEF PlannedRow
  <2>3. pc' = [pc EXCEPT ![r] = "executing"] /\ row' = [row EXCEPT ![r] = w]
    BY <1>8 DEF ApplyPatch
  <2> QED BY <2>2, <2>3, FreshStep
<1>9. CASE Finalize(r)
  <2> DEFINE w == Transition(row[r], LifecycleOf(final[r].status))
             p == IF pc[r] = "ending" THEN "returned" ELSE "raised"
  <2>1. RowStep(row[r], w)
    BY <1>1, <1>2, RowSteps DEF LifecycleOf
  <2>2. pc' = [pc EXCEPT ![r] = p] /\ row' = [row EXCEPT ![r] = w]
    BY <1>9 DEF Finalize
  <2>3. p \notin {"idle", "queued"}
    OBVIOUS
  <2> QED BY <2>1, <2>2, <2>3, FreshStep
<1> QED BY <1>4, <1>5, <1>6, <1>7, <1>8, <1>9 DEF Step, Planning

LEMMA FreshKept ==
    ControllerInv /\ RowsFresh /\ [Next]_vars
        => RowsFresh' /\ \A t \in Tasks : RowStep(row[t], row'[t])
<1> SUFFICES ASSUME ControllerInv, RowsFresh, [Next]_vars
             PROVE  RowsFresh' /\ \A t \in Tasks : RowStep(row[t], row'[t])
  OBVIOUS
<1>1. \A t \in Tasks : t \in Runs
  BY ConstantFacts
<1>2. \A r \in Runs : pc[r] \in Phases /\ row[r] \in SessionRow
  BY DEF ControllerInv, TypeOK
<1>3. CASE \E t \in Tasks : Submit(t)
  BY <1>1, <1>3, RunStepFresh
<1>4. CASE \E r \in Runs : Step(r)
  BY <1>4, RunStepFresh
<1>5. CASE UNCHANGED <<pc, row>>
  BY <1>5 DEF RowsFresh, RowStep
<1>6. CASE \E t \in Tasks : Cancel(t)
  BY <1>5, <1>6 DEF Cancel
<1>7. ASSUME NEW r \in Runs, Archive(r)
      PROVE  RowsFresh' /\ \A t \in Tasks : RowStep(row[t], row'[t])
  <2>1. pc = [pc EXCEPT ![r] = pc[r]]
    BY DEF ControllerInv, TypeOK
  <2>2. pc' = [pc EXCEPT ![r] = pc[r]] /\ row' = [row EXCEPT ![r] = Archived(row[r])]
        /\ row[r].status \in EndStatus
    BY <1>7, <2>1 DEF Archive
  <2>3. r \in Tasks => pc[r] \notin {"idle", "queued"}
    BY <2>2 DEF RowsFresh, EndStatus
  <2>4. RowStep(row[r], Archived(row[r]))
    BY <1>2, RowSteps
  <2> QED BY <2>2, <2>3, <2>4, FreshStep
<1>8. ASSUME NEW t \in Complex, PlanStep(t)
      PROVE  RowsFresh' /\ \A s \in Tasks : RowStep(row[s], row'[s])
  <2>1. CASE PlanEnds(t)
    <3>1. t \in Runs /\ "running" \in SessionStatus
      BY ConstantFacts DEF SessionStatus
    <3>2. RowStep(row[t], Transition(row[t], "running"))
      BY <1>2, <3>1, RowSteps
    <3>3. /\ pc' = [pc EXCEPT ![t] = "ending"]
          /\ row' = [row EXCEPT ![t] = Transition(row[t], "running")]
      BY <2>1 DEF PlanEnds, Returns
    <3> QED BY <3>1, <3>2, <3>3, FreshStep
  <2>2. CASE StartUnit(t) \/ UnitEnds(t) \/ RetryUnit(t) \/ UnitFails(t)
    <3>1. row' = row /\ \E p : pc' = [pc EXCEPT ![UnitRun[t]] = p]
      BY <2>2 DEF StartUnit, UnitEnds, RetryUnit, UnitFails, StartAttempt
    <3>2. \A s \in Tasks : pc'[s] = pc[s]
      BY <1>1, <3>1, ConstantFacts DEF ControllerInv, TypeOK
    <3> QED BY <3>1, <3>2 DEF RowsFresh, RowStep
  <2> QED BY <1>8, <2>1, <2>2 DEF PlanStep
<1>9. CASE Restart
  <2>1. PICK old \in SUBSET Runs :
            row' = [r \in Runs |-> IF r \in old THEN CleanUp(row[r]) ELSE row[r]]
    BY <1>9 DEF Restart
  <2>2. \A t \in Tasks : RowStep(row[t], row'[t])
    BY <1>1, <1>2, <2>1, RowSteps DEF RowStep
  <2>3. \A t \in Tasks : pc'[t] \in {"idle", "queued"} => pc[t] = "idle"
    BY <1>1, <1>9 DEF Restart, Over
  <2>4. \A t \in Tasks : row[t].status = "absent" => row'[t] = row[t]
    BY <1>1, <2>1 DEF CleanUp, Unfinished
  <2> QED BY <2>2, <2>3, <2>4 DEF RowsFresh
<1>10. CASE UNCHANGED vars
  BY <1>5, <1>10 DEF vars
<1> QED BY <1>3, <1>4, <1>6, <1>7, <1>8, <1>9, <1>10 DEF Next

\* Whatever hooks are refused, whatever is cleaned up or archived: the row of a
\* task moves along ExecutionSessionStore's table, and is stamped when it ends.
THEOREM RowsFollowLifecycle == Spec => ImplementsLifecycle
<1>1. Init => RowsFresh /\ \A t \in Tasks : RowOf(t)!Init
  BY ConstantFacts DEF Init, RowsFresh, NoRow, RowOf!Init
<1>2. ControllerInv /\ RowsFresh /\ [Next]_vars
        => [\A t \in Tasks : [RowOf(t)!Next]_(RowOf(t)!vars)]_row
  <2> SUFFICES ASSUME ControllerInv, RowsFresh, [Next]_vars, NEW t \in Tasks
               PROVE  [RowOf(t)!Next]_(RowOf(t)!vars)
    OBVIOUS
  <2>1. RowStep(row[t], row'[t])
    BY FreshKept
  <2>2. row[t].status \in SessionStatus \cup {"absent"}
    BY ConstantFacts DEF ControllerInv, TypeOK, SessionRow
  <2>3. CASE row[t].status \in SessionStatus
             /\ row'[t].status \in SessionTransitions[row[t].status]
             /\ row'[t].stamped = (row[t].stamped \/ row'[t].status \in EndStatus)
    <3>1. row'[t].status \in SessionStatus /\ row[t].status # "absent"
          /\ row'[t].status # "absent"
      BY <2>3, TableFacts DEF SessionStatus
    <3>2. RowOf(t)!Move(row'[t].status)
      BY <2>3, <3>1 DEF RowOf!Move
    <3>3. row'[t].status \in DOMAIN SessionTransitions
      BY <3>1 DEF SessionTransitions
    <3> QED BY <3>2, <3>3 DEF RowOf!Next
  <2>4. CASE row'[t].status = row[t].status /\ row'[t].stamped = row[t].stamped
    BY <2>4 DEF RowOf!vars
  <2>5. CASE /\ row[t].status = "absent" /\ row[t].stamped = FALSE
             /\ row'[t].status = "created" /\ row'[t].stamped = FALSE
    BY <2>5 DEF RowOf!vars
  <2> QED BY <2>1, <2>3, <2>4, <2>5 DEF RowStep
<1>3. ControllerInv /\ RowsFresh /\ [Next]_vars => RowsFresh'
  BY FreshKept
<1>4. Spec => []RowsFresh
  BY <1>1, <1>3, ControllerInvariant, PTL DEF Spec
<1> QED BY <1>1, <1>2, <1>4, ControllerInvariant, PTL DEF Spec, ImplementsLifecycle

-----------------------------------------------------------------------------
(* What the executor says of a plan.  Its units are reached in order, up to*)
(* a frontier, and nothing is blocked without a unit that failed or was    *)
(* degraded: so a plan without either, and with nothing left to execute,   *)
(* is completed to its last unit.                                          *)

Frontier(p, n) == \A u \in Units : p.unit[u] = "pending" <=> u > n

Chained(p) ==
    /\ \E n \in 0..NumUnits : Frontier(p, n)
    /\ (\E u \in Units : p.unit[u] = "blocked")
          => \E u \in Units : p.unit[u] \in {"failed", "degraded"}

LEMMA NewPlanChained == Chained(NewPlan)
<1>1. \A u \in Units : NewPlan.unit[u] = "pending" /\ u > 0
  BY DEF NewPlan, Units
<1>2. 0 \in 0..NumUnits
  BY NumUnitsAssumption
<1> QED BY <1>1, <1>2 DEF Chained, Frontier

\* A pending unit whose dependencies are done is the first beyond the frontier.
LEMMA NextIsFirst ==
    ASSUME NEW p, NEW n \in 0..NumUnits, Frontier(p, n),
           NEW u \in Units, p.unit[u] = "pending", DepsDone(p, u)
    PROVE  u = n + 1
<1>1. u > n /\ u \in Nat /\ n \in Nat /\ u >= 1 /\ u <= NumUnits
  BY DEF Frontier, Units
<1>2. CASE u > n + 1
  <2>1. u - 1 \in Units /\ u - 1 > n /\ (u - 1) + 1 = u
    BY <1>1, <1>2, NumUnitsAssumption DEF Units
  <2>2. u - 1 \in DependsOn(u)
    BY <2>1 DEF DependsOn
  <2> QED BY <2>1, <2>2 DEF DepsDone, Frontier
<1> QED BY <1>1, <1>2

LEMMA BlockedChained ==
    ASSUME NEW p, PlanSound(p), Chained(p), NEW last \in Nat
    PROVE  Chained(BlockedBefore(p, last))
<1> DEFINE q == BlockedBefore(p, last)
           hit(u) == u < last /\ p.unit[u] = "pending" /\ DepsDone(p, u) /\ RefMissing(p, u)
<1>1. PICK n \in 0..NumUnits : Frontier(p, n)
  BY DEF Chained
<1>2. \A u \in Units : q.unit[u] = IF hit(u) THEN "blocked" ELSE p.unit[u]
  BY DEF BlockedBefore, PlanSound, PlanStates
<1>3. \A u \in Units : hit(u) => u = n + 1 /\ p.unit[u] = "pending"
  BY <1>1, NextIsFirst
<1>4. \A u \in Units : hit(u) => \E d \in Units : p.unit[d] = "degraded"
  BY DEF RefMissing, RefersTo, DependsOn
<1> HIDE DEF hit, q
<1>5. ASSUME NEW v \in Units, hit(v)
      PROVE  Chained(q)
  <2>1. n + 1 \in 0..NumUnits
    BY <1>3, <1>5, NumUnitsAssumption DEF Units
  <2>2. \A u \in Units : hit(u) <=> u = n + 1
    BY <1>3, <1>5
  <2>3. Frontier(q, n + 1)
    BY <1>1, <1>2, <2>2, NumUnitsAssumption DEF Frontier, Units
  <2>4. \E d \in Units : q.unit[d] = "degraded"
    <3>1. PICK d \in Units : p.unit[d] = "degraded"
      BY <1>4, <1>5
    <3>2. ~hit(d)
      BY <1>3, <3>1
    <3> QED BY <1>2, <3>1, <3>2
  <2> QED BY <2>1, <2>3, <2>4 DEF Chained
<1>6. CASE \A u \in Units : ~hit(u)
  <2>1. \A u \in Units : q.unit[u] = p.unit[u]
    BY <1>2, <1>6
  <2>2. Frontier(q, n)
    BY <1>1, <2>1 DEF Frontier
  <2>3. (\E u \in Units : p.unit[u] = "blocked")
           => \E u \in Units : p.unit[u] \in {"failed", "degraded"}
    BY DEF Chained
  <2>4. (\E u \in Units : q.unit[u] = "blocked")
           => \E u \in Units : q.unit[u] \in {"failed", "degraded"}
    BY <2>1, <2>3
  <2> QED BY <2>2, <2>4 DEF Chained, q
<1> QED BY <1>5, <1>6 DEF q

LEMMA BeginChained ==
    ASSUME NEW p, PlanSound(p), Chained(p), NEW u \in Units, IsNext(p, u)
    PROVE  Chained(Begin(p, u)) /\ Begin(p, u).unit[1] # "pending"
<1> DEFINE q == BlockedBefore(p, u)
           b == Begin(p, u)
<1>1. PICK n \in 0..NumUnits : Frontier(p, n)
  BY DEF Chained
<1>2. u = n + 1 /\ p.unit[u] = "pending"
  BY <1>1, NextIsFirst DEF IsNext, Executable
<1>3. u \in Nat /\ PlanSound(q) /\ q \in PlanStates
  BY BlockedSound DEF Units, PlanSound
<1>4. \A v \in Units : q.unit[v] = p.unit[v]
  <2>1. \A v \in Units : v < u => p.unit[v] # "pending"
    BY <1>1, <1>2 DEF Frontier, Units
  <2>2. \A v \in Units : v >= u => q.unit[v] = p.unit[v]
    BY <1>3, BlockedSound
  <2>3. \A v \in Units : p.unit[v] # "pending" => q.unit[v] = p.unit[v]
    BY DEF BlockedBefore, PlanSound, PlanStates
  <2> QED BY <1>3, <2>1, <2>2, <2>3 DEF Units
<1>5. \A v \in Units : b.unit[v] = IF v = u THEN "in_progress" ELSE q.unit[v]
  BY <1>3 DEF Begin, PlanStates
<1> HIDE DEF q, b
<1>6. n + 1 \in 0..NumUnits
  BY <1>2, NumUnitsAssumption DEF Units
<1>7. Frontier(b, n + 1)
  BY <1>1, <1>2, <1>4, <1>5 DEF Frontier, Units
<1>8. (\E v \in Units : b.unit[v] = "blocked")
         => \E v \in Units : b.unit[v] \in {"failed", "degraded"}
  <2> SUFFICES ASSUME NEW v \in Units, b.unit[v] = "blocked"
               PROVE  \E w \in Units : b.unit[w] \in {"failed", "degraded"}
    OBVIOUS
  <2>1. p.unit[v] = "blocked"
    BY <1>4, <1>5
  <2>2. PICK w \in Units : p.unit[w] \in {"failed", "degraded"}
    BY <2>1 DEF Chained
  <2> QED BY <1>2, <1>4, <1>5, <2>2
<1>9. b.unit[1] # "pending"
  BY <1>7, ConstantFacts DEF Frontier, Units
<1> QED BY <1>6, <1>7, <1>8, <1>9 DEF Chained, b

LEMMA CompletedChained ==
    ASSUME NEW p, PlanSound(p), Chained(p), NEW u \in Current(p), NEW produced \in BOOLEAN
    PROVE  Chained(MarkCompleted(p, u, produced))
<1> DEFINE q == MarkCompleted(p, u, produced)
           s == IF produced THEN "completed" ELSE "degraded"
<1>1. u \in Units /\ p.unit[u] = "in_progress"
  BY DEF Current
<1>2. \A v \in Units : q.unit[v] = IF v = u THEN s ELSE p.unit[v]
  BY <1>1 DEF MarkCompleted, PlanSound, PlanStates
<1>3. s # "pending" /\ s # "blocked"
  OBVIOUS
<1> HIDE DEF q, s
<1>4. \A n \in 0..NumUnits : Frontier(p, n) => Frontier(q, n)
  BY <1>1, <1>2, <1>3 DEF Frontier
<1>5. \A v \in Units : p.unit[v] \in {"failed", "degraded"} => q.unit[v] = p.unit[v]
  BY <1>1, <1>2
<1>6. \A v \in Units : q.unit[v] = "blocked" => p.unit[v] = "blocked"
  BY <1>2, <1>3
<1> QED BY <1>4, <1>5, <1>6 DEF Chained, q

LEMMA FailedChained ==
    ASSUME NEW p, PlanSound(p), Chained(p), NEW u \in Current(p)
    PROVE  Chained(MarkFailed(p, u))
<1> DEFINE q == MarkFailed(p, u)
<1>1. u \in Units /\ p.unit[u] = "in_progress" /\ u \in Nat
  BY DEF Current, Units
<1>2. PICK n \in 0..NumUnits : Frontier(p, n)
  BY DEF Chained
<1>3. u <= n
  BY <1>1, <1>2 DEF Frontier, Units
<1>4. \A v \in Units :
          q.unit[v] = IF v = u THEN "failed"
                      ELSE IF v \in Downstream(p, u) THEN "blocked" ELSE p.unit[v]
  BY DEF MarkFailed
<1>5. q.unit[u] = "failed"
  BY <1>1, <1>4
<1> HIDE DEF q
<1>6. CASE u = n
  <2>1. \A v \in Units : v > n => v \in Downstream(p, u)
    <3> SUFFICES ASSUME NEW v \in Units, v > n PROVE v \in Downstream(p, u)
      OBVIOUS
    <3>1. \A w \in (u + 1)..v : w \in Units /\ w > n
      BY <1>1, <1>6, NumUnitsAssumption DEF Units
    <3> QED BY <1>2, <1>6, <3>1 DEF Downstream, Frontier
  <2>2. \A v \in Units : q.unit[v] # "pending"
    BY <1>2, <1>4, <2>1 DEF Frontier
  <2>3. NumUnits \in 0..NumUnits /\ \A v \in Units : ~(v > NumUnits)
    BY NumUnitsAssumption DEF Units
  <2> QED BY <1>1, <1>5, <2>2, <2>3 DEF Chained, Frontier, q
<1>7. CASE u < n
  <2>1. u + 1 \in Units /\ p.unit[u + 1] # "pending"
    BY <1>1, <1>2, <1>7, NumUnitsAssumption DEF Frontier, Units
  <2>2. Downstream(p, u) = {}
    <3> SUFFICES ASSUME NEW v \in Downstream(p, u) PROVE FALSE
      OBVIOUS
    <3>1. u + 1 \in (u + 1)..v
      BY <1>1 DEF Downstream, Units
    <3> QED BY <2>1, <3>1 DEF Downstream
  <2>3. Frontier(q, n)
    BY <1>1, <1>2, <1>3, <1>4, <2>2 DEF Frontier, Units
  <2> QED BY <1>1, <1>5, <2>3 DEF Chained, q
<1> QED BY <1>1, <1>3, <1>6, <1>7

\* The executor's status, from the units of a plan with nothing left to do.
Honest(p, status) ==
    /\ status = "completed" <=> \A u \in Units : p.unit[u] = "completed"
    /\ status = "failed" => \A u \in Units : p.unit[u] # "completed"

LEMMA StatusHonest ==
    ASSUME NEW p, PlanSound(p), Chained(p), Current(p) = {}, Executable(p) = {}
    PROVE  Honest(BlockedBefore(p, NumUnits + 1),
                  PlanStatus[ReduceWithPlan(BlockedBefore(p, NumUnits + 1).unit)])
<1> DEFINE q == BlockedBefore(p, NumUnits + 1)
           outcome == ReduceWithPlan(q.unit)
<1>1. PlanSound(q) /\ Chained(q) /\ q.output = p.output
  BY BlockedSound, BlockedChained, NumUnitsAssumption
<1>2. \A u \in Units : q.unit[u] \in {p.unit[u], "blocked"}
  BY BlockedSound, NumUnitsAssumption
<1>3. /\ q.unit \in [Units -> UnitStatus]
      /\ \A u \in Units : q.unit[u] \in UnitStatus /\ q.unit[u] # "in_progress"
  <2>1. q.unit \in [Units -> UnitStatus]
    BY <1>1 DEF PlanSound, PlanStates
  <2>2. \A u \in Units : q.unit[u] # "in_progress"
    BY <1>2 DEF Current
  <2> QED BY <2>1, <2>2
\* A unit is completed in q only when it is in p, and a pending one is pending.
<1>4. \A u \in Units : q.unit[u] # "blocked" => q.unit[u] = p.unit[u]
  BY <1>2
<1> HIDE DEF q
<1>5. DOMAIN q.unit = Units /\ Units # {}
  BY <1>3, ConstantFacts
<1>6. outcome \in Outcome
  BY DEF ReduceWithPlan, Outcome
<1>7. (\A u \in Units : q.unit[u] = "completed") => outcome = "completed"
  BY <1>5 DEF ReduceWithPlan
<1>8. outcome = "failed" => \A u \in Units : q.unit[u] # "completed"
  BY <1>5 DEF ReduceWithPlan
<1>9. outcome = "completed" =>
          \/ \A u \in Units : q.unit[u] = "completed"
          \/ \A u \in Units : q.unit[u] \notin {"degraded", "failed"}
  BY <1>5 DEF ReduceWithPlan
<1>10. ASSUME \A u \in Units : q.unit[u] \notin {"degraded", "failed"}
       PROVE  \A u \in Units : q.unit[u] = "completed"
  <2>1. \A u \in Units : q.unit[u] # "blocked" /\ q.unit[u] = p.unit[u]
    BY <1>1, <1>4, <1>10 DEF Chained
  <2>2. \A u \in Units : q.unit[u] \in {"pending", "completed"}
    BY <1>3, <1>10, <2>1 DEF UnitStatus
  <2>3. PICK n \in 0..NumUnits : Frontier(q, n)
    BY <1>1 DEF Chained
  <2>4. CASE n < NumUnits
    <3>1. n + 1 \in Units /\ q.unit[n + 1] = "pending"
      BY <2>3, <2>4, NumUnitsAssumption DEF Frontier, Units
    <3>2. \A d \in DependsOn(n + 1) : d \in Units /\ p.unit[d] = "completed"
      <4>1. \A d \in DependsOn(n + 1) : d \in Units /\ ~(d > n)
        BY DEF DependsOn, Units
      <4> QED BY <2>1, <2>2, <2>3, <4>1 DEF Frontier
    <3>3. n + 1 \in Executable(p)
      BY <2>1, <3>1, <3>2 DEF Executable, DepsDone, RefMissing, RefersTo
    <3> QED BY <3>3
  <2>5. CASE n = NumUnits
    BY <2>2, <2>3, <2>5, NumUnitsAssumption DEF Frontier, Units
  <2> QED BY <2>4, <2>5, NumUnitsAssumption
<1> HIDE DEF outcome
<1>11. /\ PlanStatus[outcome] = "completed" <=> outcome = "completed"
       /\ PlanStatus[outcome] = "failed" <=> outcome = "failed"
  BY <1>6 DEF PlanStatus, Outcome
<1>12. Honest(q, PlanStatus[outcome])
  BY <1>7, <1>8, <1>9, <1>10, <1>11 DEF Honest
<1> QED BY <1>12 DEF q, outcome

PlansHonest ==
    /\ \A t \in Complex : Chained(plan[t])
    /\ \A t \in Complex :
          pc[t] \in {"ending", "returned"} /\ Touched(t) => Honest(plan[t], final[t].status)

\* A step that leaves the plans alone, and the result of every task whose plan
\* has been touched.
LEMMA PlansKept ==
    ASSUME PlansHonest, plan' = plan,
           \A t \in Complex : Touched(t) /\ pc'[t] \in {"ending", "returned"} =>
                 pc[t] \in {"ending", "returned"} /\ final'[t] = final[t]
    PROVE  PlansHonest'
<1>1. \A t \in Complex : Touched(t)' = Touched(t)
  BY DEF Touched
<1> QED BY <1>1 DEF PlansHonest

LEMMA RunStepHonest ==
    ASSUME ControllerInv, PlansHonest, NEW r \in Runs,
           (r \in Tasks /\ Submit(r)) \/ Step(r), ~Routed(r)
    PROVE  PlansHonest'
<1>1. /\ plan' = plan
      /\ \A s \in Runs \ {r} : pc'[s] = pc[s] /\ final'[s] = final[s]
      /\ \/ pc[r] \in Unrouted
         \/ Finalize(r)
  <2>1. pc \in [Runs -> Phases] /\ final \in [Runs -> Results]
    BY DEF ControllerInv, TypeOK
  <2>2. CASE \/ Stopped(r) \/ ExceedsLimit(r) \/ ShowsEvidence(r) \/ PlanTruncated(r)
             \/ DirectReply(r) \/ FinishRejected(r) \/ FinishVerified(r) \/ FinishRefused(r)
             \/ GuardRefuses(r) \/ SchemaViolated(r) \/ Duplicate(r) \/ Execute(r)
    <3>1. LoopAction(r)
      BY <2>2, LoopActions
    <3> QED BY <2>1, <3>1 DEF LoopAction, Continues, Returns, shared, Unrouted
  <2>3. CASE \/ r \in Tasks /\ Submit(r)
             \/ EnterLoop(r) \/ AnswerGap(r) \/ CallPlanner(r) \/ PlannerRaises(r)
             \/ GuardRaises(r) \/ FinishRepaired(r) \/ ApplyPatch(r)
    BY <2>1, <2>3 DEF Submit, EnterLoop, AnswerGap, CallPlanner, MayPlan, PlannerRaises,
                      GuardRaises, FinishRepaired, ApplyPatch, Planned, shared, Unrouted
  <2>4. CASE Finalize(r)
    BY <2>1, <2>4 DEF Finalize
  <2> QED BY <2>2, <2>3, <2>4 DEF Step, Planning
<1>2. \A t \in Complex : t \in Runs /\ (pc[t] \in Unrouted => ~Touched(t))
  BY ConstantFacts DEF ControllerInv, RowInv, PlansUntouched
<1>3. Finalize(r) => /\ final' = final
                     /\ pc'[r] = "returned" => pc[r] = "ending"
                     /\ pc'[r] \in {"returned", "raised"}
  BY DEF Finalize, ControllerInv, TypeOK
<1> QED BY <1>1, <1>2, <1>3, PlansKept

LEMMA PlanStepHonest ==
    ASSUME ControllerInv, PlansHonest, NEW t \in Complex, PlanStep(t)
    PROVE  PlansHonest'
<1>1. /\ pc \in [Runs -> Phases] /\ final \in [Runs -> Results]
      /\ plan \in [Complex -> PlanStates]
  BY DEF ControllerInv, TypeOK
<1>2. PlanSound(plan[t]) /\ Chained(plan[t]) /\ pc[t] = "routed"
  BY PlansSound DEF PlansHonest, PlanStep, StartUnit, UnitEnds, RetryUnit, UnitFails, PlanEnds,
                    AttemptOver
<1>3. \A s \in Complex : s \in Runs /\ s # UnitRun[t]
  BY ConstantFacts
\* The plan of the task changes, and what is said of the others does not.
<1>4. ASSUME NEW p, Chained(p), plan' = [plan EXCEPT ![t] = p],
             \A s \in Complex \ {t} : pc'[s] = pc[s] /\ final'[s] = final[s],
             pc'[t] \in {"ending", "returned"} => Honest(p, final'[t].status)
      PROVE  PlansHonest'
  <2>1. plan'[t] = p /\ \A s \in Complex \ {t} : plan'[s] = plan[s] /\ Touched(s)' = Touched(s)
    BY <1>1, <1>4 DEF Touched
  <2> QED BY <1>4, <2>1 DEF PlansHonest
<1>5. ASSUME NEW p, Chained(p), plan' = [plan EXCEPT ![t] = p],
             \E q : pc' = [pc EXCEPT ![UnitRun[t]] = q],
             final' = final \/ final' = [final EXCEPT ![UnitRun[t]] = NoResult]
      PROVE  PlansHonest'
  <2>1. \A s \in Complex : pc'[s] = pc[s] /\ final'[s] = final[s]
    BY <1>1, <1>3, <1>5
  <2> QED BY <1>2, <1>4, <1>5, <2>1
<1>6. CASE StartUnit(t)
  <2>1. PICK u \in Units : IsNext(plan[t], u) /\ StartAttempt(t, Begin(plan[t], u))
    BY <1>6 DEF StartUnit
  <2>2. Chained(Begin(plan[t], u))
    BY <1>2, <2>1, BeginChained
  <2> QED BY <1>5, <2>1, <2>2 DEF StartAttempt
<1>7. CASE UnitEnds(t)
  <2>1. PICK u \in Current(plan[t]), produced \in {FALSE, final[UnitRun[t]].produced} :
            plan' = [plan EXCEPT ![t] = MarkCompleted(plan[t], u, produced)]
    BY <1>7 DEF UnitEnds
  <2>2. produced \in BOOLEAN
    BY <1>1, ConstantFacts DEF Results
  <2>3. Chained(MarkCompleted(plan[t], u, produced))
    BY <1>2, <2>2, CompletedChained
  <2> QED BY <1>5, <1>7, <2>1, <2>3 DEF UnitEnds
<1>8. CASE RetryUnit(t)
  <2> DEFINE p == [plan[t] EXCEPT !.attempt = @ + 1]
  <2>1. p.unit = plan[t].unit
    BY <1>1 DEF PlanStates
  <2>2. StartAttempt(t, p)
    BY <1>8 DEF RetryUnit
  <2> HIDE DEF p
  <2>3. Chained(p)
    BY <1>2, <2>1 DEF Chained, Frontier
  <2> QED BY <1>5, <2>2, <2>3 DEF StartAttempt
<1>9. CASE UnitFails(t)
  <2>1. PICK u \in Current(plan[t]) : plan' = [plan EXCEPT ![t] = MarkFailed(plan[t], u)]
    BY <1>9 DEF UnitFails
  <2>2. Chained(MarkFailed(plan[t], u))
    BY <1>2, FailedChained
  <2> QED BY <1>5, <1>9, <2>1, <2>2 DEF UnitFails
<1>10. CASE PlanEnds(t)
  <2> DEFINE p == BlockedBefore(plan[t], NumUnits + 1)
             status == PlanStatus[ReduceWithPlan(p.unit)]
             produced == \E u \in Units : p.output[u] = "produced"
             plain == Result(loop[t], status, status # "failed")
  <2>1. Chained(p)
    BY <1>2, BlockedChained, NumUnitsAssumption
  <2>2. Honest(p, status)
    BY <1>2, <1>10, StatusHonest DEF PlanEnds
  <2>3. /\ plan' = [plan EXCEPT ![t] = p] /\ pc' = [pc EXCEPT ![t] = "ending"]
        /\ final' = [final EXCEPT ![t] = [plain EXCEPT !.produced = produced]]
    BY <1>10, Zenon DEF PlanEnds, Returns
  <2> HIDE DEF p, status, produced
  <2>4. [plain EXCEPT !.produced = produced].status = status
    BY DEF Result
  <2> HIDE DEF plain
  <2>5. final'[t].status = status
    BY <1>1, <1>3, <2>3, <2>4
  <2>6. \A s \in Complex \ {t} : pc'[s] = pc[s] /\ final'[s] = final[s]
    BY <1>1, <1>3, <2>3
  <2> QED BY <1>4, <2>1, <2>2, <2>3, <2>5, <2>6
<1> QED BY <1>6, <1>7, <1>8, <1>9, <1>10 DEF PlanStep

LEMMA HonestKept == ControllerInv /\ PlansHonest /\ [Next]_vars => PlansHonest'
<1> SUFFICES ASSUME ControllerInv, PlansHonest, [Next]_vars PROVE PlansHonest'
  OBVIOUS
<1>1. \A t \in Complex : t \in Runs
  BY ConstantFacts
<1>2. CASE \E t \in Tasks : Submit(t)
  BY <1>2, ConstantFacts, RunStepHonest DEF Submit, Routed, Planned
<1>3. CASE \E r \in Runs : Step(r) /\ ~Routed(r)
  BY <1>3, RunStepHonest
<1>4. ASSUME NEW r \in Runs, Routed(r) PROVE PlansHonest'
  <2>1. /\ r \in Complex /\ plan' = [plan EXCEPT ![r] = NewPlan]
        /\ pc' = [pc EXCEPT ![r] = "routed"] /\ final' = final
    BY <1>4 DEF Routed
  <2>2. \A t \in Complex \ {r} : plan'[t] = plan[t] /\ Touched(t)' = Touched(t) /\ pc'[t] = pc[t]
    BY <1>1, <2>1 DEF ControllerInv, TypeOK, Touched
  <2>3. plan'[r] = NewPlan /\ pc'[r] = "routed"
    BY <1>1, <2>1 DEF ControllerInv, TypeOK
  <2> QED BY <2>1, <2>2, <2>3, NewPlanChained DEF PlansHonest
<1>5. CASE UNCHANGED <<pc, final, plan>>
  BY <1>5 DEF PlansHonest, Touched
<1>6. CASE \/ \E t \in Tasks : Cancel(t)
           \/ \E r \in Runs : Archive(r)
           \/ UNCHANGED vars
  BY <1>5, <1>6 DEF Cancel, Archive, vars
<1>7. CASE \E t \in Complex : PlanStep(t)
  BY <1>7, PlanStepHonest
<1>8. CASE Restart
  <2>1. final' = final /\ \A t \in Complex : plan'[t] \in {plan[t], NewPlan}
    BY <1>8 DEF Restart
  <2>2. \A t \in Complex : pc'[t] \in {"ending", "returned"} =>
            pc[t] = "returned" /\ plan'[t] = plan[t]
    BY <1>1, <1>8 DEF Restart, Over
  <2>3. \A t \in Complex : plan'[t] = plan[t] => Touched(t)' = Touched(t)
    BY DEF Touched
  <2> QED BY <2>1, <2>2, <2>3, NewPlanChained DEF PlansHonest
<1> QED BY <1>2, <1>3, <1>4, <1>6, <1>7, <1>8 DEF Next

LEMMA PlansHonestInit == Init => PlansHonest
<1> SUFFICES ASSUME Init PROVE PlansHonest
  OBVIOUS
<1>1. \A t \in Complex : plan[t] = NewPlan /\ pc[t] = "idle"
  BY ConstantFacts DEF Init
<1> QED BY <1>1, NewPlanChained DEF PlansHonest

\* TaskPlanExecutor says "completed" of a plan of any length only when all its
\* units are, and "failed" only when none is.
THEOREM PlansReportedHonestly == Spec => []PlanHonest
<1>1. Init => PlansHonest
  BY PlansHonestInit
<1>2. ControllerInv /\ PlansHonest /\ [Next]_vars => PlansHonest'
  BY HonestKept
<1>3. PlansHonest => PlanHonest
  BY DEF PlansHonest, PlanHonest, Honest, Touched
<1> QED BY <1>1, <1>2, <1>3, ControllerInvariant, PTL DEF Spec

-----------------------------------------------------------------------------
(* Runs come to an end: what is left to do only gets less.                 *)

\* The planner was called, and it is not called more often than it may be.
CallsBounded == \A r \in Runs : pc[r] \in Looping => loop[r].calls <= MaxIterations[r]

OneCurrent(p) == \A u, v \in Current(p) : u = v

\* Only a task that may be complex is routed, and the unit it waits for runs.
RoutedWaits ==
    /\ \A r \in Runs : pc[r] = "routed" => r \in Complex
    /\ \A t \in Complex :
          /\ OneCurrent(plan[t])
          /\ pc[t] = "routed" /\ Current(plan[t]) # {}
                => pc[UnitRun[t]] \notin {"idle", "lost"}

\* How far a run has come ...
Stage(r) ==
    CASE pc[r] = "idle" -> 0
      [] pc[r] = "queued" -> 1
      [] pc[r] \in Looping -> 2
      [] pc[r] \in {"ending", "raising"} -> 3
      [] pc[r] \in Over -> 4

\* ... and how far in one iteration, which starts with the planner.
Turn(r) ==
    CASE pc[r] = "planning" -> 1
      [] pc[r] \in {"executing", "routed"} -> 2
      [] pc[r] = "top" -> 3

Further(r) ==
    \/ Stage(r) < Stage(r)'
    \/ /\ Stage(r) = 2 /\ Stage(r)' = 2
       /\ \/ loop[r].calls < loop'[r].calls
          \/ loop[r].calls = loop'[r].calls /\ Turn(r) < Turn(r)'

Stays(r) == pc'[r] = pc[r] /\ (pc[r] \in Looping => loop'[r].calls = loop[r].calls)

UnitRank(status) ==
    IF status = "pending" THEN 0 ELSE IF status = "in_progress" THEN 1 ELSE 2

\* A plan goes on: no unit goes back, and one goes on or is attempted again.
PlanFurther(p, q) ==
    /\ \A u \in Units : UnitRank(p.unit[u]) <= UnitRank(q.unit[u])
    /\ \/ \E u \in Units : UnitRank(p.unit[u]) < UnitRank(q.unit[u])
       \/ p.unit = q.unit /\ p.attempt < q.attempt

\* A run only starts again when it is a unit's and the plan it works for goes
\* on; a plan only starts again when its task goes on; and apart from cancels
\* and the archiver something goes on in every step.
RunsAdvance ==
    /\ \A r \in Runs : \/ Stays(r) \/ Further(r)
                       \/ \E t \in Parent(r) : pc[t] = "routed" /\ PlanFurther(plan[t], plan'[t])
    /\ \A t \in Complex :
          plan'[t] = plan[t] \/ PlanFurther(plan[t], plan'[t]) \/ Further(t)
    /\ \/ \E t \in Tasks : Cancel(t)
       \/ \E r \in Runs : Archive(r)
       \/ \E r \in Runs : Further(r)
       \/ \E t \in Complex : PlanFurther(plan[t], plan'[t])

\* A routed task waits for a slot for its unit, and holds one itself meanwhile.
WaitsForSlot(t) ==
    t \in Complex /\ pc[t] = "routed" /\ Current(plan[t]) # {} /\ pc[UnitRun[t]] = "queued"

\* Every slot is held by such a task.
Jammed == ~SlotFree /\ \A r \in Holding : WaitsForSlot(r)

\* A holder of a slot whose next step depends on nobody else: an iteration or
\* the finally block goes on, or a plan has a unit to start or one that is over.
GoesOn(r) ==
    \/ pc[r] # "routed"
    \/ Current(plan[r]) = {} /\ \E u \in Units : IsNext(plan[r], u)
    \/ Current(plan[r]) = {} /\ Executable(plan[r]) = {}
    \/ pc[UnitRun[r]] \in {"returned", "raised"}

\* While runs queue, a slot is free, somebody who holds one goes on, or all the
\* slots are lost to tasks that wait for one; and what a routed task waits for is
\* under way.
OnlyJamsStick ==
    /\ (\E r \in Runs : pc[r] = "queued") => SlotFree \/ Jammed \/ \E r \in Holding : GoesOn(r)
    /\ \A t \in Complex : pc[t] = "routed" =>
          GoesOn(t) \/ WaitsForSlot(t) \/ (UnitRun[t] \in Holding /\ GoesOn(UnitRun[t]))

\* A planner call is an iteration: what leads back to the top keeps the count.
LEMMA LoopMoves ==
    ASSUME ControllerInv, NEW r \in Runs,
           \/ Stopped(r) \/ ExceedsLimit(r) \/ ShowsEvidence(r) \/ PlanTruncated(r)
           \/ DirectReply(r) \/ FinishRejected(r) \/ FinishVerified(r) \/ FinishRefused(r)
           \/ GuardRefuses(r) \/ SchemaViolated(r) \/ Duplicate(r) \/ Execute(r)
    PROVE  \/ /\ pc[r] \in {"planning", "executing"}
              /\ \E l : Continues(r, l) /\ l.calls = loop[r].calls
           \/ /\ pc[r] \in {"top", "planning", "executing"}
              /\ \E result : Returns(r, result)
<1>1. loop[r] \in LoopStates
  BY DEF ControllerInv, TypeOK
<1>2. \A l, v, k : Breaks(r, l, v, k) => \E result : Returns(r, result)
  BY DEF Breaks
<1>3. CASE Stopped(r) \/ ExceedsLimit(r) \/ ShowsEvidence(r)
  BY <1>2, <1>3, Zenon DEF Stopped, ExceedsLimit, ShowsEvidence, MayPlan
<1>4. CASE FinishVerified(r) \/ FinishRefused(r) \/ GuardRefuses(r)
  BY <1>2, <1>4, Zenon DEF FinishVerified, FinishRefused, GuardRefuses, Planned
<1>5. CASE PlanTruncated(r)
  <2> DEFINE l == [loop[r] EXCEPT !.truncations = @ + 1]
  <2>1. l.calls = loop[r].calls
    BY <1>1 DEF LoopStates
  <2>2. Continues(r, l) \/ Returns(r, Failure(loop[r]))
    BY <1>5, Zenon DEF PlanTruncated
  <2> HIDE DEF l
  <2> QED BY <1>5, <2>1, <2>2, Zenon DEF PlanTruncated
<1>6. CASE DirectReply(r)
  <2> DEFINE l == [loop[r] EXCEPT !.reply = TRUE]
  <2>1. l.calls = loop[r].calls
    BY <1>1 DEF LoopStates
  <2>2. Continues(r, l) \/ Breaks(r, l, FALSE, FALSE)
    BY <1>6, Zenon DEF DirectReply
  <2> HIDE DEF l
  <2> QED BY <1>2, <1>6, <2>1, <2>2, Zenon DEF DirectReply, Planned
<1>7. CASE FinishRejected(r)
  <2>1. PICK m \in AfterFinish(r) : Continues(r, [m EXCEPT !.rejections = @ + 1])
    BY <1>7 DEF FinishRejected
  <2> DEFINE l == [m EXCEPT !.rejections = @ + 1]
  <2>2. m \in LoopStates /\ m.calls = loop[r].calls
    BY <1>1 DEF AfterFinish, LoopStates
  <2>3. l.calls = loop[r].calls
    BY <2>2 DEF LoopStates
  <2>4. Continues(r, l)
    BY <2>1
  <2> HIDE DEF l
  <2> QED BY <1>7, <2>3, <2>4, Zenon DEF FinishRejected, Planned
<1>8. CASE SchemaViolated(r)
  <2> DEFINE l == [Proposed(r) EXCEPT !.schemas = @ + 1]
  <2>1. l.calls = loop[r].calls
    BY <1>1 DEF LoopStates, Proposed
  <2>2. Continues(r, l) \/ Returns(r, Failure(Proposed(r)))
    BY <1>8, Zenon DEF SchemaViolated
  <2> HIDE DEF l
  <2> QED BY <1>8, <2>1, <2>2, Zenon DEF SchemaViolated, Planned
<1>9. CASE Duplicate(r)
  <2> DEFINE l == [Proposed(r) EXCEPT !.deduped = TRUE]
  <2>1. l.calls = loop[r].calls
    BY <1>1 DEF LoopStates, Proposed
  <2>2. Continues(r, l) \/ Breaks(r, Proposed(r), FALSE, TRUE)
    BY <1>9, Zenon DEF Duplicate
  <2> HIDE DEF l
  <2> QED BY <1>2, <1>9, <2>1, <2>2, Zenon DEF Duplicate, Planned
<1>10. CASE Execute(r)
  <2>1. PICK outcome : CycleEnds(r, outcome)
    BY <1>10 DEF Execute
  <2> DEFINE l == AfterCycle(r, outcome)
  <2>2. l.calls = loop[r].calls
    BY <1>1 DEF AfterCycle, LoopStates
  <2>3. Returns(r, Failure(l)) \/ Breaks(r, l, FALSE, FALSE) \/ Continues(r, l)
    BY <2>1, Zenon DEF CycleEnds
  <2> HIDE DEF l
  <2> QED BY <1>2, <1>10, <2>2, <2>3, Zenon DEF Execute
<1> QED BY <1>3, <1>4, <1>5, <1>6, <1>7, <1>8, <1>9, <1>10

\* Every step of a run takes it further, and nobody else's run anywhere.
LEMMA RunGoesOn ==
    ASSUME ControllerInv, CallsBounded, NEW r \in Runs,
           (r \in Tasks /\ Submit(r)) \/ Step(r)
    PROVE  /\ Further(r) /\ \A s \in Runs \ {r} : Stays(s)
           /\ \A t \in Complex \ {r} : plan'[t] = plan[t]
           /\ pc'[r] \in Looping => loop'[r].calls <= MaxIterations[r]
<1>1. /\ pc \in [Runs -> Phases] /\ loop \in [Runs -> LoopStates]
      /\ plan \in [Complex -> PlanStates]
      /\ MaxIterations[r] \in Nat /\ loop[r].calls \in Nat
  BY LimitsAssumption DEF ControllerInv, TypeOK, LoopStates
\* What is left to show of a step that moves the run to phase p.
<1>2. ASSUME NEW p \in Phases, pc' = [pc EXCEPT ![r] = p],
             NEW n \in Nat, n <= MaxIterations[r],
             p \in Looping => loop'[r].calls = n,
             \A s \in Runs \ {r} : loop'[s].calls = loop[s].calls,
             \A t \in Complex \ {r} : plan'[t] = plan[t],
             \/ /\ pc[r] = "idle" /\ p = "queued"
             \/ /\ pc[r] = "queued" /\ p \in {"top", "returned"}
             \/ /\ pc[r] = "top" /\ p = "planning" /\ n > loop[r].calls
             \/ /\ pc[r] = "planning" /\ p \in {"executing", "routed", "top"}
                /\ n = loop[r].calls
             \/ /\ pc[r] = "executing" /\ p = "top" /\ n = loop[r].calls
             \/ /\ pc[r] \in {"top", "planning", "executing"} /\ p \in {"ending", "raising"}
             \/ /\ pc[r] \in {"ending", "raising"} /\ p \in {"returned", "raised"}
      PROVE  /\ Further(r) /\ \A s \in Runs \ {r} : Stays(s)
             /\ \A t \in Complex \ {r} : plan'[t] = plan[t]
             /\ pc'[r] \in Looping => loop'[r].calls <= MaxIterations[r]
  <2>1. pc'[r] = p /\ \A s \in Runs \ {r} : pc'[s] = pc[s]
    BY <1>1, <1>2
  <2>2. Further(r)
    BY <1>2, <2>1 DEF Further, Stage, Turn, Looping, Over
  <2>3. \A s \in Runs \ {r} : Stays(s)
    BY <1>2, <2>1 DEF Stays
  <2> QED BY <1>2, <2>1, <2>2, <2>3
<1>3. CASE r \in Tasks /\ Submit(r)
  BY <1>1, <1>2, <1>3 DEF Submit, shared, Phases, Looping
<1>4. CASE EnterLoop(r)
  <2>1. FirstLoop(r).calls = 0
    BY DEF FirstLoop, LoopStart
  <2>2. loop' = [loop EXCEPT ![r] = FirstLoop(r)] /\ pc' = [pc EXCEPT ![r] = "top"]
        /\ plan' = plan /\ pc[r] = "queued"
    BY <1>4 DEF EnterLoop, shared
  <2> HIDE DEF FirstLoop
  <2> QED BY <1>1, <1>2, <2>1, <2>2 DEF Phases
<1>5. CASE AnswerGap(r) \/ PlannerRaises(r) \/ GuardRaises(r) \/ Finalize(r)
  <2>1. PICK p \in {"returned", "raised", "raising"} :
            /\ pc' = [pc EXCEPT ![r] = p]
            /\ \/ pc[r] = "queued" /\ p = "returned"
               \/ pc[r] = "planning" /\ p = "raising"
               \/ pc[r] \in {"ending", "raising"} /\ p \in {"returned", "raised"}
    BY <1>1, <1>5 DEF AnswerGap, PlannerRaises, GuardRaises, Finalize, Planned
  <2>2. loop' = loop \/ loop' = [loop EXCEPT ![r] = LoopStart]
    BY <1>5 DEF AnswerGap, PlannerRaises, GuardRaises, Finalize
  <2>3. \A s \in Runs \ {r} : loop'[s].calls = loop[s].calls
    BY <1>1, <2>2
  <2>4. plan' = plan
    BY <1>5 DEF AnswerGap, PlannerRaises, GuardRaises, Finalize, shared
  <2>5. p \in Phases /\ p \notin Looping /\ 0 <= MaxIterations[r]
    BY <1>1 DEF Phases, Looping
  <2> QED BY <1>2, <2>1, <2>3, <2>4, <2>5
<1>6. CASE CallPlanner(r)
  <2>1. loop[r].calls + 1 <= MaxIterations[r]
    BY <1>1, <1>6 DEF CallPlanner, MayPlan, LimitReached
  <2>2. loop'[r].calls = loop[r].calls + 1
    BY <1>1, <1>6 DEF CallPlanner, LoopStates
  <2>3. \A s \in Runs \ {r} : loop'[s].calls = loop[s].calls
    BY <1>1, <1>6 DEF CallPlanner
  <2> QED BY <1>1, <1>2, <1>6, <2>1, <2>2, <2>3 DEF CallPlanner, MayPlan, shared, Phases
<1>7. CASE ApplyPatch(r) \/ Routed(r)
  <2>1. PICK p \in {"executing", "routed"} : pc' = [pc EXCEPT ![r] = p]
    BY <1>7 DEF ApplyPatch, Routed
  <2>2. loop'[r].calls = loop[r].calls
    <3>1. Proposed(r) \in LoopStates /\ Proposed(r).calls = loop[r].calls
      BY <1>1 DEF Proposed, LoopStates
    <3>2. \/ loop' = [loop EXCEPT ![r] = Proposed(r)]
          \/ loop' = [loop EXCEPT ![r] = [Proposed(r) EXCEPT !.nodes = @ + 1]]
      BY <1>7 DEF ApplyPatch, Routed
    <3> HIDE DEF Proposed
    <3> QED BY <1>1, <3>1, <3>2 DEF LoopStates
  <2>3. \A s \in Runs \ {r} : loop'[s].calls = loop[s].calls
    BY <1>1, <1>7 DEF ApplyPatch, Routed
  <2>4. \A t \in Complex \ {r} : plan'[t] = plan[t]
    BY <1>1, <1>7 DEF ApplyPatch, Routed, shared
  <2>5. pc[r] = "planning" /\ loop[r].calls <= MaxIterations[r]
    BY <1>7 DEF ApplyPatch, Routed, Planned, CallsBounded, Looping
  <2> QED BY <1>1, <1>2, <2>1, <2>2, <2>3, <2>4, <2>5 DEF Phases
<1>8. CASE FinishRepaired(r)
  <2>1. PICK l \in AfterFinish(r) :
            loop' = [[loop EXCEPT ![r] = [l EXCEPT !.rejections = 0]]
                         EXCEPT ![RepairOwner(r)].repairs = @ + 1]
    BY <1>8 DEF FinishRepaired
  <2>2. l \in LoopStates /\ l.calls = loop[r].calls
    BY <1>1 DEF AfterFinish, LoopStates
  <2> DEFINE m == [l EXCEPT !.rejections = 0]
             mid == [loop EXCEPT ![r] = m]
  <2>3. m \in LoopStates /\ m.calls = loop[r].calls
    BY <2>2 DEF LoopStates
  <2> HIDE DEF m
  <2>4. mid \in [Runs -> LoopStates] /\ \A s \in Runs : mid[s].calls = loop[s].calls
    BY <1>1, <2>3
  <2>5. loop' = [mid EXCEPT ![RepairOwner(r)].repairs = @ + 1]
    BY <2>1 DEF m
  <2> HIDE DEF mid
  <2>6. \A s \in Runs : loop'[s].calls = loop[s].calls
    BY <2>4, <2>5 DEF LoopStates
  <2>7. pc[r] = "planning" /\ loop[r].calls <= MaxIterations[r]
    BY <1>8 DEF FinishRepaired, Planned, CallsBounded, Looping
  <2> QED BY <1>1, <1>2, <1>8, <2>6, <2>7 DEF FinishRepaired, shared, Phases
<1>9. CASE \/ Stopped(r) \/ ExceedsLimit(r) \/ ShowsEvidence(r) \/ PlanTruncated(r)
           \/ DirectReply(r) \/ FinishRejected(r) \/ FinishVerified(r) \/ FinishRefused(r)
           \/ GuardRefuses(r) \/ SchemaViolated(r) \/ Duplicate(r) \/ Execute(r)
  <2>1. plan' = plan
    BY <1>9, LoopActions DEF LoopAction, shared
  <2>2. CASE /\ pc[r] \in {"planning", "executing"}
             /\ \E l : Continues(r, l) /\ l.calls = loop[r].calls
    <3>1. loop[r].calls <= MaxIterations[r]
      BY <2>2 DEF CallsBounded, Looping
    <3> QED BY <1>1, <1>2, <2>1, <2>2, <3>1 DEF Continues, Phases
  <2>3. CASE /\ pc[r] \in {"top", "planning", "executing"}
             /\ \E result : Returns(r, result)
    BY <1>1, <1>2, <2>1, <2>3 DEF Returns, Phases, Looping
  <2> QED BY <1>9, <2>2, <2>3, LoopMoves
<1> QED BY <1>3, <1>4, <1>5, <1>6, <1>7, <1>8, <1>9 DEF Step, Planning

LEMMA RankFacts ==
    /\ \A x : UnitRank(x) \in 0..2
    /\ UnitRank("pending") = 0 /\ UnitRank("in_progress") = 1 /\ UnitRank("blocked") = 2
BY DEF UnitRank

\* Of the operations on a plan each takes it further, and leaves one unit at work.
LEMMA BeginFurther ==
    ASSUME NEW p, PlanSound(p), Current(p) = {}, NEW u \in Units, IsNext(p, u)
    PROVE  PlanFurther(p, Begin(p, u)) /\ OneCurrent(Begin(p, u))
<1> DEFINE q == BlockedBefore(p, u)
           b == Begin(p, u)
<1>1. u \in Nat /\ p.unit[u] = "pending"
  BY DEF Units, IsNext, Executable
<1>2. /\ q \in PlanStates /\ q.unit[u] = p.unit[u]
      /\ \A v \in Units : q.unit[v] \in {p.unit[v], "blocked"}
  BY <1>1, BlockedSound DEF PlanSound
<1>3. \A v \in Units : b.unit[v] = IF v = u THEN "in_progress" ELSE q.unit[v]
  BY <1>2 DEF Begin, PlanStates
<1> HIDE DEF q, b
<1>4. PlanFurther(p, b)
  <2>1. \A v \in Units : UnitRank(p.unit[v]) <= UnitRank(b.unit[v])
    BY <1>1, <1>2, <1>3, RankFacts
  <2>2. UnitRank(p.unit[u]) < UnitRank(b.unit[u])
    BY <1>1, <1>3, RankFacts
  <2> QED BY <2>1, <2>2 DEF PlanFurther
<1>5. OneCurrent(b)
  BY <1>2, <1>3 DEF OneCurrent, Current
<1> QED BY <1>4, <1>5 DEF b

LEMMA CompletedFurther ==
    ASSUME NEW p, PlanSound(p), OneCurrent(p), NEW u \in Current(p), NEW produced \in BOOLEAN
    PROVE  /\ PlanFurther(p, MarkCompleted(p, u, produced))
           /\ Current(MarkCompleted(p, u, produced)) = {}
<1> DEFINE q == MarkCompleted(p, u, produced)
           s == IF produced THEN "completed" ELSE "degraded"
<1>1. u \in Units /\ p.unit[u] = "in_progress"
  BY DEF Current
<1>2. \A v \in Units : q.unit[v] = IF v = u THEN s ELSE p.unit[v]
  BY <1>1 DEF MarkCompleted, PlanSound, PlanStates
<1>3. s \in {"completed", "degraded"}
  OBVIOUS
<1> HIDE DEF q, s
<1>4. PlanFurther(p, q)
  BY <1>1, <1>2, <1>3 DEF PlanFurther, UnitRank
<1>5. Current(q) = {}
  BY <1>2, <1>3 DEF OneCurrent, Current
<1> QED BY <1>4, <1>5 DEF q

LEMMA FailedFurther ==
    ASSUME NEW p, PlanSound(p), OneCurrent(p), NEW u \in Current(p)
    PROVE  PlanFurther(p, MarkFailed(p, u)) /\ Current(MarkFailed(p, u)) = {}
<1> DEFINE q == MarkFailed(p, u)
<1>1. u \in Units /\ p.unit[u] = "in_progress"
  BY DEF Current
<1>2. \A v \in Units :
          q.unit[v] = IF v = u THEN "failed"
                      ELSE IF v \in Downstream(p, u) THEN "blocked" ELSE p.unit[v]
  BY DEF MarkFailed
<1>3. \A v \in Downstream(p, u) : p.unit[v] = "pending"
  <2> SUFFICES ASSUME NEW v \in Downstream(p, u) PROVE p.unit[v] = "pending"
    OBVIOUS
  <2>1. v \in (u + 1)..v
    BY <1>1 DEF Downstream, Units
  <2> QED BY <2>1 DEF Downstream
<1> HIDE DEF q
<1>4. PlanFurther(p, q)
  BY <1>1, <1>2, <1>3 DEF PlanFurther, UnitRank
<1>5. Current(q) = {}
  BY <1>2, <1>3 DEF OneCurrent, Current
<1> QED BY <1>4, <1>5 DEF q

\* A step of a plan sends its unit's run back, and in return the plan goes on.
LEMMA PlanGoesOn ==
    ASSUME ControllerInv, NEW t \in Complex, OneCurrent(plan[t]), PlanStep(t)
    PROVE  /\ pc[t] = "routed"
           /\ \A s \in Complex \ {t} : plan'[s] = plan[s]
           /\ \A r \in Runs \ {t, UnitRun[t]} : Stays(r)
           /\ \/ /\ Stays(t) /\ PlanFurther(plan[t], plan'[t]) /\ OneCurrent(plan'[t])
                 /\ \/ pc'[UnitRun[t]] = "queued"
                    \/ pc'[UnitRun[t]] = "idle" /\ Current(plan'[t]) = {}
              \/ /\ Further(t) /\ Stays(UnitRun[t]) /\ pc'[t] = "ending"
                 /\ OneCurrent(plan'[t])
<1>1. /\ pc \in [Runs -> Phases] /\ plan \in [Complex -> PlanStates]
      /\ t \in Runs /\ UnitRun[t] \in Runs /\ UnitRun[t] # t
      /\ PlanSound(plan[t]) /\ pc[t] = "routed"
  <2>1. pc \in [Runs -> Phases] /\ plan \in [Complex -> PlanStates]
    BY DEF ControllerInv, TypeOK
  <2>2. t \in Runs /\ UnitRun[t] \in Runs /\ UnitRun[t] # t
    BY ConstantFacts
  <2>3. PlanSound(plan[t])
    BY PlansSound
  <2>4. pc[t] = "routed"
    BY Zenon DEF PlanStep, StartUnit, UnitEnds, RetryUnit, UnitFails, PlanEnds, AttemptOver
  <2> QED BY <2>1, <2>2, <2>3, <2>4
\* What StartUnit, UnitEnds, RetryUnit and UnitFails have in common.
<1>2. ASSUME NEW p, PlanFurther(plan[t], p), OneCurrent(p), NEW q,
             q = "queued" \/ (q = "idle" /\ Current(p) = {}),
             plan' = [plan EXCEPT ![t] = p], pc' = [pc EXCEPT ![UnitRun[t]] = q],
             loop' = loop
      PROVE  /\ \A s \in Complex \ {t} : plan'[s] = plan[s]
             /\ \A r \in Runs \ {t, UnitRun[t]} : Stays(r)
             /\ Stays(t) /\ PlanFurther(plan[t], plan'[t]) /\ OneCurrent(plan'[t])
             /\ \/ pc'[UnitRun[t]] = "queued"
                \/ pc'[UnitRun[t]] = "idle" /\ Current(plan'[t]) = {}
  BY <1>1, <1>2 DEF Stays
<1>3. CASE StartUnit(t)
  <2>1. PICK u \in Units : IsNext(plan[t], u) /\ StartAttempt(t, Begin(plan[t], u))
    BY <1>3 DEF StartUnit
  <2>2. PlanFurther(plan[t], Begin(plan[t], u)) /\ OneCurrent(Begin(plan[t], u))
    BY <1>1, <1>3, <2>1, BeginFurther DEF StartUnit
  <2> QED BY <1>1, <1>2, <2>1, <2>2 DEF StartAttempt
<1>4. CASE UnitEnds(t)
  <2>1. PICK u \in Current(plan[t]), produced \in {FALSE, final[UnitRun[t]].produced} :
            plan' = [plan EXCEPT ![t] = MarkCompleted(plan[t], u, produced)]
    BY <1>4 DEF UnitEnds
  <2>2. produced \in BOOLEAN
    BY <1>1 DEF ControllerInv, TypeOK, Results
  <2> DEFINE q == MarkCompleted(plan[t], u, produced)
  <2>3. PlanFurther(plan[t], q) /\ Current(q) = {}
    BY <1>1, <2>2, CompletedFurther
  <2>4. plan' = [plan EXCEPT ![t] = q]
    BY <2>1
  <2> HIDE DEF q
  <2> QED BY <1>1, <1>2, <1>4, <2>3, <2>4 DEF UnitEnds, OneCurrent
<1>5. CASE RetryUnit(t)
  <2> DEFINE p == [plan[t] EXCEPT !.attempt = @ + 1]
  <2>1. p.unit = plan[t].unit /\ p.attempt = plan[t].attempt + 1 /\ plan[t].attempt \in Nat
    BY <1>1, LimitsAssumption DEF PlanStates
  <2>2. StartAttempt(t, p)
    BY <1>5 DEF RetryUnit
  <2> HIDE DEF p
  <2>3. \A u \in Units : UnitRank(plan[t].unit[u]) <= UnitRank(plan[t].unit[u])
    BY DEF UnitRank
  <2>4. PlanFurther(plan[t], p) /\ OneCurrent(p)
    BY <2>1, <2>3 DEF PlanFurther, OneCurrent, Current
  <2> QED BY <1>1, <1>2, <2>2, <2>4 DEF StartAttempt
<1>6. CASE UnitFails(t)
  <2>1. PICK u \in Current(plan[t]) : plan' = [plan EXCEPT ![t] = MarkFailed(plan[t], u)]
    BY <1>6 DEF UnitFails
  <2>2. PlanFurther(plan[t], MarkFailed(plan[t], u)) /\ Current(MarkFailed(plan[t], u)) = {}
    BY <1>1, FailedFurther
  <2> HIDE DEF MarkFailed
  <2> QED BY <1>1, <1>2, <1>6, <2>1, <2>2 DEF UnitFails, OneCurrent
<1>7. CASE PlanEnds(t)
  <2> DEFINE q == BlockedBefore(plan[t], NumUnits + 1)
  <2>1. /\ Current(plan[t]) = {} /\ plan' = [plan EXCEPT ![t] = q]
        /\ pc' = [pc EXCEPT ![t] = "ending"] /\ loop' = [loop EXCEPT ![t] = LoopStart]
    BY <1>7 DEF PlanEnds, Returns
  <2>2. \A u \in Units : q.unit[u] \in {plan[t].unit[u], "blocked"}
    BY <1>1, BlockedSound, NumUnitsAssumption
  <2> HIDE DEF q
  <2>3. OneCurrent(q)
    BY <2>1, <2>2 DEF OneCurrent, Current
  <2>4. Further(t)
    BY <1>1, <2>1 DEF Further, Stage, Looping, Over
  <2>5. \A r \in Runs \ {t} : Stays(r)
    BY <1>1, <2>1 DEF Stays, ControllerInv, TypeOK
  <2> QED BY <1>1, <2>1, <2>3, <2>4, <2>5
<1> QED BY <1>1, <1>3, <1>4, <1>5, <1>6, <1>7 DEF PlanStep

AdvanceInv == CallsBounded /\ RoutedWaits

\* Where a step of a run can lead, and what it can do to a plan.
LEMMA RunPhases ==
    ASSUME ControllerInv, NEW r \in Runs, (r \in Tasks /\ Submit(r)) \/ Step(r)
    PROVE  /\ pc'[r] \notin {"idle", "lost"}
           /\ pc'[r] = "routed" => r \in Complex /\ plan'[r] = NewPlan
           /\ r \in Complex => plan'[r] = plan[r] \/ plan'[r] = NewPlan
<1>1. pc \in [Runs -> Phases] /\ plan \in [Complex -> PlanStates]
  BY DEF ControllerInv, TypeOK
<1>2. CASE Routed(r)
  BY <1>1, <1>2 DEF Routed
<1>3. CASE \/ Stopped(r) \/ ExceedsLimit(r) \/ ShowsEvidence(r) \/ PlanTruncated(r)
           \/ DirectReply(r) \/ FinishRejected(r) \/ FinishVerified(r) \/ FinishRefused(r)
           \/ GuardRefuses(r) \/ SchemaViolated(r) \/ Duplicate(r) \/ Execute(r)
  <2>1. LoopAction(r)
    BY <1>3, LoopActions
  <2> QED BY <1>1, <2>1 DEF LoopAction, Continues, Returns, shared
<1>4. CASE \/ r \in Tasks /\ Submit(r)
           \/ EnterLoop(r) \/ AnswerGap(r) \/ CallPlanner(r) \/ PlannerRaises(r)
           \/ GuardRaises(r) \/ FinishRepaired(r) \/ ApplyPatch(r) \/ Finalize(r)
  BY <1>1, <1>4 DEF Submit, EnterLoop, AnswerGap, CallPlanner, PlannerRaises, GuardRaises,
                    FinishRepaired, ApplyPatch, Finalize, shared
<1> QED BY <1>2, <1>3, <1>4 DEF Step, Planning

LEMMA NewPlanAtRest == Current(NewPlan) = {} /\ OneCurrent(NewPlan)
BY DEF Current, OneCurrent, NewPlan

LEMMA RunAdvances ==
    ASSUME ControllerInv, AdvanceInv, NEW r \in Runs, (r \in Tasks /\ Submit(r)) \/ Step(r)
    PROVE  AdvanceInv' /\ RunsAdvance
<1>1. /\ Further(r) /\ \A s \in Runs \ {r} : Stays(s)
      /\ \A t \in Complex \ {r} : plan'[t] = plan[t]
      /\ pc'[r] \in Looping => loop'[r].calls <= MaxIterations[r]
  BY RunGoesOn DEF AdvanceInv
<1>2. /\ pc'[r] \notin {"idle", "lost"}
      /\ pc'[r] = "routed" => r \in Complex /\ plan'[r] = NewPlan
      /\ r \in Complex => plan'[r] = plan[r] \/ plan'[r] = NewPlan
  BY RunPhases
<1>3. \A t \in Complex : t \in Runs /\ UnitRun[t] \in Runs
  BY ConstantFacts
<1>4. CallsBounded'
  BY <1>1 DEF CallsBounded, AdvanceInv, Stays
<1>5. \A s \in Runs : pc'[s] = "routed" => s \in Complex
  BY <1>1, <1>2 DEF RoutedWaits, AdvanceInv, Stays
<1>6. ASSUME NEW t \in Complex
      PROVE  /\ OneCurrent(plan'[t])
             /\ pc'[t] = "routed" /\ Current(plan'[t]) # {}
                    => pc'[UnitRun[t]] \notin {"idle", "lost"}
  <2>1. OneCurrent(plan'[t])
    BY <1>1, <1>2, NewPlanAtRest DEF RoutedWaits, AdvanceInv
  <2>2. ASSUME pc'[t] = "routed", Current(plan'[t]) # {}
        PROVE  pc'[UnitRun[t]] \notin {"idle", "lost"}
    <3>1. t # r
      BY <1>2, <2>2, NewPlanAtRest
    <3>2. pc[UnitRun[t]] \notin {"idle", "lost"}
      BY <1>1, <1>3, <2>2, <3>1 DEF RoutedWaits, AdvanceInv, Stays
    <3> QED BY <1>1, <1>2, <1>3, <3>2 DEF Stays
  <2> QED BY <2>1, <2>2
<1>7. RoutedWaits'
  BY <1>5, <1>6 DEF RoutedWaits
<1>8. RunsAdvance
  BY <1>1 DEF RunsAdvance
<1> QED BY <1>4, <1>7, <1>8 DEF AdvanceInv

LEMMA PlanAdvances ==
    ASSUME ControllerInv, AdvanceInv, NEW t \in Complex, PlanStep(t)
    PROVE  AdvanceInv' /\ RunsAdvance
<1> DEFINE x == UnitRun[t]
<1>1. /\ pc[t] = "routed"
      /\ \A s \in Complex \ {t} : plan'[s] = plan[s]
      /\ \A r \in Runs \ {t, x} : Stays(r)
      /\ \/ /\ Stays(t) /\ PlanFurther(plan[t], plan'[t]) /\ OneCurrent(plan'[t])
            /\ pc'[x] = "queued" \/ (pc'[x] = "idle" /\ Current(plan'[t]) = {})
         \/ /\ Further(t) /\ Stays(x) /\ pc'[t] = "ending" /\ OneCurrent(plan'[t])
  BY PlanGoesOn DEF AdvanceInv, RoutedWaits
<1>2. /\ \A s \in Complex : s \in Runs /\ UnitRun[s] \in Runs /\ UnitRun[s] \notin Complex
      /\ \A s \in Complex \ {t} : UnitRun[s] # x
  BY ConstantFacts, RunsAssumption
<1>3. t \in Parent(x)
  BY DEF Parent
<1>4. \A r \in Runs : pc'[r] \in Looping => Stays(r)
  BY <1>1 DEF Looping
<1>5. CallsBounded'
  BY <1>4 DEF CallsBounded, AdvanceInv, Stays
<1>6. \A r \in Runs : pc'[r] = "routed" => r \in Complex
  BY <1>4 DEF RoutedWaits, AdvanceInv, Stays, Looping
<1>7. ASSUME NEW s \in Complex
      PROVE  /\ OneCurrent(plan'[s])
             /\ pc'[s] = "routed" /\ Current(plan'[s]) # {}
                    => pc'[UnitRun[s]] \notin {"idle", "lost"}
  <2>1. CASE s = t
    BY <1>1, <2>1
  <2>2. CASE s # t
    BY <1>1, <1>2, <2>2 DEF RoutedWaits, AdvanceInv, Stays
  <2> QED BY <2>1, <2>2
<1>8. RoutedWaits'
  BY <1>6, <1>7 DEF RoutedWaits
<1>9. RunsAdvance
  <2>1. \A r \in Runs : \/ Stays(r) \/ Further(r)
                        \/ \E s \in Parent(r) : pc[s] = "routed" /\ PlanFurther(plan[s], plan'[s])
    BY <1>1, <1>3
  <2>2. \A s \in Complex :
            plan'[s] = plan[s] \/ PlanFurther(plan[s], plan'[s]) \/ Further(s)
    BY <1>1
  <2>3. \/ \E r \in Runs : Further(r)
        \/ \E s \in Complex : PlanFurther(plan[s], plan'[s])
    BY <1>1, <1>2
  <2> QED BY <2>1, <2>2, <2>3 DEF RunsAdvance
<1> QED BY <1>5, <1>8, <1>9 DEF AdvanceInv

\* A restart loses the runs under way, and with them their plans.
LEMMA RestartAdvances ==
    ASSUME ControllerInv, AdvanceInv, Restart
    PROVE  AdvanceInv' /\ RunsAdvance
<1>1. /\ \A r \in Runs : pc'[r] = IF pc[r] \in Over \cup {"idle"} THEN pc[r] ELSE "lost"
      /\ \A t \in Complex : plan'[t] = IF pc[t] = "routed" THEN NewPlan ELSE plan[t]
      /\ \E r \in Runs : pc[r] \notin Over \cup {"idle"}
  BY DEF Restart
<1>2. \A r \in Runs : pc'[r] \notin Looping /\ pc[r] \in Phases
  BY <1>1 DEF Looping, Over, ControllerInv, TypeOK
<1>3. \A t \in Complex : t \in Runs
  BY ConstantFacts
<1>4. AdvanceInv'
  BY <1>1, <1>2, <1>3, NewPlanAtRest
     DEF AdvanceInv, CallsBounded, RoutedWaits, Looping
<1>5. \A r \in Runs : pc[r] \in Over \cup {"idle"} => Stays(r)
  BY <1>1 DEF Stays, Looping, Over
<1>6. \A r \in Runs : pc[r] \notin Over \cup {"idle"} => Further(r)
  <2> SUFFICES ASSUME NEW r \in Runs, pc[r] \notin Over \cup {"idle"} PROVE Further(r)
    OBVIOUS
  <2>1. pc'[r] = "lost" /\ Stage(r)' = 4
    BY <1>1 DEF Stage, Looping, Over
  <2>2. Stage(r) \in {1, 2, 3}
    BY <1>2 DEF Stage, Looping, Over, Phases
  <2> QED BY <2>1, <2>2 DEF Further
<1>7. RunsAdvance
  <2>1. \A t \in Complex : plan'[t] = plan[t] \/ Further(t)
    BY <1>1, <1>3, <1>6 DEF Over
  <2> QED BY <1>1, <1>5, <1>6, <2>1 DEF RunsAdvance
<1> QED BY <1>4, <1>7

LEMMA StepAdvances ==
    ControllerInv /\ AdvanceInv /\ [Next]_vars => AdvanceInv' /\ (RunsAdvance \/ UNCHANGED vars)
<1> SUFFICES ASSUME ControllerInv, AdvanceInv, [Next]_vars
             PROVE  AdvanceInv' /\ (RunsAdvance \/ UNCHANGED vars)
  OBVIOUS
<1>1. \A t \in Tasks : t \in Runs
  BY ConstantFacts
<1>2. ASSUME UNCHANGED <<pc, loop, plan>>
      PROVE  /\ AdvanceInv' /\ \A r \in Runs : Stays(r)
  BY <1>2 DEF AdvanceInv, CallsBounded, RoutedWaits, Stays
<1>3. CASE \E t \in Tasks : Submit(t)
  BY <1>1, <1>3, RunAdvances
<1>4. CASE \E r \in Runs : Step(r)
  BY <1>4, RunAdvances
<1>5. CASE (\E t \in Tasks : Cancel(t)) \/ (\E r \in Runs : Archive(r))
  <2>1. UNCHANGED <<pc, loop, plan>>
    BY <1>5 DEF Cancel, Archive
  <2> QED BY <1>2, <1>5, <2>1 DEF RunsAdvance
<1>6. CASE \E t \in Complex : PlanStep(t)
  BY <1>6, PlanAdvances
<1>7. CASE Restart
  BY <1>7, RestartAdvances
<1>8. CASE UNCHANGED vars
  BY <1>2, <1>8 DEF vars
<1> QED BY <1>3, <1>4, <1>5, <1>6, <1>7, <1>8 DEF Next

LEMMA AdvanceInit == Init => AdvanceInv
<1> SUFFICES ASSUME Init PROVE AdvanceInv
  OBVIOUS
<1>1. \A t \in Complex : t \in Runs /\ plan[t] = NewPlan
  BY ConstantFacts DEF Init
<1> QED BY <1>1, NewPlanAtRest DEF Init, AdvanceInv, CallsBounded, RoutedWaits, Looping

\* Runs and plans only go on, and a unit's run starts again only as its plan
\* goes on: with the planner called at most MaxIterations times a run, and a
\* unit attempted at most 1 + MaxRetries times, nothing goes on for ever.
THEOREM RunsComeToAnEnd == Spec => [][RunsAdvance]_vars /\ []CallsBounded
<1>1. ControllerInv /\ AdvanceInv /\ [Next]_vars => AdvanceInv' /\ [RunsAdvance]_vars
  BY StepAdvances
<1>2. AdvanceInv => CallsBounded
  BY DEF AdvanceInv
<1> QED BY <1>1, <1>2, AdvanceInit, ControllerInvariant, PTL DEF Spec

\* The units of a plan that could be next are one at most: the first not reached.
LEMMA NextUnit ==
    ASSUME NEW p, Chained(p), Executable(p) # {}
    PROVE  \E u \in Units : IsNext(p, u)
<1>1. PICK n \in 0..NumUnits : Frontier(p, n)
  BY DEF Chained
<1>2. \A u \in Executable(p) : u \in Units /\ u = n + 1
  BY <1>1, NextIsFirst DEF Executable
<1>3. PICK u \in Executable(p) : TRUE
  OBVIOUS
<1>4. u \in Nat /\ \A v \in Executable(p) : u <= v
  BY <1>2, <1>3 DEF Units
<1> QED BY <1>2, <1>3, <1>4 DEF IsNext

\* What a routed task can be doing: going on, waiting for a slot, or waiting for
\* a unit's run that has one and goes on.
LEMMA RoutedChoices ==
    ASSUME ControllerInv, AdvanceInv, PlansHonest, NEW t \in Complex, pc[t] = "routed"
    PROVE  GoesOn(t) \/ WaitsForSlot(t) \/ (UnitRun[t] \in Holding /\ GoesOn(UnitRun[t]))
<1> DEFINE x == UnitRun[t]
<1>1. x \in Runs /\ x \notin Complex /\ pc[x] \in Phases
  BY ConstantFacts, RunsAssumption DEF ControllerInv, TypeOK
<1>2. pc[x] # "routed"
  BY <1>1 DEF AdvanceInv, RoutedWaits
<1>3. CASE Current(plan[t]) = {}
  <2>1. (\E u \in Units : IsNext(plan[t], u)) \/ Executable(plan[t]) = {}
    BY NextUnit DEF PlansHonest
  <2> QED BY <1>3, <2>1, Zenon DEF GoesOn
<1>4. CASE Current(plan[t]) # {}
  <2>1. pc[x] \notin {"idle", "lost"}
    BY <1>4 DEF AdvanceInv, RoutedWaits
  <2>2. \/ pc[x] = "queued"
        \/ pc[x] \in {"returned", "raised"}
        \/ x \in Holding /\ pc[x] # "routed"
    BY <1>1, <1>2, <2>1 DEF Phases, Holding, Looping
  <2> QED BY <1>4, <2>2 DEF GoesOn, WaitsForSlot
<1> QED BY <1>3, <1>4

\* Whatever the number of slots, runs are stuck in the queue of the semaphore
\* only when every slot is held by a complex task that waits in that queue for
\* its own unit (graph_controller.py:238 under plan_executor.py:188): plans,
\* repairs, exceptions and restarts lose no slot and leave no other wait behind.
THEOREM OnlyJamsStickRuns == Spec => []OnlyJamsStick
<1>1. ControllerInv /\ AdvanceInv /\ PlansHonest => OnlyJamsStick
  <2> SUFFICES ASSUME ControllerInv, AdvanceInv, PlansHonest PROVE OnlyJamsStick
    OBVIOUS
  <2>1. ASSUME ~SlotFree, \A r \in Holding : ~GoesOn(r) PROVE Jammed
    <3> SUFFICES ASSUME NEW r \in Holding PROVE WaitsForSlot(r)
      BY <2>1 DEF Jammed
    <3>1. pc[r] = "routed" /\ r \in Complex
      BY <2>1 DEF GoesOn, Holding, AdvanceInv, RoutedWaits
    <3> QED BY <2>1, <3>1, RoutedChoices
  <2> QED BY <2>1, RoutedChoices DEF OnlyJamsStick
<1>2. ControllerInv /\ AdvanceInv /\ [Next]_vars => AdvanceInv'
  BY StepAdvances
<1>3. Spec => []PlansHonest
  BY PlansHonestInit, HonestKept, ControllerInvariant, PTL DEF Spec
<1> QED BY <1>1, <1>2, <1>3, AdvanceInit, ControllerInvariant, PTL DEF Spec

\* Only the runs that are not routed and have a slot, or find one, step by themselves.
LEMMA StepNeedsSlot ==
    ASSUME NEW r \in Runs, Step(r)
    PROVE  (pc[r] = "queued" /\ SlotFree) \/ (r \in Holding /\ pc[r] # "routed")
<1>1. CASE EnterLoop(r) \/ AnswerGap(r)
  BY <1>1 DEF EnterLoop, AnswerGap
<1>2. CASE Finalize(r)
  BY <1>2 DEF Finalize, Holding
<1>3. CASE Stopped(r) \/ ExceedsLimit(r) \/ ShowsEvidence(r) \/ CallPlanner(r)
  BY <1>3 DEF Stopped, ExceedsLimit, ShowsEvidence, CallPlanner, MayPlan, Holding, Looping
<1>4. CASE Planning(r)
  <2>1. pc[r] = "planning"
    BY <1>4, Zenon DEF Planning, Planned, PlannerRaises, PlanTruncated, DirectReply,
         FinishRejected, FinishVerified, FinishRepaired, FinishRefused, Routed,
         GuardRaises, GuardRefuses, SchemaViolated, Duplicate, ApplyPatch
  <2> QED BY <2>1 DEF Holding, Looping
<1>5. CASE Execute(r)
  BY <1>5 DEF Execute, Holding, Looping
<1> QED BY <1>1, <1>2, <1>3, <1>4, <1>5, Zenon DEF Step

\* A jam never dissolves: no plan goes on, no cancel frees a slot, and only a
\* restart of the process, which loses the runs, ends it.
THEOREM JamsStay == Spec => [][Jammed => Jammed' \/ Restart]_vars
<1>1. TypeOK /\ [Next]_vars => [Jammed => Jammed' \/ Restart]_vars
  <2> SUFFICES ASSUME TypeOK, Next, Jammed, ~Restart PROVE Jammed'
    BY DEF vars
  <2>1. \A r \in Runs : ~Step(r)
    BY StepNeedsSlot DEF Jammed, WaitsForSlot
  <2>2. \A t \in Complex : ~PlanStep(t)
    <3> SUFFICES ASSUME NEW t \in Complex, PlanStep(t) PROVE FALSE
      OBVIOUS
    <3>1. pc[t] = "routed" /\ t \in Runs
      BY ConstantFacts, Zenon
         DEF PlanStep, StartUnit, UnitEnds, RetryUnit, UnitFails, PlanEnds, AttemptOver
    <3>2. Current(plan[t]) # {} /\ pc[UnitRun[t]] = "queued"
      BY <3>1 DEF Holding, Looping, Jammed, WaitsForSlot
    <3> QED BY <3>2 DEF PlanStep, StartUnit, UnitEnds, RetryUnit, UnitFails, PlanEnds, AttemptOver
  <2>3. CASE \E t \in Tasks : Submit(t)
    <3>1. PICK t \in Tasks : Submit(t)
      BY <2>3
    <3>2. t \in Runs /\ pc[t] = "idle" /\ pc' = [pc EXCEPT ![t] = "queued"] /\ plan' = plan
      BY <3>1, ConstantFacts DEF Submit, shared
    <3>3. Holding' = Holding
      BY <3>2 DEF Holding, Looping, TypeOK
    <3>4. \A r \in Runs : pc[r] # "idle" => pc'[r] = pc[r]
      BY <3>2 DEF TypeOK
    <3>5. \A r \in Complex : r \in Runs /\ UnitRun[r] \in Runs
      BY ConstantFacts
    <3>6. \A r : WaitsForSlot(r) => WaitsForSlot(r)'
      BY <3>2, <3>4, <3>5 DEF WaitsForSlot
    <3> QED BY <3>3, <3>6 DEF Jammed, SlotFree
  <2>4. CASE (\E t \in Tasks : Cancel(t)) \/ (\E r \in Runs : Archive(r))
    <3>1. UNCHANGED <<pc, plan>>
      BY <2>4 DEF Cancel, Archive
    <3> QED BY <3>1 DEF Jammed, SlotFree, Holding, WaitsForSlot
  <2> QED BY <2>1, <2>2, <2>3, <2>4 DEF Next
<1>2. ControllerInv => TypeOK
  BY DEF ControllerInv
<1> QED BY <1>1, <1>2, ControllerInvariant, PTL DEF Spec

\* A jam takes as many complex tasks as there are slots: what a deployment
\* would have to rule out, and nothing in the code does.
THEOREM JamsTakeComplexTasks ==
    ASSUME IsFiniteSet(Complex)
    PROVE  Jammed => Cardinality(Complex) >= Slots
<1> SUFFICES ASSUME Jammed PROVE Cardinality(Complex) >= Slots
  OBVIOUS
<1>1. Holding \subseteq Complex
  BY DEF Jammed, WaitsForSlot
<1>2. /\ Cardinality(Holding) <= Cardinality(Complex)
      /\ Cardinality(Holding) \in Nat /\ Cardinality(Complex) \in Nat
  BY <1>1, FS_Subset, FS_CardinalityType
<1> QED BY <1>2, LimitsAssumption DEF Jammed, SlotFree

-----------------------------------------------------------------------------
(* The completed plan whose row fails.                                     *)

\* Only a plan's end says "completed".  Its row is running by then, and is moved
\* to failed by the finally block, which does not know that status.
CompletedOpen ==
    \A t \in Complex : final[t].status = "completed" =>
        /\ pc[t] \in {"ending", "returned", "lost"}
        /\ pc[t] = "ending" => row[t].status = "running"
        /\ pc[t] = "returned" => row[t].status \in {"failed", "archived"}

CompletedPlansLost ==
    \A t \in Complex :
        pc[t] = "returned" /\ final[t].status = "completed"
            => row[t].status \in {"failed", "archived"}

\* Where a step of a run starts, and what it says of the run.
LEMMA RunResults ==
    ASSUME ControllerInv, NEW r \in Runs, (r \in Tasks /\ Submit(r)) \/ Step(r), ~Finalize(r)
    PROVE  /\ pc[r] \in Unrouted
           /\ \A s \in Runs \ {r} : pc'[s] = pc[s] /\ final'[s] = final[s] /\ row'[s] = row[s]
           /\ final'[r] = final[r] \/ final'[r].status # "completed"
<1>1. pc \in [Runs -> Phases] /\ final \in [Runs -> Results] /\ row \in [Runs -> SessionRow]
  BY DEF ControllerInv, TypeOK
<1>2. CASE \/ Stopped(r) \/ ExceedsLimit(r) \/ ShowsEvidence(r) \/ PlanTruncated(r)
           \/ DirectReply(r) \/ FinishRejected(r) \/ FinishVerified(r) \/ FinishRefused(r)
           \/ GuardRefuses(r) \/ SchemaViolated(r) \/ Duplicate(r) \/ Execute(r)
  <2>1. LoopAction(r)
    BY <1>2, LoopActions
  <2> QED BY <1>1, <2>1 DEF LoopAction, Continues, Returns, OfLoop, Unrouted
<1>3. CASE AnswerGap(r)
  <2>1. final'[r].status = "success"
    BY <1>1, <1>3 DEF AnswerGap, Result, LoopStart
  <2> QED BY <1>1, <1>3, <2>1 DEF AnswerGap, Unrouted
<1>4. CASE \/ r \in Tasks /\ Submit(r)
           \/ EnterLoop(r) \/ CallPlanner(r) \/ PlannerRaises(r)
           \/ GuardRaises(r) \/ FinishRepaired(r) \/ ApplyPatch(r) \/ Routed(r)
  BY <1>1, <1>4 DEF Submit, EnterLoop, CallPlanner, MayPlan, PlannerRaises, GuardRaises,
                    FinishRepaired, ApplyPatch, Routed, Planned, Unrouted
<1> QED BY <1>2, <1>3, <1>4 DEF Step, Planning

LEMMA CompletedRun ==
    ASSUME ControllerInv, CompletedOpen, NEW r \in Runs, (r \in Tasks /\ Submit(r)) \/ Step(r)
    PROVE  CompletedOpen'
<1>1. /\ pc \in [Runs -> Phases] /\ final \in [Runs -> Results] /\ row \in [Runs -> SessionRow]
      /\ \A t \in Complex : t \in Runs
  BY ConstantFacts DEF ControllerInv, TypeOK
\* A run's step says "completed" only when the run said so before, and then
\* only Finalize is left to take.
<1>2. ASSUME \A s \in Runs \ {r} : pc'[s] = pc[s] /\ final'[s] = final[s] /\ row'[s] = row[s],
             r \in Complex => final'[r].status # "completed"
      PROVE  CompletedOpen'
  BY <1>1, <1>2 DEF CompletedOpen
<1>3. CASE Finalize(r)
  <2> DEFINE w == Transition(row[r], LifecycleOf(final[r].status))
             p == IF pc[r] = "ending" THEN "returned" ELSE "raised"
  <2>1. /\ final' = final /\ pc' = [pc EXCEPT ![r] = p] /\ row' = [row EXCEPT ![r] = w]
        /\ pc[r] \in {"ending", "raising"}
    BY <1>3 DEF Finalize
  <2>2. ASSUME r \in Complex, final[r].status = "completed"
        PROVE  pc[r] = "ending" /\ w.status = "failed"
    <3>1. pc[r] = "ending" /\ row[r].status = "running" /\ row[r] \in SessionRow
      BY <1>1, <2>1, <2>2 DEF CompletedOpen
    <3>2. w = Transition(row[r], "failed")
      BY <2>2 DEF LifecycleOf
    <3> QED BY <3>1, <3>2, RowFacts
  <2>3. \A s \in Runs \ {r} : pc'[s] = pc[s] /\ row'[s] = row[s]
    BY <1>1, <2>1
  <2>4. pc'[r] = p /\ row'[r] = w
    BY <1>1, <2>1
  <2> HIDE DEF w
  <2> QED BY <1>1, <2>1, <2>2, <2>3, <2>4 DEF CompletedOpen
<1>4. CASE ~Finalize(r)
  <2>1. pc[r] \in Unrouted
    BY <1>4, RunResults
  <2>2. r \in Complex => final[r].status # "completed"
    BY <2>1 DEF CompletedOpen, Unrouted
  <2>3. final'[r] = final[r] \/ final'[r].status # "completed"
    BY <1>4, RunResults
  <2>4. \A s \in Runs \ {r} : pc'[s] = pc[s] /\ final'[s] = final[s] /\ row'[s] = row[s]
    BY <1>4, RunResults
  <2> QED BY <1>2, <2>2, <2>3, <2>4
<1> QED BY <1>3, <1>4

LEMMA CompletedPlan ==
    ASSUME ControllerInv, CompletedOpen, NEW t \in Complex, PlanStep(t)
    PROVE  CompletedOpen'
<1>1. /\ pc \in [Runs -> Phases] /\ final \in [Runs -> Results] /\ row \in [Runs -> SessionRow]
      /\ \A s \in Complex : s \in Runs /\ s # UnitRun[t]
  BY ConstantFacts DEF ControllerInv, TypeOK
<1>2. CASE PlanEnds(t)
  <2>1. /\ pc' = [pc EXCEPT ![t] = "ending"]
        /\ row' = [row EXCEPT ![t] = Transition(row[t], "running")]
        /\ \E result : final' = [final EXCEPT ![t] = result]
        /\ pc[t] = "routed"
    BY <1>2 DEF PlanEnds, Returns
  <2>2. Transition(row[t], "running").status = "running"
    BY <1>1, <2>1, RowFacts DEF ControllerInv, RowInv, RowsOpen, Looping
  <2>3. pc'[t] = "ending" /\ row'[t].status = "running"
    BY <1>1, <2>1, <2>2
  <2>4. \A s \in Complex \ {t} : pc'[s] = pc[s] /\ final'[s] = final[s] /\ row'[s] = row[s]
    BY <1>1, <2>1
  <2> QED BY <2>3, <2>4 DEF CompletedOpen
<1>3. CASE StartUnit(t) \/ UnitEnds(t) \/ RetryUnit(t) \/ UnitFails(t)
  <2>1. /\ row' = row
        /\ \E q : pc' = [pc EXCEPT ![UnitRun[t]] = q]
        /\ final' = final \/ final' = [final EXCEPT ![UnitRun[t]] = NoResult]
    BY <1>3 DEF StartUnit, UnitEnds, RetryUnit, UnitFails, StartAttempt
  <2>2. \A s \in Complex : pc'[s] = pc[s] /\ final'[s] = final[s] /\ row'[s] = row[s]
    BY <1>1, <2>1
  <2> QED BY <2>2 DEF CompletedOpen
<1> QED BY <1>2, <1>3 DEF PlanStep

LEMMA CompletedKept == ControllerInv /\ CompletedOpen /\ [Next]_vars => CompletedOpen'
<1> SUFFICES ASSUME ControllerInv, CompletedOpen, [Next]_vars PROVE CompletedOpen'
  OBVIOUS
<1>1. /\ pc \in [Runs -> Phases] /\ row \in [Runs -> SessionRow]
      /\ \A t \in Complex : t \in Runs
      /\ \A t \in Tasks : t \in Runs
  BY ConstantFacts DEF ControllerInv, TypeOK
<1>2. CASE (\E t \in Tasks : Submit(t)) \/ (\E r \in Runs : Step(r))
  BY <1>1, <1>2, CompletedRun
<1>3. CASE \E t \in Complex : PlanStep(t)
  BY <1>3, CompletedPlan
<1>4. CASE (\E t \in Tasks : Cancel(t)) \/ UNCHANGED vars
  BY <1>4 DEF Cancel, vars, CompletedOpen
<1>5. ASSUME NEW r \in Runs, Archive(r) PROVE CompletedOpen'
  <2>1. /\ row' = [row EXCEPT ![r] = Archived(row[r])] /\ pc' = pc /\ final' = final
        /\ pc[r] # "ending"
    BY <1>5 DEF Archive, Over
  <2>2. Archived(row[r]).status \in {row[r].status, "archived"}
    BY <1>1, RowFacts
  <2> QED BY <1>1, <2>1, <2>2 DEF CompletedOpen
<1>6. CASE Restart
  <2>1. PICK old \in SUBSET Runs :
            row' = [r \in Runs |-> IF r \in old THEN CleanUp(row[r]) ELSE row[r]]
    BY <1>6 DEF Restart
  <2>2. \A r \in Runs : row'[r].status \in {row[r].status, "failed"}
    BY <1>1, <2>1, RowFacts
  <2>3. final' = final /\ \A r \in Runs : pc'[r] = "lost" \/ (pc'[r] = pc[r] /\ pc[r] # "ending")
    BY <1>6 DEF Restart, Over
  <2> QED BY <1>1, <2>2, <2>3 DEF CompletedOpen
<1> QED BY <1>2, <1>3, <1>4, <1>5, <1>6 DEF Next

\* The disagreement that CompletedPlanRecorded finds in one instance is no
\* accident of it: whatever the tasks and plans, every plan that is completed
\* and returned has its row recorded as failed, or archived after that.
THEOREM CompletedPlansRecordedFailed == Spec => []CompletedPlansLost
<1>1. Init => CompletedOpen
  BY ConstantFacts DEF Init, CompletedOpen, NoResult
<1>2. CompletedOpen => CompletedPlansLost
  BY DEF CompletedOpen, CompletedPlansLost
<1> QED BY <1>1, <1>2, CompletedKept, ControllerInvariant, PTL DEF Spec
=============================================================================
