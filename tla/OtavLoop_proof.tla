--------------------------- MODULE OtavLoop_proof ---------------------------
(***************************************************************************)
(* Proofs about OtavLoop for any titles, limits and screens.  Two things   *)
(* are spread over an iteration and must be tied to its phases: what it    *)
(* has counted so far (CallsCounted, StepsCounted), and what the streak    *)
(* counters mean (StreaksAreRuns: they measure the end of the history;     *)
(* ReplanHadCause: a replan leaves a full streak behind that no current    *)
(* one overlaps).  A third is apart from them: how many inputs can follow  *)
(* the time limit depends on how far the one iteration had come that the   *)
(* safety check let through before (FewLateInputs).                        *)
(***************************************************************************)
EXTENDS OtavLoop, TLAPS

Recordable == Verdicts \ {"success"}

\* The most calls an iteration has counted when it reaches a phase, on top of
\* those before it, which were less than MaxLlm when it began.
CallsAt ==
    [p \in Phases |->
        CASE p = "refocus" -> 0
          [] p = "think" -> 1
          [] p = "freshness" -> 2
          [] p \in {"safety", "act", "input", "fallback", "wait", "verify"} -> 3
          [] p = "judge" -> 4
          [] OTHER -> 5]

CallsCounted == llm <= MaxLlm + CallsAt[pc]

\* An iteration adds at most one verdict, and a replan comes with a verdict.
StepsCounted ==
    /\ pc \notin {"top", "done"} => step < MaxSteps
    /\ pc \notin {"judge", "done"} => Len(history) <= step
    /\ pc = "judge" => Len(history) <= step + 1
    /\ replans <= Len(history)

\* A session that goes on has no reason yet, and no streak has reached its limit.
GoesOn ==
    pc # "done" =>
        /\ result = "none"
        /\ \A s \in Streaks : streak[s] < StreakLimit[s]

\* A streak of n says that the last n verdicts are its own.
StreaksAreRuns ==
    \A s \in Streaks :
        /\ streak[s] <= Len(history)
        /\ \A j \in (Len(history) - streak[s] + 1)..Len(history) :
                history[j] # "success" /\ StreakOf(history[j]) = s

\* Whoever plans anew has had a full streak, and the streaks begin after it.
ReplanHadCause ==
    replans > 0 =>
        \E w \in Recordable, i \in 1..Len(history) :
            /\ Run(w, Limit(w), i)
            /\ \A s \in Streaks : i <= Len(history) - streak[s]

Inv ==
    /\ TypeOK
    /\ CallsCounted
    /\ StepsCounted
    /\ GoesOn
    /\ StreaksAreRuns
    /\ ReplanHadCause
    /\ StuckForCause

-----------------------------------------------------------------------------
(* What the operators return *)

LEMMA CallsAtValues ==
    /\ CallsAt["refocus"] = 0 /\ CallsAt["think"] = 1 /\ CallsAt["freshness"] = 2
    /\ \A p \in {"safety", "act", "input", "fallback", "wait", "verify"} : CallsAt[p] = 3
    /\ CallsAt["judge"] = 4 /\ CallsAt["top"] = 5 /\ CallsAt["done"] = 5
BY DEF CallsAt, Phases

\* A verdict adds one to its own streak and ends all others; a success ends all.
LEMMA RecordedValues ==
    ASSUME NEW verdict \in Verdicts
    PROVE  /\ StreakOf(verdict) \in Streaks
           /\ \A s \in Streaks :
                Recorded(verdict)[s] =
                    IF verdict # "success" /\ s = StreakOf(verdict) THEN streak[s] + 1 ELSE 0
<1>1. StreakOf(verdict) \in Streaks
    BY DEF Verdicts, StreakOf, Streaks
<1>2. CASE verdict = "success"
    BY <1>1, <1>2 DEF Recorded, NoStreak
<1>3. CASE verdict # "success"
    BY <1>1, <1>3 DEF Recorded, NoStreak
<1> QED
    BY <1>1, <1>2, <1>3

\* A run stays a run when verdicts are added.
LEMMA RunKept ==
    ASSUME NEW h \in Seq(Verdicts), NEW verdict \in Verdicts,
           history = h, history' = Append(h, verdict),
           NEW v \in Verdicts, NEW n \in Nat, NEW i \in 1..Len(h), Run(v, n, i)
    PROVE  Run(v, n, i)'
<1>1. \A j \in 1..Len(h) : history'[j] = h[j]
    OBVIOUS
<1>2. \A j \in (i - n + 1)..i : j \in 1..Len(h)
    BY DEF Run
<1> QED
    BY <1>1, <1>2 DEF Run

-----------------------------------------------------------------------------
(* The inductive invariant *)

LEMMA InvInit == Init => Inv
<1> SUFFICES ASSUME Init PROVE Inv
    OBVIOUS
<1> USE LimitsAssumption
<1>1. history = << >> /\ Len(history) = 0 /\ history \in Seq(Verdicts)
    BY DEF Init
<1>2. \A s \in Streaks : streak[s] = 0
    BY DEF Init, NoStreak
<1>3. TypeOK
    <2>1. \A s \in Streaks : streak[s] \in 0..StreakLimit[s]
        BY <1>2
    <2>2. 0 \in 0..MaxSteps /\ 0 \in 0..(MaxLlm + 6) /\ 0 \in 0..MaxRetry /\ 0 \in 0..MaxPolls
        OBVIOUS
    <2>3. /\ history \in Seq(Verdicts) /\ Len(history) <= MaxSteps
          /\ step \in 0..MaxSteps /\ replans \in 0..MaxSteps
          /\ llm \in 0..(MaxLlm + CallsPerStep)
          /\ retries \in 0..MaxRetry /\ polls \in 0..MaxPolls
        BY <1>1, <2>2 DEF Init, CallsPerStep
    <2> QED
        BY <2>1, <2>3 DEF Init, TypeOK, Phases, Reasons
<1>4. CallsCounted /\ StepsCounted /\ GoesOn
    BY <1>1, <1>2, CallsAtValues DEF Init, CallsCounted, StepsCounted, GoesOn
<1>5. StreaksAreRuns /\ ReplanHadCause /\ StuckForCause
    BY <1>1, <1>2 DEF Init, StreaksAreRuns, ReplanHadCause, StuckForCause
<1> QED
    BY <1>3, <1>4, <1>5 DEF Inv

\* Whatever leaves the verdicts alone keeps what is said about them.
LEMMA VerdictsAlone ==
    ASSUME Inv, UNCHANGED stuckVars, result' # "stuck_after_replan"
    PROVE  StreaksAreRuns' /\ ReplanHadCause' /\ StuckForCause'
BY DEF Inv, StreaksAreRuns, ReplanHadCause, StuckForCause, Run, stuckVars

\* The phases up to the safety check.
LEMMA PlanningStep ==
    ASSUME Inv,
           StepsExhausted \/ BudgetExhausted \/ Observe \/ Refocus \/ Think \/ Freshen
    PROVE  Inv'
<1> USE LimitsAssumption, CallsAtValues
    DEF Inv, TypeOK, CallsCounted, StepsCounted, GoesOn, Phases, Reasons, CallsPerStep,
        BudgetLeft, GoTo, Finish, Look, Screens, screenVars, stuckVars, clockVars
<1>1. pc # "done" /\ result = "none"
    BY DEF StepsExhausted, BudgetExhausted, Observe, Refocus, Think, Freshen
<1>2. UNCHANGED stuckVars /\ result' # "stuck_after_replan"
    BY <1>1 DEF StepsExhausted, BudgetExhausted, Observe, Refocus, Think, Freshen
<1>3. TypeOK' /\ CallsCounted' /\ StepsCounted' /\ GoesOn'
    <2>1. CASE StepsExhausted \/ BudgetExhausted
        BY <2>1 DEF StepsExhausted, BudgetExhausted
    <2>2. CASE Observe
        BY <2>2 DEF Observe
    <2>3. CASE Refocus
        BY <2>3 DEF Refocus
    <2>4. CASE Think
        BY <2>4 DEF Think
    <2>5. CASE Freshen
        BY <2>5 DEF Freshen
    <2> QED
        BY <2>1, <2>2, <2>3, <2>4, <2>5
<1> QED
    BY <1>2, <1>3, VerdictsAlone

\* The phases from the safety check to the wait, the judgement, an exception
\* and the clock.
LEMMA ActingStep ==
    ASSUME Inv,
           \/ Block \/ AskApproval \/ Allow \/ Act \/ Input \/ Fallback \/ KeepWaiting \/ Settle
           \/ Judge \/ Raise \/ Expire
    PROVE  Inv'
<1> USE LimitsAssumption, CallsAtValues
    DEF Inv, TypeOK, CallsCounted, StepsCounted, GoesOn, Phases, Reasons, CallsPerStep,
        GoTo, Finish, Forget, NextStep, screenVars, stuckVars, clockVars
<1>1. pc # "done" /\ result = "none"
    BY DEF Block, AskApproval, Allow, Act, Input, Fallback, KeepWaiting, Settle, Judge, Raise,
           Expire
<1>2. UNCHANGED stuckVars /\ result' # "stuck_after_replan"
    BY <1>1 DEF Block, AskApproval, Allow, Act, Input, Fallback, KeepWaiting, Settle, Judge,
                Raise, Expire
<1>3. TypeOK'
    <2>1. CASE Block
        BY <2>1 DEF Block
    <2>2. CASE AskApproval \/ Allow
        BY <2>2 DEF AskApproval, Allow
    <2>3. CASE Act
        BY <2>3 DEF Act
    <2>9. CASE Input
        BY <2>9 DEF Input, Sent
    <2>4. CASE Fallback
        <3>0. lateInputs' \in Nat /\ late' = late
            BY <2>4 DEF Fallback, Sent
        <3>1. retries' \in 0..MaxRetry
            BY <2>4 DEF Fallback, RetriesLeft
        <3>2. step' \in 0..MaxSteps
            BY <2>4 DEF Fallback
        <3> QED
            BY <2>4, <3>0, <3>1, <3>2 DEF Fallback
    <2>5. CASE KeepWaiting \/ Settle
        <3>1. polls' \in 0..MaxPolls
            BY <2>5 DEF KeepWaiting, Settle
        <3> QED
            BY <2>5, <3>1 DEF KeepWaiting, Settle
    <2>6. CASE Judge
        BY <2>6 DEF Judge
    <2>7. CASE Raise
        BY <2>7 DEF Raise
    <2>8. CASE Expire
        BY <2>8 DEF Expire
    <2> QED
        BY <2>1, <2>2, <2>3, <2>4, <2>5, <2>6, <2>7, <2>8, <2>9
<1>4. CallsCounted' /\ StepsCounted' /\ GoesOn'
    <2>1. CASE Block
        BY <2>1 DEF Block
    <2>2. CASE AskApproval \/ Allow
        BY <2>2 DEF AskApproval, Allow
    <2>3. CASE Act \/ Input
        BY <2>3 DEF Act, Input
    <2>4. CASE Fallback
        BY <2>4 DEF Fallback, RetriesLeft
    <2>5. CASE KeepWaiting \/ Settle
        BY <2>5 DEF KeepWaiting, Settle
    <2>6. CASE Judge
        BY <2>6 DEF Judge
    <2>7. CASE Raise
        BY <2>7 DEF Raise
    <2>8. CASE Expire
        BY <2>8 DEF Expire
    <2> QED
        BY <2>1, <2>2, <2>3, <2>4, <2>5, <2>6, <2>7, <2>8
<1> QED
    BY <1>2, <1>3, <1>4, VerdictsAlone

\* After a verdict the counters still measure the end of the history.
LEMMA RecordedRuns ==
    ASSUME TypeOK, StreaksAreRuns,
           NEW verdict \in Verdicts, history' = Append(history, verdict),
           NEW s \in Streaks
    PROVE  /\ Recorded(verdict)[s] \in Nat
           /\ Recorded(verdict)[s] <= streak[s] + 1
           /\ Recorded(verdict)[s] <= Len(history')
           /\ \A j \in (Len(history') - Recorded(verdict)[s] + 1)..Len(history') :
                history'[j] # "success" /\ StreakOf(history'[j]) = s
<1>1. /\ history \in Seq(Verdicts)
      /\ Len(history') = Len(history) + 1
      /\ Len(history) \in Nat
      /\ history'[Len(history) + 1] = verdict
      /\ \A j \in 1..Len(history) : history'[j] = history[j]
    BY DEF TypeOK
<1>2. streak[s] \in Nat
    BY LimitsAssumption DEF TypeOK
<1>3. CASE verdict # "success" /\ s = StreakOf(verdict)
    <2>1. Recorded(verdict)[s] = streak[s] + 1
        BY <1>3, RecordedValues
    <2>2. ASSUME NEW j \in (Len(history') - (streak[s] + 1) + 1)..Len(history')
          PROVE  history'[j] # "success" /\ StreakOf(history'[j]) = s
        <3>1. CASE j = Len(history) + 1
            BY <1>1, <1>3, <3>1
        <3>2. CASE j # Len(history) + 1
            <4>1. /\ j \in (Len(history) - streak[s] + 1)..Len(history)
                  /\ j \in 1..Len(history)
                BY <1>1, <1>2, <2>2, <3>2 DEF StreaksAreRuns
            <4> QED
                BY <1>1, <4>1 DEF StreaksAreRuns
        <3> QED
            BY <3>1, <3>2
    <2> QED
        BY <1>1, <1>2, <2>1, <2>2 DEF StreaksAreRuns
<1>4. CASE ~(verdict # "success" /\ s = StreakOf(verdict))
    <2>1. Recorded(verdict)[s] = 0
        BY <1>4, RecordedValues
    <2> QED
        BY <1>1, <1>2, <2>1
<1> QED
    BY <1>3, <1>4

\* A counter that has reached its limit is a full streak at the end.
LEMMA FullStreak ==
    ASSUME TypeOK, StreaksAreRuns, GoesOn, pc # "done",
           NEW verdict \in Verdicts, history' = Append(history, verdict),
           NEW s \in Streaks, Recorded(verdict)[s] >= StreakLimit[s]
    PROVE  /\ verdict \in Recordable /\ s = StreakOf(verdict)
           /\ Recorded(verdict)[s] = Limit(verdict)
           /\ Run(verdict, Limit(verdict), Len(history))'
<1>1. StreakLimit[s] \in Nat \ {0} /\ streak[s] \in Nat /\ streak[s] < StreakLimit[s]
    BY LimitsAssumption DEF TypeOK, GoesOn
<1>2. Recorded(verdict)[s] # 0
    BY <1>1, RecordedRuns
<1>3. verdict # "success" /\ s = StreakOf(verdict) /\ Recorded(verdict)[s] = streak[s] + 1
    BY <1>2, RecordedValues
<1>4. Recorded(verdict)[s] = StreakLimit[s]
    BY <1>1, <1>3
<1>5. \A j \in (Len(history') - StreakLimit[s] + 1)..Len(history') :
          history'[j] # "success" /\ StreakOf(history'[j]) = s
    BY <1>4, RecordedRuns
<1>6. StreakLimit[s] <= Len(history') /\ Len(history') \in Nat
    <2>1. Len(history') = Len(history) + 1 /\ Len(history) \in Nat
        BY DEF TypeOK
    <2> QED
        BY <1>4, <2>1, RecordedRuns
<1>7. \A j \in (Len(history') - StreakLimit[s] + 1)..Len(history') : history'[j] = verdict
    <2> SUFFICES ASSUME NEW j \in (Len(history') - StreakLimit[s] + 1)..Len(history')
                 PROVE  history'[j] = verdict
        OBVIOUS
    <2>1. history' \in Seq(Verdicts) /\ j \in 1..Len(history')
        BY <1>1, <1>6 DEF TypeOK
    <2>2. history'[j] \in Verdicts
        BY <2>1
    <2> QED
        BY <1>3, <1>5, <2>2 DEF Verdicts, StreakOf
<1> QED
    BY <1>3, <1>4, <1>6, <1>7 DEF Recordable, Limit, Run

LEMMA VerifyStep == ASSUME Inv, Verify PROVE Inv'
<1> USE LimitsAssumption
<1>1. PICK verdict \in Verdicts :
        /\ history' = Append(history, verdict)
        /\ LET now == Recorded(verdict)
               reached == {s \in Streaks : now[s] >= StreakLimit[s]}
           IN  \/ /\ reached = {}
                  /\ streak' = now
                  /\ GoTo("judge")
                  /\ UNCHANGED replans
               \/ /\ \E s \in reached : GivesUp(s)
                  /\ streak' = now
                  /\ Finish("stuck_after_replan")
                  /\ UNCHANGED replans
               \/ /\ \E s \in reached : ~GivesUp(s)
                  /\ streak' = NoStreak
                  /\ replans' = replans + 1
                  /\ GoTo("judge")
    BY DEF Verify
<1>2. /\ pc = "verify" /\ llm' = llm + 1
      /\ UNCHANGED <<step, screenVars, plan, retries, polls, clockVars>>
    BY DEF Verify
<1>3. /\ history \in Seq(Verdicts) /\ history' \in Seq(Verdicts)
      /\ Len(history) \in Nat /\ Len(history') = Len(history) + 1
      /\ Len(history) <= step /\ step < MaxSteps /\ step \in 0..MaxSteps
      /\ replans <= Len(history) /\ replans \in 0..MaxSteps
      /\ result = "none"
    BY <1>1, <1>2 DEF Inv, TypeOK, StepsCounted, GoesOn
<1>4. \A s \in Streaks :
          /\ streak[s] \in Nat /\ StreakLimit[s] \in Nat \ {0}
          /\ streak[s] < StreakLimit[s] /\ streak[s] <= Len(history)
          /\ Recorded(verdict)[s] \in Nat /\ Recorded(verdict)[s] <= streak[s] + 1
    BY <1>1, <1>2, RecordedRuns DEF Inv, TypeOK, GoesOn, StreaksAreRuns
<1>5. llm \in 0..(MaxLlm + 3) /\ llm' \in 0..(MaxLlm + 4)
    <2>1. llm \in Nat /\ llm <= MaxLlm + 3
        BY <1>2, CallsAtValues DEF Inv, TypeOK, CallsCounted, CallsPerStep
    <2> QED
        BY <1>2, <2>1
<1>6. /\ pc' \in {"judge", "done"} /\ result' \in {"none", "stuck_after_replan"}
      /\ replans' \in {replans, replans + 1}
      /\ streak' = Recorded(verdict) \/ streak' = NoStreak
    BY <1>1, <1>3 DEF GoTo, Finish
<1>7. \A s \in Streaks : streak'[s] \in 0..StreakLimit[s] /\ streak'[s] <= streak[s] + 1
    BY <1>4, <1>6 DEF NoStreak
<1>8. TypeOK'
    <2>1. replans' \in 0..MaxSteps /\ Len(history') <= MaxSteps
        BY <1>3, <1>6
    <2>2. llm' \in 0..(MaxLlm + CallsPerStep)
        BY <1>5 DEF CallsPerStep
    <2>3. pc' \in Phases /\ result' \in Reasons
        BY <1>6 DEF Phases, Reasons
    <2> QED
        BY <1>2, <1>3, <1>7, <2>1, <2>2, <2>3 DEF Inv, TypeOK, screenVars, clockVars
<1>9. CallsCounted' /\ StepsCounted'
    BY <1>2, <1>3, <1>5, <1>6, CallsAtValues DEF CallsCounted, StepsCounted
<1>10. GoesOn'
    <2> SUFFICES ASSUME pc' = "judge"
                 PROVE  result' = "none" /\ \A s \in Streaks : streak'[s] < StreakLimit[s]
        BY <1>6 DEF GoesOn
    <2>1. \/ {s \in Streaks : Recorded(verdict)[s] >= StreakLimit[s]} = {}
             /\ streak' = Recorded(verdict) /\ UNCHANGED result
          \/ streak' = NoStreak /\ UNCHANGED result
        BY <1>1 DEF GoTo, Finish
    <2> QED
        BY <1>3, <1>4, <2>1 DEF NoStreak
<1>11. StreaksAreRuns'
    <2>1. CASE streak' = Recorded(verdict)
        BY <1>1, <2>1, RecordedRuns DEF Inv, StreaksAreRuns
    <2>2. CASE streak' = NoStreak
        <3>1. \A s \in Streaks : streak'[s] = 0
            BY <2>2 DEF NoStreak
        <3> QED
            BY <1>3, <3>1 DEF StreaksAreRuns
    <2> QED
        BY <1>6, <2>1, <2>2
<1>12. ASSUME replans > 0
       PROVE  \E w \in Recordable, i \in 1..Len(history) :
                  /\ Run(w, Limit(w), i)'
                  /\ \A s \in Streaks : i <= Len(history') - streak'[s]
    <2>1. PICK w \in Recordable, i \in 1..Len(history) :
              /\ Run(w, Limit(w), i)
              /\ \A s \in Streaks : i <= Len(history) - streak[s]
        BY <1>12 DEF Inv, ReplanHadCause
    <2>2. w \in Verdicts /\ Limit(w) \in Nat
        BY <1>4, RecordedValues DEF Recordable, Limit
    <2>3. Run(w, Limit(w), i)'
        BY <1>1, <1>3, <2>1, <2>2, RunKept DEF Limit
    <2>4. \A s \in Streaks : i <= Len(history') - streak'[s]
        BY <1>3, <1>4, <1>7, <2>1
    <2> QED
        BY <2>1, <2>3, <2>4
<1>13. CASE UNCHANGED replans
    <2>1. ReplanHadCause'
        BY <1>3, <1>12, <1>13 DEF ReplanHadCause, Limit
    <2>2. StuckForCause'
        <3> SUFFICES ASSUME result' = "stuck_after_replan" PROVE StuckForCause'
            BY DEF StuckForCause
        <3>1. PICK s \in Streaks :
                  /\ Recorded(verdict)[s] >= StreakLimit[s] /\ GivesUp(s)
                  /\ streak' = Recorded(verdict)
            BY <1>1, <1>3 DEF GoTo, Finish
        <3>2. /\ s = StreakOf(verdict) /\ verdict \in Recordable
              /\ streak'[s] = Limit(verdict)
              /\ Run(verdict, Limit(verdict), Len(history))'
            BY <1>1, <1>2, <3>1, FullStreak DEF Inv
        <3>3. verdict \in {"no_change", "unknown"} /\ replans > 0
            BY <3>1, <3>2 DEF GivesUp, StreakOf, Recordable, Verdicts
        <3>4. PICK w \in Recordable, i \in 1..Len(history) :
                  Run(w, Limit(w), i)' /\ i <= Len(history') - streak'[s]
            BY <1>12, <3>3
        <3>5. i \in 1..(Len(history') - Limit(verdict))
            BY <1>3, <1>7, <3>2, <3>4
        <3> QED
            BY <3>2, <3>3, <3>4, <3>5 DEF StuckForCause, Recordable, Limit
    <2> QED
        BY <1>8, <1>9, <1>10, <1>11, <2>1, <2>2 DEF Inv
<1>14. CASE replans' = replans + 1
    <2>1. PICK s \in Streaks :
              /\ Recorded(verdict)[s] >= StreakLimit[s]
              /\ streak' = NoStreak /\ UNCHANGED result
        BY <1>1, <1>3, <1>14 DEF GoTo, Finish
    <2>2. verdict \in Recordable /\ Run(verdict, Limit(verdict), Len(history))'
        BY <1>1, <1>2, <2>1, FullStreak DEF Inv
    <2>3. \A t \in Streaks : streak'[t] = 0
        BY <2>1 DEF NoStreak
    <2>4. ReplanHadCause'
        BY <1>3, <2>2, <2>3 DEF ReplanHadCause, Limit
    <2>5. StuckForCause'
        BY <1>3, <2>1 DEF StuckForCause
    <2> QED
        BY <1>8, <1>9, <1>10, <1>11, <2>4, <2>5 DEF Inv
<1> QED
    BY <1>6, <1>13, <1>14

LEMMA InvStep == Inv /\ [Next]_vars => Inv'
<1> SUFFICES ASSUME Inv, [Next]_vars PROVE Inv'
    OBVIOUS
<1>1. CASE UNCHANGED vars
    BY <1>1 DEF vars, screenVars, stuckVars, clockVars, Inv, TypeOK, CallsCounted, StepsCounted, GoesOn,
                StreaksAreRuns, ReplanHadCause, StuckForCause, Run
<1>2. CASE Next
    BY <1>2, PlanningStep, ActingStep, VerifyStep DEF Next, Loop
<1> QED
    BY <1>1, <1>2

\* The strengthening holds in every phase of every session.
THEOREM Invariance == Spec => []Inv
<1> QED
    BY InvInit, InvStep, PTL DEF Spec

-----------------------------------------------------------------------------
(* The properties *)

\* Type correctness for any limits: steps, retries, polls, streaks and replans
\* stay within theirs, whatever the model answers.
THEOREM TypeCorrect == Spec => []TypeOK
<1>1. Inv => TypeOK
    BY DEF Inv
<1> QED
    BY <1>1, Invariance, PTL

\* One iteration is all that the budget of calls is overrun by.
THEOREM BudgetIsHeld == Spec => []BudgetHeld
<1>1. Inv => BudgetHeld
    <2> SUFFICES ASSUME Inv PROVE BudgetHeld
        OBVIOUS
    <2>1. CallsAt[pc] \in 0..5
        BY CallsAtValues DEF Inv, TypeOK, Phases
    <2> QED
        BY <2>1, LimitsAssumption DEF Inv, TypeOK, CallsCounted, BudgetHeld, CallsPerStep
<1> QED
    BY <1>1, Invariance, PTL

\* For any limits, two full streaks that do not overlap stand behind a session
\* that is given up as stuck.
THEOREM StuckOnlyForCause == Spec => []StuckForCause
<1>1. Inv => StuckForCause
    BY DEF Inv
<1> QED
    BY <1>1, Invariance, PTL

\* Before the limit nothing is counted.  An action that is still to come was
\* cleared before the limit, and at its fallback it is the only one counted.
FewLateInputs ==
    /\ ~late => lateInputs = 0
    /\ pc \in {"act", "input"} => lateInputs = 0
    /\ pc = "fallback" => lateInputs <= 1
    /\ LateInputsBounded

\* Every step keeps it: after the limit the safety check lets no iteration reach
\* its action any more.
LEMMA FewLateInputsStep ==
    ASSUME TypeOK, FewLateInputs, [Next]_vars PROVE FewLateInputs'
<1> USE DEF TypeOK, FewLateInputs, LateInputsBounded, GoTo, Finish, NextStep, clockVars
<1>1. CASE StepsExhausted \/ BudgetExhausted \/ Observe \/ Refocus \/ Think \/ Freshen
    BY <1>1 DEF StepsExhausted, BudgetExhausted, Observe, Refocus, Think, Freshen
<1>2. CASE Block \/ AskApproval \/ KeepWaiting \/ Settle \/ Judge \/ Raise
    BY <1>2 DEF Block, AskApproval, KeepWaiting, Settle, Judge, Raise
<1>3. CASE Allow
    BY <1>3 DEF Allow, Refused
<1>4. CASE Act
    BY <1>4 DEF Act
<1>5. CASE Input
    BY <1>5 DEF Input, Sent
<1>6. CASE Fallback
    BY <1>6 DEF Fallback, Sent
<1>7. CASE Verify
    <2>1. pc' \in {"judge", "done"} /\ UNCHANGED clockVars
        BY <1>7 DEF Verify
    <2> QED BY <2>1
<1>8. CASE Expire
    BY <1>8 DEF Expire
<1>9. CASE UNCHANGED vars
    BY <1>9 DEF vars
<1> QED
    BY <1>1, <1>2, <1>3, <1>4, <1>5, <1>6, <1>7, <1>8, <1>9 DEF Next, Loop

\* However long a session goes on after its time limit, it reaches the screen at
\* most twice more: with the action cleared before, and with the undo of it.
THEOREM LateInputsAreFew == Spec => []LateInputsBounded
<1>1. Init => FewLateInputs
    BY DEF Init, FewLateInputs, LateInputsBounded
<1>2. TypeOK /\ FewLateInputs /\ [Next]_vars => FewLateInputs'
    BY FewLateInputsStep
<1>3. FewLateInputs => LateInputsBounded
    BY DEF FewLateInputs
<1> QED
    BY <1>1, <1>2, <1>3, TypeCorrect, PTL DEF Spec

-----------------------------------------------------------------------------
(* Why a session ends *)

\* The phases in the order in which one iteration goes through them.
PhaseRank ==
    [p \in Phases |->
        CASE p = "top" -> 0 [] p = "refocus" -> 1 [] p = "think" -> 2
          [] p = "freshness" -> 3 [] p = "safety" -> 4 [] p = "act" -> 5
          [] p = "input" -> 6 [] p = "fallback" -> 7 [] p = "wait" -> 8
          [] p = "verify" -> 9 [] p = "judge" -> 10 [] OTHER -> 11]

LEMMA PhaseRankValues ==
    /\ PhaseRank["top"] = 0 /\ PhaseRank["refocus"] = 1 /\ PhaseRank["think"] = 2
    /\ PhaseRank["freshness"] = 3 /\ PhaseRank["safety"] = 4 /\ PhaseRank["act"] = 5
    /\ PhaseRank["input"] = 6 /\ PhaseRank["fallback"] = 7 /\ PhaseRank["wait"] = 8
    /\ PhaseRank["verify"] = 9 /\ PhaseRank["judge"] = 10 /\ PhaseRank["done"] = 11
BY DEF PhaseRank, Phases

\* Another step of the session, a later phase of it, or another look at a screen
\* that loads; each has its limit.
Advances ==
    \/ step' = step + 1 /\ step' <= MaxSteps
    \/ step' = step /\ PhaseRank[pc'] > PhaseRank[pc] /\ PhaseRank[pc'] <= 11
    \/ step' = step /\ pc' = pc /\ polls' = polls + 1 /\ polls' <= MaxPolls

\* No step of the loop can be repeated without something that is bounded having
\* advanced: retries, replans, blocked and skipped actions all cost a step.  So
\* a session takes at most (MaxSteps + 1) * (12 + MaxPolls) steps of its loop,
\* which is what SessionEnds rests on besides fairness.
THEOREM LoopAdvances == Spec => [][Loop => Advances]_vars
<1>1. Inv /\ [Next]_vars => [Loop => Advances]_vars
    <2> SUFFICES ASSUME Inv, Loop PROVE Advances
        OBVIOUS
    <2> USE PhaseRankValues DEF GoTo, Finish, Advances
    <2>1. CASE StepsExhausted \/ BudgetExhausted \/ Observe \/ Refocus \/ Think \/ Freshen
        BY <2>1 DEF StepsExhausted, BudgetExhausted, Observe, Refocus, Think, Freshen
    <2>2. CASE AskApproval \/ Allow \/ Act \/ Input \/ Settle \/ Raise
        BY <2>2 DEF AskApproval, Allow, Act, Input, Settle, Raise
    <2>3. CASE Block \/ Fallback \/ Judge
        <3>1. step \in Nat /\ step < MaxSteps /\ MaxSteps \in Nat
            BY <2>3, LimitsAssumption DEF Block, Fallback, Judge, Inv, TypeOK, StepsCounted
        <3> QED
            BY <2>3, <3>1 DEF Block, Fallback, Judge, NextStep
    <2>4. CASE KeepWaiting
        <3>1. polls \in Nat /\ polls < MaxPolls /\ MaxPolls \in Nat
            BY <2>4, LimitsAssumption DEF KeepWaiting, Inv, TypeOK
        <3> QED
            BY <2>4, <3>1 DEF KeepWaiting
    <2>5. CASE Verify
        BY <2>5 DEF Verify
    <2> QED
        BY <2>1, <2>2, <2>3, <2>4, <2>5 DEF Loop
<1> QED
    BY <1>1, Invariance, PTL DEF Spec
=============================================================================
