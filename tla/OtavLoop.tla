------------------------------- MODULE OtavLoop -------------------------------
(***************************************************************************)
(* The observe-think-act-verify loop behind the computer.use skill         *)
(* (services/computer): one session that works on the desktop step by step,*)
(* with its stuck detector, safety guard, retries and budgets, while the   *)
(* screen changes by itself and time passes at every await.                *)
(*                                                                         *)
(* A step is a phase of the loop, up to the next wait for the model, the   *)
(* screen or a driver.  Screens, plans and verdicts are whatever the vision*)
(* model, the planner and the verification strategies say.  The branch of a*)
(* user's takeover is left out: the skill passes no interrupt manager.     *)
(*                                                                         *)
(* Paths are relative to server/app.                                       *)
(***************************************************************************)
EXTENDS Naturals, Sequences

CONSTANTS
    Titles,         \* window titles
    Blacklisted,    \* titles SafetyGuard refuses
    Settings,       \* titles where every write is dangerous
    None,           \* "no window yet"
    MaxSteps,       \* max_steps
    MaxLlm,         \* max_total_llm_calls
    MaxRetry,       \* max_retry_per_step
    StreakLimit,    \* max_unchanged_streak, max_failed_streak, max_unexpected_streak
    MaxPolls        \* max_wait_timeout, in polls of the screen

Streaks == {"unchanged", "failed", "unexpected"}

ASSUME TitlesAssumption ==
    Blacklisted \subseteq Titles /\ Settings \subseteq Titles /\ None \notin Titles
ASSUME LimitsAssumption ==
    /\ MaxSteps \in Nat /\ MaxLlm \in Nat /\ MaxRetry \in Nat /\ MaxPolls \in Nat
    /\ StreakLimit \in [Streaks -> Nat \ {0}]

VARIABLES
    pc,         \* phase of the loop
    step,       \* current_step_index
    llm,        \* llm_call_count
    active,     \* active_window
    gui,        \* the observation acted upon
    plan,       \* the planned action
    retries,    \* retry_count
    polls,      \* looks at a screen that is still loading
    streak,     \* unchanged_streak, failure_streak, unexpected_streak
    replans,    \* replan_count
    history,    \* verdicts of action_history
    late,       \* the duration limit has passed
    lateInputs, \* actions that reached the screen since then
    result      \* failure_reason, or "achieved"

screenVars == <<active, gui>>
stuckVars == <<streak, replans, history>>
clockVars == <<late, lateInputs>>
vars == <<pc, step, llm, active, gui, plan, retries, polls, streak, replans,
          history, late, lateInputs, result>>

\* A screen with a dangerous word makes every action on it dangerous.
Screens == [title : Titles, alarming : BOOLEAN]

\* "retry" stands for retry_relocate too, "undo" is undo_and_retry.
Plans == [risk : {"read", "write", "dangerous"},
          onFail : {"retry", "undo", "skip", "abort"}]

Phases == {"top", "refocus", "think", "freshness", "safety", "act", "input", "fallback",
           "wait", "verify", "judge", "done"}
Verdicts == {"success", "no_change", "unexpected", "unknown"}
Reasons == {"none", "achieved", "max_steps_reached", "llm_budget_exhausted",
            "vision_llm_unavailable", "approval_required", "action_failed",
            "stuck_after_replan", "raised"}

\* The most calls one iteration counts: three observations before the action,
\* one after it, the plan and the judgement.
CallsPerStep == 6

TypeOK ==
    /\ pc \in Phases
    /\ step \in 0..MaxSteps
    /\ llm \in 0..(MaxLlm + CallsPerStep)
    /\ active \in Titles \cup {None}
    /\ gui \in Screens \cup {None}
    /\ plan \in Plans \cup {None}
    /\ retries \in 0..MaxRetry
    /\ polls \in 0..MaxPolls
    /\ \A s \in Streaks : streak[s] \in 0..StreakLimit[s]
    /\ replans \in 0..MaxSteps
    /\ history \in Seq(Verdicts) /\ Len(history) <= MaxSteps
    /\ late \in BOOLEAN
    /\ lateInputs \in Nat
    /\ result \in Reasons

NoStreak == [s \in Streaks |-> 0]

\* execute(): a session of its own for every call of the skill.
Init ==
    /\ pc = "top" /\ step = 0 /\ llm = 0
    /\ active = None /\ gui = None /\ plan = None
    /\ retries = 0 /\ polls = 0
    /\ streak = NoStreak /\ replans = 0 /\ history = << >>
    /\ late = FALSE /\ lateInputs = 0 /\ result = "none"

GoTo(p) == pc' = p /\ UNCHANGED result
Finish(reason) == pc' = "done" /\ result' = reason

\* _observe: the call counts, whatever the analyser's cache answers.
Look == gui' \in Screens /\ llm' = llm + 1

\* Mutation of BudgetLeft: one iteration more.
SomeBudgetLeft == llm <= MaxLlm

BudgetLeft == llm < MaxLlm

-----------------------------------------------------------------------------

StepsExhausted ==
    /\ pc = "top" /\ step = MaxSteps
    /\ Finish("max_steps_reached")
    /\ UNCHANGED <<step, llm, screenVars, plan, retries, polls, stuckVars, clockVars>>

BudgetExhausted ==
    /\ pc = "top" /\ step < MaxSteps
    /\ ~BudgetLeft
    /\ Finish("llm_budget_exhausted")
    /\ UNCHANGED <<step, llm, screenVars, plan, retries, polls, stuckVars, clockVars>>

\* The first observation of an iteration.
Observe ==
    /\ pc = "top" /\ step < MaxSteps
    /\ BudgetLeft
    /\ Look
    /\ \/ Finish("vision_llm_unavailable") /\ UNCHANGED active
       \/ /\ active \in {None, gui'.title}
          /\ active' = gui'.title
          /\ GoTo("think")
       \/ /\ active \notin {None, gui'.title}
          /\ GoTo("refocus")
          /\ UNCHANGED active
    /\ UNCHANGED <<step, plan, retries, polls, stuckVars, clockVars>>

\* Another window has the focus: it is observed again.
Refocus ==
    /\ pc = "refocus"
    /\ Look
    /\ active' = gui'.title
    /\ GoTo("think")
    /\ UNCHANGED <<step, plan, retries, polls, stuckVars, clockVars>>

Think ==
    /\ pc = "think"
    /\ plan' \in Plans
    /\ llm' = llm + 1
    /\ GoTo("freshness")
    /\ UNCHANGED <<step, screenVars, retries, polls, stuckVars, clockVars>>

\* The model took longer than observe_freshness_seconds, or not.
Freshen ==
    /\ pc = "freshness"
    /\ Look \/ UNCHANGED <<gui, llm>>
    /\ GoTo("safety")
    /\ UNCHANGED <<step, active, plan, retries, polls, stuckVars, clockVars>>

\* Mutation of Refused: the time limit is not looked at.
RefusedByTitle == gui.title \in Blacklisted

\* SafetyGuard.check_action
Refused == gui.title \in Blacklisted \/ late

Dangerous ==
    \/ gui.alarming
    \/ plan.risk = "dangerous"
    \/ plan.risk = "write" /\ gui.title \in Settings

\* What the iteration observed and planned: from the wait on it bears on the
\* verdicts only, which are left open.
Forget == gui' = None /\ plan' = None

NextStep == step' = step + 1 /\ GoTo("top") /\ Forget

Block ==
    /\ pc = "safety"
    /\ Refused
    /\ NextStep
    /\ UNCHANGED <<llm, active, retries, polls, stuckVars, clockVars>>

\* No approval service has the method that is called; the session ends anyway.
AskApproval ==
    /\ pc = "safety"
    /\ ~Refused /\ Dangerous
    /\ Finish("approval_required")
    /\ UNCHANGED <<step, llm, screenVars, plan, retries, polls, stuckVars, clockVars>>

Allow ==
    /\ pc = "safety"
    /\ ~Refused /\ ~Dangerous
    /\ GoTo("act")
    /\ UNCHANGED <<step, llm, screenVars, plan, retries, polls, stuckVars, clockVars>>

\* ActionExecutor.execute asks SafetyGuard again, once the target is located,
\* and then waits for its rate limiter.
Act ==
    /\ pc = "act"
    /\ GoTo(IF Refused \/ Dangerous THEN "fallback" ELSE "input")
    /\ UNCHANGED <<step, llm, screenVars, plan, retries, polls, stuckVars, clockVars>>

\* The keyboard or the mouse is used.
Sent == lateInputs' = (IF late THEN lateInputs + 1 ELSE lateInputs) /\ UNCHANGED late

\* The action itself.  It fails with nothing done (there is no click target), or
\* somewhere on its way.
Input ==
    /\ pc = "input"
    /\ \/ GoTo("wait") /\ Forget /\ Sent
       \/ GoTo("fallback") /\ UNCHANGED <<gui, plan>> /\ (Sent \/ UNCHANGED clockVars)
    /\ UNCHANGED <<step, llm, active, retries, polls, stuckVars>>

\* Mutation of RetriesLeft: one retry more.
RetriesOnceMore == retries <= MaxRetry

RetriesLeft == retries < MaxRetry

\* _handle_fallback.  A retry goes on to verify what was not done, and the
\* iteration after it is a step of its own; retry_count outlives both.  The
\* ctrl+z of undo_and_retry goes straight to the keyboard, past SafetyGuard and
\* the rate limiter; if the driver raises, nothing is said of it.
Fallback ==
    /\ pc = "fallback"
    /\ \/ /\ plan.onFail = "abort"
          /\ Finish("action_failed")
          /\ UNCHANGED <<step, gui, plan, retries, clockVars>>
       \/ /\ plan.onFail = "skip"
          /\ NextStep
          /\ UNCHANGED <<retries, clockVars>>
       \/ /\ plan.onFail \in {"retry", "undo"} /\ ~RetriesLeft
          /\ retries' = 0
          /\ NextStep
          /\ UNCHANGED clockVars
       \/ /\ plan.onFail \in {"retry", "undo"} /\ RetriesLeft
          /\ retries' = retries + 1
          /\ UNCHANGED clockVars \/ (plan.onFail = "undo" /\ Sent)
          /\ GoTo("wait")
          /\ Forget
          /\ UNCHANGED step
    /\ UNCHANGED <<llm, active, polls, stuckVars>>

\* Mutation of KeepWaiting: a screen that changes restarts the time-out.
WaitAfresh ==
    /\ pc = "wait"
    /\ polls < MaxPolls
    /\ polls' \in {0, polls + 1}
    /\ UNCHANGED <<pc, step, llm, screenVars, plan, retries, stuckVars, clockVars, result>>

\* wait_for_ui_stable: the screen was loading and has not come to rest.
KeepWaiting ==
    /\ pc = "wait"
    /\ polls < MaxPolls
    /\ polls' = polls + 1
    /\ UNCHANGED <<pc, step, llm, screenVars, plan, retries, stuckVars, clockVars, result>>

\* It is at rest, or the time is out, or it was not loading.
Settle ==
    /\ pc = "wait"
    /\ polls' = 0
    /\ GoTo("verify")
    /\ UNCHANGED <<step, llm, screenVars, plan, retries, stuckVars, clockVars>>

StreakOf(verdict) ==
    CASE verdict = "no_change" -> "unchanged"
      [] verdict = "unexpected" -> "unexpected"
      [] OTHER -> "failed"

\* Mutation of Recorded: a success leaves the streaks as they are.
RecordedFailures(verdict) ==
    IF verdict = "success"
    THEN streak
    ELSE [NoStreak EXCEPT ![StreakOf(verdict)] = streak[StreakOf(verdict)] + 1]

\* record_verdict: a verdict ends the streaks of all others.
Recorded(verdict) ==
    IF verdict = "success"
    THEN NoStreak
    ELSE [NoStreak EXCEPT ![StreakOf(verdict)] = streak[StreakOf(verdict)] + 1]

\* Unexpected transitions ask for another plan however often they come.
GivesUp(reached) == replans > 0 /\ reached \in {"unchanged", "failed"}

\* The observation after the action, the verdict on it, and the stuck detector.
\* (stuck_reason, set when a new plan is wanted, is cleared before Think runs.)
Verify ==
    /\ pc = "verify"
    /\ llm' = llm + 1
    /\ \E verdict \in Verdicts :
        LET now == Recorded(verdict)
            reached == {s \in Streaks : now[s] >= StreakLimit[s]}
        IN  /\ history' = Append(history, verdict)
            /\ \/ /\ reached = {}
                  /\ streak' = now
                  /\ GoTo("judge")
                  /\ UNCHANGED replans
               \/ /\ \E s \in reached : GivesUp(s)
                  /\ streak' = now
                  /\ Finish("stuck_after_replan")
                  /\ UNCHANGED replans
               \/ /\ \E s \in reached : ~GivesUp(s)
                  /\ streak' = NoStreak
                  /\ replans' = replans + 1
                  /\ GoTo("judge")
    /\ UNCHANGED <<step, screenVars, plan, retries, polls, clockVars>>

\* GoalJudge; an answer that cannot be used is a no.
Judge ==
    /\ pc = "judge"
    /\ llm' = llm + 1
    /\ \/ Finish("achieved") /\ UNCHANGED <<step, gui, plan>>
       \/ NextStep
    /\ UNCHANGED <<active, retries, polls, stuckVars, clockVars>>

\* The screen driver or the planner's answer raises: nothing in run catches it.
Raise ==
    /\ pc \in {"top", "refocus", "think", "freshness", "verify"}
    /\ pc = "top" => step < MaxSteps /\ BudgetLeft
    /\ Finish("raised")
    /\ UNCHANGED <<step, llm, screenVars, plan, retries, polls, stuckVars, clockVars>>

\* max_duration_seconds have passed since the session began.
Expire ==
    /\ ~late /\ pc # "done"
    /\ late' = TRUE
    /\ UNCHANGED <<pc, step, llm, screenVars, plan, retries, polls, stuckVars, lateInputs,
                   result>>

Loop ==
    \/ StepsExhausted \/ BudgetExhausted \/ Observe \/ Refocus \/ Think \/ Freshen
    \/ Block \/ AskApproval \/ Allow \/ Act \/ Input \/ Fallback
    \/ KeepWaiting \/ Settle \/ Verify \/ Judge \/ Raise

Next == Loop \/ Expire

\* The model and the drivers answer or raise, and the event loop goes on.
Spec == Init /\ [][Next]_vars
FairSpec == Spec /\ WF_vars(Loop)

-----------------------------------------------------------------------------
(* Properties *)

\* The last n verdicts up to the i-th are all v.
Run(v, n, i) == n <= i /\ \A j \in (i - n + 1)..i : history[j] = v

Limit(v) == StreakLimit[StreakOf(v)]

\* The session is given up as stuck only after two full streaks, one that made
\* it plan anew and one of no progress at its very end, and they do not share a
\* verdict: steps that were blocked or skipped, successes and replans in
\* between do not add up to one.
StuckForCause ==
    result = "stuck_after_replan" =>
        \E v \in {"no_change", "unknown"} :
            /\ Run(v, Limit(v), Len(history))
            /\ \E w \in Verdicts \ {"success"}, i \in 1..(Len(history) - Limit(v)) :
                    Run(w, Limit(w), i)

\* The budget is looked at once per iteration, between calls that are counted in
\* five places: it is overrun by less than one iteration.
BudgetHeld == llm < MaxLlm + CallsPerStep

\* The time limit does not end the session, but it ends what the session does to
\* the desktop: at most two inputs come later, the action that the executor had
\* cleared before, and the undo that follows when it fails.  Neither is checked
\* again: between the executor's check and the action lies its rate limiter, and
\* the undo is never checked.
LateInputsBounded == lateInputs <= 2

\* The session ends, whatever the model answers and however long the screen
\* keeps changing: every iteration that does not return is counted as a step,
\* and a wait has a time-out.
SessionEnds == <>(pc = "done")
=============================================================================
