--------------------------- MODULE SolveLifecycle ---------------------------
(* One LP on one model, solved, stopped, resumed and edited: jaos_solve for  *)
(* the simplex, jm_dual_simplex with its second pass, dual_simplex_once with *)
(* its ladder of restarts, and the walk that a stop parks on the model       *)
(* (src/src/simplex.c).                                                      *)
(*                                                                           *)
(* A plan says what the arithmetic does: how presolve ends, and for every    *)
(* attempt of the two passes how many pivots a run of it takes, how many     *)
(* rounds of settling follow and how it ends.  One pivot bills one unit, and *)
(* so does the pricing that finds nothing to pivot on.                       *)
(* The model is first solved without any limit; `ref` keeps what came out.   *)
(* Then it is loaded again and solved under limits, a clock and a callback   *)
(* that stop it where they like.                                             *)
EXTENDS Integers

CONSTANTS
    Plans,          \* the plans considered
    Limits,         \* the work limits the caller may set; 0 is none
    ClockMayRunOut, \* a time limit is set and may be reached
    UserMayStop,    \* the progress callback may answer STOP
    MaxCalls,       \* calls of jaos_solve after the reference
    MaxEdits        \* changes of the model or its settings between them

MaxAttempts == 7
Stopped == {"WORK_LIMIT", "TIME_LIMIT", "INTERRUPTED"}
Verdicts == {"OPTIMAL", "INFEASIBLE", "UNBOUNDED", "NUMERICAL_ERROR"}
Statuses == Stopped \cup Verdicts \cup {"NOT_RUN"}
Ends == Verdicts \cup {"FAIL", "STALL", "BREACH", "LOAN"}
Starts == {"none", "caller", "failed", "stop", "answer", "slack"}

\* Where a stop fell, when that is where resuming is not the same as never
\* having stopped: in a second pass, by the callback in a settling round,
\* before a restart from the model's start, on an aggregated walk that then
\* failed; or the budget left nothing for a second pass.
Marks == {"second", "settling", "restart", "forgotten", "budget"}

\* How one attempt goes: `need` pivots in the run and in each of the `rounds`
\* of settling after it.  A run that finds the model infeasible or gives up
\* with an outcome is not settled.
AttemptType == {a \in [need : Nat, rounds : Nat, end : Ends] :
                  a.end \in {"INFEASIBLE", "NUMERICAL_ERROR"} => a.rounds = 0}

PlanType ==
    [presolve : {"NONE", "REDUCED", "SOLVED", "INFEASIBLE", "UNBOUNDED"},
     certified : BOOLEAN,   \* the checker accepts presolve's certificate
     pre : Nat,             \* what presolve and the aggregator bill
     aggregates : BOOLEAN,  \* the aggregator removes a column
     primal : BOOLEAN,      \* cfg.force_primal
     exact : BOOLEAN,       \* cfg.exact
     complete : BOOLEAN,    \* postsolve of a failed pass gives a whole basis
     start : {"none", "caller"},
     walk : [1..2 -> [1..MaxAttempts -> AttemptType]]]

ASSUME LifecycleAssumption ==
    /\ Plans \subseteq PlanType
    /\ Limits \subseteq Nat
    /\ {ClockMayRunOut, UserMayStop} \subseteq BOOLEAN
    /\ MaxCalls \in Nat /\ MaxEdits \in Nat

VARIABLES
    plan,           \* the LP: fixed
    ref,            \* what the uninterrupted solve gave
    m,              \* the caller's model
    pc,             \* where the call is
    limit,          \* cfg.work_limit as the walk reads it
    call,           \* locals of jaos_solve and jm_dual_simplex
    s,              \* the sx and the ladder's flags of dual_simplex_once
    calls, edits,   \* bounds
    intact, marks   \* history: what the caller changed, where a stop fell

vars == <<plan, ref, m, pc, limit, call, s, calls, edits, intact, marks>>
history == <<intact, marks>>

NoHold == <<>>
NoWalk ==
    [of |-> 1, attempt |-> 0, phase |-> 0, at |-> 0, primal |-> FALSE,
     aggregated |-> FALSE,
     allowWarm |-> TRUE, allowLoan |-> TRUE, allowEarly |-> TRUE,
     warm |-> FALSE, start |-> "none", from |-> "slack", work |-> 0,
     iters |-> 0, markWork |-> 0, markIters |-> 0, held |-> NoHold,
     astray |-> FALSE, version |-> 0]

Fresh(p) ==
    [status |-> "NOT_RUN", work |-> 0, iters |-> 0, start |-> p.start,
     parked |-> NoWalk, isParked |-> FALSE, reduced |-> FALSE, sure |-> TRUE,
     version |-> 0]

NoOutcome == [code |-> "NONE", status |-> "NOT_RUN", work |-> 0, iters |-> 0,
              from |-> "slack", astray |-> FALSE]

\* pass 1, or the second pass and what it is for.
NoCall == [pass |-> 1, why |-> "first", user |-> 0, aggregated |-> FALSE,
           byPresolve |-> FALSE, code |-> "OK", units |-> 0, iters |-> 0,
           baseUnits |-> 0, baseIters |-> 0, had |-> "none",
           kept |-> "none", handed |-> FALSE, before |-> 0]

Max2(a, b) == IF a > b THEN a ELSE b

Init ==
    /\ plan \in Plans
    /\ ref = NoOutcome
    /\ m = Fresh(plan)
    /\ pc = "idle"
    /\ limit = 0
    /\ call = NoCall
    /\ s = NoWalk
    /\ calls = 0 /\ edits = 0
    /\ intact = TRUE
    /\ marks = {}

Reference == ref = NoOutcome
Goes(place) == pc' = place
Attempt == plan.walk[s.of][s.attempt]
InWalk == pc = "walk"

-----------------------------------------------------------------------------
(* The caller.                                                               *)

Solve(l) ==
    /\ pc = "idle"
    /\ calls < MaxCalls
    /\ Reference => l = 0
    /\ calls' = calls + (IF Reference THEN 0 ELSE 1)
    /\ limit' = l
    /\ call' = [NoCall EXCEPT !.user = l, !.had = m.start,
                              !.before = IF m.isParked THEN m.work ELSE 0]
    /\ intact' = (intact /\ (calls = 0 \/ m.isParked))
    /\ Goes("enter")
    /\ UNCHANGED <<plan, ref, m, s, edits, marks>>

\* The caller changes something between two calls.
Changes(mm) ==
    /\ pc = "idle" /\ ~Reference
    /\ edits < MaxEdits
    /\ edits' = edits + 1
    /\ intact' = FALSE
    /\ m' = mm
    /\ UNCHANGED <<plan, ref, pc, limit, call, s, calls, marks>>

\* model_answer_is_stale, which every edit of the model's data ends in.
Edit == Changes([m EXCEPT !.status = "NOT_RUN", !.work = 0, !.iters = 0,
                          !.parked = NoWalk, !.isParked = FALSE,
                          !.version = @ + 1])

\* Fault: a new basis leaves the parked walk.
NewBasisOrMethod_KeepsWalk ==
    \E b \in {"caller", "none"} :
        Changes([m EXCEPT !.start = b, !.version = @ + 1])

\* jaos_set_basis and jaos_clear_basis, or a new algorithm or tolerance: the
\* answer stays, the parked walk goes.
NewBasisOrMethod ==
    \E b \in {"caller", "none", m.start} :
        Changes([m EXCEPT !.start = b, !.parked = NoWalk, !.isParked = FALSE,
                          !.version = @ + 1])

-----------------------------------------------------------------------------
(* dual_simplex_once: how it starts.                                         *)

\* The attempt the loop starts: from the start the model it walks on holds,
\* or from the slack basis.
StartsAttempt(w) ==
    LET warm == w.allowWarm /\ w.start # "none"
    IN [w EXCEPT !.attempt = @ + 1, !.phase = 0, !.at = 0, !.held = NoHold,
                 !.warm = warm, !.from = IF warm THEN w.start ELSE "slack"]

Resumes(w) ==
    /\ pc = "enter"
    /\ m.isParked
    /\ s' = w
    /\ m' = [m EXCEPT !.parked = NoWalk, !.isParked = FALSE]
    /\ Goes("walk")
    /\ UNCHANGED <<plan, ref, limit, call, calls, edits, history>>

\* Fault: a round of settling is done again on top of what it had billed.
Resume_KeepsCount ==
    Resumes(IF m.parked.phase = 0 THEN m.parked ELSE [m.parked EXCEPT !.at = 0])

\* A parked walk goes on where it stopped; inside a settling round, at the
\* start of that round with the counts it had there.  Nothing says whether
\* the walk was on an aggregated model.
Resume ==
    Resumes(IF m.parked.phase = 0 THEN m.parked
            ELSE [m.parked EXCEPT !.at = 0, !.work = m.parked.markWork,
                                  !.iters = m.parked.markIters])

\* A second pass leaves out presolve, the aggregator or both.
Presolves == call.why \in {"first", "aggregator"}
Outcome == IF Presolves THEN plan.presolve ELSE "NONE"
Aggregates == /\ plan.aggregates
              /\ Outcome \in {"NONE", "REDUCED"}
              /\ call.why \in {"first", "uncertified"}

FreshWalk ==
    /\ pc = "enter"
    /\ ~m.isParked
    /\ Outcome \in {"NONE", "REDUCED"}
    /\ s' = StartsAttempt([NoWalk EXCEPT
                        !.of = call.pass, !.primal = plan.primal,
                        !.start = m.start, !.version = m.version,
                        !.aggregated = Aggregates,
                        !.work = IF Presolves \/ Aggregates THEN plan.pre
                                 ELSE 0])
    /\ m' = [m EXCEPT !.iters = 0,
                      !.reduced = Outcome = "REDUCED" \/ Aggregates]
    /\ call' = [call EXCEPT !.aggregated = Aggregates]
    /\ Goes("walk")
    /\ UNCHANGED <<plan, ref, limit, calls, edits, history>>

\* Presolve answers alone: its work is the answer's, but the caller of
\* dual_simplex_once is told of none.
PresolveAnswers ==
    /\ pc = "enter"
    /\ ~m.isParked
    /\ Outcome \in {"SOLVED", "INFEASIBLE", "UNBOUNDED"}
    /\ m' = [m EXCEPT !.status = IF Outcome = "SOLVED" THEN "OPTIMAL"
                                 ELSE Outcome,
                      !.sure = Outcome = "SOLVED" \/ plan.certified,
                      !.work = plan.pre, !.iters = 0, !.reduced = TRUE,
                      !.start = IF Outcome = "SOLVED" THEN "answer" ELSE @]
    /\ s' = NoWalk
    /\ call' = [call EXCEPT !.byPresolve = Outcome # "SOLVED"]
    /\ Goes("decide")
    /\ UNCHANGED <<plan, ref, limit, calls, edits, history>>

-----------------------------------------------------------------------------
(* The walk: run, run_primal and reenter_after_settling.                     *)

LimitReached == limit > 0 /\ s.work >= limit

\* A price taken before a callback stopped the walk is used, whatever the
\* basis is now.
Uses(w) == [w EXCEPT !.held = NoHold,
                     !.astray = @ \/ w.held \notin {NoHold, <<w.phase, w.at>>}]

Pivot ==
    /\ InWalk
    /\ ~LimitReached
    /\ s.at < Attempt.need
    /\ s' = [Uses(s) EXCEPT !.at = @ + 1, !.work = @ + 1, !.iters = @ + 1]
    /\ UNCHANGED <<plan, ref, m, pc, limit, call, calls, edits, history>>

\* The run has nothing left to price: the next round of settling, from the
\* counts it starts with, or the end of the attempt.
NextSettlingRound ==
    /\ InWalk
    /\ ~LimitReached
    /\ s.at = Attempt.need
    /\ s.phase < Attempt.rounds
    /\ s' = [Uses(s) EXCEPT !.phase = @ + 1, !.at = 0, !.work = @ + 1,
                            !.markWork = s.work + 1, !.markIters = s.iters]
    /\ UNCHANGED <<plan, ref, m, pc, limit, call, calls, edits, history>>

AttemptEnds ==
    /\ InWalk
    /\ ~LimitReached
    /\ s.at = Attempt.need
    /\ s.phase = Attempt.rounds
    /\ s' = [Uses(s) EXCEPT !.work = @ + 1]
    /\ Goes("ladder")
    /\ UNCHANGED <<plan, ref, m, limit, call, calls, edits, history>>

\* The callback is asked after pricing, and not again for a price it held;
\* phase 2 of the primal asks before it prices and holds nothing.
MayStop(v) ==
    \/ v = "WORK_LIMIT" /\ LimitReached
    \/ v = "TIME_LIMIT" /\ ClockMayRunOut /\ ~Reference /\ ~LimitReached
    \/ v = "INTERRUPTED" /\ UserMayStop /\ ~Reference /\ ~LimitReached
                         /\ s.held = NoHold

Holds(v) == v = "INTERRUPTED" /\ (~s.primal \/ s.phase > 0)

\* publish with a limit's status, which also makes the basis the walk is on
\* the start of the model it walks, then the park.
StopsAs(v, parks) ==
    /\ InWalk
    /\ MayStop(v)
    /\ m' = [m EXCEPT !.status = v, !.work = s.work, !.iters = s.iters,
                      !.start = "stop", !.sure = TRUE, !.isParked = parks,
                      !.parked = [s EXCEPT
                          !.start = "stop",
                          !.held = IF Holds(v) THEN <<s.phase, s.at>> ELSE @]]
    /\ call' = [call EXCEPT !.units = s.work, !.iters = s.iters]
    /\ marks' = marks
         \cup (IF s.of = 2 THEN {"second"} ELSE {})
         \cup (IF s.phase > 0 /\ Holds(v) THEN {"settling"} ELSE {})
    /\ Goes("decide")
    /\ UNCHANGED <<plan, ref, limit, s, calls, edits, intact>>

\* Fault: a stop inside a settling round keeps no walk.
Stop_DropsSettling(v) == StopsAs(v, s.phase = 0)

Stop(v) == StopsAs(v, TRUE)

-----------------------------------------------------------------------------
(* The ladder of dual_simplex_once: what follows an attempt that ended.      *)

\* Costs are perturbed early, and so stall, in a dual run that may.
Ending == IF Attempt.end = "STALL" /\ (s.primal \/ ~s.allowEarly) THEN "FAIL"
          ELSE Attempt.end

InLadder(e) == pc = "ladder" /\ Ending = e

\* sx_init on the same model, with the work carried over.
Again == [s EXCEPT !.primal = plan.primal, !.iters = 0]

TriesAgain(w) ==
    /\ s' = StartsAttempt(w)
    /\ Goes("walk")
    /\ UNCHANGED <<plan, ref, m, limit, call, calls, edits, intact>>

RestartWithoutEarlyPerturb ==
    /\ InLadder("STALL")
    /\ marks' = IF s.allowWarm /\ s.start = "stop" THEN marks \cup {"restart"}
                ELSE marks
    /\ TriesAgain([Again EXCEPT !.allowEarly = FALSE])

\* An error in a round of settling is not tried again.
FailsInRun == InLadder("FAIL") /\ s.phase = 0

RestartCold ==
    /\ FailsInRun \/ InLadder("BREACH")
    /\ s.warm
    /\ TriesAgain([Again EXCEPT !.allowWarm = FALSE])
    /\ UNCHANGED marks

\* The primal simplex reached no answer.  An arm of the concurrent solve
\* does not do this.
FallToDual ==
    /\ FailsInRun
    /\ ~s.warm
    /\ s.primal /\ plan.primal
    /\ TriesAgain([s EXCEPT !.primal = FALSE, !.allowWarm = FALSE])
    /\ UNCHANGED marks

\* Fault: the flag that allows this restart is not cleared.
RestartLoanFree_Repeats ==
    /\ InLadder("LOAN")
    /\ s.allowLoan
    /\ TriesAgain([Again EXCEPT !.primal = TRUE, !.allowWarm = FALSE])
    /\ UNCHANGED marks

RestartLoanFree ==
    /\ InLadder("LOAN")
    /\ s.allowLoan
    /\ TriesAgain([Again EXCEPT !.primal = TRUE, !.allowWarm = FALSE,
                                !.allowLoan = FALSE])
    /\ UNCHANGED marks

Abandon ==
    /\ InLadder("FAIL")
    /\ s.phase > 0 \/ (~s.warm /\ ~(s.primal /\ plan.primal))
    /\ call' = [call EXCEPT !.code = "ERR", !.units = s.work,
                            !.iters = s.iters]
    /\ m' = [m EXCEPT !.iters = s.iters]
    /\ Goes("decide")
    /\ UNCHANGED <<plan, ref, limit, s, calls, edits, history>>

Verdict ==
    IF Ending \in Verdicts THEN Ending
    ELSE IF (Ending = "BREACH" /\ ~s.warm) \/ (Ending = "LOAN" /\ ~s.allowLoan)
    THEN "NUMERICAL_ERROR" ELSE "NOT_RUN"

Publish ==
    /\ pc = "ladder"
    /\ Verdict # "NOT_RUN"
    /\ m' = [m EXCEPT !.status = Verdict, !.work = s.work, !.iters = s.iters,
                      !.sure = TRUE,
                      !.start = IF Verdict = "NUMERICAL_ERROR" THEN @
                                ELSE "answer"]
    /\ call' = [call EXCEPT !.units = s.work, !.iters = s.iters]
    /\ Goes("decide")
    /\ UNCHANGED <<plan, ref, limit, s, calls, edits, history>>

-----------------------------------------------------------------------------
(* jm_dual_simplex after dual_simplex_once: a second pass, or the end.       *)

Failed == call.code = "ERR" \/ m.status = "NUMERICAL_ERROR"

\* Fault: presolve's verdict is taken without its certificate.
Why_TrustsPresolve ==
    IF /\ call.code = "OK" /\ plan.exact /\ m.reduced
       /\ m.status \in {"INFEASIBLE", "UNBOUNDED"} THEN "exact"
    ELSE IF Failed /\ call.aggregated THEN "aggregator"
    ELSE "none"

Why ==
    IF call.code = "OK" /\ call.byPresolve /\ ~m.sure THEN "uncertified"
    ELSE IF /\ call.code = "OK" /\ plan.exact /\ m.reduced
            /\ m.status \in {"INFEASIBLE", "UNBOUNDED"} THEN "exact"
    ELSE IF Failed /\ call.aggregated THEN "aggregator"
    ELSE "none"

Deciding == pc = "decide" /\ call.pass = 1

\* Fault: a second pass is begun when the first used the whole limit, and the
\* nothing that is left is then no limit.
Left_Always == TRUE

Left == call.user = 0 \/ call.units < call.user

Handed == Why = "aggregator" /\ call.code = "OK" /\ plan.complete

\* solve_without_presolve, or the same solve without the aggregator, from the
\* failed pass's basis when it is whole.
SecondPass ==
    /\ Deciding /\ Why # "none" /\ Left
    /\ call' = [call EXCEPT !.pass = 2, !.why = Why, !.code = "OK",
                            !.baseUnits = call.units, !.baseIters = call.iters,
                            !.units = 0, !.iters = 0,
                            !.aggregated = FALSE, !.byPresolve = FALSE,
                            !.kept = m.start, !.handed = Handed]
    /\ m' = [m EXCEPT !.start = IF Handed THEN "failed" ELSE @]
    /\ limit' = IF call.user = 0 THEN 0 ELSE call.user - call.units
    /\ Goes("enter")
    /\ UNCHANGED <<plan, ref, s, calls, edits, history>>

\* What the caller can read: the code, and when it is OK the status, the
\* counts and how the answer was reached.
Read(mm) ==
    IF call.code = "ERR" THEN [NoOutcome EXCEPT !.code = "ERR"]
    ELSE [code |-> "OK", status |-> mm.status, work |-> mm.work,
          iters |-> mm.iters, from |-> s.from, astray |-> s.astray]

\* The reference's outcome is noted and the model loaded again.
Returns(mm) ==
    /\ IF Reference THEN ref' = Read(mm) /\ m' = Fresh(plan)
                    ELSE m' = mm /\ UNCHANGED ref
    /\ Goes("idle")
    /\ UNCHANGED <<plan, limit, call, s, calls, edits, intact>>

NoBudget ==
    /\ Deciding /\ Why # "none"
    /\ ~Left \/ (ClockMayRunOut /\ ~Reference)
    /\ marks' = marks \cup {"budget"}
    /\ Returns(m)

OnePass ==
    /\ Deciding /\ Why = "none"
    /\ marks' = IF Failed /\ s.aggregated THEN marks \cup {"forgotten"}
                ELSE marks
    /\ Returns(m)

SumsPasses(start) ==
    /\ pc = "decide" /\ call.pass = 2
    /\ UNCHANGED marks
    /\ Returns([m EXCEPT !.work = @ + call.baseUnits,
                         !.iters = @ + call.baseIters, !.start = start])

\* Fault: the caller's start is not put back.
TwoPasses_KeepsBasis == SumsPasses(m.start)

TwoPasses ==
    SumsPasses(IF call.handed /\ Failed THEN call.kept ELSE m.start)

Caller ==
    \/ \E l \in Limits \cup {0} : Solve(l)
    \/ Edit
    \/ NewBasisOrMethod

Solver ==
    \/ Resume
    \/ FreshWalk
    \/ PresolveAnswers
    \/ Pivot
    \/ NextSettlingRound
    \/ AttemptEnds
    \/ \E v \in Stopped : Stop(v)
    \/ RestartWithoutEarlyPerturb
    \/ RestartCold
    \/ FallToDual
    \/ RestartLoanFree
    \/ Abandon
    \/ Publish
    \/ SecondPass
    \/ NoBudget
    \/ OnePass
    \/ TwoPasses

Next == Caller \/ Solver

Spec == Init /\ [][Next]_vars

=============================================================================
