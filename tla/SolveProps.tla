----------------------------- MODULE SolveProps -----------------------------
(* What the life of an LP's solve promises the caller.                       *)
EXTENDS SolveLifecycle

WalkType ==
    [of : 1..2, attempt : 0..MaxAttempts, phase : Nat, at : Nat,
     primal : BOOLEAN, aggregated : BOOLEAN, allowWarm : BOOLEAN,
     allowLoan : BOOLEAN, allowEarly : BOOLEAN, warm : BOOLEAN,
     start : Starts, from : Starts, work : Nat, iters : Nat, markWork : Nat,
     markIters : Nat, held : {NoHold} \cup (Nat \X Nat), astray : BOOLEAN,
     version : Nat]

ModelType ==
    [status : Statuses, work : Nat, iters : Nat, start : Starts,
     parked : WalkType, isParked : BOOLEAN, reduced : BOOLEAN,
     sure : BOOLEAN, version : Nat]

CallType ==
    [pass : 1..2, why : {"first", "uncertified", "exact", "aggregator"},
     user : Nat, aggregated : BOOLEAN, byPresolve : BOOLEAN,
     code : {"OK", "ERR"}, units : Nat, iters : Nat, baseUnits : Nat,
     baseIters : Nat, had : Starts, kept : Starts, handed : BOOLEAN,
     before : Nat]

OutcomeType ==
    [code : {"NONE", "OK", "ERR"}, status : Statuses, work : Nat, iters : Nat,
     from : Starts, astray : BOOLEAN]

\* Every field keeps its type; in particular no count goes negative when a
\* second pass is given what the first left of the limit.
TypeOK ==
    /\ plan \in PlanType
    /\ ref \in OutcomeType
    /\ m \in ModelType
    /\ pc \in {"idle", "enter", "walk", "ladder", "decide"}
    /\ limit \in Nat
    /\ call \in CallType
    /\ s \in WalkType
    /\ calls \in 0..MaxCalls
    /\ edits \in 0..MaxEdits
    /\ intact \in BOOLEAN
    /\ marks \subseteq Marks

AtRest == pc = "idle" /\ ~Reference /\ calls > 0
Ended == AtRest /\ ~(call.code = "OK" /\ m.status \in Stopped)

\* The restarts of one pass cannot go on for ever, whatever each attempt ends
\* in: seven attempts at most when the caller asked for the primal simplex
\* and four when not.
LadderBounded == s.attempt <= IF plan.primal THEN 7 ELSE 4

\* Between calls a walk is parked exactly when the last call ended in a stop
\* and the caller changed nothing since, and it goes on only on the model it
\* was left on: no edit, basis, algorithm or tolerance comes between.
ParkedWalkHolds ==
    /\ pc \in {"walk", "ladder"} => s.version = m.version
    /\ AtRest /\ m.isParked => m.status \in Stopped
    /\ AtRest /\ intact /\ call.code = "OK" /\ m.status \in Stopped
          => m.isParked

\* A solve that was stopped anywhere and gone on with ends as the one nothing
\* stopped, when no stop fell where the code loses something: see Marks.
ResumeIsExact == Ended /\ intact /\ marks = {} => Read(m) = ref

\* Whatever is restarted, passed on to a second pass or resumed, the work of
\* a call that ends well passes the limit only by what presolve bills, or by
\* what was billed before the walk first looked at it.  (A step bills one
\* unit here; in the code the last step may pass the limit as well.)
SpentWithinLimit ==
    AtRest /\ call.user > 0 /\ call.code = "OK"
        => m.work <= Max2(call.user, call.before) + plan.pre

\* A solve that publishes no basis leaves the start the model had, also when
\* its second pass started from the basis of its first.
StartComesBack ==
    (/\ AtRest /\ edits = 0 /\ call.why # "exact"
     /\ call.code = "ERR" \/ m.status = "NUMERICAL_ERROR")
        => m.start = call.had

\* A verdict of presolve that the checker refuses is not the answer, unless
\* no time was left to solve again.
VerdictIsCertified ==
    (/\ AtRest /\ call.code = "OK" /\ "budget" \notin marks
     /\ m.status \in {"INFEASIBLE", "UNBOUNDED"})
        => m.sure

=============================================================================
