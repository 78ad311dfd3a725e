---------------------------- MODULE SolveProofs ----------------------------
(* Proofs that the life of an LP's solve keeps its types, that its ladder of *)
(* restarts is bounded, what a call leaves behind, and that a solve which is *)
(* stopped and gone on with ends as one that nothing stopped: for every      *)
(* plan, every limit and every sequence of calls.                            *)
EXTENDS SolveProps, TLAPS

One(b) == IF b THEN 1 ELSE 0

\* What the restarts still allowed may cost: an attempt that begins gives up
\* one of the allowances.  With the primal simplex, giving up the early
\* perturbation or the loans may bring the primal back, to be fallen from
\* once more.
LadderKept(w) ==
    /\ w.warm => w.allowWarm /\ w.attempt > 0
    /\ w.allowWarm /\ w.attempt > 0 => w.primal = plan.primal
    /\ plan.primal =>
         w.attempt + 2 * One(w.allowEarly) + One(w.allowWarm)
           + 2 * One(w.allowLoan) + One(w.primal) <= 7
    /\ ~plan.primal =>
         w.attempt + One(w.allowEarly) + One(w.allowWarm)
           + One(w.allowLoan) <= 4

Ladders_Inv == LadderKept(s) /\ LadderKept(m.parked)

\* A call that is under way has not read the model's edits yet to come.
Walk_Inv ==
    /\ pc \in {"walk", "ladder"} => s.version = m.version
    /\ m.isParked => m.parked.version = m.version

\* A second pass without the aggregator follows one that presolve did not
\* answer.
Pass_Inv ==
    /\ call.pass = 1 <=> call.why = "first"
    /\ (call.pass = 1 /\ call.aggregated) \/ call.why = "aggregator"
         => plan.presolve \in {"NONE", "REDUCED"}

Park_Inv ==
    /\ pc \in {"walk", "ladder"} => ~m.isParked
    /\ pc = "enter" /\ call.pass = 2 => ~m.isParked
    /\ pc # "idle" => (call.byPresolve =>
          pc = "decide" /\ call.code = "OK"
            /\ m.status \in {"INFEASIBLE", "UNBOUNDED"})
    /\ pc # "decide" /\ pc # "idle" => call.code = "OK"
    /\ m.isParked => m.status \in Stopped
    /\ pc = "decide" /\ call.code = "OK" /\ m.status \in Stopped => m.isParked
    /\ pc = "decide" /\ call.code = "ERR" => ~m.isParked
    /\ pc = "idle" /\ intact /\ call.code = "OK" /\ m.status \in Stopped
         => m.isParked

Sure_Inv ==
    /\ pc = "decide" /\ call.code = "OK" /\ ~m.sure
         => call.byPresolve /\ call.pass = 1
    /\ pc = "idle" /\ call.code = "OK" /\ "budget" \notin marks
         /\ m.status \in {"INFEASIBLE", "UNBOUNDED"} => m.sure

Start_Inv ==
    /\ Reference => calls = 0
    /\ edits = 0 /\ call.why # "exact" =>
        /\ pc \in {"enter", "walk", "ladder"} =>
             IF call.handed THEN call.kept = call.had ELSE m.start = call.had
        /\ pc = "decide" /\ (Failed \/ call.byPresolve) =>
             IF call.handed THEN call.kept = call.had ELSE m.start = call.had
        /\ call.pass = 1 /\ pc # "idle" => ~call.handed
        /\ pc = "idle" /\ ~Reference /\ calls > 0 /\ Failed
             => m.start = call.had

IInv ==
    /\ TypeOK /\ Ladders_Inv /\ Pass_Inv
    /\ Walk_Inv /\ Park_Inv /\ Sure_Inv /\ Start_Inv

-----------------------------------------------------------------------------
(* The parts of a state.                                                     *)

LEMMA NoWalkType == NoWalk \in WalkType
  BY DEF NoWalk, WalkType, NoHold, Starts, MaxAttempts

\* The caller's changes drop the walk and make the model another.
LEMMA DropsType ==
  ASSUME NEW mm \in ModelType
  PROVE  LET d == [mm EXCEPT !.parked = NoWalk, !.isParked = FALSE]
             e == [d EXCEPT !.version = mm.version + 1]
         IN e \in ModelType /\ e.parked = NoWalk
  <1> DEFINE d == [mm EXCEPT !.parked = NoWalk, !.isParked = FALSE]
             e == [d EXCEPT !.version = mm.version + 1]
  <1>1. d \in ModelType /\ d.parked = NoWalk
    BY NoWalkType DEF ModelType
  <1>2. mm.version + 1 \in Nat
    BY DEF ModelType
  <1> HIDE DEF d
  <1>3. e \in ModelType /\ e.parked = NoWalk
    BY <1>1, <1>2 DEF ModelType
  <1>4. QED
    BY <1>3, Zenon DEF d

LEMMA NoCallType == NoCall \in CallType
  BY DEF NoCall, CallType, Starts

LEMMA FreshType == ASSUME plan \in PlanType PROVE Fresh(plan) \in ModelType
  BY NoWalkType DEF Fresh, ModelType, PlanType, Statuses, Stopped, Verdicts, Starts

LEMMA StartsType ==
  ASSUME NEW w \in WalkType, w.attempt < MaxAttempts
  PROVE  StartsAttempt(w) \in WalkType
  <1> DEFINE warm == w.allowWarm /\ w.start # "none"
             from == IF warm THEN w.start ELSE "slack"
  <1>1. warm \in BOOLEAN
    OBVIOUS
  <1>2. from \in Starts
    BY DEF WalkType, Starts
  <1>3. w.attempt + 1 \in 0..MaxAttempts
    BY DEF WalkType, MaxAttempts
  <1> HIDE DEF warm, from
  <1>4. [w EXCEPT !.attempt = w.attempt + 1, !.phase = 0, !.at = 0]
          \in WalkType
    BY <1>3 DEF WalkType
  <1>5. ASSUME NEW v \in WalkType
        PROVE  [v EXCEPT !.held = NoHold, !.warm = warm, !.from = from]
                 \in WalkType
    BY <1>1, <1>2 DEF WalkType
  <1>6. StartsAttempt(w) =
          [[w EXCEPT !.attempt = w.attempt + 1, !.phase = 0, !.at = 0]
             EXCEPT !.held = NoHold, !.warm = warm, !.from = from]
    BY Zenon DEF StartsAttempt, warm, from
  <1>7. QED
    BY <1>4, <1>5, <1>6

LEMMA UsesType ==
  ASSUME NEW w \in WalkType PROVE Uses(w) \in WalkType
  BY DEF Uses, WalkType, NoHold

LEMMA InitInv == Init => IInv
  <1> SUFFICES ASSUME Init PROVE IInv
    OBVIOUS
  <1>1. plan \in PlanType
    BY LifecycleAssumption DEF Init
  <1>2. TypeOK
    BY <1>1, FreshType, NoWalkType, LifecycleAssumption
       DEF Init, TypeOK, OutcomeType, NoOutcome, CallType, NoCall, Statuses,
           Stopped, Verdicts, Starts, Marks
  <1>3. Ladders_Inv
    BY <1>1 DEF Init, Ladders_Inv, LadderKept, One, Fresh, NoWalk, PlanType
  <1>4. Pass_Inv /\ Walk_Inv /\ Park_Inv /\ Sure_Inv /\ Start_Inv
    BY DEF Init, Pass_Inv, Walk_Inv, Park_Inv, Sure_Inv, Start_Inv, Fresh, NoCall,
           Stopped, Reference
  <1>5. QED
    BY <1>2, <1>3, <1>4 DEF IInv

-----------------------------------------------------------------------------
(* The ladder.                                                               *)

\* What a walk must have left for one attempt more.
MayPay(w) ==
    /\ w.allowWarm => w.primal = plan.primal
    /\ plan.primal =>
         w.attempt + 1 + 2 * One(w.allowEarly) + One(w.allowWarm)
           + 2 * One(w.allowLoan) + One(w.primal) <= 7
    /\ ~plan.primal =>
         w.attempt + 1 + One(w.allowEarly) + One(w.allowWarm)
           + One(w.allowLoan) <= 4

LEMMA PaidAttempt ==
  ASSUME TypeOK, NEW w \in WalkType, MayPay(w)
  PROVE  /\ StartsAttempt(w) \in WalkType
         /\ LadderKept(StartsAttempt(w))
         /\ StartsAttempt(w).version = w.version
  <1> DEFINE v == StartsAttempt(w)
  <1>1. w.attempt < MaxAttempts
    BY DEF MayPay, One, WalkType, MaxAttempts, TypeOK, PlanType
  <1>2. v \in WalkType
    BY <1>1, StartsType
  <1>3. /\ v.attempt = w.attempt + 1
        /\ v.allowEarly = w.allowEarly /\ v.allowWarm = w.allowWarm
        /\ v.allowLoan = w.allowLoan /\ v.primal = w.primal
        /\ v.version = w.version
        /\ v.warm => w.allowWarm
    BY DEF StartsAttempt, WalkType
  <1>4. LadderKept(v)
    BY <1>3 DEF LadderKept, MayPay, WalkType
  <1>5. QED
    BY <1>2, <1>3, <1>4

\* Each rung gives up what pays for it.
LEMMA RungsPay ==
  ASSUME TypeOK, LadderKept(s)
  PROVE  /\ InLadder("STALL") =>
              LET w == [Again EXCEPT !.allowEarly = FALSE]
              IN w \in WalkType /\ MayPay(w) /\ w.version = s.version
         /\ s.warm =>
              LET w == [Again EXCEPT !.allowWarm = FALSE]
              IN w \in WalkType /\ MayPay(w) /\ w.version = s.version
         /\ s.primal /\ plan.primal =>
              LET w == [s EXCEPT !.primal = FALSE, !.allowWarm = FALSE]
              IN w \in WalkType /\ MayPay(w) /\ w.version = s.version
         /\ s.allowLoan =>
              LET w == [Again EXCEPT !.primal = TRUE, !.allowWarm = FALSE,
                                     !.allowLoan = FALSE]
              IN w \in WalkType /\ MayPay(w) /\ w.version = s.version
  <1>1. plan.primal \in BOOLEAN /\ s \in WalkType
    BY DEF TypeOK, PlanType
  <1>2. ASSUME InLadder("STALL")
        PROVE  LET w == [Again EXCEPT !.allowEarly = FALSE]
               IN w \in WalkType /\ MayPay(w) /\ w.version = s.version
    <2> DEFINE w == [Again EXCEPT !.allowEarly = FALSE]
    <2>1. w \in WalkType
      BY <1>1 DEF WalkType, Again
    <2>2. /\ w.attempt = s.attempt /\ w.version = s.version
          /\ w.primal = plan.primal /\ w.allowEarly = FALSE
          /\ w.allowWarm = s.allowWarm /\ w.allowLoan = s.allowLoan
      BY <1>1 DEF WalkType, Again
    <2> HIDE DEF w
    <2>3. s.allowEarly /\ ~s.primal
      BY <1>2 DEF InLadder, Ending
    <2>4. MayPay(w)
      BY <1>1, <2>2, <2>3 DEF LadderKept, MayPay, One, WalkType
    <2>5. QED
      BY <2>1, <2>2, <2>4, Zenon DEF w
  <1>3. ASSUME s.warm
        PROVE  LET w == [Again EXCEPT !.allowWarm = FALSE]
               IN w \in WalkType /\ MayPay(w) /\ w.version = s.version
    <2> DEFINE w == [Again EXCEPT !.allowWarm = FALSE]
    <2>1. w \in WalkType
      BY <1>1 DEF WalkType, Again
    <2>2. /\ w.attempt = s.attempt /\ w.version = s.version
          /\ w.primal = plan.primal /\ w.allowEarly = s.allowEarly
          /\ w.allowWarm = FALSE /\ w.allowLoan = s.allowLoan
      BY <1>1 DEF WalkType, Again
    <2> HIDE DEF w
    <2>3. MayPay(w)
      BY <1>1, <1>3, <2>2 DEF LadderKept, MayPay, One, WalkType
    <2>4. QED
      BY <2>1, <2>2, <2>3, Zenon DEF w
  <1>4. ASSUME s.primal, plan.primal
        PROVE  LET w == [s EXCEPT !.primal = FALSE, !.allowWarm = FALSE]
               IN w \in WalkType /\ MayPay(w) /\ w.version = s.version
    <2> DEFINE w == [s EXCEPT !.primal = FALSE, !.allowWarm = FALSE]
    <2>1. w \in WalkType
      BY <1>1 DEF WalkType
    <2>2. /\ w.attempt = s.attempt /\ w.version = s.version
          /\ w.primal = FALSE /\ w.allowEarly = s.allowEarly
          /\ w.allowWarm = FALSE /\ w.allowLoan = s.allowLoan
      BY <1>1 DEF WalkType
    <2> HIDE DEF w
    <2>3. MayPay(w)
      <3>1. /\ One(s.primal) = 1 /\ One(w.primal) = 0
            /\ One(w.allowWarm) = 0 /\ One(s.allowWarm) \in 0..1
            /\ One(s.allowEarly) \in 0..1 /\ One(s.allowLoan) \in 0..1
        BY <1>4, <2>2 DEF One
      <3>2. s.attempt + 2 * One(s.allowEarly) + One(s.allowWarm)
              + 2 * One(s.allowLoan) + One(s.primal) <= 7
        BY <1>4 DEF LadderKept
      <3>3. s.attempt \in Int
        BY <1>1 DEF WalkType
      <3>4. w.attempt + 1 + 2 * One(w.allowEarly) + One(w.allowWarm)
              + 2 * One(w.allowLoan) + One(w.primal) <= 7
        BY <2>2, <3>1, <3>2, <3>3
      <3>5. QED
        BY <1>4, <2>2, <3>4 DEF MayPay
    <2>4. QED
      BY <2>1, <2>2, <2>3, Zenon DEF w
  <1>5. ASSUME s.allowLoan
        PROVE  LET w == [Again EXCEPT !.primal = TRUE, !.allowWarm = FALSE,
                               !.allowLoan = FALSE]
               IN w \in WalkType /\ MayPay(w) /\ w.version = s.version
    <2> DEFINE w == [Again EXCEPT !.primal = TRUE, !.allowWarm = FALSE,
                               !.allowLoan = FALSE]
    <2>1. w \in WalkType
      BY <1>1 DEF WalkType, Again
    <2>2. /\ w.attempt = s.attempt /\ w.version = s.version
          /\ w.primal = TRUE /\ w.allowEarly = s.allowEarly
          /\ w.allowWarm = FALSE /\ w.allowLoan = FALSE
      BY <1>1 DEF WalkType, Again
    <2> HIDE DEF w
    <2>3. MayPay(w)
      BY <1>1, <1>5, <2>2 DEF LadderKept, MayPay, One, WalkType
    <2>4. QED
      BY <2>1, <2>2, <2>3, Zenon DEF w
  <1>6. QED
    BY <1>2, <1>3, <1>4, <1>5

-----------------------------------------------------------------------------
(* What each kind of step does to the types and to the ladder.               *)

\* No step touches the plan, and each leaves most of the state alone: enough
\* to look at the parts it changes.
LEMMA CallerStep ==
  ASSUME IInv, Caller
  PROVE  TypeOK' /\ Ladders_Inv'
  <1> USE DEF IInv
  <1>1. /\ m \in ModelType /\ call \in CallType /\ s \in WalkType
        /\ m.parked \in WalkType
    BY DEF TypeOK, ModelType
  <1>2. ASSUME NEW l \in Limits \cup {0}, Solve(l)
        PROVE  TypeOK' /\ Ladders_Inv'
    <2>1. l \in Nat
      BY LifecycleAssumption
    <2>2. call' \in CallType
      <3>1. m.start \in Starts /\ m.work \in Nat
        BY <1>1 DEF ModelType
      <3>2. ASSUME NEW b \in Nat
            PROVE  [NoCall EXCEPT !.user = l, !.had = m.start, !.before = b]
                     \in CallType
        BY <2>1, <3>1, NoCallType DEF CallType
      <3>3. QED
        BY <1>2, <3>1, <3>2 DEF Solve
    <2>3. calls' \in 0..MaxCalls /\ intact' \in BOOLEAN
      BY <1>1, <1>2, LifecycleAssumption DEF Solve, TypeOK, ModelType
    <2>4. QED
      BY <1>2, <2>1, <2>2, <2>3
         DEF Solve, TypeOK, Goes, Ladders_Inv, LadderKept
  <1>3. ASSUME NEW mm \in ModelType, mm.parked = NoWalk, Changes(mm)
        PROVE  TypeOK' /\ Ladders_Inv'
    <2>1. LadderKept(mm.parked)
      BY <1>3 DEF LadderKept, NoWalk, One, TypeOK, PlanType
    <2>2. edits' \in 0..MaxEdits
      BY <1>3, LifecycleAssumption DEF Changes, TypeOK
    <2>3. TypeOK'
      BY <1>3, <2>2 DEF Changes, TypeOK
    <2>4. QED
      BY <1>3, <2>1, <2>3 DEF Changes, Ladders_Inv, LadderKept
  <1>4. CASE Edit
    <2> DEFINE mm == [m EXCEPT !.status = "NOT_RUN", !.work = 0, !.iters = 0,
                               !.parked = NoWalk, !.isParked = FALSE,
                               !.version = @ + 1]
    <2>1. mm \in ModelType /\ mm.parked = NoWalk
      <3> DEFINE e == [m EXCEPT !.status = "NOT_RUN", !.work = 0, !.iters = 0]
      <3>1. e \in ModelType /\ e.version = m.version
        BY <1>1 DEF ModelType, Statuses
      <3> HIDE DEF e
      <3>2. [e EXCEPT !.parked = NoWalk, !.isParked = FALSE,
                      !.version = m.version + 1] = mm
        BY Zenon DEF e
      <3>3. QED
        BY <3>1, <3>2, DropsType
    <2>2. QED
      BY <1>3, <1>4, <2>1, Zenon DEF Edit
  <1>5. CASE NewBasisOrMethod
    <2>1. PICK b \in {"caller", "none", m.start} :
             Changes([m EXCEPT !.start = b, !.parked = NoWalk,
                               !.isParked = FALSE, !.version = @ + 1])
      BY <1>5, Zenon DEF NewBasisOrMethod
    <2>2. b \in Starts
      BY <1>1 DEF ModelType, Starts
    <2> DEFINE mm == [m EXCEPT !.start = b, !.parked = NoWalk,
                               !.isParked = FALSE, !.version = @ + 1]
    <2>3. mm \in ModelType /\ mm.parked = NoWalk
      <3> DEFINE e == [m EXCEPT !.start = b]
      <3>1. e \in ModelType /\ e.version = m.version
        BY <1>1, <2>2 DEF ModelType
      <3> HIDE DEF e
      <3>2. [e EXCEPT !.parked = NoWalk, !.isParked = FALSE,
                      !.version = m.version + 1] = mm
        BY Zenon DEF e
      <3>3. QED
        BY <3>1, <3>2, DropsType
    <2>4. QED
      BY <1>3, <2>1, <2>3, Zenon
  <1>6. QED
    BY <1>2, <1>4, <1>5 DEF Caller

LEMMA SameLadder ==
  ASSUME NEW w, NEW v, LadderKept(w),
         v.attempt = w.attempt, v.warm = w.warm, v.primal = w.primal,
         v.allowWarm = w.allowWarm, v.allowLoan = w.allowLoan,
         v.allowEarly = w.allowEarly
  PROVE  LadderKept(v)
  BY DEF LadderKept

LEMMA NoWalkLadder == ASSUME TypeOK PROVE LadderKept(NoWalk)
  BY DEF LadderKept, NoWalk, One, TypeOK, PlanType

\* dual_simplex_once begins.
LEMMA EnterStep ==
  ASSUME IInv, Resume \/ FreshWalk \/ PresolveAnswers
  PROVE  TypeOK' /\ Ladders_Inv'
  <1>1. /\ m \in ModelType /\ call \in CallType /\ s \in WalkType
        /\ m.parked \in WalkType /\ plan \in PlanType
        /\ LadderKept(s) /\ LadderKept(m.parked) /\ TypeOK
    BY DEF IInv, TypeOK, ModelType, Ladders_Inv
  <1>2. CASE Resume
    <2> DEFINE w == IF m.parked.phase = 0 THEN m.parked
                    ELSE [m.parked EXCEPT !.at = 0, !.work = m.parked.markWork,
                                          !.iters = m.parked.markIters]
    <2>1. w \in WalkType
      BY <1>1 DEF WalkType
    <2>2. LadderKept(w)
      BY <1>1, SameLadder DEF WalkType
    <2> HIDE DEF w
    <2>3. /\ s' = w
          /\ m' = [m EXCEPT !.parked = NoWalk, !.isParked = FALSE]
          /\ pc' = "walk"
          /\ UNCHANGED <<plan, ref, limit, call, calls, edits, intact, marks>>
      BY <1>2, Zenon DEF Resume, Resumes, Goes, history, w
    <2>4. m' \in ModelType /\ m'.parked = NoWalk
      BY <1>1, <2>3, NoWalkType DEF ModelType
    <2>5. TypeOK'
      BY <1>1, <2>1, <2>3, <2>4 DEF TypeOK
    <2>6. QED
      BY <1>1, <2>2, <2>3, <2>4, <2>5, NoWalkLadder DEF Ladders_Inv, LadderKept
  <1>3. CASE FreshWalk
    <2> DEFINE w == [NoWalk EXCEPT
                        !.of = call.pass, !.primal = plan.primal,
                        !.start = m.start, !.version = m.version,
                        !.aggregated = Aggregates,
                        !.work = IF Presolves \/ Aggregates THEN plan.pre ELSE 0]
    <2>1. /\ call.pass \in 1..2 /\ plan.primal \in BOOLEAN
          /\ m.start \in Starts /\ m.version \in Nat
          /\ Aggregates \in BOOLEAN
          /\ (IF Presolves \/ Aggregates THEN plan.pre ELSE 0) \in Nat
      BY <1>1 DEF CallType, PlanType, ModelType, Aggregates
    <2>2. w \in WalkType
      <3> HIDE DEF Aggregates
      <3> DEFINE v == [NoWalk EXCEPT !.of = call.pass, !.primal = plan.primal,
                                     !.start = m.start]
                 u == IF Presolves \/ Aggregates THEN plan.pre ELSE 0
      <3>1. v \in WalkType
        BY <2>1, NoWalkType DEF WalkType
      <3> HIDE DEF v, u
      <3>2. ASSUME NEW a \in BOOLEAN, NEW n \in Nat
            PROVE  [v EXCEPT !.version = m.version, !.aggregated = a,
                             !.work = n] \in WalkType
        BY <2>1, <3>1 DEF WalkType
      <3>3. w = [v EXCEPT !.version = m.version, !.aggregated = Aggregates,
                          !.work = u]
        BY Zenon DEF v, u
      <3>4. QED
        BY <2>1, <3>2, <3>3 DEF u
    <2>3. MayPay(w)
      <3>1. /\ w.attempt = 0 /\ w.primal = plan.primal /\ w.allowEarly = TRUE
            /\ w.allowWarm = TRUE /\ w.allowLoan = TRUE
        BY DEF NoWalk
      <3> HIDE DEF w
      <3>2. QED
        BY <2>1, <3>1 DEF MayPay, One
    <2> HIDE DEF w
    <2>4. /\ s' = StartsAttempt(w)
          /\ m' = [m EXCEPT !.iters = 0,
                            !.reduced = Outcome = "REDUCED" \/ Aggregates]
          /\ call' = [call EXCEPT !.aggregated = Aggregates]
          /\ pc' = "walk"
          /\ UNCHANGED <<plan, ref, limit, calls, edits, intact, marks>>
      BY <1>3, Zenon DEF FreshWalk, Goes, history, w
    <2>5. s' \in WalkType /\ LadderKept(s')
      BY <1>1, <2>2, <2>3, <2>4, PaidAttempt
    <2>6. m' \in ModelType /\ m'.parked = m.parked
      BY <1>1, <2>1, <2>4 DEF ModelType
    <2>7. call' \in CallType
      BY <1>1, <2>1, <2>4 DEF CallType
    <2>8. TypeOK'
      BY <1>1, <2>4, <2>5, <2>6, <2>7 DEF TypeOK
    <2>9. QED
      BY <1>1, <2>4, <2>5, <2>6, <2>8 DEF Ladders_Inv, LadderKept
  <1>4. CASE PresolveAnswers
    <2> DEFINE st == IF Outcome = "SOLVED" THEN "OPTIMAL" ELSE Outcome
               su == Outcome = "SOLVED" \/ plan.certified
               b  == IF Outcome = "SOLVED" THEN "answer" ELSE m.start
    <2>1. /\ st \in Statuses /\ su \in BOOLEAN /\ b \in Starts
          /\ plan.pre \in Nat
      BY <1>1, <1>4 DEF PresolveAnswers, Statuses, Verdicts, ModelType, Starts,
                        PlanType
    <2> HIDE DEF st, su, b
    <2>2. /\ m' = [[m EXCEPT !.status = st, !.sure = su, !.work = plan.pre]
                      EXCEPT !.iters = 0, !.reduced = TRUE, !.start = b]
          /\ s' = NoWalk
          /\ call' = [call EXCEPT !.byPresolve = Outcome # "SOLVED"]
          /\ pc' = "decide"
          /\ UNCHANGED <<plan, ref, limit, calls, edits, intact, marks>>
      BY <1>4, Zenon DEF PresolveAnswers, Goes, history, st, su, b
    <2>3. [m EXCEPT !.status = st, !.sure = su, !.work = plan.pre]
            \in ModelType
      BY <1>1, <2>1 DEF ModelType
    <2>4. m' \in ModelType
      BY <2>1, <2>2, <2>3 DEF ModelType
    <2>5. m'.parked = m.parked
      BY <1>1, <2>2 DEF ModelType
    <2>6. call' \in CallType
      BY <1>1, <2>2 DEF CallType
    <2>7. TypeOK'
      BY <1>1, <2>2, <2>4, <2>6, NoWalkType DEF TypeOK
    <2>8. QED
      BY <1>1, <2>2, <2>5, <2>7, NoWalkLadder DEF Ladders_Inv, LadderKept
  <1>5. QED
    BY <1>2, <1>3, <1>4

\* The walk, and a stop in it.
LEMMA WalkStep ==
  ASSUME IInv,
         Pivot \/ NextSettlingRound \/ AttemptEnds \/ \E v \in Stopped : Stop(v)
  PROVE  TypeOK' /\ Ladders_Inv'
  <1>1. /\ m \in ModelType /\ call \in CallType /\ s \in WalkType
        /\ plan \in PlanType
        /\ LadderKept(s) /\ LadderKept(m.parked) /\ TypeOK
    BY DEF IInv, TypeOK, ModelType, Ladders_Inv
  <1> DEFINE u == Uses(s)
  <1>2. /\ u \in WalkType
        /\ u.attempt = s.attempt /\ u.warm = s.warm /\ u.primal = s.primal
        /\ u.allowWarm = s.allowWarm /\ u.allowLoan = s.allowLoan
        /\ u.allowEarly = s.allowEarly
    <2>1. u \in WalkType
      BY <1>1, UsesType
    <2>2. QED
      BY <1>1, <2>1 DEF Uses, WalkType
  <1> HIDE DEF u
  <1>3. ASSUME s' \in WalkType, s'.attempt = s.attempt, s'.warm = s.warm,
               s'.primal = s.primal, s'.allowWarm = s.allowWarm,
               s'.allowLoan = s.allowLoan, s'.allowEarly = s.allowEarly,
               pc' \in {"walk", "ladder"},
               UNCHANGED <<plan, ref, m, limit, call, calls, edits, intact,
                           marks>>
        PROVE  TypeOK' /\ Ladders_Inv'
    <2>1. LadderKept(s')
      BY <1>1, <1>3, SameLadder
    <2>2. TypeOK'
      BY <1>1, <1>3 DEF TypeOK
    <2>3. QED
      BY <1>1, <1>3, <2>1, <2>2 DEF Ladders_Inv, LadderKept
  <1>4. CASE Pivot
    <2>1. s' = [u EXCEPT !.at = s.at + 1, !.work = s.work + 1,
                         !.iters = s.iters + 1]
      BY <1>1, <1>4 DEF Pivot, Uses, WalkType, u
    <2>2. /\ pc' = "walk"
          /\ UNCHANGED <<plan, ref, m, limit, call, calls, edits, intact, marks>>
      BY <1>4 DEF Pivot, InWalk, history
    <2>3. s.at + 1 \in Nat /\ s.work + 1 \in Nat /\ s.iters + 1 \in Nat
      BY <1>1 DEF WalkType
    <2>4. /\ s' \in WalkType
          /\ s'.attempt = s.attempt /\ s'.warm = s.warm /\ s'.primal = s.primal
          /\ s'.allowWarm = s.allowWarm /\ s'.allowLoan = s.allowLoan
          /\ s'.allowEarly = s.allowEarly
      BY <1>2, <2>1, <2>3 DEF WalkType
    <2>5. QED
      BY <1>3, <2>2, <2>4
  <1>5. CASE NextSettlingRound
    <2>1. s' = [[u EXCEPT !.phase = s.phase + 1, !.at = 0, !.work = s.work + 1]
                   EXCEPT !.markWork = s.work + 1, !.markIters = s.iters]
      BY <1>1, <1>5 DEF NextSettlingRound, Uses, WalkType, u
    <2>2. /\ pc' = "walk"
          /\ UNCHANGED <<plan, ref, m, limit, call, calls, edits, intact, marks>>
      BY <1>5 DEF NextSettlingRound, InWalk, history
    <2> DEFINE v == [u EXCEPT !.phase = s.phase + 1, !.at = 0,
                              !.work = s.work + 1]
    <2>3. /\ v \in WalkType
          /\ v.attempt = s.attempt /\ v.warm = s.warm /\ v.primal = s.primal
          /\ v.allowWarm = s.allowWarm /\ v.allowLoan = s.allowLoan
          /\ v.allowEarly = s.allowEarly
      <3>1. s.phase + 1 \in Nat /\ s.work + 1 \in Nat
        BY <1>1 DEF WalkType
      <3>2. QED
        BY <1>2, <3>1 DEF WalkType
    <2>4. s' = [v EXCEPT !.markWork = s.work + 1, !.markIters = s.iters]
      BY <2>1
    <2> HIDE DEF v
    <2>5. s.work + 1 \in Nat /\ s.iters \in Nat
      BY <1>1 DEF WalkType
    <2>6. /\ s' \in WalkType
          /\ s'.attempt = s.attempt /\ s'.warm = s.warm /\ s'.primal = s.primal
          /\ s'.allowWarm = s.allowWarm /\ s'.allowLoan = s.allowLoan
          /\ s'.allowEarly = s.allowEarly
      BY <2>3, <2>4, <2>5 DEF WalkType
    <2>7. QED
      BY <1>3, <2>2, <2>6
  <1>6. CASE AttemptEnds
    <2>1. s' = [u EXCEPT !.work = s.work + 1]
      BY <1>1, <1>6 DEF AttemptEnds, Uses, WalkType, u
    <2>2. /\ pc' = "ladder"
          /\ UNCHANGED <<plan, ref, m, limit, call, calls, edits, intact, marks>>
      BY <1>6 DEF AttemptEnds, Goes, history
    <2>3. QED
      BY <1>1, <1>2, <1>3, <2>1, <2>2 DEF WalkType
  <1>7. ASSUME NEW v \in Stopped, Stop(v)
        PROVE  TypeOK' /\ Ladders_Inv'
    <2> DEFINE h == IF Holds(v) THEN <<s.phase, s.at>> ELSE s.held
               w == [s EXCEPT !.start = "stop", !.held = h]
    <2>1. h \in {NoHold} \cup (Nat \X Nat)
      BY <1>1 DEF WalkType
    <2> HIDE DEF h
    <2>2. w \in WalkType
      BY <1>1, <2>1 DEF WalkType, Starts
    <2>3. LadderKept(w)
      <3>1. /\ w.attempt = s.attempt /\ w.warm = s.warm /\ w.primal = s.primal
            /\ w.allowWarm = s.allowWarm /\ w.allowLoan = s.allowLoan
            /\ w.allowEarly = s.allowEarly
        BY <1>1 DEF WalkType
      <3> HIDE DEF w
      <3>2. QED
        BY <1>1, <3>1, SameLadder
    <2> HIDE DEF w
    <2>4. /\ m' = [[m EXCEPT !.status = v, !.work = s.work, !.iters = s.iters]
                      EXCEPT !.start = "stop", !.sure = TRUE,
                             !.isParked = TRUE, !.parked = w]
          /\ call' = [call EXCEPT !.units = s.work, !.iters = s.iters]
          /\ marks' = marks \cup (IF s.of = 2 THEN {"second"} ELSE {})
                 \cup (IF s.phase > 0 /\ Holds(v) THEN {"settling"} ELSE {})
          /\ pc' = "decide"
          /\ UNCHANGED <<plan, ref, limit, s, calls, edits, intact>>
      BY <1>7, Zenon DEF Stop, StopsAs, Goes, h, w
    <2>5. [m EXCEPT !.status = v, !.work = s.work, !.iters = s.iters]
            \in ModelType
      BY <1>1 DEF ModelType, WalkType, Statuses
    <2>6. m' \in ModelType /\ m'.parked = w
      <3> DEFINE a == [m EXCEPT !.status = v, !.work = s.work, !.iters = s.iters]
                 b == [a EXCEPT !.start = "stop", !.sure = TRUE]
      <3>1. b \in ModelType
        BY <2>5 DEF ModelType, Starts
      <3>2. m' = [b EXCEPT !.isParked = TRUE, !.parked = w]
        BY <2>4
      <3> HIDE DEF b
      <3>3. QED
        BY <2>2, <3>1, <3>2 DEF ModelType
    <2>7. call' \in CallType
      BY <1>1, <2>4 DEF CallType, WalkType
    <2>8. marks' \subseteq Marks
      BY <1>1, <2>4 DEF TypeOK, Marks
    <2>9. TypeOK'
      BY <1>1, <2>4, <2>6, <2>7, <2>8 DEF TypeOK
    <2>10. QED
      BY <1>1, <2>3, <2>4, <2>6, <2>9 DEF Ladders_Inv, LadderKept
  <1>8. QED
    BY <1>4, <1>5, <1>6, <1>7

\* The ladder tries again.
LEMMA RungStep ==
  ASSUME IInv,
         \/ RestartWithoutEarlyPerturb \/ RestartCold
         \/ FallToDual \/ RestartLoanFree
  PROVE  /\ TypeOK' /\ Ladders_Inv'
         /\ s'.version = s.version
  <1>1. /\ TypeOK /\ LadderKept(s) /\ LadderKept(m.parked)
        /\ marks \subseteq Marks
    BY DEF IInv, TypeOK, Ladders_Inv
  <1>2. ASSUME NEW w \in WalkType, MayPay(w), TriesAgain(w),
               w.version = s.version, marks' \subseteq Marks
        PROVE  /\ TypeOK' /\ Ladders_Inv'
               /\ s'.version = s.version
    <2>1. /\ s' = StartsAttempt(w) /\ pc' = "walk"
          /\ UNCHANGED <<plan, ref, m, limit, call, calls, edits, intact>>
      BY <1>2, Zenon DEF TriesAgain, Goes
    <2>2. s' \in WalkType /\ LadderKept(s') /\ s'.version = s.version
      BY <1>1, <1>2, <2>1, PaidAttempt
    <2>3. TypeOK'
      BY <1>1, <1>2, <2>1, <2>2 DEF TypeOK
    <2>4. QED
      BY <1>1, <2>1, <2>2, <2>3 DEF Ladders_Inv, LadderKept
  <1>3. CASE RestartWithoutEarlyPerturb
    <2>1. marks' \subseteq Marks
      BY <1>1, <1>3 DEF RestartWithoutEarlyPerturb, Marks
    <2>2. /\ InLadder("STALL")
          /\ TriesAgain([Again EXCEPT !.allowEarly = FALSE])
      BY <1>3, Zenon DEF RestartWithoutEarlyPerturb
    <2>3. QED
      BY <1>1, <1>2, <2>1, <2>2, RungsPay, Zenon
  <1>4. CASE RestartCold
    <2>1. marks' \subseteq Marks
      BY <1>1, <1>4 DEF RestartCold
    <2>2. /\ s.warm
          /\ TriesAgain([Again EXCEPT !.allowWarm = FALSE])
      BY <1>4, Zenon DEF RestartCold
    <2>3. QED
      BY <1>1, <1>2, <2>1, <2>2, RungsPay, Zenon
  <1>5. CASE FallToDual
    <2>1. marks' \subseteq Marks
      BY <1>1, <1>5 DEF FallToDual
    <2>2. /\ s.primal /\ plan.primal
          /\ TriesAgain([s EXCEPT !.primal = FALSE, !.allowWarm = FALSE])
      BY <1>5, Zenon DEF FallToDual
    <2>3. QED
      BY <1>1, <1>2, <2>1, <2>2, RungsPay, Zenon
  <1>6. CASE RestartLoanFree
    <2>1. marks' \subseteq Marks
      BY <1>1, <1>6 DEF RestartLoanFree
    <2>2. /\ s.allowLoan
          /\ TriesAgain([Again EXCEPT !.primal = TRUE, !.allowWarm = FALSE,
                                      !.allowLoan = FALSE])
      BY <1>6, Zenon DEF RestartLoanFree
    <2>3. QED
      BY <1>1, <1>2, <2>1, <2>2, RungsPay, Zenon
  <1>7. QED
    BY <1>3, <1>4, <1>5, <1>6

\* A pass ends, and the call returns or goes into a second pass.
LEMMA ReturnStep ==
  ASSUME IInv, NEW mm \in ModelType, LadderKept(mm.parked), Returns(mm),
         marks' \subseteq Marks
  PROVE  TypeOK' /\ Ladders_Inv'
  <1>1. /\ TypeOK /\ LadderKept(s) /\ plan \in PlanType
        /\ pc' = "idle"
        /\ UNCHANGED <<plan, limit, call, s, calls, edits, intact>>
    BY DEF IInv, TypeOK, Ladders_Inv, Returns, Goes
  <1>2. ref' \in OutcomeType
    <2>1. Read(mm) \in OutcomeType
      <3>1. /\ mm.status \in Statuses /\ mm.work \in Nat /\ mm.iters \in Nat
            /\ s.from \in Starts /\ s.astray \in BOOLEAN
        BY <1>1 DEF TypeOK, ModelType, WalkType
      <3>2. QED
        BY <3>1 DEF Read, OutcomeType, NoOutcome, Statuses, Starts
    <2>2. QED
      BY <1>1, <2>1 DEF Returns, TypeOK
  <1>3. m' \in ModelType /\ LadderKept(m'.parked)
    <2>1. Fresh(plan).parked = NoWalk
      BY DEF Fresh
    <2>2. QED
      BY <1>1, <2>1, FreshType, NoWalkLadder DEF Returns
  <1>4. TypeOK'
    BY <1>1, <1>2, <1>3 DEF TypeOK
  <1>5. QED
    BY <1>1, <1>3, <1>4 DEF Ladders_Inv, LadderKept

LEMMA EndStep ==
  ASSUME IInv, Abandon \/ Publish \/ SecondPass \/ NoBudget \/ OnePass \/ TwoPasses
  PROVE  TypeOK' /\ Ladders_Inv'
  <1>1. /\ m \in ModelType /\ call \in CallType /\ s \in WalkType
        /\ plan \in PlanType /\ marks \subseteq Marks
        /\ LadderKept(s) /\ LadderKept(m.parked) /\ TypeOK
    BY DEF IInv, TypeOK, ModelType, Ladders_Inv
  <1>2. s.work \in Nat /\ s.iters \in Nat
    BY <1>1 DEF WalkType
  <1>3. CASE Abandon
    <2>1. m' \in ModelType /\ m'.parked = m.parked
      BY <1>1, <1>2, <1>3 DEF Abandon, ModelType
    <2>2. call' \in CallType
      BY <1>1, <1>2, <1>3 DEF Abandon, CallType
    <2>3. TypeOK'
      BY <1>1, <1>3, <2>1, <2>2 DEF Abandon, TypeOK, Goes, history
    <2>4. QED
      BY <1>1, <1>3, <2>1, <2>3 DEF Abandon, Ladders_Inv, LadderKept
  <1>4. CASE Publish
    <2> DEFINE v == Verdict
               b == IF v = "NUMERICAL_ERROR" THEN m.start ELSE "answer"
    <2>1. v \in Statuses
      BY <1>4 DEF Publish, Verdict, Statuses, Verdicts
    <2>2. b \in Starts
      BY <1>1 DEF ModelType, Starts
    <2> HIDE DEF v
    <2>3. m' = [[m EXCEPT !.status = v, !.work = s.work, !.iters = s.iters]
                    EXCEPT !.sure = TRUE, !.start = b]
      BY <1>4, Zenon DEF Publish, v
    <2> HIDE DEF b
    <2>4. [m EXCEPT !.status = v, !.work = s.work, !.iters = s.iters]
            \in ModelType
      BY <1>1, <1>2, <2>1 DEF ModelType
    <2>5. m' \in ModelType
      BY <2>2, <2>3, <2>4 DEF ModelType
    <2>6. m'.parked = m.parked
      BY <1>1, <2>3 DEF ModelType
    <2>7. call' \in CallType
      BY <1>1, <1>2, <1>4 DEF Publish, CallType
    <2>8. TypeOK'
      BY <1>1, <1>4, <2>5, <2>7 DEF Publish, TypeOK, Goes, history
    <2>9. QED
      BY <1>1, <1>4, <2>6, <2>8 DEF Publish, Ladders_Inv, LadderKept
  <1>5. CASE SecondPass
    <2> DEFINE c == [call EXCEPT !.pass = 2, !.why = Why, !.code = "OK"]
               d == [c EXCEPT !.baseUnits = call.units,
                              !.baseIters = call.iters, !.units = 0,
                              !.iters = 0]
               e == [d EXCEPT !.aggregated = FALSE, !.byPresolve = FALSE]
    <2>1. /\ call.units \in Nat /\ call.iters \in Nat /\ call.user \in Nat
          /\ m.start \in Starts /\ Handed \in BOOLEAN
      BY <1>1 DEF CallType, ModelType, Handed, PlanType
    <2>2. Why \in {"uncertified", "exact", "aggregator"}
      BY <1>5 DEF SecondPass, Why
    <2>3. call' = [e EXCEPT !.kept = m.start, !.handed = Handed]
      BY <1>5, Zenon DEF SecondPass
    <2>4. c \in CallType
      <3> DEFINE b == [call EXCEPT !.pass = 2]
                 y == Why
      <3>1. b \in CallType
        BY <1>1 DEF CallType
      <3> HIDE DEF b, y
      <3>2. [b EXCEPT !.why = y, !.code = "OK"] \in CallType
        BY <2>2, <3>1 DEF CallType, y
      <3>3. QED
        BY <3>2, Zenon DEF b, y
    <2> HIDE DEF c
    <2>5. d \in CallType
      BY <2>1, <2>4 DEF CallType
    <2> HIDE DEF d
    <2>6. e \in CallType
      BY <2>5 DEF CallType
    <2> HIDE DEF e
    <2>7. call' \in CallType
      BY <2>1, <2>3, <2>6 DEF CallType
    <2>8. m' \in ModelType /\ m'.parked = m.parked
      BY <1>1, <1>5, <2>1 DEF SecondPass, ModelType, Starts
    <2>9. limit' \in Nat
      BY <1>5, <2>1 DEF SecondPass, Left
    <2>10. TypeOK'
      BY <1>1, <1>5, <2>7, <2>8, <2>9 DEF SecondPass, TypeOK, Goes, history
    <2>11. QED
      BY <1>1, <1>5, <2>8, <2>10 DEF SecondPass, Ladders_Inv, LadderKept
  <1>6. CASE NoBudget
    <2>1. marks' \subseteq Marks /\ Returns(m)
      BY <1>1, <1>6 DEF NoBudget, Marks
    <2>2. QED
      BY <1>1, <2>1, ReturnStep
  <1>7. CASE OnePass
    <2>1. marks' \subseteq Marks /\ Returns(m)
      BY <1>1, <1>7 DEF OnePass, Marks
    <2>2. QED
      BY <1>1, <2>1, ReturnStep
  <1>8. CASE TwoPasses
    <2> DEFINE b == IF call.handed /\ Failed THEN call.kept ELSE m.start
               mm == [m EXCEPT !.work = m.work + call.baseUnits,
                               !.iters = m.iters + call.baseIters,
                               !.start = b]
    <2>1. marks' \subseteq Marks /\ Returns(mm)
      BY <1>1, <1>8, Zenon DEF TwoPasses, SumsPasses
    <2>2. /\ b \in Starts /\ m.work + call.baseUnits \in Nat
          /\ m.iters + call.baseIters \in Nat
      BY <1>1 DEF CallType, ModelType
    <2> HIDE DEF b
    <2>3. mm \in ModelType /\ mm.parked = m.parked
      BY <1>1, <2>2 DEF ModelType
    <2> HIDE DEF mm
    <2>4. QED
      BY <1>1, <2>1, <2>3, ReturnStep
  <1>9. QED
    BY <1>3, <1>4, <1>5, <1>6, <1>7, <1>8

LEMMA StutterStep == ASSUME IInv, UNCHANGED vars PROVE IInv'
  <1>1. TypeOK'
    BY DEF IInv, vars, TypeOK
  <1>2. Ladders_Inv'
    BY DEF IInv, vars, Ladders_Inv, LadderKept
  <1>3. Pass_Inv' /\ Walk_Inv' /\ Park_Inv' /\ Sure_Inv' /\ Start_Inv'
    BY DEF IInv, vars, Pass_Inv, Walk_Inv, Park_Inv, Sure_Inv, Start_Inv, Failed,
           Reference
  <1>4. QED
    BY <1>1, <1>2, <1>3 DEF IInv

-----------------------------------------------------------------------------
(* What a call leaves behind.                                                *)

Rest_Inv == Walk_Inv /\ Park_Inv /\ Sure_Inv /\ Start_Inv

\* Only dual_simplex_once's beginning and jm_dual_simplex say what a pass is.
LEMMA PassStep == ASSUME IInv, Next PROVE Pass_Inv'
  <1>1. call \in CallType /\ Pass_Inv
    BY DEF IInv, TypeOK
  <1>2. UNCHANGED plan
    BY Zenon DEF Next, Caller, Solver, Solve, Edit, NewBasisOrMethod, Changes,
           Resume, Resumes, FreshWalk, PresolveAnswers, Pivot,
           NextSettlingRound, AttemptEnds, Stop, StopsAs, TriesAgain,
           RestartWithoutEarlyPerturb, RestartCold, FallToDual,
           RestartLoanFree, Abandon, Publish, SecondPass, NoBudget, OnePass,
           TwoPasses, SumsPasses, Returns
  <1>3. ASSUME call'.pass = call.pass, call'.why = call.why,
               call'.aggregated = call.aggregated
        PROVE  Pass_Inv'
    BY <1>1, <1>2, <1>3 DEF Pass_Inv
  <1>4. ASSUME NEW l, Solve(l)
        PROVE  Pass_Inv'
    BY <1>4 DEF Solve, NoCall, Pass_Inv
  <1>5. CASE Edit \/ NewBasisOrMethod
    BY <1>3, <1>5 DEF Edit, NewBasisOrMethod, Changes
  <1>6. CASE FreshWalk
    <2>1. /\ call'.pass = call.pass /\ call'.why = call.why
          /\ call'.aggregated = Aggregates
      BY <1>1, <1>6 DEF FreshWalk, CallType
    <2>2. call.pass = 1 /\ Aggregates => plan.presolve \in {"NONE", "REDUCED"}
      BY <1>1 DEF Aggregates, Outcome, Presolves, Pass_Inv
    <2>3. QED
      BY <1>1, <1>2, <2>1, <2>2 DEF Pass_Inv
  <1>7. CASE PresolveAnswers \/ Abandon \/ Publish \/ \E v \in Stopped : Stop(v)
    BY <1>1, <1>3, <1>7 DEF PresolveAnswers, Abandon, Publish, Stop, StopsAs,
                            CallType
  <1>8. CASE SecondPass
    <2>1. /\ call.pass = 1 /\ Why # "none"
          /\ call'.pass = 2 /\ call'.why = Why /\ call'.aggregated = FALSE
      BY <1>1, <1>8 DEF SecondPass, Deciding, CallType
    <2>2. /\ Why \in {"uncertified", "exact", "aggregator"}
          /\ Why = "aggregator" => call.aggregated
      BY <2>1 DEF Why
    <2>3. QED
      BY <1>1, <1>2, <2>1, <2>2 DEF Pass_Inv
  <1>9. CASE UNCHANGED call
    BY <1>3, <1>9
  <1>10. QED
    <2>1. \/ UNCHANGED call \/ (\E l : Solve(l)) \/ Edit \/ NewBasisOrMethod
          \/ FreshWalk \/ PresolveAnswers \/ Abandon \/ Publish
          \/ (\E v \in Stopped : Stop(v)) \/ SecondPass
      BY Zenon DEF Next, Caller, Solver, Resume, Resumes, Pivot,
             NextSettlingRound, AttemptEnds, TriesAgain,
             RestartWithoutEarlyPerturb, RestartCold, FallToDual,
             RestartLoanFree, NoBudget, OnePass, TwoPasses, SumsPasses,
             Returns
    <2>2. QED
      BY <1>4, <1>5, <1>6, <1>7, <1>8, <1>9, <2>1

LEMMA RestOfCaller == ASSUME IInv, Caller PROVE Rest_Inv'
  <1>1. m \in ModelType /\ edits \in Nat
    BY DEF IInv, TypeOK
  <1>2. ASSUME NEW l \in Limits \cup {0}, Solve(l)
        PROVE  Rest_Inv'
    <2>1. /\ call'.pass = 1 /\ call'.why = "first" /\ call'.code = "OK"
          /\ call'.byPresolve = FALSE /\ call'.handed = FALSE
          /\ call'.had = m.start
          /\ pc' = "enter"
          /\ Reference => calls' = calls
          /\ UNCHANGED <<ref, m, s, edits, marks>>
      BY <1>2, LifecycleAssumption DEF Solve, NoCall, Goes, IInv, TypeOK
    <2>2. QED
      BY <2>1 DEF IInv, Rest_Inv, Walk_Inv, Park_Inv, Sure_Inv, Start_Inv,
                  Failed, Reference
  <1>3. ASSUME NEW mm, Changes(mm), mm.isParked = FALSE,
               \/ mm.status = "NOT_RUN"
               \/ mm.status = m.status /\ mm.sure = m.sure
        PROVE  Rest_Inv'
    <2>1. /\ m' = mm /\ edits' > 0 /\ intact' = FALSE /\ pc = "idle"
          /\ UNCHANGED <<ref, pc, call, s, calls, marks>>
      BY <1>1, <1>3 DEF Changes
    <2>2. QED
      BY <1>3, <2>1 DEF IInv, Rest_Inv, Walk_Inv, Park_Inv, Sure_Inv,
                        Start_Inv, Failed, Reference, Stopped
  <1>4. CASE Edit
    <2> DEFINE mm == [m EXCEPT !.status = "NOT_RUN", !.work = 0, !.iters = 0,
                               !.parked = NoWalk, !.isParked = FALSE,
                               !.version = @ + 1]
    <2>1. mm.isParked = FALSE /\ mm.status = "NOT_RUN"
      BY <1>1 DEF ModelType
    <2>2. QED
      BY <1>3, <1>4, <2>1, Zenon DEF Edit
  <1>5. CASE NewBasisOrMethod
    <2>1. PICK b \in {"caller", "none", m.start} :
             Changes([m EXCEPT !.start = b, !.parked = NoWalk,
                               !.isParked = FALSE, !.version = @ + 1])
      BY <1>5, Zenon DEF NewBasisOrMethod
    <2> DEFINE mm == [m EXCEPT !.start = b, !.parked = NoWalk,
                               !.isParked = FALSE, !.version = @ + 1]
    <2>2. /\ mm.isParked = FALSE /\ mm.status = m.status
          /\ mm.sure = m.sure
      BY <1>1 DEF ModelType
    <2>3. QED
      BY <1>3, <2>1, <2>2, Zenon
  <1>6. QED
    BY <1>2, <1>4, <1>5 DEF Caller

LEMMA RestOfEnter ==
  ASSUME IInv, Resume \/ FreshWalk \/ PresolveAnswers
  PROVE  Rest_Inv'
  <1>1. /\ m \in ModelType /\ call \in CallType
        /\ m.parked \in WalkType
    BY DEF IInv, TypeOK, ModelType
  <1>2. CASE Resume
    <2>1. /\ s'.version = m.parked.version
          /\ m'.isParked = FALSE /\ m'.version = m.version
          /\ m'.status = m.status /\ m'.start = m.start
      BY <1>1, <1>2 DEF Resume, Resumes, ModelType, WalkType
    <2>2. /\ pc = "enter" /\ pc' = "walk" /\ m.isParked
          /\ UNCHANGED <<ref, call, calls, edits>>
      BY <1>2 DEF Resume, Resumes, Goes
    <2>3. QED
      BY <2>1, <2>2 DEF IInv, Rest_Inv, Walk_Inv, Park_Inv, Sure_Inv,
                        Start_Inv, Reference
  <1>3. CASE FreshWalk
    <2>1. s'.version = m.version
      BY <1>1, <1>3 DEF FreshWalk, StartsAttempt, NoWalk
    <2>2. /\ m'.isParked = FALSE /\ m'.version = m.version
          /\ m'.status = m.status /\ m'.start = m.start
      BY <1>1, <1>3 DEF FreshWalk, ModelType
    <2>3. /\ call'.pass = call.pass /\ call'.why = call.why
          /\ call'.code = call.code /\ call'.byPresolve = call.byPresolve
          /\ call'.handed = call.handed /\ call'.kept = call.kept
          /\ call'.had = call.had
      BY <1>1, <1>3 DEF FreshWalk, CallType
    <2>4. /\ pc = "enter" /\ pc' = "walk"
          /\ UNCHANGED <<ref, calls, edits>>
      BY <1>3 DEF FreshWalk, Goes
    <2>5. QED
      BY <2>1, <2>2, <2>3, <2>4
         DEF IInv, Rest_Inv, Walk_Inv, Park_Inv, Sure_Inv, Start_Inv, Reference
  <1>4. CASE PresolveAnswers
    <2>1. /\ m'.isParked = FALSE
          /\ m'.status = IF Outcome = "SOLVED" THEN "OPTIMAL" ELSE Outcome
          /\ m'.sure = (Outcome = "SOLVED" \/ plan.certified)
          /\ m'.start = IF Outcome = "SOLVED" THEN "answer" ELSE m.start
      BY <1>1, <1>4 DEF PresolveAnswers, ModelType
    <2>2. /\ call'.pass = call.pass /\ call'.why = call.why
          /\ call'.code = call.code /\ call'.handed = call.handed
          /\ call'.kept = call.kept /\ call'.had = call.had
          /\ call'.byPresolve = (Outcome # "SOLVED")
      BY <1>1, <1>4 DEF PresolveAnswers, CallType
    <2>3. /\ pc = "enter" /\ pc' = "decide"
          /\ Outcome \in {"SOLVED", "INFEASIBLE", "UNBOUNDED"}
          /\ UNCHANGED <<ref, calls, edits>>
      BY <1>4 DEF PresolveAnswers, Goes
    <2>4. call.pass = 1
      BY <2>3 DEF IInv, Pass_Inv, Outcome, Presolves
    <2>5. QED
      BY <2>1, <2>2, <2>3, <2>4
         DEF IInv, Rest_Inv, Walk_Inv, Park_Inv, Sure_Inv, Start_Inv,
             Reference, Failed, Stopped
  <1>5. QED
    BY <1>2, <1>3, <1>4

LEMMA RestOfWalk ==
  ASSUME IInv,
         Pivot \/ NextSettlingRound \/ AttemptEnds \/ \E v \in Stopped : Stop(v)
  PROVE  Rest_Inv'
  <1>1. m \in ModelType /\ call \in CallType /\ s \in WalkType
    BY DEF IInv, TypeOK
  <1>2. CASE Pivot \/ NextSettlingRound \/ AttemptEnds
    <2>1. s'.version = s.version
      BY <1>1, <1>2 DEF Pivot, NextSettlingRound, AttemptEnds, Uses, WalkType
    <2>2. /\ pc = "walk" /\ pc' \in {"walk", "ladder"}
          /\ UNCHANGED <<ref, m, call, calls, edits>>
      BY <1>2 DEF Pivot, NextSettlingRound, AttemptEnds, InWalk, Goes
    <2>3. QED
      BY <2>1, <2>2 DEF IInv, Rest_Inv, Walk_Inv, Park_Inv, Sure_Inv,
                        Start_Inv, Reference
  <1>3. ASSUME NEW v \in Stopped, Stop(v)
        PROVE  Rest_Inv'
    <2>1. /\ m'.status = v /\ m'.sure = TRUE /\ m'.isParked = TRUE
          /\ m'.version = m.version /\ m'.parked.version = s.version
      BY <1>1, <1>3 DEF Stop, StopsAs, ModelType, WalkType
    <2>2. /\ call'.pass = call.pass /\ call'.why = call.why
          /\ call'.code = call.code /\ call'.byPresolve = call.byPresolve
          /\ call'.handed = call.handed
      BY <1>1, <1>3 DEF Stop, StopsAs, CallType
    <2>3. /\ pc = "walk" /\ pc' = "decide"
          /\ UNCHANGED <<ref, calls, edits>>
      BY <1>3 DEF Stop, StopsAs, InWalk, Goes
    <2>4. QED
      BY <2>1, <2>2, <2>3
         DEF IInv, Rest_Inv, Walk_Inv, Park_Inv, Sure_Inv, Start_Inv,
             Reference, Failed, Stopped
  <1>4. QED
    BY <1>2, <1>3

LEMMA RestOfRung ==
  ASSUME IInv, s'.version = s.version,
         \/ RestartWithoutEarlyPerturb \/ RestartCold
         \/ FallToDual \/ RestartLoanFree
  PROVE  Rest_Inv'
  <1>1. /\ pc = "ladder" /\ pc' = "walk"
        /\ UNCHANGED <<ref, m, call, calls, edits>>
    BY DEF RestartWithoutEarlyPerturb, RestartCold, FallToDual,
           RestartLoanFree, TriesAgain, FailsInRun, InLadder, Goes
  <1>2. QED
    BY <1>1 DEF IInv, Rest_Inv, Walk_Inv, Park_Inv, Sure_Inv, Start_Inv,
                Reference

LEMMA RestOfReturn ==
  ASSUME IInv, NEW mm, Returns(mm), pc = "decide",
         mm.isParked = m.isParked, mm.status = m.status, mm.sure = m.sure,
         mm.version = m.version, mm.parked = m.parked,
         call.code = "OK" /\ ~m.sure => "budget" \in marks',
         edits = 0 /\ call.why # "exact" /\ Failed => mm.start = call.had
  PROVE  Rest_Inv'
  <1>1. pc' = "idle" /\ UNCHANGED <<call, s, calls, edits, intact>>
    BY DEF Returns, Goes
  <1>2. CASE Reference
    <2>1. m' = Fresh(plan) /\ ref' # NoOutcome
      BY <1>2 DEF Returns, Read, NoOutcome
    <2>2. m'.status = "NOT_RUN" /\ m'.isParked = FALSE
      BY <2>1 DEF Fresh
    <2>3. QED
      BY <1>1, <1>2, <2>1, <2>2
         DEF IInv, Rest_Inv, Walk_Inv, Park_Inv, Sure_Inv, Start_Inv,
             Reference, Stopped
  <1>3. CASE ~Reference
    <2>1. m' = mm /\ ref' = ref
      BY <1>3 DEF Returns
    <2>2. QED
      BY <1>1, <1>3, <2>1
         DEF IInv, Rest_Inv, Walk_Inv, Park_Inv, Sure_Inv, Start_Inv,
             Reference, Failed
  <1>4. QED
    BY <1>2, <1>3

LEMMA RestOfEnd ==
  ASSUME IInv, Abandon \/ Publish \/ SecondPass \/ NoBudget \/ OnePass \/ TwoPasses
  PROVE  Rest_Inv'
  <1>1. /\ m \in ModelType /\ call \in CallType /\ s \in WalkType
        /\ call.handed \in BOOLEAN /\ call.code \in {"OK", "ERR"}
    BY DEF IInv, TypeOK, CallType
  <1>2. CASE Abandon
    <2>1. /\ m'.status = m.status /\ m'.isParked = m.isParked
          /\ m'.version = m.version /\ m'.start = m.start
          /\ m'.parked = m.parked
      BY <1>1, <1>2 DEF Abandon, ModelType
    <2>2. /\ call'.pass = call.pass /\ call'.why = call.why
          /\ call'.code = "ERR" /\ call'.byPresolve = call.byPresolve
          /\ call'.handed = call.handed /\ call'.kept = call.kept
          /\ call'.had = call.had
      BY <1>1, <1>2 DEF Abandon, CallType
    <2>3. /\ pc = "ladder" /\ pc' = "decide"
          /\ UNCHANGED <<ref, s, calls, edits>>
      BY <1>2 DEF Abandon, InLadder, Goes
    <2>4. QED
      BY <2>1, <2>2, <2>3
         DEF IInv, Rest_Inv, Walk_Inv, Park_Inv, Sure_Inv, Start_Inv,
             Reference, Failed
  <1>3. CASE Publish
    <2>1. /\ m'.status = Verdict /\ m'.isParked = m.isParked
          /\ m'.version = m.version /\ m'.parked = m.parked
          /\ m'.sure = TRUE
          /\ Verdict = "NUMERICAL_ERROR" => m'.start = m.start
      BY <1>1, <1>3 DEF Publish, ModelType
    <2>2. /\ call'.pass = call.pass /\ call'.why = call.why
          /\ call'.code = call.code /\ call'.byPresolve = call.byPresolve
          /\ call'.handed = call.handed /\ call'.kept = call.kept
          /\ call'.had = call.had
      BY <1>1, <1>3 DEF Publish, CallType
    <2>3. /\ pc = "ladder" /\ pc' = "decide" /\ Verdict \notin Stopped
          /\ UNCHANGED <<ref, s, calls, edits>>
      BY <1>3 DEF Publish, Goes, Verdict, Verdicts, Stopped
    <2>4. QED
      BY <2>1, <2>2, <2>3
         DEF IInv, Rest_Inv, Walk_Inv, Park_Inv, Sure_Inv, Start_Inv,
             Reference, Failed
  <1>4. CASE SecondPass
    <2>1. /\ pc = "decide" /\ pc' = "enter" /\ call.pass = 1 /\ Why # "none"
          /\ UNCHANGED <<ref, s, calls, edits>>
      BY <1>4 DEF SecondPass, Deciding, Goes
    <2>2. /\ call'.pass = 2 /\ call'.why = Why /\ call'.code = "OK"
          /\ call'.byPresolve = FALSE /\ call'.kept = m.start
          /\ call'.handed = Handed /\ call'.had = call.had
      BY <1>1, <1>4 DEF SecondPass, CallType
    <2>3. /\ m'.isParked = m.isParked /\ m'.status = m.status
          /\ m'.version = m.version /\ m'.parked = m.parked
          /\ m'.start = IF Handed THEN "failed" ELSE m.start
      BY <1>1, <1>4 DEF SecondPass, ModelType
    <2>4. ~m.isParked
      BY <1>1, <2>1 DEF IInv, Park_Inv, Why, Failed, Stopped
    <2>5. edits = 0 /\ Why # "exact" => m.start = call.had
      BY <2>1 DEF IInv, Start_Inv, Pass_Inv, Why
    <2>6. QED
      BY <2>1, <2>2, <2>3, <2>4, <2>5
         DEF IInv, Rest_Inv, Walk_Inv, Park_Inv, Sure_Inv, Start_Inv, Reference
  <1>5. CASE NoBudget
    <2>1. pc = "decide" /\ call.pass = 1 /\ Returns(m) /\ "budget" \in marks'
      BY <1>5 DEF NoBudget, Deciding
    <2>2. edits = 0 /\ call.why # "exact" /\ Failed => m.start = call.had
      BY <2>1 DEF IInv, Start_Inv
    <2>3. QED
      BY <2>1, <2>2, RestOfReturn
  <1>6. CASE OnePass
    <2>1. pc = "decide" /\ call.pass = 1 /\ Returns(m) /\ Why = "none"
      BY <1>6 DEF OnePass, Deciding
    <2>2. edits = 0 /\ call.why # "exact" /\ Failed => m.start = call.had
      BY <2>1 DEF IInv, Start_Inv
    <2>3. call.code = "OK" => m.sure
      BY <2>1 DEF IInv, Sure_Inv, Why
    <2>4. QED
      BY <2>1, <2>2, <2>3, RestOfReturn
  <1>7. CASE TwoPasses
    <2> DEFINE b == IF call.handed /\ Failed THEN call.kept ELSE m.start
               mm == [m EXCEPT !.work = m.work + call.baseUnits,
                               !.iters = m.iters + call.baseIters,
                               !.start = b]
    <2>1. pc = "decide" /\ call.pass = 2 /\ Returns(mm)
      BY <1>7, Zenon DEF TwoPasses, SumsPasses
    <2>2. edits = 0 /\ call.why # "exact" /\ Failed => b = call.had
      BY <1>1, <2>1 DEF IInv, Start_Inv
    <2>3. call.code = "OK" => m.sure
      BY <2>1 DEF IInv, Sure_Inv
    <2> HIDE DEF b
    <2>4. /\ mm.isParked = m.isParked /\ mm.status = m.status
          /\ mm.sure = m.sure /\ mm.version = m.version
          /\ mm.parked = m.parked /\ mm.start = b
      BY <1>1 DEF ModelType
    <2> HIDE DEF mm
    <2>5. QED
      BY <2>1, <2>2, <2>3, <2>4, RestOfReturn
  <1>8. QED
    BY <1>2, <1>3, <1>4, <1>5, <1>6, <1>7

-----------------------------------------------------------------------------
(* The work billed.                                                          *)

\* How far a pass may bill: to its limit, or not at all when it begins with
\* more, from presolve or from the calls before.
PassBound ==
    Max2(limit, Max2(IF call.pass = 1 THEN call.before ELSE 0, plan.pre))

\* The two passes share the caller's limit; a resumed walk begins with no more
\* than the model shows.
Bill_Inv ==
    /\ s.markWork <= s.work
    /\ m.parked.markWork <= m.parked.work
    /\ m.isParked => m.parked.work <= m.work
    /\ pc # "idle" =>
         /\ call.pass = 1 => limit = call.user /\ call.baseUnits = 0
         /\ call.pass = 2 /\ call.user > 0 =>
              limit > 0 /\ limit + call.baseUnits = call.user
    /\ pc = "enter" /\ m.isParked => call.before = m.work
    /\ pc \in {"walk", "ladder"} /\ call.user > 0 => s.work <= PassBound
    /\ pc = "decide" /\ call.user > 0 /\ call.code = "OK"
         => m.work <= PassBound
    /\ SpentWithinLimit

LEMMA CountsAreNumbers ==
  ASSUME TypeOK
  PROVE  /\ s.work \in Nat /\ s.markWork \in Nat /\ s.at \in Nat
         /\ s.phase \in Nat
         /\ m.work \in Nat /\ m.parked.work \in Nat /\ m.parked.markWork \in Nat
         /\ limit \in Nat /\ plan.pre \in Nat
         /\ call.user \in Nat /\ call.before \in Nat /\ call.units \in Nat
         /\ call.baseUnits \in Nat /\ call.pass \in 1..2
  <1>1. /\ plan \in PlanType /\ m \in ModelType /\ limit \in Nat
        /\ call \in CallType /\ s \in WalkType /\ m.parked \in WalkType
    BY DEF TypeOK, ModelType
  <1>2. QED
    BY <1>1 DEF PlanType, ModelType, CallType, WalkType

LEMMA BillOfCaller == ASSUME IInv, Bill_Inv, Caller PROVE Bill_Inv'
  <1>1. m \in ModelType /\ TypeOK
    BY DEF IInv, TypeOK
  <1>2. ASSUME NEW l \in Limits \cup {0}, Solve(l)
        PROVE  Bill_Inv'
    <2>1. /\ call'.pass = 1 /\ call'.user = l /\ call'.baseUnits = 0
          /\ call'.before = IF m.isParked THEN m.work ELSE 0
          /\ limit' = l /\ pc' = "enter"
          /\ UNCHANGED <<m, s, plan>>
      BY <1>2 DEF Solve, NoCall, Goes
    <2>2. QED
      BY <2>1 DEF Bill_Inv, SpentWithinLimit, AtRest
  <1>3. ASSUME NEW mm \in ModelType, Changes(mm), mm.isParked = FALSE,
               mm.parked = NoWalk, mm.work \in {m.work, 0}
        PROVE  Bill_Inv'
    <2>1. /\ m' = mm /\ pc = "idle"
          /\ UNCHANGED <<plan, ref, pc, limit, call, s, calls>>
      BY <1>3 DEF Changes
    <2>2. m'.parked.markWork <= m'.parked.work
      BY <1>3, <2>1 DEF NoWalk
    <2>3. SpentWithinLimit'
      <3>1. m'.work <= m.work
        BY <1>1, <1>3, <2>1, CountsAreNumbers
      <3>2. m'.work \in Nat
        BY <1>1, <1>3, <2>1, CountsAreNumbers
      <3>3. QED
        BY <1>1, <2>1, <3>1, <3>2, CountsAreNumbers
           DEF Bill_Inv, SpentWithinLimit, AtRest, Max2, Reference
    <2>4. QED
      BY <1>3, <2>1, <2>2, <2>3 DEF Bill_Inv
  <1>4. CASE Edit
    <2> DEFINE e == [m EXCEPT !.status = "NOT_RUN", !.work = 0, !.iters = 0]
               mm == [e EXCEPT !.parked = NoWalk, !.isParked = FALSE,
                               !.version = m.version + 1]
    <2>1. e \in ModelType /\ e.work = 0 /\ e.version = m.version
      BY <1>1 DEF ModelType, Statuses
    <2> HIDE DEF e
    <2>2. mm \in ModelType /\ mm.parked = NoWalk
      BY <2>1, DropsType
    <2>3. mm.work = 0 /\ mm.isParked = FALSE
      BY <2>1 DEF ModelType
    <2>4. Changes(mm)
      BY <1>4, Zenon DEF Edit, e
    <2> HIDE DEF mm
    <2>5. QED
      BY <1>3, <2>2, <2>3, <2>4
  <1>5. CASE NewBasisOrMethod
    <2>1. PICK b \in {"caller", "none", m.start} :
             Changes([m EXCEPT !.start = b, !.parked = NoWalk,
                               !.isParked = FALSE, !.version = @ + 1])
      BY <1>5, Zenon DEF NewBasisOrMethod
    <2> DEFINE e == [m EXCEPT !.start = b]
               mm == [e EXCEPT !.parked = NoWalk, !.isParked = FALSE,
                               !.version = m.version + 1]
    <2>2. b \in Starts
      BY <1>1 DEF ModelType, Starts
    <2>3. e \in ModelType /\ e.work = m.work /\ e.version = m.version
      BY <1>1, <2>2 DEF ModelType
    <2> HIDE DEF e
    <2>4. mm \in ModelType /\ mm.parked = NoWalk
      BY <2>3, DropsType
    <2>5. mm.work = m.work /\ mm.isParked = FALSE
      BY <2>3 DEF ModelType
    <2>6. Changes(mm)
      BY <2>1, Zenon DEF e
    <2> HIDE DEF mm
    <2>7. QED
      BY <1>3, <2>4, <2>5, <2>6
  <1>6. QED
    BY <1>2, <1>4, <1>5 DEF Caller

LEMMA BillOfEnter ==
  ASSUME IInv, Bill_Inv, Resume \/ FreshWalk \/ PresolveAnswers
  PROVE  Bill_Inv'
  <1>1. /\ m \in ModelType /\ call \in CallType /\ m.parked \in WalkType
        /\ TypeOK
    BY DEF IInv, TypeOK, ModelType
  <1>2. CASE Resume
    <2> DEFINE w == IF m.parked.phase = 0 THEN m.parked
                    ELSE [m.parked EXCEPT !.at = 0, !.work = m.parked.markWork,
                                          !.iters = m.parked.markIters]
    <2>1. w.work <= m.parked.work /\ w.markWork <= w.work
      <3>1. CASE m.parked.phase = 0
        BY <1>1, <3>1, CountsAreNumbers DEF Bill_Inv
      <3>2. CASE m.parked.phase # 0
        <4>1. w.work = m.parked.markWork /\ w.markWork = m.parked.markWork
          BY <1>1, <3>2 DEF WalkType
        <4>2. QED
          BY <1>1, <4>1, CountsAreNumbers DEF Bill_Inv
      <3>3. QED
        BY <3>1, <3>2
    <2>2. w.work \in Nat
      BY <1>1 DEF WalkType
    <2> HIDE DEF w
    <2>3. /\ pc = "enter" /\ m.isParked /\ s' = w /\ pc' = "walk"
          /\ m' = [m EXCEPT !.parked = NoWalk, !.isParked = FALSE]
          /\ UNCHANGED <<plan, limit, call>>
      BY <1>2, Zenon DEF Resume, Resumes, Goes, w
    <2>4. m'.parked = NoWalk /\ m'.isParked = FALSE
      BY <1>1, <2>3 DEF ModelType
    <2>5. NoWalk.markWork <= NoWalk.work
      BY DEF NoWalk
    <2>6. call.pass = 1 /\ call.before = m.work
      BY <1>1, <2>3, CountsAreNumbers DEF IInv, Park_Inv, Bill_Inv
    <2>7. s'.work <= PassBound'
      <3>1. w.work <= call.before
        BY <1>1, <2>1, <2>2, <2>3, <2>6, CountsAreNumbers DEF Bill_Inv
      <3>2. QED
        BY <1>1, <2>2, <2>3, <2>6, <3>1, CountsAreNumbers DEF PassBound, Max2
    <2>8. QED
      BY <2>1, <2>3, <2>4, <2>5, <2>7 DEF Bill_Inv, SpentWithinLimit, AtRest
  <1>3. CASE FreshWalk
    <2>1. /\ s'.work = IF Presolves \/ Aggregates THEN plan.pre ELSE 0
          /\ s'.markWork = 0
      BY <1>3 DEF FreshWalk, StartsAttempt, NoWalk
    <2>2. /\ m'.parked = m.parked /\ m'.isParked = FALSE /\ m'.work = m.work
      BY <1>1, <1>3 DEF FreshWalk, ModelType
    <2>3. /\ call'.pass = call.pass /\ call'.user = call.user
          /\ call'.before = call.before /\ call'.baseUnits = call.baseUnits
      BY <1>1, <1>3 DEF FreshWalk, CallType
    <2>4. /\ pc = "enter" /\ pc' = "walk" /\ UNCHANGED <<plan, limit>>
      BY <1>3 DEF FreshWalk, Goes
    <2>5. s'.work \in Nat /\ 0 <= s'.work /\ s'.work <= plan.pre
      BY <1>1, <2>1, CountsAreNumbers
    <2>6. s'.work <= PassBound'
      BY <1>1, <2>3, <2>4, <2>5, CountsAreNumbers DEF PassBound, Max2
    <2>7. QED
      BY <1>1, <2>1, <2>2, <2>3, <2>4, <2>5, <2>6
         DEF Bill_Inv, SpentWithinLimit, AtRest
  <1>4. CASE PresolveAnswers
    <2>1. /\ m'.parked = m.parked /\ m'.isParked = FALSE
          /\ m'.work = plan.pre
      BY <1>1, <1>4 DEF PresolveAnswers, ModelType
    <2>2. /\ call'.pass = call.pass /\ call'.user = call.user
          /\ call'.before = call.before /\ call'.baseUnits = call.baseUnits
      BY <1>1, <1>4 DEF PresolveAnswers, CallType
    <2>3. /\ pc = "enter" /\ pc' = "decide" /\ s' = NoWalk
          /\ UNCHANGED <<plan, limit>>
      BY <1>4 DEF PresolveAnswers, Goes
    <2>4. m'.work <= PassBound'
      BY <1>1, <2>1, <2>2, <2>3, CountsAreNumbers DEF PassBound, Max2
    <2>5. s'.markWork <= s'.work
      BY <2>3 DEF NoWalk
    <2>6. QED
      BY <2>1, <2>2, <2>3, <2>4, <2>5 DEF Bill_Inv, SpentWithinLimit, AtRest
  <1>5. QED
    BY <1>2, <1>3, <1>4

\* A step is billed only below the limit.
LEMMA BillOfWalk ==
  ASSUME IInv, Bill_Inv,
         Pivot \/ NextSettlingRound \/ AttemptEnds \/ \E v \in Stopped : Stop(v)
  PROVE  Bill_Inv'
  <1>1. /\ m \in ModelType /\ call \in CallType /\ s \in WalkType /\ TypeOK
    BY DEF IInv, TypeOK
  <1>2. CASE Pivot \/ NextSettlingRound \/ AttemptEnds
    <2>1. /\ s'.work = s.work + 1
          /\ s'.markWork \in {s.markWork, s.work + 1}
      BY <1>1, <1>2 DEF Pivot, NextSettlingRound, AttemptEnds, Uses, WalkType
    <2>2. /\ pc = "walk" /\ pc' \in {"walk", "ladder"} /\ ~LimitReached
          /\ UNCHANGED <<plan, m, limit, call>>
      BY <1>2 DEF Pivot, NextSettlingRound, AttemptEnds, InWalk, Goes
    <2>3. s'.markWork <= s'.work
      BY <1>1, <2>1, CountsAreNumbers DEF Bill_Inv
    <2>4. call.user > 0 => limit > 0
      BY <1>1, <2>2, CountsAreNumbers DEF Bill_Inv
    <2>5. call.user > 0 => s.work < limit
      BY <1>1, <2>2, <2>4, CountsAreNumbers DEF LimitReached
    <2>6. call.user > 0 => s'.work <= PassBound'
      BY <1>1, <2>1, <2>2, <2>5, CountsAreNumbers DEF PassBound, Max2
    <2>7. QED
      BY <2>2, <2>3, <2>6 DEF Bill_Inv, SpentWithinLimit, AtRest
  <1>3. ASSUME NEW v \in Stopped, Stop(v)
        PROVE  Bill_Inv'
    <2>1. /\ m'.work = s.work /\ m'.isParked = TRUE
          /\ m'.parked.work = s.work /\ m'.parked.markWork = s.markWork
      BY <1>1, <1>3 DEF Stop, StopsAs, ModelType, WalkType
    <2>2. /\ call'.pass = call.pass /\ call'.user = call.user
          /\ call'.before = call.before /\ call'.baseUnits = call.baseUnits
      BY <1>1, <1>3 DEF Stop, StopsAs, CallType
    <2>3. /\ pc = "walk" /\ pc' = "decide" /\ UNCHANGED <<plan, limit, s>>
      BY <1>3 DEF Stop, StopsAs, InWalk, Goes
    <2>4. PassBound' = PassBound
      BY <2>2, <2>3 DEF PassBound
    <2>5. QED
      BY <1>1, <2>1, <2>2, <2>3, <2>4, CountsAreNumbers
         DEF Bill_Inv, SpentWithinLimit, AtRest
  <1>4. QED
    BY <1>2, <1>3

LEMMA BillOfRung ==
  ASSUME IInv, Bill_Inv,
         \/ RestartWithoutEarlyPerturb \/ RestartCold
         \/ FallToDual \/ RestartLoanFree
  PROVE  Bill_Inv'
  <1>1. s \in WalkType
    BY DEF IInv, TypeOK
  <1>2. /\ pc = "ladder" /\ pc' = "walk"
        /\ UNCHANGED <<plan, m, limit, call>>
    BY DEF RestartWithoutEarlyPerturb, RestartCold, FallToDual,
           RestartLoanFree, TriesAgain, FailsInRun, InLadder, Goes
  <1>3. s'.work = s.work /\ s'.markWork = s.markWork
    BY <1>1 DEF RestartWithoutEarlyPerturb, RestartCold, FallToDual,
           RestartLoanFree, TriesAgain, StartsAttempt, Again, WalkType
  <1>4. QED
    BY <1>2, <1>3 DEF Bill_Inv, PassBound, SpentWithinLimit, AtRest

LEMMA BillOfReturn ==
  ASSUME IInv, Bill_Inv, NEW mm \in ModelType, Returns(mm),
         mm.isParked = m.isParked, mm.parked = m.parked, mm.work >= m.work,
         call.user > 0 /\ call.code = "OK" =>
            mm.work <= Max2(call.user, call.before) + plan.pre
  PROVE  Bill_Inv'
  <1>1. /\ pc' = "idle" /\ TypeOK
        /\ UNCHANGED <<plan, limit, call, s, calls>>
    BY DEF Returns, Goes, IInv
  <1>2. CASE Reference
    <2>1. m' = Fresh(plan) /\ calls' = 0
      BY <1>1, <1>2 DEF Returns, IInv, Start_Inv
    <2>2. m'.isParked = FALSE /\ m'.parked.markWork <= m'.parked.work
      BY <2>1 DEF Fresh, NoWalk
    <2>3. ~AtRest'
      BY <2>1 DEF AtRest
    <2>4. QED
      BY <1>1, <2>2, <2>3 DEF Bill_Inv, SpentWithinLimit
  <1>3. CASE ~Reference
    <2>1. m' = mm
      BY <1>3 DEF Returns
    <2>2. SpentWithinLimit'
      BY <1>1, <2>1 DEF SpentWithinLimit
    <2>3. mm.work \in Nat
      BY DEF ModelType
    <2>4. m.parked.work <= m.work => m.parked.work <= mm.work
      BY <1>1, <2>3, CountsAreNumbers
    <2>5. QED
      BY <1>1, <2>1, <2>2, <2>4 DEF Bill_Inv
  <1>4. QED
    BY <1>2, <1>3

LEMMA BillOfEnd ==
  ASSUME IInv, Bill_Inv,
         Abandon \/ Publish \/ SecondPass \/ NoBudget \/ OnePass \/ TwoPasses
  PROVE  Bill_Inv'
  <1>1. /\ m \in ModelType /\ call \in CallType /\ s \in WalkType /\ TypeOK
    BY DEF IInv, TypeOK
  <1>2. CASE Abandon
    <2>1. /\ m'.work = m.work /\ m'.isParked = m.isParked
          /\ m'.parked = m.parked
      BY <1>1, <1>2 DEF Abandon, ModelType
    <2>2. /\ call'.pass = call.pass /\ call'.user = call.user
          /\ call'.before = call.before /\ call'.baseUnits = call.baseUnits
          /\ call'.code = "ERR"
      BY <1>1, <1>2 DEF Abandon, CallType
    <2>3. /\ pc = "ladder" /\ pc' = "decide" /\ UNCHANGED <<plan, limit, s>>
      BY <1>2 DEF Abandon, InLadder, Goes
    <2>4. QED
      BY <2>1, <2>2, <2>3 DEF Bill_Inv, SpentWithinLimit, AtRest
  <1>3. CASE Publish
    <2>1. /\ m'.work = s.work /\ m'.isParked = m.isParked
          /\ m'.parked = m.parked
      BY <1>1, <1>3 DEF Publish, ModelType
    <2>2. /\ call'.pass = call.pass /\ call'.user = call.user
          /\ call'.before = call.before /\ call'.baseUnits = call.baseUnits
      BY <1>1, <1>3 DEF Publish, CallType
    <2>3. /\ pc = "ladder" /\ pc' = "decide" /\ UNCHANGED <<plan, limit, s>>
      BY <1>3 DEF Publish, Goes
    <2>4. ~m.isParked
      BY <2>3 DEF IInv, Park_Inv
    <2>5. PassBound' = PassBound
      BY <2>2, <2>3 DEF PassBound
    <2>6. QED
      BY <2>1, <2>2, <2>3, <2>4, <2>5 DEF Bill_Inv, SpentWithinLimit, AtRest
  <1>4. CASE SecondPass
    <2>1. /\ pc = "decide" /\ pc' = "enter" /\ call.pass = 1 /\ Left
          /\ Why # "none"
          /\ limit' = IF call.user = 0 THEN 0 ELSE call.user - call.units
          /\ UNCHANGED <<plan, s>>
      BY <1>4 DEF SecondPass, Deciding, Goes
    <2>2. /\ call'.pass = 2 /\ call'.user = call.user
          /\ call'.baseUnits = call.units
      BY <1>1, <1>4 DEF SecondPass, CallType
    <2>3. /\ m'.work = m.work /\ m'.isParked = m.isParked
          /\ m'.parked = m.parked
      BY <1>1, <1>4 DEF SecondPass, ModelType
    <2>4. ~m.isParked
      BY <1>1, <2>1 DEF IInv, Park_Inv, Why, Failed, Stopped
    <2>5. call.user > 0 =>
             limit' > 0 /\ limit' + call'.baseUnits = call'.user
      BY <1>1, <2>1, <2>2, CountsAreNumbers DEF Left
    <2>6. QED
      BY <2>1, <2>2, <2>3, <2>4, <2>5 DEF Bill_Inv, SpentWithinLimit, AtRest
  <1>5. CASE NoBudget \/ OnePass
    <2>1. pc = "decide" /\ call.pass = 1 /\ Returns(m)
      BY <1>5 DEF NoBudget, OnePass, Deciding
    <2>2. call.user > 0 /\ call.code = "OK" =>
             m.work <= Max2(call.user, call.before) + plan.pre
      BY <1>1, <2>1, CountsAreNumbers DEF Bill_Inv, PassBound, Max2
    <2>3. QED
      BY <1>1, <2>1, <2>2, BillOfReturn, CountsAreNumbers
  <1>6. CASE TwoPasses
    <2> DEFINE b == IF call.handed /\ Failed THEN call.kept ELSE m.start
               mm == [m EXCEPT !.work = m.work + call.baseUnits,
                               !.iters = m.iters + call.baseIters,
                               !.start = b]
    <2>1. pc = "decide" /\ call.pass = 2 /\ Returns(mm)
      BY <1>6, Zenon DEF TwoPasses, SumsPasses
    <2>2. /\ b \in Starts /\ m.work + call.baseUnits \in Nat
          /\ m.iters + call.baseIters \in Nat
      BY <1>1 DEF CallType, ModelType
    <2> HIDE DEF b
    <2>3. /\ mm \in ModelType /\ mm.isParked = m.isParked
          /\ mm.parked = m.parked /\ mm.work = m.work + call.baseUnits
      BY <1>1, <2>2 DEF ModelType
    <2> HIDE DEF mm
    <2>4. call.user > 0 /\ call.code = "OK" =>
             mm.work <= Max2(call.user, call.before) + plan.pre
      BY <1>1, <2>1, <2>3, CountsAreNumbers DEF Bill_Inv, PassBound, Max2
    <2>5. mm.work >= m.work
      BY <1>1, <2>3, CountsAreNumbers
    <2>6. QED
      BY <2>1, <2>3, <2>4, <2>5, BillOfReturn
  <1>7. QED
    BY <1>2, <1>3, <1>4, <1>5, <1>6

LEMMA BillStep == IInv /\ Bill_Inv /\ [Next]_vars => Bill_Inv'
  <1> SUFFICES ASSUME IInv, Bill_Inv, [Next]_vars PROVE Bill_Inv'
    OBVIOUS
  <1>1. CASE UNCHANGED vars
    BY <1>1 DEF vars, Bill_Inv, PassBound, SpentWithinLimit, AtRest, Reference
  <1>2. QED
    BY <1>1, BillOfCaller, BillOfEnter, BillOfWalk, BillOfRung, BillOfEnd
       DEF Next, Solver

LEMMA BillInit == Init => Bill_Inv
  BY DEF Init, Bill_Inv, SpentWithinLimit, AtRest, Reference, Fresh, NoWalk

-----------------------------------------------------------------------------
(* A solve that nothing stops, as a machine of its own: where it is, what    *)
(* decides how it goes on, and nothing of what only a stop leaves behind.    *)

AttemptOf(p, w) == p.walk[w.of][w.attempt]

EndingOf(p, w) ==
    IF AttemptOf(p, w).end = "STALL" /\ (w.primal \/ ~w.allowEarly) THEN "FAIL"
    ELSE AttemptOf(p, w).end

OutcomeOf(p, why) ==
    IF why \in {"first", "aggregator"} THEN p.presolve ELSE "NONE"

AggregatesIn(p, why) ==
    /\ p.aggregates
    /\ OutcomeOf(p, why) \in {"NONE", "REDUCED"}
    /\ why \in {"first", "uncertified"}

\* What an attempt of the machine came to, before the solve is decided.
Report(code, status, sure, work, iters, units, count, byPresolve) ==
    [code |-> code, status |-> status, sure |-> sure, work |-> work,
     iters |-> iters, units |-> units, count |-> count,
     byPresolve |-> byPresolve]

Unsaid == Report("NONE", "NOT_RUN", TRUE, 0, 0, 0, 0, FALSE)
Says(status, w) ==
    Report("OK", status, TRUE, w.work, w.iters, w.work, w.iters, FALSE)
GivesUp(w) == Report("ERR", "NOT_RUN", TRUE, 0, 0, w.work, w.iters, FALSE)
Answers(p, o) ==
    Report("OK", IF o = "SOLVED" THEN "OPTIMAL" ELSE o,
           o = "SOLVED" \/ p.certified, p.pre, 0, 0, 0, o # "SOLVED")

\* Where the machine is, what decides how it goes on, and what it has.
State(pc_, pass, why, base, count, start, reduced, walk, said) ==
    [pc |-> pc_, pass |-> pass, why |-> why, base |-> base, count |-> count,
     start |-> start, reduced |-> reduced, walk |-> walk, said |-> said]

First(p) ==
    State("enter", 1, "first", 0, 0, p.start, FALSE, NoWalk, Unsaid)

\* The walk goes on, or the attempt is over, or the solve is to be decided.
Walks(c, reduced, w) ==
    State("walk", c.pass, c.why, c.base, c.count, c.start, reduced, w, Unsaid)
Climbs(c, w) ==
    State("ladder", c.pass, c.why, c.base, c.count, c.start, c.reduced, w,
          Unsaid)
Decides(c, start, reduced, said) ==
    State("decide", c.pass, c.why, c.base, c.count, start, reduced, c.walk,
          said)

Enters(p, c) ==
    LET aggregated == AggregatesIn(p, c.why)
    IN StartsAttempt([NoWalk EXCEPT
           !.of = c.pass, !.primal = p.primal, !.start = c.start,
           !.aggregated = aggregated,
           !.work = IF c.why \in {"first", "aggregator"} \/ aggregated
                    THEN p.pre ELSE 0])

AfterEnter(p, c) ==
    LET o == OutcomeOf(p, c.why)
    IN  IF o \in {"NONE", "REDUCED"}
        THEN Walks(c, o = "REDUCED" \/ AggregatesIn(p, c.why), Enters(p, c))
        ELSE Decides(c, IF o = "SOLVED" THEN "answer" ELSE c.start, TRUE,
                     Answers(p, o))

\* A pivot; the pricing that finds nothing; a round of settling begins.
Pivoted(w) == [w EXCEPT !.at = @ + 1, !.work = @ + 1, !.iters = @ + 1]
Priced(w) == [w EXCEPT !.work = @ + 1]
Settles(w) == [w EXCEPT !.phase = @ + 1, !.at = 0, !.work = @ + 1,
                        !.markWork = w.work + 1, !.markIters = w.iters]

AfterWalk(p, c) ==
    LET w == c.walk
        a == AttemptOf(p, w)
    IN  IF w.at < a.need THEN Walks(c, c.reduced, Pivoted(w))
        ELSE IF w.phase < a.rounds THEN Walks(c, c.reduced, Settles(w))
        ELSE Climbs(c, Priced(w))

\* The attempt that follows, if one does.
Retry(p, w) ==
    LET again == [w EXCEPT !.primal = p.primal, !.iters = 0]
        e == EndingOf(p, w)
    IN  CASE e = "STALL" -> [again EXCEPT !.allowEarly = FALSE]
          [] e = "LOAN" -> [again EXCEPT !.primal = TRUE, !.allowWarm = FALSE,
                                         !.allowLoan = FALSE]
          [] OTHER -> IF w.warm THEN [again EXCEPT !.allowWarm = FALSE]
                      ELSE [w EXCEPT !.primal = FALSE, !.allowWarm = FALSE]

Retries(p, w) ==
    LET e == EndingOf(p, w)
    IN  \/ e = "STALL"
        \/ e = "LOAN" /\ w.allowLoan
        \/ e = "BREACH" /\ w.warm
        \/ e = "FAIL" /\ w.phase = 0 /\ (w.warm \/ (w.primal /\ p.primal))

VerdictOf(p, w) ==
    IF EndingOf(p, w) \in Verdicts THEN EndingOf(p, w) ELSE "NUMERICAL_ERROR"

AfterLadder(p, c) ==
    LET w == c.walk
        verdict == VerdictOf(p, w)
    IN  IF Retries(p, w)
        THEN Walks(c, c.reduced, StartsAttempt(Retry(p, w)))
        ELSE IF EndingOf(p, w) = "FAIL"
        THEN Decides(c, c.start, c.reduced, GivesUp(w))
        ELSE Decides(c, IF verdict = "NUMERICAL_ERROR" THEN c.start
                        ELSE "answer", c.reduced, Says(verdict, w))

FailedAt(c) == c.said.code = "ERR" \/ c.said.status = "NUMERICAL_ERROR"

WhyAt(p, c) ==
    IF c.pass = 2 THEN "none"
    ELSE IF c.said.code = "OK" /\ c.said.byPresolve /\ ~c.said.sure
    THEN "uncertified"
    ELSE IF /\ c.said.code = "OK" /\ p.exact /\ c.reduced
            /\ c.said.status \in {"INFEASIBLE", "UNBOUNDED"} THEN "exact"
    ELSE IF FailedAt(c) /\ c.walk.aggregated THEN "aggregator"
    ELSE "none"

Final(p, c) == c.pc = "decide" /\ WhyAt(p, c) = "none"

AfterDecide(p, c) ==
    IF Final(p, c) THEN c
    ELSE LET handed == /\ WhyAt(p, c) = "aggregator"
                       /\ c.said.code = "OK" /\ p.complete
         IN  State("enter", 2, WhyAt(p, c), c.said.units, c.said.count,
                   IF handed THEN "failed" ELSE c.start, c.reduced, NoWalk,
                   Unsaid)

After(p, c) ==
    CASE c.pc = "enter" -> AfterEnter(p, c)
      [] c.pc = "walk" -> AfterWalk(p, c)
      [] c.pc = "ladder" -> AfterLadder(p, c)
      [] OTHER -> AfterDecide(p, c)

\* What the machine gives when it is final.
Gives(c) ==
    IF c.said.code = "ERR" THEN [NoOutcome EXCEPT !.code = "ERR"]
    ELSE [code |-> "OK", status |-> c.said.status,
          work |-> c.said.work + c.base, iters |-> c.said.iters + c.count,
          from |-> c.walk.from, astray |-> FALSE]

-----------------------------------------------------------------------------
(* The call under way, and the walk left by a stop, as states of it.         *)

\* Of a walk, what a stop does not change.  A stop makes its basis the start.
StartOf(p, b) == IF b = "stop" THEN p.start ELSE b
Plain(p, w) ==
    [of |-> w.of, attempt |-> w.attempt, phase |-> w.phase, at |-> w.at,
     primal |-> w.primal, aggregated |-> w.aggregated,
     allowWarm |-> w.allowWarm, allowLoan |-> w.allowLoan,
     allowEarly |-> w.allowEarly, warm |-> w.warm,
     start |-> StartOf(p, w.start), from |-> w.from, work |-> w.work,
     iters |-> w.iters, markWork |-> w.markWork, markIters |-> w.markIters,
     held |-> NoHold, astray |-> FALSE, version |-> 0]

Said ==
    IF pc # "decide" THEN Unsaid
    ELSE IF call.code = "ERR"
    THEN Report("ERR", "NOT_RUN", TRUE, 0, 0, call.units, call.iters, FALSE)
    ELSE Report("OK", m.status, m.sure, m.work, m.iters, call.units,
                call.iters, call.byPresolve)

Now ==
    State(pc, call.pass, call.why,
          IF call.pass = 1 THEN 0 ELSE call.baseUnits,
          IF call.pass = 1 THEN 0 ELSE call.baseIters,
          StartOf(plan, m.start),
          IF pc = "enter" /\ call.pass = 1 THEN FALSE ELSE m.reduced,
          IF pc = "enter" THEN NoWalk ELSE Plain(plan, s),
          Said)

\* A settling round is done again from its start.
Rewound(w) == IF w.phase = 0 THEN w
              ELSE [w EXCEPT !.at = 0, !.work = w.markWork,
                             !.iters = w.markIters]

\* The walk w gone on with in a first pass.
GoneOn(p, reduced, w) ==
    State("walk", 1, "first", 0, 0, p.start, reduced, Plain(p, w), Unsaid)

\* Every set the machine does not leave from c holds d: it passes d.
Reaches(p, c, d) ==
    \A S : c \in S /\ (\A x \in S : After(p, x) \in S) => d \in S

\* From c the machine ends and gives r; while r is not known yet, c is on its
\* way from the first state.
Leads(p, r, c) ==
    IF r = NoOutcome THEN Reaches(p, First(p), c)
    ELSE \E t : Final(p, t) /\ Gives(t) = r /\ Reaches(p, c, t)

Good == intact /\ marks = {}
StoppedNow == pc = "decide" /\ call.code = "OK" /\ m.status \in Stopped

\* The walk, and the start it holds.
Straight(w) ==
    /\ ~w.astray
    /\ w.held = NoHold \/ (w.phase = 0 /\ w.held = <<w.phase, w.at>>)

Straight_Inv ==
    /\ pc \in {"walk", "ladder"} => Straight(s) /\ s.of = call.pass
    /\ pc = "decide" /\ ~StoppedNow => ~s.astray
    /\ m.isParked =>
         Straight(m.parked) /\ m.parked.of = 1 /\ m.parked.start = "stop"

Stops_Inv ==
    /\ call.pass = 1 /\ pc \in {"enter", "walk", "ladder"}
         => StartOf(plan, m.start) = plan.start
    /\ call.pass = 1 /\ pc \in {"walk", "ladder"}
         => StartOf(plan, s.start) = plan.start
    /\ pc = "enter" /\ ~m.isParked => m.start # "stop"
    /\ m.isParked => m.start = "stop"
    /\ pc \in {"walk", "ladder"} /\ m.start = "stop" => ~call.aggregated
    /\ pc = "decide" /\ ~StoppedNow /\ m.start = "stop" =>
         /\ ~call.aggregated /\ ~call.byPresolve
         /\ call.code = "OK" => m.status = "NUMERICAL_ERROR"

\* What holds whatever the caller changes and wherever a stop falls.
Call_Inv ==
    /\ pc = "enter" => ~call.aggregated /\ call.units = 0 /\ call.iters = 0
    /\ pc \in {"walk", "ladder", "decide"} /\ call.aggregated => s.aggregated
    /\ pc # "idle" /\ ~Reference => calls > 0
    /\ Reference => /\ calls = 0 /\ ~m.isParked
                    /\ pc # "idle" => limit = 0

Going ==
    \/ pc \in {"walk", "ladder"}
    \/ pc = "enter" /\ ~m.isParked
    \/ pc = "decide" /\ ~StoppedNow

Lead_Inv ==
    /\ ~Reference => Leads(plan, ref, First(plan))
    /\ Going => Leads(plan, ref, Now)
    /\ pc = "walk" /\ call.pass = 1 /\ s.phase > 0
         => Leads(plan, ref, GoneOn(plan, m.reduced, Rewound(s)))
    /\ m.isParked
         => Leads(plan, ref, GoneOn(plan, m.reduced, Rewound(m.parked)))
    /\ Ended => Read(m) = ref
    /\ pc = "idle" /\ calls = 0 => m = Fresh(plan)

Exact_Inv ==
    /\ Call_Inv
    /\ Good => Straight_Inv /\ Stops_Inv /\ Lead_Inv

-----------------------------------------------------------------------------
LEMMA ReachesItself == \A p, c : Reaches(p, c, c)
  BY DEF Reaches

LEMMA ReachesNext ==
  ASSUME NEW p, NEW c, NEW d, Reaches(p, c, d)
  PROVE  Reaches(p, c, After(p, d))
  BY DEF Reaches

LEMMA NextReaches ==
  ASSUME NEW p, NEW c, NEW d, Reaches(p, c, d), c # d
  PROVE  Reaches(p, After(p, c), d)
  <1> SUFFICES ASSUME NEW S, After(p, c) \in S,
                      \A x \in S : After(p, x) \in S
               PROVE  d \in S
    BY DEF Reaches
  <1>1. c \in S \cup {c} /\ \A x \in S \cup {c} : After(p, x) \in S \cup {c}
    OBVIOUS
  <1>2. d \in S \cup {c}
    BY <1>1, Zenon DEF Reaches
  <1>3. QED
    BY <1>2

LEMMA FinalStays ==
  ASSUME NEW p, NEW c, NEW d, Reaches(p, c, d), Final(p, c)
  PROVE  d = c
  <1>1. After(p, c) = c
    BY DEF After, Final, AfterDecide
  <1>2. c \in {c} /\ \A x \in {c} : After(p, x) \in {c}
    BY <1>1
  <1>3. d \in {c}
    BY <1>2, Zenon DEF Reaches
  <1>4. QED
    BY <1>3

LEMMA LeadsNext ==
  ASSUME NEW p, NEW r, NEW c, Leads(p, r, c), ~Final(p, c)
  PROVE  Leads(p, r, After(p, c))
  <1>1. CASE r = NoOutcome
    BY <1>1, ReachesNext DEF Leads
  <1>2. CASE r # NoOutcome
    <2>1. PICK t : Final(p, t) /\ Gives(t) = r /\ Reaches(p, c, t)
      BY <1>2 DEF Leads
    <2>2. t # c
      BY <2>1
    <2>3. Reaches(p, After(p, c), t)
      BY <2>1, <2>2, NextReaches
    <2>4. QED
      BY <1>2, <2>1, <2>3 DEF Leads
  <1>3. QED
    BY <1>1, <1>2

LEMMA LeadsToFinal ==
  ASSUME NEW p, NEW r, r # NoOutcome, NEW c, Leads(p, r, c), Final(p, c)
  PROVE  Gives(c) = r
  <1>1. PICK t : Final(p, t) /\ Gives(t) = r /\ Reaches(p, c, t)
    BY DEF Leads
  <1>2. t = c
    BY <1>1, FinalStays
  <1>3. QED
    BY <1>1, <1>2

LEMMA FirstLeads ==
  ASSUME NEW p, NEW c, Leads(p, NoOutcome, c), Final(p, c),
         Gives(c) # NoOutcome
  PROVE  Leads(p, Gives(c), First(p))
  BY DEF Leads

-----------------------------------------------------------------------------
(* Every step of a solve that nothing stops is a step of the machine.        *)

LEMMA StateOf ==
  ASSUME NEW c1, NEW c2, NEW c3, NEW c4, NEW c5, NEW c6, NEW c7, NEW c8,
         NEW c9
  PROVE  LET c == State(c1, c2, c3, c4, c5, c6, c7, c8, c9)
         IN  /\ c.pc = c1 /\ c.pass = c2 /\ c.why = c3 /\ c.base = c4
             /\ c.count = c5 /\ c.start = c6 /\ c.reduced = c7
             /\ c.walk = c8 /\ c.said = c9
  BY DEF State

LEMMA NowOf ==
  /\ Now.pc = pc /\ Now.pass = call.pass /\ Now.why = call.why
  /\ Now.base = IF call.pass = 1 THEN 0 ELSE call.baseUnits
  /\ Now.count = IF call.pass = 1 THEN 0 ELSE call.baseIters
  /\ Now.start = StartOf(plan, m.start)
  /\ Now.reduced = IF pc = "enter" /\ call.pass = 1 THEN FALSE ELSE m.reduced
  /\ Now.walk = IF pc = "enter" THEN NoWalk ELSE Plain(plan, s)
  /\ Now.said = Said
  BY DEF Now, State

LEMMA PlainType ==
  ASSUME NEW p \in PlanType, NEW w \in WalkType
  PROVE  Plain(p, w) \in WalkType
  <1>1. StartOf(p, w.start) \in Starts
    BY DEF StartOf, WalkType, PlanType, Starts
  <1>2. QED
    BY <1>1 DEF Plain, WalkType

\* The walk y is the walk w, but for what a stop changes.
Like(p, y, w) ==
    /\ y.of = w.of /\ y.attempt = w.attempt /\ y.phase = w.phase
    /\ y.at = w.at /\ y.primal = w.primal /\ y.warm = w.warm
    /\ y.aggregated = w.aggregated /\ y.allowWarm = w.allowWarm
    /\ y.allowLoan = w.allowLoan /\ y.allowEarly = w.allowEarly
    /\ y.start = StartOf(p, w.start) /\ y.from = w.from
    /\ y.work = w.work /\ y.iters = w.iters
    /\ y.markWork = w.markWork /\ y.markIters = w.markIters
    /\ y.held = NoHold /\ y.astray = FALSE /\ y.version = 0

LEMMA PlainIsLike ==
  ASSUME NEW p \in PlanType, NEW w \in WalkType
  PROVE  Like(p, Plain(p, w), w)
  BY DEF Plain, WalkType, Like

LEMMA LikeIsPlain ==
  ASSUME NEW p \in PlanType, NEW w \in WalkType, NEW y \in WalkType,
         Like(p, y, w)
  PROVE  y = Plain(p, w)
  <1> DEFINE z == Plain(p, w)
  <1>1. z \in WalkType /\ Like(p, z, w)
    BY PlainType, PlainIsLike
  <1> HIDE DEF z
  <1>2. z = y
    BY <1>1 DEF Like, WalkType
  <1>3. QED
    BY <1>2 DEF z

LEMMA UsedIsLike ==
  ASSUME NEW p, NEW w \in WalkType, NEW x, Like(p, x, w)
  PROVE  Like(p, x, Uses(w))
  <1> DEFINE a == w.astray \/ w.held \notin {NoHold, <<w.phase, w.at>>}
             u == [w EXCEPT !.held = NoHold, !.astray = a]
  <1>1. Uses(w) = u
    BY Zenon DEF Uses
  <1> HIDE DEF a
  <1>2. Like(p, x, u)
    BY DEF Like, WalkType
  <1>3. QED
    BY <1>1, <1>2

\* How the walk moves, in the call and in the machine.
LEMMA MovesType ==
  ASSUME NEW w \in WalkType
  PROVE  Pivoted(w) \in WalkType /\ Priced(w) \in WalkType
         /\ Settles(w) \in WalkType
  <1>1. /\ w.at + 1 \in Nat /\ w.work + 1 \in Nat /\ w.iters + 1 \in Nat
        /\ w.phase + 1 \in Nat /\ w.iters \in Nat
    BY DEF WalkType
  <1>2. ASSUME NEW a \in Nat, NEW n \in Nat, NEW i \in Nat
        PROVE  [w EXCEPT !.at = a, !.work = n, !.iters = i] \in WalkType
    BY DEF WalkType
  <1>3. ASSUME NEW n \in Nat
        PROVE  [w EXCEPT !.work = n] \in WalkType
    BY DEF WalkType
  <1>4. ASSUME NEW a \in Nat, NEW n \in Nat, NEW i \in Nat
        PROVE  [w EXCEPT !.phase = a, !.at = 0, !.work = n,
                         !.markWork = n, !.markIters = i] \in WalkType
    BY DEF WalkType
  <1>5. QED
    BY <1>1, <1>2, <1>3, <1>4 DEF Pivoted, Priced, Settles

LEMMA MovesPlain ==
  ASSUME NEW p \in PlanType, NEW w \in WalkType
  PROVE  /\ Plain(p, Pivoted(w)) = Pivoted(Plain(p, w))
         /\ Plain(p, Priced(w)) = Priced(Plain(p, w))
         /\ Plain(p, Settles(w)) = Settles(Plain(p, w))
  <1> DEFINE x == Plain(p, w)
  <1>1. x \in WalkType /\ Like(p, x, w)
    BY PlainType, PlainIsLike
  <1> HIDE DEF x
  <1>2. Like(p, Pivoted(x), Pivoted(w))
    BY <1>1 DEF WalkType, Like, Pivoted
  <1>3. Like(p, Priced(x), Priced(w))
    BY <1>1 DEF WalkType, Like, Priced
  <1>4. Like(p, Settles(x), Settles(w))
    BY <1>1 DEF WalkType, Like, Settles
  <1>5. QED
    BY <1>1, <1>2, <1>3, <1>4, MovesType, LikeIsPlain DEF x

\* A price kept from before a stop makes no difference here.
LEMMA UsedIsPlain ==
  ASSUME NEW p \in PlanType, NEW w \in WalkType
  PROVE  Plain(p, Uses(w)) = Plain(p, w)
  <1> DEFINE x == Plain(p, w)
  <1>1. x \in WalkType /\ Like(p, x, w)
    BY PlainType, PlainIsLike
  <1> HIDE DEF x
  <1>2. Like(p, x, Uses(w)) /\ Uses(w) \in WalkType
    BY <1>1, UsedIsLike, UsesType
  <1>3. QED
    BY <1>1, <1>2, LikeIsPlain DEF x

LEMMA WalkMoves ==
  ASSUME TypeOK
  PROVE  /\ Pivot => s' = Pivoted(Uses(s))
         /\ NextSettlingRound => s' = Settles(Uses(s))
         /\ AttemptEnds => s' = Priced(Uses(s))
  <1>1. s \in WalkType
    BY DEF TypeOK
  <1>2. s.work = Uses(s).work /\ s.iters = Uses(s).iters
    BY <1>1 DEF Uses, WalkType
  <1>3. QED
    BY <1>2, Zenon DEF Pivot, NextSettlingRound, AttemptEnds, Pivoted, Settles,
                Priced

LEMMA WalkAsNow ==
  ASSUME TypeOK, Pivot \/ NextSettlingRound \/ AttemptEnds
  PROVE  Now' = After(plan, Now)
  <1> DEFINE x == Plain(plan, s)
  <1>1. s \in WalkType /\ plan \in PlanType /\ Uses(s) \in WalkType
    BY UsesType DEF TypeOK
  <1>2. Like(plan, x, s)
    BY <1>1, PlainIsLike
  <1>3. pc = "walk" /\ plan' = plan /\ m' = m /\ call' = call
    BY DEF Pivot, NextSettlingRound, AttemptEnds, InWalk
  <1>4. Now.pc = "walk" /\ Now.walk = x
    BY <1>3, NowOf
  <1> HIDE DEF x
  <1>5. AttemptOf(plan, x) = Attempt /\ x.at = s.at /\ x.phase = s.phase
    BY <1>2 DEF Like, AttemptOf, Attempt
  <1>6. After(plan, Now) = AfterWalk(plan, Now)
    BY <1>4, Zenon DEF After
  <1>7. Plain(plan, Uses(s)) = x
    BY <1>1, UsedIsPlain DEF x
  <1>8. CASE Pivot
    <2>1. Plain(plan', s') = Pivoted(x)
      BY <1>1, <1>3, <1>7, <1>8, WalkMoves, MovesPlain
    <2>2. AfterWalk(plan, Now) = Walks(Now, Now.reduced, Pivoted(x))
      BY <1>4, <1>5, <1>8 DEF AfterWalk, Pivot
    <2>3. pc' = "walk" /\ Said' = Unsaid
      BY <1>3, <1>8 DEF Pivot, Said
    <2>4. QED
      BY <1>3, <1>6, <2>1, <2>2, <2>3, NowOf DEF Now, Walks
  <1>9. CASE NextSettlingRound
    <2>1. Plain(plan', s') = Settles(x)
      BY <1>1, <1>3, <1>7, <1>9, WalkMoves, MovesPlain
    <2>2. AfterWalk(plan, Now) = Walks(Now, Now.reduced, Settles(x))
      BY <1>1, <1>4, <1>5, <1>9
         DEF AfterWalk, NextSettlingRound, WalkType
    <2>3. pc' = "walk" /\ Said' = Unsaid
      BY <1>3, <1>9 DEF NextSettlingRound, Said
    <2>4. QED
      BY <1>3, <1>6, <2>1, <2>2, <2>3, NowOf DEF Now, Walks
  <1>10. CASE AttemptEnds
    <2>1. Plain(plan', s') = Priced(x)
      BY <1>1, <1>3, <1>7, <1>10, WalkMoves, MovesPlain
    <2>2. AfterWalk(plan, Now) = Climbs(Now, Priced(x))
      BY <1>1, <1>4, <1>5, <1>10
         DEF AfterWalk, AttemptEnds, WalkType
    <2>3. pc' = "ladder" /\ Said' = Unsaid
      BY <1>10, Zenon DEF AttemptEnds, Goes, Said
    <2>4. QED
      BY <1>3, <1>6, <2>1, <2>2, <2>3, NowOf DEF Now, Climbs
  <1>11. QED
    BY <1>8, <1>9, <1>10

LEMMA PlainNoWalk ==
  ASSUME NEW p \in PlanType
  PROVE  Plain(p, NoWalk) = NoWalk
  <1>1. Like(p, NoWalk, NoWalk)
    BY DEF Like, NoWalk, StartOf
  <1>2. QED
    BY <1>1, NoWalkType, LikeIsPlain

\* An attempt begins alike, unless it is warm from a stop.
LEMMA StartsPlain ==
  ASSUME NEW p \in PlanType, NEW w \in WalkType, w.attempt < MaxAttempts,
         w.allowWarm => w.start # "stop"
  PROVE  Plain(p, StartsAttempt(w)) = StartsAttempt(Plain(p, w))
  <1> DEFINE x == Plain(p, w)
  <1>1. x \in WalkType /\ Like(p, x, w)
    BY PlainType, PlainIsLike
  <1> HIDE DEF x
  <1>2. x.attempt < MaxAttempts
    BY <1>1 DEF Like
  <1>3. StartsAttempt(w) \in WalkType /\ StartsAttempt(x) \in WalkType
    BY <1>1, <1>2, StartsType
  <1> DEFINE b == w.allowWarm /\ w.start # "none"
             f == IF b THEN w.start ELSE "slack"
             v == [w EXCEPT !.attempt = @ + 1, !.phase = 0, !.at = 0,
                            !.held = NoHold, !.warm = b, !.from = f]
             y == [x EXCEPT !.attempt = @ + 1, !.phase = 0, !.at = 0,
                            !.held = NoHold, !.warm = b, !.from = f]
  <1>4. w.allowWarm => x.start = w.start
    BY <1>1 DEF Like, StartOf
  <1>5. x.allowWarm = w.allowWarm
    BY <1>1 DEF Like
  <1>6. StartsAttempt(w) = v
    BY Zenon DEF StartsAttempt
  <1>7. (x.allowWarm /\ x.start # "none") = b
    BY <1>4, <1>5 DEF WalkType
  <1>8. (IF x.allowWarm /\ x.start # "none" THEN x.start ELSE "slack") = f
    BY <1>4, <1>5 DEF WalkType
  <1>9. StartsAttempt(x) = y
    <2> DEFINE bb == x.allowWarm /\ x.start # "none"
               ff == IF bb THEN x.start ELSE "slack"
               z == [x EXCEPT !.attempt = @ + 1, !.phase = 0, !.at = 0,
                              !.held = NoHold, !.warm = bb, !.from = ff]
    <2>1. StartsAttempt(x) = z
      BY Zenon DEF StartsAttempt
    <2>2. bb = b /\ ff = f
      BY <1>7, <1>8
    <2> HIDE DEF bb, ff, b, f
    <2>3. z = y
      BY <2>2
    <2>4. QED
      BY <2>1, <2>3
  <1> HIDE DEF b, f
  <1>10. Like(p, y, v)
    BY <1>1 DEF Like, WalkType
  <1>11. QED
    BY <1>3, <1>6, <1>9, <1>10, LikeIsPlain, Zenon DEF x

LEMMA EnterAsNow ==
  ASSUME IInv, FreshWalk \/ PresolveAnswers, m.start # "stop",
         call.units = 0, call.iters = 0
  PROVE  Now' = After(plan, Now)
  <1>1. /\ m \in ModelType /\ call \in CallType /\ plan \in PlanType
        /\ TypeOK /\ pc = "enter" /\ plan' = plan
    BY DEF IInv, TypeOK, FreshWalk, PresolveAnswers
  <1>2. Now.pc = "enter" /\ Now.why = call.why /\ Now.start = m.start
        /\ Now.pass = call.pass /\ Now.walk = NoWalk
    BY <1>1, NowOf DEF StartOf
  <1>3. After(plan, Now) = AfterEnter(plan, Now)
    BY <1>2, Zenon DEF After
  <1>4. /\ OutcomeOf(plan, Now.why) = Outcome
        /\ AggregatesIn(plan, Now.why) = Aggregates
    BY <1>2 DEF OutcomeOf, Outcome, Presolves, AggregatesIn, Aggregates
  <1>5. CASE FreshWalk
    <2> DEFINE a == Aggregates
               n == IF Presolves \/ a THEN plan.pre ELSE 0
               w == [NoWalk EXCEPT !.of = call.pass, !.primal = plan.primal,
                                   !.start = m.start, !.version = m.version,
                                   !.aggregated = a, !.work = n]
               x == [NoWalk EXCEPT !.of = call.pass, !.primal = plan.primal,
                                   !.start = m.start, !.aggregated = a,
                                   !.work = n]
               r == Outcome = "REDUCED" \/ a
    <2>1. /\ call.pass \in 1..2 /\ plan.primal \in BOOLEAN
          /\ m.start \in Starts /\ m.version \in Nat /\ a \in BOOLEAN
          /\ n \in Nat
      BY <1>1 DEF CallType, PlanType, ModelType, Aggregates
    <2>2. s' = StartsAttempt(w) /\ pc' = "walk"
          /\ Outcome \in {"NONE", "REDUCED"}
      BY <1>5, Zenon DEF FreshWalk, Goes
    <2>3. Enters(plan, Now) = StartsAttempt(x)
      BY <1>2, <1>4 DEF Enters, Presolves
    <2>4. /\ m' = [m EXCEPT !.iters = 0, !.reduced = r]
          /\ call' = [call EXCEPT !.aggregated = a]
      BY <1>5, Zenon DEF FreshWalk
    <2> HIDE DEF a, n, r
    <2>5. w \in WalkType /\ x \in WalkType
      <3>1. ASSUME NEW v \in WalkType
            PROVE  [v EXCEPT !.aggregated = a, !.work = n] \in WalkType
        BY <2>1 DEF WalkType
      <3>2. [NoWalk EXCEPT !.of = call.pass, !.primal = plan.primal,
                           !.start = m.start] \in WalkType
        BY <2>1, NoWalkType DEF WalkType
      <3>3. [NoWalk EXCEPT !.of = call.pass, !.primal = plan.primal,
                           !.start = m.start, !.version = m.version]
              \in WalkType
        BY <2>1, NoWalkType DEF WalkType
      <3>4. QED
        BY <3>1, <3>2, <3>3
    <2>6. Like(plan, x, w)
      BY <2>1 DEF Like, NoWalk, StartOf
    <2>7. x = Plain(plan, w)
      BY <1>1, <2>5, <2>6, LikeIsPlain
    <2>8. w.attempt < MaxAttempts /\ w.start # "stop"
      BY DEF NoWalk, MaxAttempts
    <2> HIDE DEF w, x
    <2>9. Plain(plan, s') = Enters(plan, Now)
      BY <1>1, <2>2, <2>3, <2>5, <2>7, <2>8, StartsPlain
    <2>10. /\ m'.start = m.start
           /\ m'.reduced = r
           /\ call'.pass = call.pass /\ call'.why = call.why
           /\ call'.baseUnits = call.baseUnits
           /\ call'.baseIters = call.baseIters
      BY <1>1, <2>4 DEF ModelType, CallType
    <2>11. Now' = Walks(Now, r, Enters(plan, Now))
      <3>1. Said' = Unsaid
        BY <2>2 DEF Said
      <3>2. Now.base = (IF call'.pass = 1 THEN 0 ELSE call'.baseUnits)
            /\ Now.count = (IF call'.pass = 1 THEN 0 ELSE call'.baseIters)
            /\ Now.start = StartOf(plan', m'.start)
        BY <1>1, <2>10, NowOf
      <3>3. Now' = State("walk", call'.pass, call'.why, Now.base, Now.count,
                         Now.start, m'.reduced, Plain(plan', s'), Unsaid)
        BY <2>2, <3>1, <3>2, Zenon DEF Now
      <3>4. QED
        BY <1>1, <1>2, <2>9, <2>10, <3>3 DEF Walks
    <2>12. AfterEnter(plan, Now) = Walks(Now, r, Enters(plan, Now))
      BY <1>4, <2>2, Zenon DEF AfterEnter, a, r
    <2>13. QED
      BY <1>3, <2>11, <2>12
  <1>6. CASE PresolveAnswers
    <2> DEFINE st == IF Outcome = "SOLVED" THEN "OPTIMAL" ELSE Outcome
               ok == Outcome = "SOLVED" \/ plan.certified
               b == IF Outcome = "SOLVED" THEN "answer" ELSE m.start
               y == Outcome # "SOLVED"
    <2>1. /\ m' = [m EXCEPT !.status = st, !.sure = ok, !.work = plan.pre,
                            !.iters = 0, !.reduced = TRUE, !.start = b]
          /\ s' = NoWalk /\ call' = [call EXCEPT !.byPresolve = y]
          /\ pc' = "decide" /\ Outcome \in {"SOLVED", "INFEASIBLE", "UNBOUNDED"}
      BY <1>6, Zenon DEF PresolveAnswers, Goes
    <2>2. /\ m'.status = st /\ m'.sure = ok /\ m'.work = plan.pre
          /\ m'.iters = 0 /\ m'.reduced = TRUE /\ m'.start = b
      <3> HIDE DEF st, ok, b
      <3>1. QED
        BY <1>1, <2>1 DEF ModelType
    <2>3. /\ call'.pass = call.pass /\ call'.why = call.why
          /\ call'.baseUnits = call.baseUnits
          /\ call'.baseIters = call.baseIters
          /\ call'.byPresolve = y /\ call'.units = 0 /\ call'.iters = 0
          /\ call'.code = "OK"
      <3> HIDE DEF y
      <3>1. call.code = "OK"
        BY <1>1 DEF IInv, Park_Inv
      <3>2. QED
        BY <1>1, <2>1, <3>1 DEF CallType
    <2>4. Said' = Answers(plan, Outcome)
      <3>1. Said' = Report("OK", st, ok, plan.pre, 0, 0, 0, y)
        <4> HIDE DEF st, ok, b, y
        <4>1. QED
          BY <2>1, <2>2, <2>3 DEF Said
      <3>2. QED
        BY <3>1, Zenon DEF Answers
    <2>5. Plain(plan', s') = NoWalk
      BY <1>1, <2>1, PlainNoWalk
    <2>6. StartOf(plan', m'.start) = b
      BY <1>1, <2>2 DEF StartOf
    <2> HIDE DEF b, y, ok, st
    <2>7. Now' = Decides(Now, b, TRUE, Answers(plan, Outcome))
      <3>1. Now.base = (IF call'.pass = 1 THEN 0 ELSE call'.baseUnits)
            /\ Now.count = (IF call'.pass = 1 THEN 0 ELSE call'.baseIters)
        BY <2>3, NowOf
      <3>2. Now' = State("decide", call'.pass, call'.why, Now.base,
                         Now.count, b, m'.reduced, NoWalk,
                         Answers(plan, Outcome))
        BY <2>1, <2>4, <2>5, <2>6, <3>1, Zenon DEF Now
      <3>3. QED
        BY <1>1, <1>2, <2>2, <2>3, <3>2 DEF Decides
    <2>8. AfterEnter(plan, Now)
            = Decides(Now, b, TRUE, Answers(plan, Outcome))
      BY <1>2, <1>4, <2>1 DEF AfterEnter, b
    <2>9. QED
      BY <1>3, <2>7, <2>8
  <1>7. QED
    BY <1>5, <1>6

LEMMA PaysAttempt ==
  ASSUME TypeOK, NEW w \in WalkType, MayPay(w)
  PROVE  w.attempt < MaxAttempts
  BY DEF MayPay, One, WalkType, MaxAttempts, TypeOK, PlanType

LEMMA RungAsNow ==
  ASSUME IInv, marks' = {},
         RestartWithoutEarlyPerturb \/ RestartCold \/ FallToDual
           \/ RestartLoanFree
  PROVE  Now' = After(plan, Now)
  <1> DEFINE x == Plain(plan, s)
  <1>1. /\ m \in ModelType /\ call \in CallType /\ plan \in PlanType
        /\ s \in WalkType /\ TypeOK /\ LadderKept(s)
    BY DEF IInv, TypeOK, Ladders_Inv
  <1>2. pc = "ladder" /\ pc' = "walk" /\ plan' = plan /\ m' = m
        /\ call' = call
    BY DEF RestartWithoutEarlyPerturb, RestartCold, FallToDual,
           RestartLoanFree, TriesAgain, InLadder, FailsInRun, Goes
  <1>3. Now.pc = "ladder" /\ Now.walk = x
    BY <1>2, NowOf
  <1>4. x \in WalkType /\ Like(plan, x, s)
    BY <1>1, PlainType, PlainIsLike
  <1> HIDE DEF x
  <1>5. EndingOf(plan, x) = Ending
    BY <1>4 DEF Like, EndingOf, Ending, AttemptOf, Attempt
  <1>6. After(plan, Now) = AfterLadder(plan, Now)
    BY <1>3, Zenon DEF After
  <1> DEFINE again == [x EXCEPT !.primal = plan.primal, !.iters = 0]
  <1>7. ASSUME NEW w \in WalkType, MayPay(w), s' = StartsAttempt(w),
               w.allowWarm => w.start # "stop",
               Retries(plan, x), Retry(plan, x) = Plain(plan, w)
        PROVE  Now' = After(plan, Now)
    <2>1. Plain(plan, s') = StartsAttempt(Retry(plan, x))
      BY <1>1, <1>7, PaysAttempt, StartsPlain
    <2>2. AfterLadder(plan, Now)
            = Walks(Now, Now.reduced, StartsAttempt(Retry(plan, x)))
      BY <1>3, <1>7, Zenon DEF AfterLadder
    <2>3. Said' = Unsaid
      BY <1>2 DEF Said
    <2>4. QED
      BY <1>2, <1>6, <2>1, <2>2, <2>3, NowOf DEF Now, Walks
  <1>8. plan.primal \in BOOLEAN
    BY <1>1 DEF PlanType
  <1>9. again \in WalkType
    BY <1>4, <1>8 DEF WalkType
  <1>10. CASE RestartWithoutEarlyPerturb
    <2> DEFINE w == [Again EXCEPT !.allowEarly = FALSE]
    <2>1. InLadder("STALL") /\ s' = StartsAttempt(w)
      BY <1>10, Zenon DEF RestartWithoutEarlyPerturb, TriesAgain
    <2>2. ~(s.allowWarm /\ s.start = "stop")
      BY <1>10 DEF RestartWithoutEarlyPerturb
    <2>3. w \in WalkType /\ MayPay(w)
      BY <1>1, <2>1, RungsPay
    <2>4. Ending = "STALL"
      BY <2>1 DEF InLadder
    <2>5. Retries(plan, x)
      BY <1>5, <2>4 DEF Retries
    <2>6. Retry(plan, x) = [again EXCEPT !.allowEarly = FALSE]
      BY <1>5, <2>4, Zenon DEF Retry
    <2>7. Retry(plan, x) \in WalkType
      <3> HIDE DEF again
      <3>1. QED
        BY <1>9, <2>6 DEF WalkType
    <2>8. Like(plan, Retry(plan, x), w)
      BY <1>1, <1>4, <2>6 DEF Like, Again, WalkType
    <2>9. w.allowWarm => w.start # "stop"
      BY <1>1, <2>2 DEF Again, WalkType
    <2> HIDE DEF w
    <2>10. Retry(plan, x) = Plain(plan, w)
      BY <1>1, <2>3, <2>7, <2>8, LikeIsPlain
    <2>11. QED
      BY <1>7, <2>1, <2>3, <2>5, <2>9, <2>10
  <1>11. CASE RestartCold
    <2> DEFINE w == [Again EXCEPT !.allowWarm = FALSE]
    <2>1. /\ (Ending = "FAIL" /\ s.phase = 0) \/ Ending = "BREACH"
          /\ s.warm /\ s' = StartsAttempt(w)
      BY <1>11, Zenon DEF RestartCold, TriesAgain, FailsInRun, InLadder
    <2>2. w \in WalkType /\ MayPay(w)
      BY <1>1, <2>1, RungsPay
    <2>3. x.warm /\ x.phase = s.phase
      BY <1>4, <2>1 DEF Like
    <2>4. Retries(plan, x)
      BY <1>5, <2>1, <2>3 DEF Retries
    <2>5. Retry(plan, x) = [again EXCEPT !.allowWarm = FALSE]
      <3>1. Ending # "STALL" /\ Ending # "LOAN"
        BY <2>1
      <3>2. QED
        BY <1>5, <2>3, <3>1, Zenon DEF Retry
    <2>6. Retry(plan, x) \in WalkType
      <3> HIDE DEF again
      <3>1. QED
        BY <1>9, <2>5 DEF WalkType
    <2>7. Like(plan, Retry(plan, x), w)
      BY <1>1, <1>4, <2>5 DEF Like, Again, WalkType
    <2>8. ~w.allowWarm
      BY <1>1 DEF Again, WalkType
    <2> HIDE DEF w
    <2>9. Retry(plan, x) = Plain(plan, w)
      BY <1>1, <2>2, <2>6, <2>7, LikeIsPlain
    <2>10. QED
      BY <1>7, <2>1, <2>2, <2>4, <2>8, <2>9
  <1>12. CASE FallToDual
    <2> DEFINE w == [s EXCEPT !.primal = FALSE, !.allowWarm = FALSE]
    <2>1. /\ Ending = "FAIL" /\ s.phase = 0 /\ ~s.warm
          /\ s.primal /\ plan.primal /\ s' = StartsAttempt(w)
      BY <1>12, Zenon DEF FallToDual, TriesAgain, FailsInRun, InLadder
    <2>2. w \in WalkType /\ MayPay(w)
      BY <1>1, <2>1, RungsPay
    <2>3. ~x.warm /\ x.phase = s.phase /\ x.primal
      BY <1>4, <2>1 DEF Like
    <2>4. Retries(plan, x)
      BY <1>5, <2>1, <2>3 DEF Retries
    <2>5. Retry(plan, x) = [x EXCEPT !.primal = FALSE, !.allowWarm = FALSE]
      <3>1. Ending # "STALL" /\ Ending # "LOAN"
        BY <2>1
      <3>2. QED
        BY <1>5, <2>3, <3>1, Zenon DEF Retry
    <2>6. Retry(plan, x) \in WalkType
      BY <1>4, <2>5 DEF WalkType
    <2>7. Like(plan, Retry(plan, x), w)
      BY <1>1, <1>4, <2>5 DEF Like, WalkType
    <2>8. ~w.allowWarm
      BY <1>1 DEF WalkType
    <2> HIDE DEF w
    <2>9. Retry(plan, x) = Plain(plan, w)
      BY <1>1, <2>2, <2>6, <2>7, LikeIsPlain
    <2>10. QED
      BY <1>7, <2>1, <2>2, <2>4, <2>8, <2>9
  <1>13. CASE RestartLoanFree
    <2> DEFINE w == [Again EXCEPT !.primal = TRUE, !.allowWarm = FALSE,
                                  !.allowLoan = FALSE]
    <2>1. Ending = "LOAN" /\ s.allowLoan /\ s' = StartsAttempt(w)
      BY <1>13, Zenon DEF RestartLoanFree, TriesAgain, InLadder
    <2>2. w \in WalkType /\ MayPay(w)
      BY <1>1, <2>1, RungsPay
    <2>3. x.allowLoan
      BY <1>4, <2>1 DEF Like
    <2>4. Retries(plan, x)
      BY <1>5, <2>1, <2>3 DEF Retries
    <2>5. Retry(plan, x) = [again EXCEPT !.primal = TRUE, !.allowWarm = FALSE,
                                         !.allowLoan = FALSE]
      <3>1. Ending # "STALL"
        BY <2>1
      <3>2. QED
        BY <1>5, <2>1, <3>1, Zenon DEF Retry
    <2>6. Retry(plan, x) \in WalkType
      <3> HIDE DEF again
      <3>1. QED
        BY <1>9, <2>5 DEF WalkType
    <2>7. Like(plan, Retry(plan, x), w)
      BY <1>1, <1>4, <2>5 DEF Like, Again, WalkType
    <2>8. ~w.allowWarm
      BY <1>1 DEF Again, WalkType
    <2> HIDE DEF w
    <2>9. Retry(plan, x) = Plain(plan, w)
      BY <1>1, <2>2, <2>6, <2>7, LikeIsPlain
    <2>10. QED
      BY <1>7, <2>1, <2>2, <2>4, <2>8, <2>9
  <1>14. QED
    BY <1>10, <1>11, <1>12, <1>13

LEMMA EndsAsNow ==
  ASSUME IInv, Abandon \/ Publish
  PROVE  Now' = After(plan, Now)
  <1> DEFINE x == Plain(plan, s)
  <1>1. /\ m \in ModelType /\ call \in CallType /\ plan \in PlanType
        /\ s \in WalkType /\ TypeOK
    BY DEF IInv, TypeOK
  <1>2. pc = "ladder" /\ pc' = "decide" /\ plan' = plan /\ s' = s
    BY DEF Abandon, Publish, InLadder, Goes
  <1>3. Now.pc = "ladder" /\ Now.walk = x
    BY <1>2, NowOf
  <1>4. x \in WalkType /\ Like(plan, x, s)
    BY <1>1, PlainType, PlainIsLike
  <1>5. EndingOf(plan, x) = Ending
    BY <1>4, Zenon DEF Like, EndingOf, Ending, AttemptOf, Attempt
  <1>6. After(plan, Now) = AfterLadder(plan, Now)
    BY <1>3, Zenon DEF After
  <1>7. Plain(plan', s') = Now.walk
    BY <1>2, <1>3
  <1> HIDE DEF x
  <1>8. x.warm = s.warm /\ x.allowLoan = s.allowLoan /\ x.phase = s.phase
        /\ x.primal = s.primal /\ x.work = s.work /\ x.iters = s.iters
    BY <1>4 DEF Like
  <1>9. call.code = "OK" /\ ~call.byPresolve
    BY <1>2 DEF IInv, Park_Inv
  <1>10. CASE Abandon
    <2>1. /\ Ending = "FAIL"
          /\ s.phase > 0 \/ (~s.warm /\ ~(s.primal /\ plan.primal))
          /\ call' = [call EXCEPT !.code = "ERR", !.units = s.work,
                                  !.iters = s.iters]
          /\ m' = [m EXCEPT !.iters = s.iters]
      BY <1>10, Zenon DEF Abandon, InLadder
    <2>2. /\ call'.pass = call.pass /\ call'.why = call.why
          /\ call'.baseUnits = call.baseUnits
          /\ call'.baseIters = call.baseIters
          /\ call'.code = "ERR" /\ call'.units = s.work
          /\ call'.iters = s.iters
          /\ m'.start = m.start /\ m'.reduced = m.reduced
      BY <1>1, <2>1 DEF CallType, ModelType
    <2>3. s.phase > 0 => s.phase # 0
      BY <1>1 DEF WalkType
    <2>4. ~Retries(plan, x)
      BY <1>5, <1>8, <2>1, <2>3, Zenon DEF Retries
    <2>5. AfterLadder(plan, Now)
            = Decides(Now, Now.start, Now.reduced, GivesUp(x))
      BY <1>3, <1>5, <2>1, <2>4, Zenon DEF AfterLadder
    <2>6. Said' = GivesUp(x)
      BY <1>2, <1>8, <2>2 DEF Said, GivesUp
    <2>7. QED
      BY <1>2, <1>6, <1>7, <2>2, <2>5, <2>6, NowOf DEF Now, Decides
  <1>11. CASE Publish
    <2> DEFINE v == Verdict
               b == IF v = "NUMERICAL_ERROR" THEN m.start ELSE "answer"
    <2>1. /\ v # "NOT_RUN"
          /\ m' = [m EXCEPT !.status = v, !.work = s.work, !.iters = s.iters,
                            !.sure = TRUE, !.start = b]
          /\ call' = [call EXCEPT !.units = s.work, !.iters = s.iters]
      BY <1>11, Zenon DEF Publish
    <2>2. /\ Ending \in Verdicts \/ (Ending = "BREACH" /\ ~s.warm)
               \/ (Ending = "LOAN" /\ ~s.allowLoan)
          /\ v = IF Ending \in Verdicts THEN Ending ELSE "NUMERICAL_ERROR"
      BY <2>1 DEF Verdict
    <2>3. VerdictOf(plan, x) = v
      BY <1>5, <2>2 DEF VerdictOf
    <2>4. ~Retries(plan, x) /\ Ending # "FAIL"
      BY <1>5, <1>8, <2>2 DEF Retries, Verdicts
    <2> DEFINE bb == IF v = "NUMERICAL_ERROR" THEN Now.start ELSE "answer"
    <2>5. AfterLadder(plan, Now)
            = Decides(Now, bb, Now.reduced, Says(v, x))
      BY <1>3, <1>5, <2>3, <2>4, Zenon DEF AfterLadder
    <2>6. StartOf(plan, b) = bb
      BY <1>2, NowOf DEF StartOf
    <2> HIDE DEF v, b, bb
    <2>7. /\ call'.pass = call.pass /\ call'.why = call.why
          /\ call'.baseUnits = call.baseUnits
          /\ call'.baseIters = call.baseIters
          /\ call'.code = "OK" /\ call'.units = s.work
          /\ call'.iters = s.iters /\ call'.byPresolve = call.byPresolve
          /\ m'.status = v /\ m'.work = s.work /\ m'.iters = s.iters
          /\ m'.sure = TRUE /\ m'.start = b /\ m'.reduced = m.reduced
      BY <1>1, <1>9, <2>1 DEF CallType, ModelType
    <2>8. call.byPresolve = FALSE
      BY <1>1, <1>9 DEF CallType
    <2>9. Said' = Says(v, x)
      BY <1>2, <1>8, <2>7, <2>8 DEF Said, Says
    <2>10. QED
      BY <1>2, <1>6, <1>7, <2>5, <2>6, <2>7, <2>9, NowOf DEF Now, Decides
  <1>12. QED
    BY <1>10, <1>11

\* What the machine makes of a call to be decided.
LEMMA SaidOf ==
  ASSUME pc = "decide", call \in CallType
  PROVE  /\ Said.code = call.code /\ Said.units = call.units
         /\ Said.count = call.iters
         /\ call.code = "OK" =>
              /\ Said.status = m.status /\ Said.sure = m.sure
              /\ Said.work = m.work /\ Said.iters = m.iters
              /\ Said.byPresolve = call.byPresolve
  BY DEF Said, Report, CallType

LEMMA WhyOfNow ==
  ASSUME TypeOK, pc = "decide", call.pass = 1,
         Failed => call.aggregated = s.aggregated
  PROVE  WhyAt(plan, Now) = Why
  <1>1. /\ call \in CallType /\ plan \in PlanType /\ s \in WalkType
        /\ m \in ModelType
    BY DEF TypeOK
  <1>2. /\ Now.pass = 1 /\ Now.said = Said /\ Now.reduced = m.reduced
        /\ Now.walk.aggregated = s.aggregated
    BY <1>1, NowOf, PlainIsLike DEF Like
  <1>3. call.code = "OK" \/ call.code = "ERR"
    BY <1>1 DEF CallType
  <1>4. CASE call.code = "OK"
    <2>1. FailedAt(Now) <=> Failed
      BY <1>1, <1>2, <1>4, SaidOf DEF FailedAt, Failed
    <2>2. QED
      BY <1>1, <1>2, <1>4, <2>1, SaidOf DEF WhyAt, Why
  <1>5. CASE call.code = "ERR"
    <2>1. FailedAt(Now) /\ Failed /\ Said.code = "ERR"
      BY <1>1, <1>2, <1>5, SaidOf DEF FailedAt, Failed
    <2>2. QED
      BY <1>2, <1>5, <2>1 DEF WhyAt, Why
  <1>6. QED
    BY <1>3, <1>4, <1>5

LEMMA SecondAsNow ==
  ASSUME IInv, SecondPass, call.aggregated => s.aggregated
  PROVE  Now' = After(plan, Now) /\ ~Final(plan, Now)
  <1>1. /\ m \in ModelType /\ call \in CallType /\ plan \in PlanType
        /\ TypeOK
    BY DEF IInv, TypeOK
  <1>2. /\ pc = "decide" /\ call.pass = 1 /\ Why # "none" /\ pc' = "enter"
        /\ plan' = plan
    BY DEF SecondPass, Deciding, Goes
  <1>3. Failed => call.aggregated = s.aggregated
    <2>1. call.aggregated \in BOOLEAN /\ s.aggregated \in BOOLEAN
      BY <1>1 DEF CallType, TypeOK, WalkType
    <2>2. CASE Why = "aggregator"
      <3>1. call.aggregated
        BY <2>2 DEF Why
      <3>2. QED
        BY <2>1, <3>1
    <2>3. CASE Why # "aggregator"
      <3>1. call.code = "OK" /\ m.status \in {"INFEASIBLE", "UNBOUNDED"}
        BY <1>2, <2>3 DEF Why, IInv, Park_Inv
      <3>2. QED
        BY <3>1 DEF Failed
    <2>4. QED
      BY <2>2, <2>3
  <1>4. WhyAt(plan, Now) = Why
    BY <1>1, <1>2, <1>3, WhyOfNow
  <1>5. ~Final(plan, Now)
    BY <1>2, <1>4 DEF Final
  <1>6. /\ Now.pc = "decide" /\ Now.said = Said /\ Now.reduced = m.reduced
        /\ Now.start = StartOf(plan, m.start)
    BY <1>2, NowOf
  <1>7. After(plan, Now) = AfterDecide(plan, Now)
    BY <1>6, Zenon DEF After
  <1> DEFINE handed == /\ WhyAt(plan, Now) = "aggregator"
                       /\ Said.code = "OK" /\ plan.complete
             b == IF handed THEN "failed" ELSE Now.start
  <1>8. AfterDecide(plan, Now)
          = State("enter", 2, Why, Said.units, Said.count, b, m.reduced,
                  NoWalk, Unsaid)
    BY <1>4, <1>5, <1>6, Zenon DEF AfterDecide
  <1>9. handed <=> Handed
    BY <1>1, <1>2, <1>4, SaidOf DEF Handed
  <1>10. /\ call'.pass = 2 /\ call'.why = Why
         /\ call'.baseUnits = call.units /\ call'.baseIters = call.iters
         /\ m'.start = (IF Handed THEN "failed" ELSE m.start)
         /\ m'.reduced = m.reduced
    <2> HIDE DEF Handed
    <2>1. QED
      BY <1>1 DEF SecondPass, CallType, ModelType
  <1>11. StartOf(plan', m'.start) = b
    BY <1>2, <1>6, <1>9, <1>10 DEF StartOf
  <1>12. Said' = Unsaid
    BY <1>2 DEF Said
  <1>13. Said.units = call.units /\ Said.count = call.iters
    BY <1>1, <1>2, SaidOf
  <1> HIDE DEF b
  <1>14. Now' = State("enter", 2, Why, Said.units, Said.count, b, m.reduced,
                      NoWalk, Unsaid)
    BY <1>2, <1>10, <1>11, <1>12, <1>13 DEF Now
  <1>15. QED
    BY <1>5, <1>7, <1>8, <1>14

\* What the caller reads of a solve that ends here.
LEMMA NowGives ==
  ASSUME TypeOK, pc = "decide", ~s.astray, NEW mm, mm.status = m.status,
         call.pass = 1 => mm.work = m.work /\ mm.iters = m.iters,
         call.pass = 2 => /\ mm.work = m.work + call.baseUnits
                          /\ mm.iters = m.iters + call.baseIters
  PROVE  Gives(Now) = Read(mm)
  <1>1. /\ call \in CallType /\ plan \in PlanType /\ s \in WalkType
        /\ m \in ModelType
    BY DEF TypeOK
  <1>2. /\ Now.said = Said /\ Now.walk.from = s.from
        /\ Now.base = (IF call.pass = 1 THEN 0 ELSE call.baseUnits)
        /\ Now.count = (IF call.pass = 1 THEN 0 ELSE call.baseIters)
    BY <1>1, NowOf, PlainIsLike DEF Like
  <1>3. call.code = "OK" \/ call.code = "ERR"
    BY <1>1 DEF CallType
  <1>4. CASE call.code = "OK"
    <2>1. /\ Said.code = "OK" /\ Said.status = m.status
          /\ Said.work = m.work /\ Said.iters = m.iters
      BY <1>1, <1>4, SaidOf
    <2>2. /\ m.work + Now.base = mm.work /\ m.iters + Now.count = mm.iters
      <3>1. call.pass = 1 \/ call.pass = 2
        BY <1>1 DEF CallType
      <3>2. m.work \in Nat /\ m.iters \in Nat
        BY <1>1 DEF ModelType
      <3>3. QED
        BY <1>2, <3>1, <3>2
    <2>3. s.astray = FALSE
      BY <1>1 DEF WalkType
    <2>4. QED
      BY <1>2, <1>4, <2>1, <2>2, <2>3 DEF Gives, Read
  <1>5. CASE call.code = "ERR"
    <2>1. Said.code = "ERR"
      BY <1>1, <1>5, SaidOf
    <2>2. QED
      BY <1>2, <1>5, <2>1, Zenon DEF Gives, Read
  <1>6. QED
    BY <1>3, <1>4, <1>5

LEMMA Onward ==
  ASSUME Lead_Inv, Going, ~Final(plan, Now), Now' = After(plan, Now),
         plan' = plan, ref' = ref
  PROVE  Leads(plan', ref', Now')
  <1>1. Leads(plan, ref, Now)
    BY DEF Lead_Inv
  <1>2. QED
    BY <1>1, LeadsNext

-----------------------------------------------------------------------------
(* The steps of a solve keep it on its way.                                  *)

\* A settling round that goes on is done again from where it began.
LEMMA RewoundType ==
  ASSUME NEW w \in WalkType
  PROVE  Rewound(w) \in WalkType
  BY DEF Rewound, WalkType

LEMMA RewindForgets ==
  ASSUME NEW w \in WalkType, w.phase > 0
  PROVE  Rewound(Pivoted(w)) = Rewound(w)
  <1>1. Pivoted(w).phase = w.phase /\ w.phase # 0
    BY DEF Pivoted, WalkType
  <1> DEFINE v == Pivoted(w)
             x == [v EXCEPT !.at = 0, !.work = v.markWork,
                            !.iters = v.markIters]
             y == [w EXCEPT !.at = 0, !.work = w.markWork,
                            !.iters = w.markIters]
  <1>2. v.markWork = w.markWork /\ v.markIters = w.markIters
    BY DEF Pivoted, WalkType
  <1>3. x = y
    BY <1>2 DEF WalkType, Pivoted
  <1>4. QED
    BY <1>1, <1>3, Zenon DEF Rewound

LEMMA RewindsToSettling ==
  ASSUME NEW w \in WalkType
  PROVE  Rewound(Settles(w)) = Settles(w)
  <1> DEFINE v == Settles(w)
             x == [v EXCEPT !.at = 0, !.work = v.markWork,
                            !.iters = v.markIters]
  <1>1. /\ v.phase # 0 /\ v.at = 0 /\ v.work = v.markWork
        /\ v.iters = v.markIters
    BY DEF Settles, WalkType
  <1>5. v \in WalkType
    BY MovesType
  <1> HIDE DEF v
  <1>2. x \in WalkType
    BY <1>5 DEF WalkType
  <1>3. x = v
    BY <1>1, <1>2, <1>5 DEF WalkType
  <1>4. QED
    BY <1>1, <1>3, Zenon DEF Rewound, v

LEMMA RewindsPlain ==
  ASSUME NEW p \in PlanType, NEW w \in WalkType, w.phase > 0
  PROVE  Plain(p, Rewound(Pivoted(Uses(w)))) = Plain(p, Rewound(w))
  <1> DEFINE u == Uses(w)
             x == Plain(p, Rewound(w))
  <1>1. u \in WalkType /\ Rewound(w) \in WalkType
    BY UsesType, RewoundType
  <1>2. u.phase = w.phase
    BY DEF Uses, WalkType
  <1>3. x \in WalkType /\ Like(p, x, Rewound(w))
    BY <1>1, PlainType, PlainIsLike
  <1> DEFINE b == w.astray \/ w.held \notin {NoHold, <<w.phase, w.at>>}
             v == [w EXCEPT !.held = NoHold, !.astray = b]
  <1>4. u = v
    BY Zenon DEF Uses
  <1> HIDE DEF b, x
  <1>5. Like(p, x, Rewound(v))
    BY <1>3 DEF Like, Rewound, WalkType
  <1> HIDE DEF u, v
  <1>6. Rewound(Pivoted(u)) = Rewound(u) /\ Rewound(u) \in WalkType
    BY <1>1, <1>2, RewindForgets, RewoundType
  <1>7. x = Plain(p, Rewound(u))
    BY <1>3, <1>4, <1>5, <1>6, LikeIsPlain
  <1>8. QED
    BY <1>6, <1>7 DEF u, x

LEMMA RewindsOnce ==
  ASSUME NEW w \in WalkType
  PROVE  Rewound(Rewound(w)) = Rewound(w)
  <1>1. CASE w.phase = 0
    BY <1>1 DEF Rewound
  <1>2. CASE w.phase # 0
    <2> DEFINE v == [w EXCEPT !.at = 0, !.work = w.markWork,
                              !.iters = w.markIters]
               x == [v EXCEPT !.at = 0, !.work = v.markWork,
                              !.iters = v.markIters]
    <2>1. Rewound(w) = v
      BY <1>2, Zenon DEF Rewound
    <2>2. /\ v \in WalkType /\ v.phase # 0 /\ v.at = 0
          /\ v.work = v.markWork /\ v.iters = v.markIters
      BY <1>2 DEF WalkType
    <2> HIDE DEF v
    <2>3. x \in WalkType
      BY <2>2 DEF WalkType
    <2>4. x = v
      BY <2>2, <2>3 DEF WalkType
    <2>5. QED
      BY <2>1, <2>2, <2>4, Zenon DEF Rewound
  <1>3. QED
    BY <1>1, <1>2

LEMMA ExactOfWalk ==
  ASSUME IInv, Exact_Inv, Pivot \/ NextSettlingRound \/ AttemptEnds
  PROVE  Exact_Inv'
  <1> DEFINE u == Uses(s)
  <1>1. /\ plan \in PlanType /\ s \in WalkType /\ TypeOK
        /\ u \in WalkType
    BY UsesType DEF IInv, TypeOK
  <1>2. /\ pc = "walk" /\ plan' = plan /\ ref' = ref /\ m' = m
        /\ call' = call /\ limit' = limit /\ calls' = calls
        /\ intact' = intact /\ marks' = marks
    BY DEF Pivot, NextSettlingRound, AttemptEnds, InWalk, history
  <1>3. pc' = "walk" \/ pc' = "ladder"
    BY <1>2 DEF Pivot, NextSettlingRound, AttemptEnds, Goes
  <1>4. /\ u.held = NoHold /\ u.of = s.of /\ u.aggregated = s.aggregated
        /\ u.start = s.start /\ u.phase = s.phase
        /\ u.astray <=> s.astray \/ s.held \notin {NoHold, <<s.phase, s.at>>}
    BY <1>1 DEF Uses, WalkType
  <1> HIDE DEF u
  <1>5. /\ Pivot => s' = Pivoted(u)
        /\ NextSettlingRound => s' = Settles(u)
        /\ AttemptEnds => s' = Priced(u)
    BY <1>1, WalkMoves DEF u
  <1>6. /\ s'.held = u.held /\ s'.of = u.of /\ s'.aggregated = u.aggregated
        /\ s'.start = u.start /\ s'.astray = u.astray
    BY <1>1, <1>5 DEF Pivoted, Settles, Priced, WalkType
  <1>7. Call_Inv'
    BY <1>2, <1>3, <1>4, <1>6 DEF Exact_Inv, Call_Inv, Reference
  <1> SUFFICES ASSUME Good' PROVE Straight_Inv' /\ Stops_Inv' /\ Lead_Inv'
    BY <1>7 DEF Exact_Inv
  <1>8. Straight_Inv /\ Stops_Inv /\ Lead_Inv /\ ~m.isParked
    BY <1>2 DEF Good, Exact_Inv, IInv, Park_Inv
  <1>9. Straight_Inv'
    BY <1>2, <1>3, <1>4, <1>6, <1>8 DEF Straight_Inv, Straight, StoppedNow
  <1>10. Stops_Inv'
    BY <1>2, <1>3, <1>4, <1>6, <1>8 DEF Stops_Inv, StoppedNow
  <1>11. Leads(plan', ref', Now')
    <2>1. Now' = After(plan, Now)
      BY <1>1, WalkAsNow
    <2>2. ~Final(plan, Now)
      BY <1>2, NowOf DEF Final
    <2>3. QED
      BY <1>2, <1>8, <2>1, <2>2, Onward DEF Going
  <1>12. ASSUME pc' = "walk", call'.pass = 1, s'.phase > 0
         PROVE  Leads(plan', ref', GoneOn(plan', m'.reduced, Rewound(s'))) 
    <2>1. CASE Pivot
      <3>1. s' = Pivoted(u) /\ s.phase > 0
        BY <1>1, <1>4, <1>5, <1>12, <2>1 DEF Pivoted, WalkType
      <3>2. Plain(plan, Rewound(s')) = Plain(plan, Rewound(s))
        BY <1>1, <3>1, RewindsPlain DEF u
      <3>3. Leads(plan, ref, GoneOn(plan, m.reduced, Rewound(s)))
        BY <1>2, <1>8, <1>12, <3>1 DEF Lead_Inv
      <3>4. QED
        BY <1>2, <3>2, <3>3 DEF GoneOn
    <2>2. CASE NextSettlingRound
      <3>1. Rewound(s') = s'
        BY <1>1, <1>5, <2>2, RewindsToSettling
      <3>2. /\ call.pass = 1
            /\ StartOf(plan, m.start) = plan.start
        BY <1>2, <1>8, <1>12 DEF Stops_Inv
      <3>3. call.why = "first"
        BY <3>2 DEF IInv, Pass_Inv
      <3>4. Now' = GoneOn(plan', m'.reduced, s')
        BY <1>2, <1>12, <3>2, <3>3 DEF Now, GoneOn, Said
      <3>5. QED
        BY <1>11, <3>1, <3>4
    <2>3. QED
      BY <1>2, <1>12, <2>1, <2>2 DEF AttemptEnds, Goes
  <1>13. QED
    BY <1>2, <1>3, <1>8, <1>9, <1>10, <1>11, <1>12
       DEF Lead_Inv, Ended, AtRest, Reference

LEMMA ExactOfRung ==
  ASSUME IInv, Exact_Inv,
         \/ RestartWithoutEarlyPerturb \/ RestartCold
         \/ FallToDual \/ RestartLoanFree
  PROVE  Exact_Inv'
  <1>1. /\ plan \in PlanType /\ s \in WalkType /\ TypeOK /\ LadderKept(s)
    BY DEF IInv, TypeOK, Ladders_Inv
  <1>2. /\ pc = "ladder" /\ pc' = "walk" /\ plan' = plan /\ ref' = ref
        /\ m' = m /\ call' = call /\ limit' = limit /\ calls' = calls
        /\ intact' = intact
    BY DEF RestartWithoutEarlyPerturb, RestartCold, FallToDual,
           RestartLoanFree, TriesAgain, InLadder, FailsInRun, Goes
  <1>3. marks \subseteq marks'
    BY DEF RestartWithoutEarlyPerturb, RestartCold, FallToDual,
           RestartLoanFree
  <1>4. PICK w \in WalkType :
           /\ s' = StartsAttempt(w)
           /\ w.of = s.of /\ w.aggregated = s.aggregated
           /\ w.start = s.start /\ w.astray = s.astray
    <2>1. CASE RestartWithoutEarlyPerturb
      <3> DEFINE w == [Again EXCEPT !.allowEarly = FALSE]
      <3>1. w \in WalkType
        BY <1>1, <2>1, RungsPay DEF RestartWithoutEarlyPerturb
      <3>2. /\ w.of = s.of /\ w.aggregated = s.aggregated
            /\ w.start = s.start /\ w.astray = s.astray
        BY <1>1 DEF Again, WalkType
      <3>3. s' = StartsAttempt(w)
        BY <2>1, Zenon DEF RestartWithoutEarlyPerturb, TriesAgain
      <3> HIDE DEF w
      <3>4. QED
        BY <3>1, <3>2, <3>3
    <2>2. CASE RestartCold
      <3> DEFINE w == [Again EXCEPT !.allowWarm = FALSE]
      <3>1. w \in WalkType
        BY <1>1, <2>2, RungsPay DEF RestartCold
      <3>2. /\ w.of = s.of /\ w.aggregated = s.aggregated
            /\ w.start = s.start /\ w.astray = s.astray
        BY <1>1 DEF Again, WalkType
      <3>3. s' = StartsAttempt(w)
        BY <2>2, Zenon DEF RestartCold, TriesAgain
      <3> HIDE DEF w
      <3>4. QED
        BY <3>1, <3>2, <3>3
    <2>3. CASE FallToDual
      <3> DEFINE w == [s EXCEPT !.primal = FALSE, !.allowWarm = FALSE]
      <3>1. w \in WalkType
        BY <1>1, <2>3, RungsPay DEF FallToDual
      <3>2. /\ w.of = s.of /\ w.aggregated = s.aggregated
            /\ w.start = s.start /\ w.astray = s.astray
        BY <1>1 DEF WalkType
      <3>3. s' = StartsAttempt(w)
        BY <2>3, Zenon DEF FallToDual, TriesAgain
      <3> HIDE DEF w
      <3>4. QED
        BY <3>1, <3>2, <3>3
    <2>4. CASE RestartLoanFree
      <3> DEFINE w == [Again EXCEPT !.primal = TRUE, !.allowWarm = FALSE,
                                    !.allowLoan = FALSE]
      <3>1. w \in WalkType
        BY <1>1, <2>4, RungsPay DEF RestartLoanFree
      <3>2. /\ w.of = s.of /\ w.aggregated = s.aggregated
            /\ w.start = s.start /\ w.astray = s.astray
        BY <1>1 DEF Again, WalkType
      <3>3. s' = StartsAttempt(w)
        BY <2>4, Zenon DEF RestartLoanFree, TriesAgain
      <3> HIDE DEF w
      <3>4. QED
        BY <3>1, <3>2, <3>3
    <2>5. QED
      BY <2>1, <2>2, <2>3, <2>4
  <1>5. /\ s'.of = s.of /\ s'.aggregated = s.aggregated
        /\ s'.start = s.start /\ s'.astray = s.astray
        /\ s'.held = NoHold /\ s'.phase = 0
    BY <1>4 DEF StartsAttempt, WalkType
  <1>6. Call_Inv'
    BY <1>2, <1>5 DEF Exact_Inv, Call_Inv, Reference
  <1> SUFFICES ASSUME Good' PROVE Straight_Inv' /\ Stops_Inv' /\ Lead_Inv'
    BY <1>6 DEF Exact_Inv
  <1>7. Straight_Inv /\ Stops_Inv /\ Lead_Inv /\ ~m.isParked /\ marks' = {}
    BY <1>2, <1>3 DEF Good, Exact_Inv, IInv, Park_Inv
  <1>8. Straight_Inv'
    BY <1>2, <1>5, <1>7 DEF Straight_Inv, Straight
  <1>9. Stops_Inv'
    BY <1>2, <1>5, <1>7 DEF Stops_Inv
  <1>10. Leads(plan', ref', Now')
    <2>1. Now' = After(plan, Now)
      BY <1>7, RungAsNow
    <2>2. ~Final(plan, Now)
      BY <1>2, NowOf DEF Final
    <2>3. QED
      BY <1>2, <1>7, <2>1, <2>2, Onward DEF Going
  <1>11. QED
    BY <1>2, <1>5, <1>7, <1>8, <1>9, <1>10
       DEF Lead_Inv, Ended, AtRest, Reference

LEMMA ExactOfEnter ==
  ASSUME IInv, Exact_Inv, FreshWalk \/ PresolveAnswers
  PROVE  Exact_Inv'
  <1>1. /\ plan \in PlanType /\ m \in ModelType /\ call \in CallType
    BY DEF IInv, TypeOK
  <1>2. /\ pc = "enter" /\ ~m.isParked /\ plan' = plan /\ ref' = ref
        /\ limit' = limit /\ calls' = calls
        /\ intact' = intact /\ marks' = marks
    BY DEF FreshWalk, PresolveAnswers, history
  <1>3. /\ call.units = 0 /\ call.iters = 0 /\ ~call.aggregated
    BY <1>2 DEF Exact_Inv, Call_Inv
  <1>4. CASE FreshWalk
    <2> DEFINE a == Aggregates
               n == IF Presolves \/ a THEN plan.pre ELSE 0
               w == [NoWalk EXCEPT !.of = call.pass, !.primal = plan.primal,
                                   !.start = m.start, !.version = m.version,
                                   !.aggregated = a, !.work = n]
    <2>1. /\ s' = StartsAttempt(w) /\ pc' = "walk"
          /\ m' = [m EXCEPT !.iters = 0, !.reduced = Outcome = "REDUCED" \/ a]
          /\ call' = [call EXCEPT !.aggregated = a]
      BY <1>4, Zenon DEF FreshWalk, Goes
    <2> DEFINE r == Outcome = "REDUCED" \/ a
    <2> HIDE DEF a, n, r
    <2>2. /\ s'.of = call.pass /\ s'.aggregated = a /\ s'.start = m.start
          /\ s'.astray = FALSE /\ s'.held = NoHold /\ s'.phase = 0
      BY <2>1 DEF StartsAttempt, NoWalk
    <2>3. m' = [m EXCEPT !.iters = 0, !.reduced = r]
      BY <2>1, Zenon DEF r
    <2>4. /\ m'.start = m.start /\ m'.isParked = m.isParked
          /\ m'.status = m.status
      BY <1>1, <2>3 DEF ModelType
    <2>5. /\ call'.pass = call.pass /\ call'.aggregated = a
          /\ call'.byPresolve = call.byPresolve /\ call'.code = call.code
      BY <1>1, <2>1 DEF CallType
    <2>6. Call_Inv'
      BY <1>2, <2>1, <2>2, <2>4, <2>5 DEF Exact_Inv, Call_Inv, Reference
    <2> SUFFICES ASSUME Good' PROVE Straight_Inv' /\ Stops_Inv' /\ Lead_Inv'
      BY <2>6 DEF Exact_Inv
    <2>7. Straight_Inv /\ Stops_Inv /\ Lead_Inv
      BY <1>2 DEF Good, Exact_Inv
    <2>8. m.start # "stop"
      BY <1>2, <2>7 DEF Stops_Inv
    <2>9. Straight_Inv'
      BY <1>2, <2>1, <2>2, <2>4, <2>5, <2>7 DEF Straight_Inv, Straight
    <2>10. Stops_Inv'
      BY <1>2, <2>1, <2>2, <2>4, <2>5, <2>7, <2>8 DEF Stops_Inv
    <2>11. Leads(plan', ref', Now')
      <3>1. Now' = After(plan, Now)
        BY <1>3, <1>4, <2>8, EnterAsNow
      <3>2. ~Final(plan, Now)
        BY <1>2, NowOf DEF Final
      <3>3. QED
        BY <1>2, <2>7, <3>1, <3>2, Onward DEF Going
    <2>12. QED
      BY <1>2, <2>1, <2>2, <2>4, <2>7, <2>9, <2>10, <2>11
         DEF Lead_Inv, Ended, AtRest, Reference
  <1>5. CASE PresolveAnswers
    <2> DEFINE st == IF Outcome = "SOLVED" THEN "OPTIMAL" ELSE Outcome
               ok == Outcome = "SOLVED" \/ plan.certified
               b == IF Outcome = "SOLVED" THEN "answer" ELSE m.start
               y == Outcome # "SOLVED"
    <2>1. /\ m' = [m EXCEPT !.status = st, !.sure = ok, !.work = plan.pre,
                            !.iters = 0, !.reduced = TRUE, !.start = b]
          /\ s' = NoWalk /\ call' = [call EXCEPT !.byPresolve = y]
          /\ pc' = "decide"
      BY <1>5, Zenon DEF PresolveAnswers, Goes
    <2>2. m.start # "stop" => b # "stop"
      OBVIOUS
    <2>3. st \notin Stopped
      BY <1>5 DEF PresolveAnswers, Stopped
    <2> HIDE DEF st, ok, b, y
    <2>4. m'.start = b /\ m'.isParked = m.isParked /\ m'.status = st
      BY <1>1, <2>1 DEF ModelType
    <2>5. /\ call'.aggregated = call.aggregated /\ call'.pass = call.pass
      BY <1>1, <2>1 DEF CallType
    <2>6. s'.astray = FALSE
      BY <2>1 DEF NoWalk
    <2>7. Call_Inv'
      BY <1>2, <1>3, <2>1, <2>4, <2>5 DEF Exact_Inv, Call_Inv, Reference
    <2> SUFFICES ASSUME Good' PROVE Straight_Inv' /\ Stops_Inv' /\ Lead_Inv'
      BY <2>7 DEF Exact_Inv
    <2>8. Straight_Inv /\ Stops_Inv /\ Lead_Inv
      BY <1>2 DEF Good, Exact_Inv
    <2>9. m.start # "stop"
      BY <1>2, <2>8 DEF Stops_Inv
    <2>10. Straight_Inv'
      BY <1>2, <2>1, <2>4, <2>6 DEF Straight_Inv
    <2>11. Stops_Inv'
      BY <1>2, <2>1, <2>2, <2>4, <2>9 DEF Stops_Inv
    <2>12. Leads(plan', ref', Now')
      <3>1. Now' = After(plan, Now)
        BY <1>3, <1>5, <2>9, EnterAsNow
      <3>2. ~Final(plan, Now)
        BY <1>2, NowOf DEF Final
      <3>3. QED
        BY <1>2, <2>8, <3>1, <3>2, Onward DEF Going
    <2>13. QED
      BY <1>2, <2>1, <2>4, <2>8, <2>10, <2>11, <2>12
         DEF Lead_Inv, Ended, AtRest, Reference
  <1>6. QED
    BY <1>4, <1>5

LEMMA ExactOfResume ==
  ASSUME IInv, Exact_Inv, Resume
  PROVE  Exact_Inv'
  <1> DEFINE w == Rewound(m.parked)
  <1>1. /\ plan \in PlanType /\ m \in ModelType /\ call \in CallType
        /\ m.parked \in WalkType /\ w \in WalkType
    BY RewoundType DEF IInv, TypeOK, ModelType
  <1>2. /\ pc = "enter" /\ pc' = "walk" /\ m.isParked /\ plan' = plan
        /\ ref' = ref /\ limit' = limit /\ calls' = calls /\ call' = call
        /\ intact' = intact /\ marks' = marks
        /\ s' = w /\ m' = [m EXCEPT !.parked = NoWalk, !.isParked = FALSE]
    BY Zenon DEF Resume, Resumes, Goes, history, Rewound
  <1>3. /\ ~m'.isParked /\ m'.start = m.start /\ m'.reduced = m.reduced
    BY <1>1, <1>2 DEF ModelType
  <1>4. call.pass = 1 /\ call.why = "first"
    <2>1. call.pass = 1
      BY <1>1, <1>2 DEF IInv, Park_Inv, CallType
    <2>2. QED
      BY <2>1 DEF IInv, Pass_Inv
  <1>5. /\ s'.of = m.parked.of /\ s'.start = m.parked.start
        /\ s'.astray = m.parked.astray /\ s'.held = m.parked.held
        /\ s'.phase = m.parked.phase
        /\ m.parked.phase = 0 => s'.at = m.parked.at
    BY <1>1, <1>2 DEF Rewound, WalkType
  <1> HIDE DEF w
  <1>6. Call_Inv'
    BY <1>2, <1>3 DEF Exact_Inv, Call_Inv, Reference
  <1> SUFFICES ASSUME Good' PROVE Straight_Inv' /\ Stops_Inv' /\ Lead_Inv'
    BY <1>6 DEF Exact_Inv
  <1>7. Straight_Inv /\ Stops_Inv /\ Lead_Inv
    BY <1>2 DEF Good, Exact_Inv
  <1>8. Straight_Inv'
    BY <1>2, <1>3, <1>4, <1>5, <1>7 DEF Straight_Inv, Straight
  <1>9. m.start = "stop" /\ s'.start = "stop" /\ ~call.aggregated
    BY <1>2, <1>5, <1>7 DEF Stops_Inv, Straight_Inv, Exact_Inv, Call_Inv
  <1>10. Stops_Inv'
    BY <1>2, <1>3, <1>9 DEF Stops_Inv, StartOf
  <1>11. Leads(plan', ref', GoneOn(plan', m'.reduced, s'))
    BY <1>2, <1>3, <1>7 DEF Lead_Inv, w
  <1>12. Now' = GoneOn(plan', m'.reduced, s')
    BY <1>2, <1>3, <1>4, <1>9 DEF Now, GoneOn, Said, StartOf
  <1>13. Rewound(s') = s'
    BY <1>1, <1>2, RewindsOnce DEF w
  <1>14. QED
    BY <1>2, <1>3, <1>7, <1>8, <1>10, <1>11, <1>12, <1>13
       DEF Lead_Inv, Ended, AtRest, Reference

LEMMA ExactOfStop ==
  ASSUME IInv, Exact_Inv, NEW v \in Stopped, Stop(v)
  PROVE  Exact_Inv'
  <1> DEFINE h == IF Holds(v) THEN <<s.phase, s.at>> ELSE s.held
             w == [s EXCEPT !.start = "stop", !.held = h]
  <1>1. /\ plan \in PlanType /\ m \in ModelType /\ call \in CallType
        /\ s \in WalkType /\ TypeOK
    BY DEF IInv, TypeOK
  <1>2. /\ pc = "walk" /\ pc' = "decide" /\ MayStop(v) /\ plan' = plan
        /\ ref' = ref /\ limit' = limit /\ calls' = calls /\ s' = s
        /\ intact' = intact
        /\ m' = [m EXCEPT !.status = v, !.work = s.work, !.iters = s.iters,
                          !.start = "stop", !.sure = TRUE, !.isParked = TRUE,
                          !.parked = w]
        /\ call' = [call EXCEPT !.units = s.work, !.iters = s.iters]
        /\ marks' = (marks \cup (IF s.of = 2 THEN {"second"} ELSE {}))
             \cup (IF s.phase > 0 /\ Holds(v) THEN {"settling"} ELSE {})
    BY Zenon DEF Stop, StopsAs, Goes, InWalk
  <1>3. h = NoHold \/ h \in Nat \X Nat
    BY <1>1 DEF WalkType
  <1>4. h = s.held \/ (Holds(v) /\ h = <<s.phase, s.at>>)
    OBVIOUS
  <1> HIDE DEF h
  <1>5. /\ w \in WalkType /\ w.start = "stop" /\ w.held = h
        /\ w.of = s.of /\ w.astray = s.astray /\ w.phase = s.phase
        /\ w.at = s.at
    BY <1>1, <1>3 DEF WalkType, Starts
  <1>6. /\ m'.status = v /\ m'.start = "stop" /\ m'.isParked = TRUE
        /\ m'.parked = w /\ m'.reduced = m.reduced
    BY <1>1, <1>2 DEF ModelType
  <1>7. /\ call'.code = "OK" /\ call'.pass = call.pass
        /\ call'.aggregated = call.aggregated
    BY <1>1, <1>2 DEF CallType, IInv, Park_Inv
  <1>8. ~Reference
    <2> SUFFICES ASSUME Reference PROVE FALSE
      OBVIOUS
    <2>1. limit = 0
      BY <1>2 DEF Exact_Inv, Call_Inv
    <2>2. QED
      BY <1>2, <2>1 DEF MayStop, LimitReached, Stopped
  <1>9. Call_Inv'
    BY <1>2, <1>7, <1>8 DEF Exact_Inv, Call_Inv, Reference
  <1> SUFFICES ASSUME Good' PROVE Straight_Inv' /\ Stops_Inv' /\ Lead_Inv'
    BY <1>9 DEF Exact_Inv
  <1>10. /\ marks = {} /\ s.of # 2 /\ ~(s.phase > 0 /\ Holds(v))
    <2>1. marks' = {}
      BY DEF Good
    <2> HIDE DEF Holds
    <2>2. QED
      BY <1>2, <2>1
  <1>11. Straight_Inv /\ Stops_Inv /\ Lead_Inv
    BY <1>2, <1>10 DEF Good, Exact_Inv
  <1>12. Straight(s) /\ s.of = 1 /\ call.pass = 1
    BY <1>1, <1>2, <1>10, <1>11 DEF Straight_Inv, WalkType
  <1>13. Straight(w)
    <2>1. s.phase > 0 \/ s.phase = 0
      BY <1>1 DEF WalkType
    <2>2. QED
      BY <1>4, <1>5, <1>10, <1>12, <2>1 DEF Straight
  <1>14. StoppedNow'
    BY <1>2, <1>6, <1>7 DEF StoppedNow
  <1>15. Straight_Inv'
    BY <1>2, <1>5, <1>6, <1>12, <1>13, <1>14 DEF Straight_Inv, Straight
  <1>16. Stops_Inv'
    BY <1>2, <1>6, <1>14 DEF Stops_Inv
  <1>17. StartOf(plan, s.start) = plan.start
         /\ StartOf(plan, m.start) = plan.start
    BY <1>2, <1>11, <1>12 DEF Stops_Inv
  <1>18. Plain(plan, Rewound(w)) = Plain(plan, Rewound(s))
    <2> DEFINE x == Plain(plan, Rewound(s))
    <2>1. Rewound(s) \in WalkType /\ Rewound(w) \in WalkType
      BY <1>1, <1>5, RewoundType
    <2>2. x \in WalkType /\ Like(plan, x, Rewound(s))
      BY <1>1, <2>1, PlainType, PlainIsLike
    <2>3. StartOf(plan, "stop") = plan.start
      BY DEF StartOf
    <2> HIDE DEF x
    <2>4. Like(plan, x, Rewound(w))
      BY <1>1, <1>17, <2>2, <2>3 DEF Like, Rewound, WalkType
    <2> HIDE DEF w
    <2>5. QED
      BY <1>1, <2>1, <2>2, <2>4, LikeIsPlain DEF x
  <1>19. Leads(plan, ref, GoneOn(plan, m.reduced, Rewound(s)))
    <2>1. CASE s.phase = 0
      <3>1. Rewound(s) = s
        BY <2>1 DEF Rewound
      <3>2. call.why = "first"
        BY <1>12 DEF IInv, Pass_Inv
      <3>3. Now = GoneOn(plan, m.reduced, s)
        BY <1>2, <1>12, <1>17, <3>2 DEF Now, GoneOn, Said
      <3>4. QED
        BY <1>2, <1>11, <3>1, <3>3 DEF Lead_Inv, Going
    <2>2. CASE s.phase # 0
      <3>1. s.phase > 0
        BY <1>1, <2>2 DEF WalkType
      <3>2. QED
        BY <1>2, <1>11, <1>12, <3>1 DEF Lead_Inv
    <2>3. QED
      BY <2>1, <2>2
  <1>20. Leads(plan', ref', GoneOn(plan', m'.reduced, Rewound(m'.parked)))
    BY <1>2, <1>6, <1>18, <1>19 DEF GoneOn
  <1>21. QED
    BY <1>2, <1>11, <1>14, <1>15, <1>16, <1>20
       DEF Lead_Inv, Ended, AtRest, Reference, Going

LEMMA ExactOfLadder ==
  ASSUME IInv, Exact_Inv, Abandon \/ Publish
  PROVE  Exact_Inv'
  <1>1. /\ m \in ModelType /\ call \in CallType
    BY DEF IInv, TypeOK
  <1>2. /\ pc = "ladder" /\ pc' = "decide" /\ plan' = plan /\ ref' = ref
        /\ limit' = limit /\ calls' = calls /\ s' = s
        /\ intact' = intact /\ marks' = marks
    BY DEF Abandon, Publish, InLadder, Goes, history
  <1>3. /\ ~m.isParked /\ call.code = "OK" /\ ~call.byPresolve
    BY <1>2 DEF IInv, Park_Inv
  <1>4. /\ m'.isParked = m.isParked
        /\ call'.aggregated = call.aggregated /\ call'.pass = call.pass
        /\ call'.byPresolve = call.byPresolve
        /\ \/ call'.code = "ERR" /\ m'.start = m.start
           \/ /\ call'.code = "OK" /\ m'.status = "NUMERICAL_ERROR"
              /\ m'.start = m.start
           \/ /\ call'.code = "OK" /\ m'.status \notin Stopped
              /\ m'.start = "answer"
    <2>1. CASE Abandon
      BY <1>1, <2>1 DEF Abandon, ModelType, CallType
    <2>2. CASE Publish
      <3> DEFINE v == Verdict
                 b == IF v = "NUMERICAL_ERROR" THEN m.start ELSE "answer"
      <3>1. /\ m' = [m EXCEPT !.status = v, !.work = s.work,
                              !.iters = s.iters, !.sure = TRUE, !.start = b]
            /\ call' = [call EXCEPT !.units = s.work, !.iters = s.iters]
        BY <2>2, Zenon DEF Publish
      <3>2. v \notin Stopped
        BY DEF Verdict, Verdicts, Stopped
      <3>3. (b = m.start /\ v = "NUMERICAL_ERROR") \/ b = "answer"
        OBVIOUS
      <3> HIDE DEF v, b
      <3>4. /\ m'.isParked = m.isParked /\ m'.status = v /\ m'.start = b
        BY <1>1, <3>1 DEF ModelType
      <3>5. /\ call'.aggregated = call.aggregated /\ call'.pass = call.pass
            /\ call'.byPresolve = call.byPresolve /\ call'.code = call.code
        BY <1>1, <3>1 DEF CallType
      <3>6. QED
        BY <1>3, <3>2, <3>3, <3>4, <3>5
    <2>3. QED
      BY <2>1, <2>2
  <1>5. Call_Inv'
    BY <1>2, <1>4 DEF Exact_Inv, Call_Inv, Reference
  <1> SUFFICES ASSUME Good' PROVE Straight_Inv' /\ Stops_Inv' /\ Lead_Inv'
    BY <1>5 DEF Exact_Inv
  <1>6. Straight_Inv /\ Stops_Inv /\ Lead_Inv
    BY <1>2 DEF Good, Exact_Inv
  <1>7. Straight_Inv'
    BY <1>2, <1>3, <1>4, <1>6 DEF Straight_Inv, Straight
  <1>8. Stops_Inv'
    BY <1>2, <1>3, <1>4, <1>6 DEF Stops_Inv
  <1>9. Leads(plan', ref', Now')
    <2>1. Now' = After(plan, Now)
      BY EndsAsNow
    <2>2. ~Final(plan, Now)
      BY <1>2, NowOf DEF Final
    <2>3. QED
      BY <1>2, <1>6, <2>1, <2>2, Onward DEF Going
  <1>10. QED
    BY <1>2, <1>3, <1>4, <1>6, <1>7, <1>8, <1>9
       DEF Lead_Inv, Ended, AtRest, Reference

LEMMA ExactOfSecond ==
  ASSUME IInv, Bill_Inv, Exact_Inv, SecondPass
  PROVE  Exact_Inv'
  <1>1. /\ m \in ModelType /\ call \in CallType
    BY DEF IInv, TypeOK
  <1>2. /\ pc = "decide" /\ pc' = "enter" /\ Why # "none" /\ plan' = plan
        /\ ref' = ref /\ calls' = calls /\ s' = s
        /\ intact' = intact /\ marks' = marks
    BY DEF SecondPass, Deciding, Goes, history
  <1>3. /\ call'.pass = 2 /\ ~call'.aggregated
        /\ call'.units = 0 /\ call'.iters = 0
        /\ m'.start = (IF Handed THEN "failed" ELSE m.start)
        /\ m'.isParked = m.isParked
    <2> HIDE DEF Handed
    <2>1. QED
      BY <1>1 DEF SecondPass, CallType, ModelType
  <1>4. ~m.isParked
    BY <1>1, <1>2 DEF IInv, Park_Inv, Why, Failed, Stopped, CallType
  <1>5. Call_Inv'
    <2>1. call.pass = 1 /\ call \in CallType
      BY <1>1 DEF SecondPass, Deciding
    <2>2. Reference => limit' = 0
      BY <1>2, <2>1 DEF SecondPass, Exact_Inv, Call_Inv, Bill_Inv
    <2>3. QED
      BY <1>2, <1>3, <2>2 DEF Exact_Inv, Call_Inv, Reference
  <1> SUFFICES ASSUME Good' PROVE Straight_Inv' /\ Stops_Inv' /\ Lead_Inv'
    BY <1>5 DEF Exact_Inv
  <1>6. Straight_Inv /\ Stops_Inv /\ Lead_Inv
    BY <1>2 DEF Good, Exact_Inv
  <1>7. ~StoppedNow
    BY <1>2, <1>4 DEF StoppedNow, IInv, Park_Inv
  <1>8. Straight_Inv'
    BY <1>2, <1>3, <1>4 DEF Straight_Inv
  <1>9. m.start # "stop"
    BY <1>1, <1>2, <1>6, <1>7 DEF Stops_Inv, Why, Failed, CallType
  <1>10. Stops_Inv'
    BY <1>2, <1>3, <1>4, <1>9 DEF Stops_Inv
  <1>11. Leads(plan', ref', Now')
    <2>1. Now' = After(plan, Now) /\ ~Final(plan, Now)
      BY <1>2, SecondAsNow DEF Exact_Inv, Call_Inv
    <2>2. QED
      BY <1>2, <1>6, <1>7, <2>1, Onward DEF Going
  <1>12. QED
    BY <1>2, <1>3, <1>4, <1>6, <1>8, <1>10, <1>11
       DEF Lead_Inv, Ended, AtRest, Reference

LEMMA FreshOf ==
  ASSUME NEW p
  PROVE  ~Fresh(p).isParked /\ Fresh(p).start = p.start
         /\ Fresh(p).status = "NOT_RUN"
  BY DEF Fresh

\* A call ends: what it read is what the reference read.
LEMMA ExactOfReturn ==
  ASSUME IInv, Exact_Inv, NEW mm, Returns(mm), pc = "decide",
         marks \subseteq marks',
         mm.status = m.status, mm.isParked = m.isParked,
         mm.parked = m.parked, mm.reduced = m.reduced,
         mm.isParked => mm.start = m.start,
         marks' = {} /\ ~StoppedNow /\ ~s.astray => Gives(Now) = Read(mm),
         marks' = {} /\ ~StoppedNow => Final(plan, Now)
  PROVE  Exact_Inv'
  <1>1. /\ pc' = "idle" /\ plan' = plan /\ call' = call /\ s' = s
        /\ calls' = calls /\ limit' = limit /\ intact' = intact
    BY DEF Returns, Goes
  <1>2. call \in CallType
    BY DEF IInv, TypeOK
  <1>3. CASE Reference
    <2>1. /\ m' = Fresh(plan) /\ ref' = Read(mm) /\ calls = 0
          /\ ~m.isParked
      BY <1>3 DEF Returns, Exact_Inv, Call_Inv
    <2>2. Read(mm) # NoOutcome
      BY <1>2 DEF Read, NoOutcome, CallType
    <2>3. ~m'.isParked
      BY <2>1, FreshOf
    <2>4. Call_Inv'
      BY <1>1, <2>1, <2>2 DEF Call_Inv, Reference
    <2> SUFFICES ASSUME Good' PROVE Straight_Inv' /\ Stops_Inv' /\ Lead_Inv'
      BY <2>4 DEF Exact_Inv
    <2>5. Straight_Inv /\ Stops_Inv /\ Lead_Inv /\ marks' = {}
      BY <1>1 DEF Good, Exact_Inv
    <2>6. Straight_Inv' /\ Stops_Inv'
      BY <1>1, <2>3 DEF Straight_Inv, Stops_Inv
    <2>7. ~StoppedNow
      BY <2>1 DEF StoppedNow, IInv, Park_Inv
    <2>8. /\ Leads(plan, NoOutcome, Now) /\ Final(plan, Now)
          /\ Gives(Now) = Read(mm)
      BY <1>3, <2>5, <2>7 DEF Lead_Inv, Straight_Inv, Going, Reference
    <2>9. Leads(plan, Gives(Now), First(plan))
      BY <2>2, <2>8, FirstLeads
    <2>10. Leads(plan', ref', First(plan'))
      BY <1>1, <2>1, <2>8, <2>9
    <2>11. QED
      BY <1>1, <2>1, <2>3, <2>6, <2>10
         DEF Lead_Inv, Ended, AtRest, Going
  <1>4. CASE ~Reference
    <2>1. m' = mm /\ ref' = ref
      BY <1>4 DEF Returns
    <2>2. calls > 0
      BY <1>4 DEF Exact_Inv, Call_Inv
    <2>3. Call_Inv'
      BY <1>1, <1>4, <2>1 DEF Call_Inv, Reference
    <2> SUFFICES ASSUME Good' PROVE Straight_Inv' /\ Stops_Inv' /\ Lead_Inv'
      BY <2>3 DEF Exact_Inv
    <2>4. Straight_Inv /\ Stops_Inv /\ Lead_Inv /\ marks' = {}
      BY <1>1 DEF Good, Exact_Inv
    <2>5. Straight_Inv' /\ Stops_Inv'
      BY <1>1, <2>1, <2>4 DEF Straight_Inv, Stops_Inv
    <2>6. Ended' => Read(m)' = ref'
      <3> SUFFICES ASSUME Ended' PROVE Read(mm) = ref
        BY <1>1, <2>1 DEF Read
      <3>1. ~StoppedNow
        BY <1>1, <2>1 DEF Ended, StoppedNow
      <3>2. Leads(plan, ref, Now) /\ Final(plan, Now)
        BY <2>4, <3>1 DEF Lead_Inv, Going
      <3>3. Gives(Now) = ref
        BY <1>4, <3>2, LeadsToFinal DEF Reference
      <3>4. QED
        BY <2>4, <3>1, <3>3 DEF Straight_Inv
    <2>7. QED
      BY <1>1, <2>1, <2>2, <2>4, <2>5, <2>6, <1>4
         DEF Lead_Inv, Going, Reference
  <1>5. QED
    BY <1>3, <1>4

LEMMA ExactOfEnd ==
  ASSUME IInv, Exact_Inv, NoBudget \/ OnePass \/ TwoPasses
  PROVE  Exact_Inv'
  <1>1. /\ m \in ModelType /\ call \in CallType /\ s \in WalkType /\ TypeOK
    BY DEF IInv, TypeOK
  <1>2. CASE NoBudget
    <2>1. /\ pc = "decide" /\ Returns(m) /\ marks' = marks \cup {"budget"}
      BY <1>2 DEF NoBudget, Deciding
    <2>2. marks \subseteq marks' /\ marks' # {}
      BY <2>1
    <2>3. QED
      BY <2>1, <2>2, ExactOfReturn
  <1>3. CASE OnePass
    <2>1. /\ pc = "decide" /\ call.pass = 1 /\ Returns(m) /\ Why = "none"
          /\ marks \subseteq marks'
          /\ marks' = {} => ~(Failed /\ s.aggregated)
      BY <1>3 DEF OnePass, Deciding
    <2>2. ~s.astray => Gives(Now) = Read(m)
      BY <1>1, <2>1, NowGives
    <2>3. marks' = {} => Final(plan, Now)
      <3> SUFFICES ASSUME marks' = {} PROVE Final(plan, Now)
        OBVIOUS
      <3>1. Failed => call.aggregated = s.aggregated
        BY <1>1, <2>1 DEF Exact_Inv, Call_Inv, CallType, WalkType
      <3>2. WhyAt(plan, Now) = "none"
        BY <1>1, <2>1, <3>1, WhyOfNow
      <3>3. QED
        BY <2>1, <3>2, NowOf DEF Final
    <2>4. QED
      BY <2>1, <2>2, <2>3, ExactOfReturn
  <1>4. CASE TwoPasses
    <2> DEFINE b == IF call.handed /\ Failed THEN call.kept ELSE m.start
               mm == [m EXCEPT !.work = m.work + call.baseUnits,
                               !.iters = m.iters + call.baseIters,
                               !.start = b]
    <2>1. /\ pc = "decide" /\ call.pass = 2 /\ Returns(mm)
          /\ marks' = marks
      BY <1>4, Zenon DEF TwoPasses, SumsPasses
    <2>2. m.isParked => b = m.start
      BY <1>1, <2>1 DEF IInv, Park_Inv, Failed, Stopped, CallType
    <2> HIDE DEF b
    <2>3. /\ mm.isParked = m.isParked /\ mm.status = m.status
          /\ mm.reduced = m.reduced /\ mm.parked = m.parked /\ mm.start = b
          /\ mm.work = m.work + call.baseUnits
          /\ mm.iters = m.iters + call.baseIters
      BY <1>1 DEF ModelType
    <2> HIDE DEF mm
    <2>4. ~s.astray => Gives(Now) = Read(mm)
      BY <1>1, <2>1, <2>3, NowGives
    <2>5. Final(plan, Now)
      BY <2>1, NowOf DEF Final, WhyAt
    <2>6. QED
      BY <2>1, <2>2, <2>3, <2>4, <2>5, ExactOfReturn
  <1>5. QED
    BY <1>2, <1>3, <1>4

\* Between two calls: a walk is gone on with only when it is left as it was,
\* and the first call starts where the reference did.
LEMMA ExactOfCaller ==
  ASSUME IInv, Exact_Inv, Caller
  PROVE  Exact_Inv'
  <1>1. /\ m \in ModelType /\ call \in CallType /\ plan \in PlanType
    BY DEF IInv, TypeOK
  <1>2. ASSUME NEW l \in Limits \cup {0}, Solve(l)
        PROVE  Exact_Inv'
    <2> DEFINE f == IF m.isParked THEN m.work ELSE 0
               g == intact /\ (calls = 0 \/ m.isParked)
    <2>1. /\ pc = "idle" /\ pc' = "enter" /\ plan' = plan /\ ref' = ref
          /\ m' = m /\ s' = s /\ marks' = marks /\ limit' = l
          /\ call' = [NoCall EXCEPT !.user = l, !.had = m.start,
                                    !.before = f]
          /\ intact' = g
          /\ Reference => l = 0 /\ calls' = calls + 0
          /\ ~Reference => calls' = calls + 1
      BY <1>2, Zenon DEF Solve, Goes
    <2> HIDE DEF f
    <2>2. /\ call'.pass = 1 /\ call'.why = "first" /\ ~call'.aggregated
          /\ call'.units = 0 /\ call'.iters = 0 /\ call'.code = "OK"
      BY <2>1 DEF NoCall
    <2>3. calls \in Nat
      BY LifecycleAssumption DEF IInv, TypeOK
    <2>4. Call_Inv'
      BY <2>1, <2>2, <2>3 DEF Exact_Inv, Call_Inv, Reference
    <2> SUFFICES ASSUME Good' PROVE Straight_Inv' /\ Stops_Inv' /\ Lead_Inv'
      BY <2>4 DEF Exact_Inv
    <2>5. /\ Straight_Inv /\ Stops_Inv /\ Lead_Inv
          /\ calls = 0 \/ m.isParked
      BY <2>1 DEF Good, Exact_Inv
    <2> HIDE DEF g
    <2>6. Straight_Inv'
      BY <2>1, <2>5 DEF Straight_Inv
    <2>7. CASE m.isParked
      <3>1. m.start = "stop"
        BY <2>5, <2>7 DEF Stops_Inv
      <3>2. Stops_Inv'
        BY <2>1, <2>7, <3>1 DEF Stops_Inv, StartOf
      <3>3. Lead_Inv'
        BY <2>1, <2>5, <2>7
           DEF Lead_Inv, Going, Ended, AtRest, Reference
      <3>4. QED
        BY <2>6, <3>2, <3>3
    <2>8. CASE ~m.isParked
      <3>1. m = Fresh(plan)
        BY <2>1, <2>5, <2>8 DEF Lead_Inv
      <3>2. m.start = plan.start /\ plan.start # "stop"
        BY <1>1, <3>1, FreshOf DEF PlanType
      <3>3. Stops_Inv'
        BY <2>1, <2>8, <3>2 DEF Stops_Inv, StartOf
      <3>4. Now' = First(plan)
        BY <2>1, <2>2, <3>2 DEF Now, First, Said, StartOf
      <3>5. Leads(plan, ref, First(plan))
        BY <2>5, ReachesItself DEF Lead_Inv, Leads, Reference
      <3>6. Leads(plan', ref', Now')
        BY <2>1, <3>4, <3>5
      <3>7. Lead_Inv'
        BY <2>1, <2>5, <2>8, <3>6
           DEF Lead_Inv, Ended, AtRest, Reference
      <3>8. QED
        BY <2>6, <3>3, <3>7
    <2>9. QED
      BY <2>7, <2>8
  <1>3. ASSUME NEW mm, Changes(mm)
        PROVE  Exact_Inv'
    BY <1>3 DEF Changes, Exact_Inv, Call_Inv, Good, Reference
  <1>4. CASE Edit
    BY <1>3, <1>4, Zenon DEF Edit
  <1>5. CASE NewBasisOrMethod
    BY <1>3, <1>5, Zenon DEF NewBasisOrMethod
  <1>6. QED
    BY <1>2, <1>4, <1>5 DEF Caller

LEMMA ExactInit == Init => Exact_Inv
  <1> SUFFICES ASSUME Init PROVE Exact_Inv
    OBVIOUS
  <1>1. /\ pc = "idle" /\ calls = 0 /\ m = Fresh(plan) /\ Reference
    BY DEF Init, Reference
  <1>2. ~m.isParked
    BY <1>1, FreshOf
  <1>3. QED
    BY <1>1, <1>2
       DEF Exact_Inv, Call_Inv, Straight_Inv, Stops_Inv, Lead_Inv, Going,
           Ended, AtRest

LEMMA ExactOfStutter ==
  ASSUME Exact_Inv, UNCHANGED vars
  PROVE  Exact_Inv'
  <1>1. /\ plan' = plan /\ ref' = ref /\ m' = m /\ pc' = pc
        /\ limit' = limit /\ call' = call /\ s' = s /\ calls' = calls
        /\ intact' = intact /\ marks' = marks
    BY DEF vars
  <1>2. Now' = Now
    BY <1>1 DEF Now, Said
  <1>3. (Call_Inv' <=> Call_Inv) /\ (Straight_Inv' <=> Straight_Inv)
    BY <1>1 DEF Call_Inv, Straight_Inv, StoppedNow, Reference
  <1>4. Stops_Inv' <=> Stops_Inv
    BY <1>1 DEF Stops_Inv, StoppedNow
  <1>5. Lead_Inv => Lead_Inv'
    BY <1>1, <1>2
       DEF Lead_Inv, Going, StoppedNow, Ended, AtRest, Reference, Read
  <1>6. QED
    BY <1>1, <1>3, <1>4, <1>5 DEF Exact_Inv, Good

LEMMA ExactStep == IInv /\ Bill_Inv /\ Exact_Inv /\ [Next]_vars => Exact_Inv'
  <1> SUFFICES ASSUME IInv, Bill_Inv, Exact_Inv, [Next]_vars
               PROVE  Exact_Inv'
    OBVIOUS
  <1>1. QED
    BY ExactOfStutter, ExactOfCaller, ExactOfEnter, ExactOfResume,
       ExactOfWalk, ExactOfStop, ExactOfRung, ExactOfLadder, ExactOfSecond,
       ExactOfEnd
       DEF Next, Solver

-----------------------------------------------------------------------------
(* The theorems.                                                             *)

LEMMA StepInv == IInv /\ [Next]_vars => IInv'
  <1> SUFFICES ASSUME IInv, [Next]_vars PROVE IInv'
    OBVIOUS
  <1>1. CASE UNCHANGED vars
    BY <1>1, StutterStep
  <1>2. CASE Caller
    BY <1>2, CallerStep, RestOfCaller, PassStep DEF IInv, Rest_Inv, Next
  <1>3. CASE Resume \/ FreshWalk \/ PresolveAnswers
    BY <1>3, EnterStep, RestOfEnter, PassStep DEF IInv, Rest_Inv, Next, Solver
  <1>4. CASE \/ Pivot \/ NextSettlingRound \/ AttemptEnds
             \/ \E v \in Stopped : Stop(v)
    BY <1>4, WalkStep, RestOfWalk, PassStep DEF IInv, Rest_Inv, Next, Solver
  <1>5. CASE \/ RestartWithoutEarlyPerturb \/ RestartCold
             \/ FallToDual \/ RestartLoanFree
    BY <1>5, RungStep, RestOfRung, PassStep DEF IInv, Rest_Inv, Next, Solver
  <1>6. CASE Abandon \/ Publish \/ SecondPass \/ NoBudget \/ OnePass \/ TwoPasses
    BY <1>6, EndStep, RestOfEnd, PassStep DEF IInv, Rest_Inv, Next, Solver
  <1>7. QED
    BY <1>1, <1>2, <1>3, <1>4, <1>5, <1>6 DEF Next, Solver

LEMMA Invariance == Spec => []IInv
  BY InitInv, StepInv, PTL DEF Spec

\* Every record keeps its type: no attempt is begun beyond those a plan
\* describes, and no count is ever negative.
THEOREM Typing == Spec => []TypeOK
  <1>1. IInv => TypeOK
    BY DEF IInv
  <1>2. QED
    BY <1>1, Invariance, PTL

\* Whatever every attempt ends in, dual_simplex_once makes at most seven of
\* them for a primal plan and four for a dual one.
THEOREM RestartsBounded == Spec => []LadderBounded
  <1>1. IInv => LadderBounded
    <2> SUFFICES ASSUME IInv PROVE LadderBounded
      OBVIOUS
    <2>1. s.attempt \in Int /\ plan.primal \in BOOLEAN
      BY DEF IInv, TypeOK, WalkType, PlanType
    <2>2. /\ One(s.allowEarly) \in 0..1 /\ One(s.allowWarm) \in 0..1
          /\ One(s.allowLoan) \in 0..1 /\ One(s.primal) \in 0..1
      BY DEF One
    <2>3. LadderKept(s)
      BY DEF IInv, Ladders_Inv
    <2> HIDE DEF One
    <2>4. QED
      BY <2>1, <2>2, <2>3 DEF LadderKept, LadderBounded
  <1>2. QED
    BY <1>1, Invariance, PTL

\* Between calls a walk is parked exactly when the last call ended in a stop
\* and nothing changed since, and no walk outlives an edit, a new basis, a new
\* algorithm or tolerance.
THEOREM StopParks == Spec => []ParkedWalkHolds
  <1>1. IInv => ParkedWalkHolds
    BY DEF IInv, Walk_Inv, Park_Inv, ParkedWalkHolds, AtRest
  <1>2. QED
    BY <1>1, Invariance, PTL

\* A verdict that presolve alone reached and the checker refused never
\* reaches the caller as the answer while a second pass could be paid for.
THEOREM CertifiedVerdict == Spec => []VerdictIsCertified
  <1>1. IInv => VerdictIsCertified
    BY DEF IInv, Sure_Inv, VerdictIsCertified, AtRest
  <1>2. QED
    BY <1>1, Invariance, PTL

\* A solve without an answer leaves the start the caller's model had, also
\* through a second pass that starts from the basis of the first.
THEOREM FailureKeepsStart == Spec => []StartComesBack
  <1>1. IInv => StartComesBack
    BY DEF IInv, Start_Inv, StartComesBack, AtRest, Failed
  <1>2. QED
    BY <1>1, Invariance, PTL

\* However often a call restarts, passes on to a second pass or is a walk gone
\* on with, it keeps to the caller's limit but for what was billed before the
\* limit could be looked at.
THEOREM SpendingIsLimited == Spec => []SpentWithinLimit
  <1>1. Bill_Inv => SpentWithinLimit
    BY DEF Bill_Inv
  <1>2. QED
    BY <1>1, Invariance, BillInit, BillStep, PTL DEF Spec

\* A solve that is stopped, as often and wherever a limit, the clock or the
\* callback may stop it, and gone on with in other calls ends as the solve
\* that nothing stopped, with its status, its basis and its counts, unless a
\* stop fell where Marks says that something is lost.
THEOREM ResumingIsExact == Spec => []ResumeIsExact
  <1>1. Exact_Inv => ResumeIsExact
    BY DEF Exact_Inv, Lead_Inv, Good, ResumeIsExact
  <1>2. QED
    BY <1>1, Invariance, BillInit, BillStep, ExactInit, ExactStep, PTL
       DEF Spec

=============================================================================
