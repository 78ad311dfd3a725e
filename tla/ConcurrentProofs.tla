-------------------------- MODULE ConcurrentProofs --------------------------
(* Theorems about the concurrent solve, for any number of arms and any set   *)
(* of walks.                                                                 *)
EXTENDS Concurrent, TLAPS

-----------------------------------------------------------------------------
(* Where the arms may be, seen from the calling thread, and what their       *)
(* models may hold: the inductive invariant behind the two theorems below.   *)

AtRest == {"round", "turn", "settle", "choose", "returned"}
InParallel == {"launch", "inline", "join"}
Walking == {"call", "loop", "callback", "stopped?", "answered?"}
Fresh(k) == status[k] \in {"NOT_RUN", "WORK_LIMIT"}

\* Which arms can be running, and that of the arms that run beside others
\* only the first asks the caller.
Placement ==
    /\ main \in AtRest => \A k \in Arms : pc[k] = "idle"
    /\ main = "wait" => \A k \in Arms :
           pc[k] # "idle" => IsNextLive(k) /\ site[k] = "caller"
    /\ main \in {"launch", "inline"} => \A k \in Arms :
           pc[k] # "idle" => live[k] /\ k < next /\ ~IsFirst(k)
    /\ main = "join" => \A k \in Arms :
           pc[k] # "idle" => live[k] /\ (IsFirst(k) => site[k] = "caller")
    /\ main \in InParallel => \A k \in Arms : live[k] /\ asks[k] => IsFirst(k)
    /\ \A k \in Arms : pc[k] = "callback" => asks[k]

\* The arms still to run, or whose turn changed nothing, hold no verdict.
Unsettled ==
    /\ main \in {"round", "turn"} => \A k \in Arms : live[k] => Fresh(k)
    /\ main = "choose" /\ winner = NoArm => \A k \in Arms : live[k] => Fresh(k)
    /\ main = "wait" => \A k \in Arms : live[k] => IsNextLive(k) \/ Fresh(k)
    /\ main \in {"launch", "inline"} => \A k \in Arms :
           live[k] /\ (k >= next \/ IsFirst(k)) => Fresh(k)
    /\ main = "settle" => \A k \in Arms : live[k] /\ k < next => Fresh(k)

\* What a status or a code on an arm's model implies.  A second pass runs with
\* the refused verdict of presolve on the model.
Refused(k) == plan[k].presolved /\ status[k] = "INFEASIBLE" /\ pc[k] # "call"

Verdicts ==
    /\ \A k \in Arms : pc[k] \in Walking =>
           answered # k /\ (Fresh(k) \/ Refused(k))
    /\ \A k \in Arms : code[k] = "ERR" => Fresh(k) /\ ~plan[k].presolved
    /\ \A k \in Arms : pc[k] \in {"load", "cas"} => status[k] \in Decided
    /\ \A k \in Arms : status[k] \in StoppedByCaller => live[k]
    /\ main \notin {"choose", "returned"} => winner = NoArm

\* `answered` names a live arm with a verdict, and only it cancels.
Cancelling ==
    /\ plan \in Plans
    /\ answered # NArms => live[answered] /\ status[answered] \in Decided
    /\ parallel => \A k \in Arms :
           status[k] = "INTERRUPTED" => stopped \/ answered < k
    /\ main \in {"choose", "returned"} /\ winner # NoArm => winner <= answered

Inv == Placement /\ Unsettled /\ Verdicts /\ Cancelling /\ CancelledNeverWins

-----------------------------------------------------------------------------

USE DEF Arms, NoArm, Decided, StoppedByCaller, Statuses, Codes, Failures,
        MainPlaces, ArmPlaces, fixed, call, atomics, runner, model, record

LEMMA InitTypeOK == Init => TypeOK
<1> SUFFICES ASSUME Init PROVE TypeOK
  OBVIOUS
<1>1. plan \in [Arms -> PlanType] /\ cap \in Nat /\ threads \in Nat
  BY ConcurrentAssumption DEF Init
<1>2. /\ slice \in Nat \ {0} /\ spent \in Nat
      /\ winner \in Arms \cup {NoArm}
      /\ spentOut \in BOOLEAN
      /\ main \in MainPlaces
      /\ stopped \in BOOLEAN
  BY RaceAssumption DEF Init
<1>7. next \in 0 .. NArms /\ answered \in 0 .. NArms
  BY RaceAssumption DEF Init
<1>3. answer \in Answers
  BY DEF Init, NoAnswer, Answers
<1>4. /\ pc \in [Arms -> ArmPlaces]
      /\ site \in [Arms -> {"caller", "worker"}]
      /\ asks \in [Arms -> BOOLEAN]
      /\ polled \in [Arms -> BOOLEAN]
      /\ seen \in [Arms -> 0 .. NArms]
  BY RaceAssumption DEF Init
<1>5. /\ limit \in [Arms -> Int] /\ at \in [Arms -> Nat]
      /\ parked \in [Arms -> BOOLEAN]
      /\ units \in [Arms -> Nat]
      /\ status \in [Arms -> Statuses]
      /\ code \in [Arms -> Codes]
  BY DEF Init
<1>6. /\ resumed \in [Arms -> BOOLEAN]
      /\ last \in [Arms -> Nat]
      /\ live \in [Arms -> BOOLEAN]
  BY DEF Init
<1> QED BY <1>1, <1>2, <1>3, <1>4, <1>5, <1>6, <1>7 DEF TypeOK

LEMMA PublishesTypeOK ==
    ASSUME TypeOK, NEW k \in Arms, NEW verdict \in Statuses,
           Publishes(k, verdict), answered' \in 0 .. NArms, stopped' \in BOOLEAN
    PROVE  TypeOK'
  BY DEF TypeOK, Publishes, PlanType

LEMMA ArmTypeOK ==
    ASSUME TypeOK, NEW k \in Arms, ArmStep(k)
    PROVE  TypeOK'
<1>1. CASE ArmCall(k)
  <2>1. PresolveStatus(plan[k], status[k]) \in Statuses
    BY DEF TypeOK, PresolveStatus
  <2>2. CASE parked[k]
    BY <1>1, <2>2 DEF ArmCall, TypeOK
  <2>3. CASE ~parked[k]
    <3>1. status' \in [Arms -> Statuses]
      BY <1>1, <2>1, <2>3 DEF ArmCall, TypeOK
    <3>2. units' \in [Arms -> Nat] /\ at' \in [Arms -> Nat]
      BY <1>1, <2>3 DEF ArmCall, TypeOK
    <3> QED BY <1>1, <2>3, <3>1, <3>2 DEF ArmCall, TypeOK
  <2> QED BY <2>2, <2>3
<1>2. CASE ArmFails(k)
  <2>1. plan[k].end \in Statuses \cup {"ERR"}
    BY DEF TypeOK, PlanType
  <2>2. CASE plan[k].end = "ERR"
    BY <1>2, <2>2 DEF ArmFails, TypeOK
  <2>3. CASE plan[k].end # "ERR"
    BY <1>2, <2>1, <2>3, PublishesTypeOK DEF ArmFails, TypeOK
  <2> QED BY <2>2, <2>3
<1>3. CASE ArmLimit(k)
  BY <1>3, PublishesTypeOK DEF ArmLimit, TypeOK
<1>4. CASE ArmClock(k)
  BY <1>4, PublishesTypeOK DEF ArmClock, TypeOK
<1>5. CASE ArmPolls(k)
  BY <1>5 DEF ArmPolls, TypeOK
<1>6. CASE ArmEnds(k)
  <2>1. plan[k].end \in Statuses
    BY <1>6 DEF ArmEnds, InLoop, Failing, TypeOK, PlanType
  <2> QED BY <1>6, <2>1, PublishesTypeOK DEF ArmEnds, TypeOK
<1>7. CASE ArmPivots(k)
  BY <1>7 DEF ArmPivots, TypeOK
<1>8. CASE ArmAsks(k)
  <2>1. CASE PollPasses(k, IF parallel THEN "stopped?" ELSE "loop")
    BY <2>1 DEF PollPasses, TypeOK
  <2>2. CASE /\ stopped' = (stopped \/ parallel)
             /\ UNCHANGED answered
             /\ Publishes(k, "INTERRUPTED")
    BY <2>2, PublishesTypeOK DEF TypeOK, parallel
  <2> QED BY <1>8, <2>1, <2>2 DEF ArmAsks
<1>9. CASE ArmReadsStopped(k)
  <2>1. CASE stopped
    BY <1>9, <2>1, PublishesTypeOK DEF ArmReadsStopped, TypeOK
  <2>2. CASE ~stopped
    BY <1>9, <2>2 DEF ArmReadsStopped, PollPasses, TypeOK
  <2> QED BY <2>1, <2>2
<1>10. CASE ArmReadsAnswered(k)
  <2>1. CASE answered < k
    BY <1>10, <2>1, PublishesTypeOK DEF ArmReadsAnswered, TypeOK
  <2>2. CASE ~(answered < k)
    BY <1>10, <2>2 DEF ArmReadsAnswered, PollPasses, TypeOK
  <2> QED BY <2>1, <2>2
<1>11. CASE ArmReturns(k)
  BY <1>11 DEF ArmReturns, TypeOK
<1>12. CASE ArmLoads(k)
  BY <1>12 DEF ArmLoads, TypeOK
<1>13. CASE ArmLowers(k)
  <2>1. k \in 0 .. NArms
    BY RaceAssumption
  <2>2. CASE k >= seen[k]
    BY <1>13, <2>2 DEF ArmLowers, TypeOK
  <2>3. CASE k < seen[k] /\ answered = seen[k]
    BY <1>13, <2>1, <2>3 DEF ArmLowers, TypeOK
  <2>4. CASE k < seen[k] /\ answered # seen[k]
    BY <1>13, <2>4 DEF ArmLowers, TypeOK
  <2>5. k \in Int /\ seen[k] \in Int
    BY <2>1 DEF TypeOK
  <2> QED BY <2>2, <2>3, <2>4, <2>5
<1> QED
  BY <1>1, <1>2, <1>3, <1>4, <1>5, <1>6, <1>7, <1>8, <1>9, <1>10, <1>11,
     <1>12, <1>13 DEF ArmStep

LEMMA ChosenType == TypeOK => Chosen \in Arms
<1>1. 0 \in Arms
  BY RaceAssumption
<1> QED BY <1>1 DEF TypeOK, Chosen

LEMMA MainTypeOK ==
    ASSUME TypeOK, MainStep
    PROVE  TypeOK'
<1>1. CASE CopyFails
  BY <1>1 DEF CopyFails, Goes, TypeOK, NoAnswer, Answers
<1>2. CASE NoneLive
  BY <1>2 DEF NoneLive, Goes, TypeOK
<1>3. CASE SequentialRound
  BY <1>3 DEF SequentialRound, Goes, TypeOK
<1>4. CASE ParallelRound
  <2>1. \A k \in Arms : IsFirst(k) \in BOOLEAN
    BY DEF IsFirst, TypeOK
  <2>2. answered' \in 0 .. NArms
    BY <1>4, RaceAssumption DEF ParallelRound
  <2>3. limit' \in [Arms -> Int] /\ code' \in [Arms -> Codes]
    BY <1>4 DEF ParallelRound, TypeOK
  <2>4. asks' \in [Arms -> BOOLEAN]
    BY <1>4, <2>1 DEF ParallelRound, TypeOK
  <2> QED BY <1>4, <2>2, <2>3, <2>4 DEF ParallelRound, Goes, TypeOK
<1>5. ASSUME NEW k \in Arms, Launch(k) PROVE TypeOK'
  <2>1. k + 1 \in 0 .. NArms
    BY RaceAssumption
  <2> QED BY <1>5, <2>1 DEF Launch, Goes, TypeOK
<1>6. ASSUME NEW k \in Arms, LaunchSkipsFirst(k) PROVE TypeOK'
  <2>1. k + 1 \in 0 .. NArms
    BY RaceAssumption
  <2> QED BY <1>6, <2>1 DEF LaunchSkipsFirst, TypeOK
<1>7. ASSUME NEW k \in Arms, RunFirst(k) PROVE TypeOK'
  BY <1>7 DEF RunFirst, Goes, TypeOK
<1>8. ASSUME NEW k \in Arms, Turn(k) PROVE TypeOK'
  BY <1>8 DEF Turn, Goes, Give, TypeOK
<1>9. ASSUME NEW k \in Arms, SettleArm(k) PROVE TypeOK'
  <2>1. Billed(resumed[k], last[k], units[k]) \in Nat
    BY DEF Billed, TypeOK
  <2>2. Wins(k) \in BOOLEAN
    BY DEF Wins
  <2>3. k + 1 \in 0 .. NArms
    BY RaceAssumption
  <2>4. spent' \in Nat
    BY <1>9, <2>1 DEF SettleArm, TypeOK
  <2>5. last' \in [Arms -> Nat] /\ live' \in [Arms -> BOOLEAN]
    BY <1>9, <2>2 DEF SettleArm, TypeOK
  <2>6. winner' \in Arms \cup {NoArm} /\ next' \in 0 .. NArms
    BY <1>9, <2>3 DEF SettleArm, TypeOK
  <2>7. main' \in MainPlaces
    BY <1>9 DEF SettleArm, Goes, TypeOK
  <2> QED BY <1>9, <2>4, <2>5, <2>6, <2>7 DEF SettleArm, TypeOK
<1>10. CASE InlineDone
  BY <1>10 DEF InlineDone, Goes, TypeOK
<1>11. CASE Join
  BY <1>11, RaceAssumption DEF Join, Goes, TypeOK
<1>12. CASE SpendOut
  BY <1>12 DEF SpendOut, Goes, TypeOK
<1>13. CASE NextRound
  <2>1. slice * Growth \in Nat \ {0}
    BY RaceAssumption, slice \in Nat \ {0}, Z3 DEF TypeOK
  <2>2. 0 \in 0 .. NArms
    BY RaceAssumption
  <2> QED BY <1>13, <2>1, <2>2 DEF NextRound, Goes, TypeOK
<1>14. CASE LastRound
  BY <1>14 DEF LastRound, Goes, TypeOK
<1>15. CASE TakeAnswer
  <2>1. [arm |-> Chosen, status |-> status[Chosen],
         code |-> code[Chosen], work |-> spent] \in Answers
    BY ChosenType DEF TypeOK, Answers
  <2> QED BY <1>15, <2>1 DEF TakeAnswer, Goes, TypeOK
<1> QED
  BY <1>1, <1>2, <1>3, <1>4, <1>5, <1>6, <1>7, <1>8, <1>9, <1>10, <1>11,
     <1>12, <1>13, <1>14, <1>15 DEF MainStep

\* Whatever the threads do, the atomics, the arms and the calling thread hold
\* values of their types; in particular the work billed never goes below zero
\* and `answered` stays an arm or CONCURRENT_ARMS.
THEOREM Typing == Spec => []TypeOK
<1>1. TypeOK /\ [Next]_vars => TypeOK'
  <2> SUFFICES ASSUME TypeOK, [Next]_vars PROVE TypeOK'
    OBVIOUS
  <2>1. CASE UNCHANGED vars
    BY <2>1 DEF vars, TypeOK
  <2> QED BY <2>1, ArmTypeOK, MainTypeOK DEF Next
<1> QED BY InitTypeOK, <1>1, PTL DEF Spec

-----------------------------------------------------------------------------
\* Where presolve's verdict is refused, the second pass publishes its own.  One
\* that ends in an error leaves the refused verdict behind, and the theorem
\* NoCancelledAnswer is false.
SecondPassPublishes ==
    \A p \in Plans, k \in Arms : p[k].presolved => p[k].end # "ERR"

LEMMA InitInv == Init => Inv
  BY RaceAssumption
  DEF Init, Inv, Placement, Unsettled, Verdicts, Cancelling, Fresh,
      CancelledNeverWins, AtRest, InParallel, Walking

\* A step of arm k that touches its own state, and the atomics within bounds.
LEMMA ArmFrame ==
    ASSUME TypeOK, Inv, NEW k \in Arms, pc[k] # "idle",
           UNCHANGED <<fixed, call, main, next, live, asks, site>>,
           NEW place \in ArmPlaces, pc' = [pc EXCEPT ![k] = place],
           NEW verdict \in Statuses, status' = [status EXCEPT ![k] = verdict],
           NEW result \in Codes, code' = [code EXCEPT ![k] = result],
           place = "callback" => asks[k],
           place \in Walking =>
             /\ answered' # k
             /\ \/ verdict \in {"NOT_RUN", "WORK_LIMIT"}
                \/ plan[k].presolved /\ verdict = "INFEASIBLE" /\ place # "call",
           result = "ERR" => /\ verdict \in {"NOT_RUN", "WORK_LIMIT"}
                             /\ ~plan[k].presolved,
           place \in {"load", "cas"} => verdict \in Decided,
           verdict = "INTERRUPTED" /\ parallel => stopped' \/ answered < k,
           stopped => stopped',
           \/ answered' = answered /\ (answered = k => verdict \in Decided)
           \/ answered' = k /\ k < answered /\ verdict \in Decided
    PROVE  Inv'
<1> USE DEF TypeOK
<1>1. live[k] /\ main \notin AtRest
  BY DEF Inv, Placement, AtRest, InParallel, IsNextLive, LiveFrom
<1>2. /\ pc'[k] = place /\ status'[k] = verdict /\ code'[k] = result
      /\ \A j \in Arms : j # k =>
             pc'[j] = pc[j] /\ status'[j] = status[j] /\ code'[j] = code[j]
  OBVIOUS
<1>3. \A j \in Arms :
        (IsNextLive(j))' = IsNextLive(j) /\ (IsFirst(j))' = IsFirst(j)
  BY DEF IsNextLive, IsFirst, LiveFrom
<1>4. Placement'
  <2>1. main = "wait" => \A j \in Arms :
            pc'[j] # "idle" => IsNextLive(j) /\ site[j] = "caller"
    BY <1>2 DEF Inv, Placement
  <2>2. main \in {"launch", "inline"} => \A j \in Arms :
            pc'[j] # "idle" => live[j] /\ j < next /\ ~IsFirst(j)
    BY <1>2 DEF Inv, Placement
  <2>3. main = "join" => \A j \in Arms :
            pc'[j] # "idle" => live[j] /\ (IsFirst(j) => site[j] = "caller")
    BY <1>2 DEF Inv, Placement
  <2>4. main \in InParallel => \A j \in Arms : live[j] /\ asks[j] => IsFirst(j)
    BY DEF Inv, Placement
  <2>5. \A j \in Arms : pc'[j] = "callback" => asks[j]
    BY <1>2 DEF Inv, Placement
  <2> QED BY <1>1, <1>3, <2>1, <2>2, <2>3, <2>4, <2>5 DEF Placement
<1>5. Unsettled'
  <2>1. \A j \in Arms : j # k => Fresh(j)' = Fresh(j)
    BY <1>2 DEF Fresh
  <2>2. main = "wait" => IsNextLive(k)
    BY DEF Inv, Placement
  <2>3. main \in {"launch", "inline"} => k < next /\ ~IsFirst(k)
    BY DEF Inv, Placement
  <2> QED BY <1>1, <1>3, <2>1, <2>2, <2>3 DEF Inv, Unsettled, AtRest
<1>6. Verdicts'
  <2>1. \A j \in Arms : j # k =>
          Fresh(j)' = Fresh(j) /\ (Refused(j) => Refused(j)')
    BY <1>2 DEF Fresh, Refused
  <2>2. /\ Fresh(k)' <=> verdict \in {"NOT_RUN", "WORK_LIMIT"}
        /\ plan[k].presolved /\ verdict = "INFEASIBLE" /\ place # "call" =>
             Refused(k)'
    BY <1>2 DEF Fresh, Refused
  <2>3. \A j \in Arms : pc'[j] \in Walking =>
          answered' # j /\ (Fresh(j)' \/ Refused(j)')
    BY <1>2, <2>1, <2>2 DEF Inv, Verdicts
  <2>4. \A j \in Arms : code'[j] = "ERR" => Fresh(j)' /\ ~plan'[j].presolved
    BY <1>2, <2>1, <2>2 DEF Inv, Verdicts
  <2> QED BY <1>1, <1>2, <2>3, <2>4 DEF Inv, Verdicts
<1>7. Cancelling'
  <2>1. plan' \in Plans
    BY DEF Inv, Cancelling
  <2>2. answered' # NArms => live'[answered'] /\ status'[answered'] \in Decided
    BY <1>1, <1>2 DEF Inv, Cancelling
  <2>3. ASSUME parallel', NEW j \in Arms, status'[j] = "INTERRUPTED"
        PROVE  stopped' \/ answered' < j
    <3>1. parallel
      BY <2>3 DEF parallel
    <3>2. answered' <= answered /\ answered \in Int /\ answered' \in Int
          /\ j \in Int /\ k \in Int
      OBVIOUS
    <3>3. CASE j = k
      <4>1. stopped' \/ (answered < k /\ answered' = answered)
        BY <1>2, <2>3, <3>1, <3>2, <3>3
      <4> QED BY <4>1, <3>3
    <3>4. CASE j # k
      BY <1>2, <2>3, <3>1, <3>2, <3>4 DEF Inv, Cancelling
    <3> QED BY <3>3, <3>4
  <2>4. main' \notin {"choose", "returned"}
    BY <1>1 DEF AtRest
  <2> QED BY <2>1, <2>2, <2>3, <2>4 DEF Cancelling
<1>8. CancelledNeverWins'
  BY <1>1 DEF CancelledNeverWins, AtRest
<1> QED BY <1>4, <1>5, <1>6, <1>7, <1>8 DEF Inv

LEMMA PublishesInv ==
    ASSUME TypeOK, Inv, NEW k \in Arms, pc[k] \in Walking,
           NEW verdict \in Statuses, Publishes(k, verdict),
           verdict = "INTERRUPTED" /\ parallel => stopped' \/ answered < k,
           stopped => stopped', answered' = answered
    PROVE  Inv'
<1>1. pc[k] # "idle" /\ answered # k
  BY DEF Inv, Verdicts, Cancelling, Walking, Fresh
<1> QED BY <1>1, ArmFrame DEF Publishes, Walking

LEMMA ArmInv ==
    ASSUME TypeOK, Inv, SecondPassPublishes, NEW k \in Arms, ArmStep(k)
    PROVE  Inv'
<1> USE DEF Walking
<1>0. /\ pc[k] \in ArmPlaces /\ status[k] \in Statuses /\ code[k] \in Codes
      /\ pc \in [Arms -> ArmPlaces] /\ status \in [Arms -> Statuses]
      /\ code \in [Arms -> Codes]
  BY DEF TypeOK
<1>a. pc[k] \in Walking => answered # k /\ (Fresh(k) \/ Refused(k))
  BY DEF Inv, Verdicts
<1>b. code[k] = "ERR" => Fresh(k) /\ ~plan[k].presolved
  BY DEF Inv, Verdicts
<1>c. status[k] = "INTERRUPTED" /\ parallel => stopped \/ answered < k
  BY DEF Inv, Cancelling
<1>d. answered = k => status[k] \in Decided
  BY <1>0 DEF Inv, Cancelling, TypeOK
<1>1. CASE ArmCall(k)
  <2>1. code' = [code EXCEPT ![k] = code[k]]
    BY <1>0, <1>1 DEF ArmCall
  <2>2. Fresh(k) /\ answered # k
    BY <1>1, <1>a DEF ArmCall, Refused
  <2>3. CASE parked[k] \/ ~plan[k].presolved
    <3>1. status' = [status EXCEPT ![k] = status[k]]
      BY <1>0, <1>1, <2>3 DEF ArmCall, PresolveStatus
    <3> QED BY <1>0, <1>1, <1>b, <2>1, <2>2, <3>1, ArmFrame DEF ArmCall, Fresh
  <2>4. CASE ~parked[k] /\ plan[k].presolved
    <3>1. status' = [status EXCEPT ![k] = "INFEASIBLE"]
      BY <1>0, <1>1, <2>4 DEF ArmCall, PresolveStatus
    <3> QED BY <1>0, <1>1, <1>b, <2>1, <2>2, <2>4, <3>1, ArmFrame DEF ArmCall
  <2> QED BY <2>3, <2>4
<1>2. CASE ArmFails(k)
  <2>1. plan[k].end \in Statuses \cup {"ERR"} /\ plan[k].end # "INTERRUPTED"
    BY DEF TypeOK, PlanType
  <2>2. CASE plan[k].end = "ERR"
    <3>1. status' = [status EXCEPT ![k] = status[k]]
      BY <1>0, <1>2, <2>2 DEF ArmFails
    <3>2. Fresh(k) /\ answered # k /\ ~plan[k].presolved
      BY <1>2, <1>a, <2>2
         DEF ArmFails, Refused, SecondPassPublishes, Inv, Cancelling
    <3> QED BY <1>0, <1>2, <2>2, <3>1, <3>2, ArmFrame DEF ArmFails, Fresh
  <2>3. CASE plan[k].end # "ERR"
    BY <1>2, <2>1, <2>3, PublishesInv DEF ArmFails
  <2> QED BY <2>2, <2>3
<1>3. CASE ArmLimit(k)
  BY <1>3, PublishesInv DEF ArmLimit, InLoop
<1>4. CASE ArmClock(k)
  BY <1>4, PublishesInv DEF ArmClock, InLoop
<1>5. CASE ArmPolls(k)
  <2>1. /\ status' = [status EXCEPT ![k] = status[k]]
        /\ code' = [code EXCEPT ![k] = code[k]]
    BY <1>0, <1>5 DEF ArmPolls
  <2>2. answered # k /\ (Fresh(k) \/ Refused(k))
    BY <1>5, <1>a DEF ArmPolls, InLoop
  <2>3. asks[k] \in BOOLEAN
    BY DEF TypeOK
  <2> DEFINE place == IF asks[k] THEN "callback" ELSE "stopped?"
  <2>4. place \in ArmPlaces /\ place \in Walking /\ place # "call"
        /\ (place = "callback" => asks[k])
    BY <2>3
  <2>5. pc' = [pc EXCEPT ![k] = place]
    BY <1>5 DEF ArmPolls
  <2> HIDE DEF place
  <2>6. /\ \/ status[k] \in {"NOT_RUN", "WORK_LIMIT"}
           \/ plan[k].presolved /\ status[k] = "INFEASIBLE"
        /\ status[k] # "INTERRUPTED"
    BY <2>2 DEF Fresh, Refused
  <2>7. /\ pc[k] # "idle" /\ answered' # k
        /\ UNCHANGED <<fixed, call, main, next, live, asks, site, atomics>>
    BY <1>5, <2>2 DEF ArmPolls, InLoop
  <2> QED
    BY <1>0, <1>b, <2>1, <2>2, <2>4, <2>5, <2>6, <2>7, ArmFrame DEF Fresh
<1>6. CASE ArmEnds(k)
  <2>1. plan[k].end \in Statuses /\ plan[k].end # "INTERRUPTED"
    BY <1>6 DEF ArmEnds, InLoop, Failing, TypeOK, PlanType
  <2> QED BY <1>6, <2>1, PublishesInv DEF ArmEnds, InLoop
<1>7. CASE ArmPivots(k)
  <2>1. /\ status' = [status EXCEPT ![k] = status[k]]
        /\ code' = [code EXCEPT ![k] = code[k]]
        /\ pc' = [pc EXCEPT ![k] = "loop"]
    BY <1>0, <1>7 DEF ArmPivots, InLoop
  <2>2. answered # k /\ (Fresh(k) \/ Refused(k))
    BY <1>7, <1>a DEF ArmPivots, InLoop
  <2> QED BY <1>0, <1>7, <1>b, <2>1, <2>2, ArmFrame
          DEF ArmPivots, InLoop, Fresh, Refused
<1>p. ASSUME NEW place \in Walking \ {"callback", "call"}, pc[k] \in Walking,
             PollPasses(k, place)
      PROVE  Inv'
  <2>1. /\ status' = [status EXCEPT ![k] = status[k]]
        /\ code' = [code EXCEPT ![k] = code[k]]
    BY <1>0, <1>p DEF PollPasses
  <2>2. answered # k /\ (Fresh(k) \/ Refused(k))
    BY <1>p, <1>a
  <2> QED BY <1>0, <1>p, <1>b, <2>1, <2>2, ArmFrame DEF PollPasses, Fresh,
          Refused
<1>8. CASE ArmAsks(k)
  <2>1. CASE PollPasses(k, IF parallel THEN "stopped?" ELSE "loop")
    BY <1>8, <1>p, <2>1 DEF ArmAsks
  <2>2. CASE /\ stopped' = (stopped \/ parallel)
             /\ UNCHANGED answered
             /\ Publishes(k, "INTERRUPTED")
    BY <1>8, <2>2, PublishesInv DEF ArmAsks
  <2> QED BY <1>8, <2>1, <2>2 DEF ArmAsks
<1>9. CASE ArmReadsStopped(k)
  <2>1. CASE stopped
    BY <1>9, <2>1, PublishesInv DEF ArmReadsStopped
  <2>2. CASE ~stopped
    BY <1>9, <1>p, <2>2 DEF ArmReadsStopped
  <2> QED BY <2>1, <2>2
<1>10. CASE ArmReadsAnswered(k)
  <2>1. CASE answered < k
    BY <1>10, <2>1, PublishesInv DEF ArmReadsAnswered
  <2>2. CASE ~(answered < k)
    BY <1>10, <1>p, <2>2 DEF ArmReadsAnswered
  <2> QED BY <2>1, <2>2
<1>11. CASE ArmReturns(k)
  <2>1. /\ status' = [status EXCEPT ![k] = status[k]]
        /\ code' = [code EXCEPT ![k] = code[k]]
    BY <1>0, <1>11 DEF ArmReturns
  <2> DEFINE place == IF parallel /\ status[k] \in Decided THEN "load" ELSE "idle"
  <2>2. /\ place \in ArmPlaces \ (Walking \cup {"callback", "cas"})
        /\ place = "load" => status[k] \in Decided
        /\ pc' = [pc EXCEPT ![k] = place]
    BY <1>11 DEF ArmReturns
  <2> HIDE DEF place
  <2> QED
    BY <1>0, <1>11, <1>b, <1>c, <1>d, <2>1, <2>2, ArmFrame
       DEF ArmReturns, Fresh
<1>e. pc[k] \in {"load", "cas"} => status[k] \in Decided
  BY DEF Inv, Verdicts
<1>12. CASE ArmLoads(k)
  <2>1. /\ status' = [status EXCEPT ![k] = status[k]]
        /\ code' = [code EXCEPT ![k] = code[k]]
    BY <1>0, <1>12 DEF ArmLoads
  <2> QED
    BY <1>0, <1>12, <1>b, <1>c, <1>d, <1>e, <2>1, ArmFrame DEF ArmLoads, Fresh
<1>13. CASE ArmLowers(k)
  <2>1. /\ status' = [status EXCEPT ![k] = status[k]]
        /\ code' = [code EXCEPT ![k] = code[k]]
        /\ pc[k] = "cas" /\ status[k] \in Decided
        /\ UNCHANGED <<fixed, call, main, next, live, asks, site, stopped>>
    BY <1>0, <1>13, <1>e DEF ArmLowers
  <2>2. \/ /\ pc' = [pc EXCEPT ![k] = "idle"] /\ answered' = answered
        \/ /\ pc' = [pc EXCEPT ![k] = "cas"] /\ answered' = answered
        \/ /\ pc' = [pc EXCEPT ![k] = "idle"] /\ answered' = k /\ k < answered
    <3>1. k \in Int /\ seen[k] \in Int
      BY DEF TypeOK
    <3>2. [pc EXCEPT ![k] = "cas"] = pc
      BY <1>0, <2>1
    <3> QED BY <1>13, <3>1, <3>2 DEF ArmLowers
  <2> QED BY <1>0, <1>b, <1>c, <1>d, <2>1, <2>2, ArmFrame DEF Fresh
<1> QED
  BY <1>1, <1>2, <1>3, <1>4, <1>5, <1>6, <1>7, <1>8, <1>9, <1>10, <1>11,
     <1>12, <1>13 DEF ArmStep

LEMMA MainInv ==
    ASSUME TypeOK, Inv, MainStep
    PROVE  Inv'
<1> USE DEF TypeOK, AtRest, InParallel
<1>0. /\ \A i, j \in Arms : IsNextLive(i) /\ IsNextLive(j) => i = j
      /\ \A i, j \in Arms : IsFirst(i) /\ IsFirst(j) => i = j
      /\ \A i \in Arms : i \in Int /\ i < NArms
  <2>1. \A i \in Arms : i \in Int /\ i < NArms /\ i >= 0
    BY RaceAssumption
  <2>2. ASSUME NEW i \in Arms, NEW j \in Arms, i <= j, j <= i PROVE i = j
    BY <2>1, <2>2
  <2>3. \A i, j \in Arms : IsNextLive(i) /\ IsNextLive(j) => i <= j /\ j <= i
    BY DEF IsNextLive
  <2>4. \A i, j \in Arms : IsFirst(i) /\ IsFirst(j) => i <= j /\ j <= i
    BY <2>1 DEF IsFirst, LiveFrom
  <2> QED BY <2>1, <2>2, <2>3, <2>4
<1>1. CASE CopyFails
  BY <1>1 DEF CopyFails, Goes, NoAnswer, Inv, Placement, Unsettled, Verdicts,
              Cancelling, CancelledNeverWins, Fresh, Refused, parallel
<1>2. CASE NoneLive
  BY <1>2, RaceAssumption
  DEF NoneLive, Goes, Inv, Placement, Unsettled, Verdicts, Cancelling,
      CancelledNeverWins, Fresh, Refused, parallel
<1>3. CASE SequentialRound
  BY <1>3 DEF SequentialRound, Goes, Inv, Placement, Unsettled, Verdicts,
              Cancelling, CancelledNeverWins, Fresh, Refused, parallel
<1>4. CASE ParallelRound
  <2>1. \A k \in Arms : /\ pc'[k] = "idle"
                        /\ live'[k] = live[k] /\ status'[k] = status[k]
                        /\ live[k] => asks'[k] = IsFirst(k)
                        /\ Fresh(k)' = Fresh(k) /\ IsFirst(k)' = IsFirst(k)
    BY <1>4 DEF ParallelRound, Goes, Inv, Placement, Fresh, IsFirst, LiveFrom
  <2>2. \A k \in Arms : /\ status[k] \notin StoppedByCaller
                        /\ live[k] => Fresh(k)
                        /\ code'[k] = "ERR" => Fresh(k) /\ ~plan'[k].presolved
    BY <1>4 DEF ParallelRound, Inv, Unsettled, Verdicts, Fresh
  <2>3. main' = "launch" /\ winner' = NoArm /\ answered' = NArms /\ plan' \in Plans
    BY <1>4 DEF ParallelRound, Goes, Inv, Verdicts, Cancelling
  <2>4. Placement'
    BY <2>1, <2>3 DEF Placement
  <2>5. Unsettled'
    BY <2>1, <2>2, <2>3 DEF Unsettled
  <2>6. Verdicts'
    BY <2>1, <2>2, <2>3 DEF Verdicts, Walking, Fresh, Refused
  <2>7. Cancelling'
    BY <2>1, <2>2, <2>3 DEF Cancelling
  <2>8. CancelledNeverWins'
    BY <2>3 DEF CancelledNeverWins
  <2> QED BY <2>4, <2>5, <2>6, <2>7, <2>8 DEF Inv
\* A start of arm k: Launch, RunFirst and Turn share it.
<1>s. ASSUME NEW k \in Arms, pc[k] = "idle", live[k], Fresh(k),
             pc' = [pc EXCEPT ![k] = "call"],
             UNCHANGED <<plan, cap, threads, winner, answer, answered, stopped,
                         status, code, live, asks>>,
             main' \in InParallel \cup {"wait"}, main \notin {"choose", "returned"}
      PROVE  Verdicts' /\ Cancelling' /\ CancelledNeverWins'
  <2>1. \A j \in Arms : Fresh(j)' = Fresh(j) /\ (j # k => pc'[j] = pc[j])
    BY <1>s DEF Fresh
  <2>2. Verdicts'
    <3>1. answered # k
      BY <1>0, <1>s DEF Inv, Cancelling, Fresh
    <3>2. \A j \in Arms : j # k /\ Refused(j) => Refused(j)'
      BY <1>s, <2>1 DEF Refused
    <3> QED BY <1>s, <2>1, <3>1, <3>2 DEF Inv, Verdicts, Walking
  <2>3. Cancelling'
    BY <1>s DEF Inv, Cancelling, parallel
  <2>4. CancelledNeverWins'
    BY <1>s DEF CancelledNeverWins
  <2> QED BY <2>2, <2>3, <2>4
<1>5. ASSUME NEW k \in Arms, Launch(k) PROVE Inv'
  <2>1. /\ live[k] /\ k >= next /\ ~IsFirst(k) /\ main = "launch"
        /\ main' \in {"launch", "inline"} /\ next' = k + 1
    BY <1>5 DEF Launch, Goes, IsNextLive, LiveFrom
  <2>2. pc[k] = "idle"
    BY <2>1, <1>0 DEF Inv, Placement
  <2>3. Fresh(k)
    BY <2>1 DEF Inv, Unsettled
  <2>4. Verdicts' /\ Cancelling' /\ CancelledNeverWins'
    BY <1>5, <1>s, <2>1, <2>2, <2>3 DEF Launch
  <2>5. \A j \in Arms : /\ IsFirst(j)' = IsFirst(j) /\ Fresh(j)' = Fresh(j)
                        /\ j # k => pc'[j] = pc[j]
    BY <1>5 DEF Launch, IsFirst, LiveFrom, Fresh
  <2>6. Placement'
    BY <1>0, <1>5, <2>1, <2>5 DEF Launch, Inv, Placement
  <2>7. Unsettled'
    BY <1>0, <1>5, <2>1, <2>5 DEF Launch, Inv, Unsettled
  <2> QED BY <2>4, <2>6, <2>7 DEF Inv
<1>6. ASSUME NEW k \in Arms, LaunchSkipsFirst(k) PROVE Inv'
  <2>1. k >= next /\ main = "launch" /\ main' = "launch" /\ next' = k + 1
    BY <1>6 DEF LaunchSkipsFirst, IsNextLive, LiveFrom
  <2>2. \A j \in Arms : IsFirst(j)' = IsFirst(j) /\ Fresh(j)' = Fresh(j)
    BY <1>6 DEF LaunchSkipsFirst, IsFirst, LiveFrom, Fresh
  <2>3. Placement'
    BY <1>0, <1>6, <2>1, <2>2 DEF LaunchSkipsFirst, Inv, Placement
  <2>4. Unsettled'
    BY <1>0, <1>6, <2>1, <2>2 DEF LaunchSkipsFirst, Inv, Unsettled
  <2> QED BY <1>6, <2>1, <2>2, <2>3, <2>4
          DEF LaunchSkipsFirst, Inv, Verdicts, Cancelling, CancelledNeverWins,
              parallel, Refused
<1>7. ASSUME NEW k \in Arms, RunFirst(k) PROVE Inv'
  <2>1. IsFirst(k) /\ live[k] /\ main = "launch" /\ main' = "join"
    BY <1>7 DEF RunFirst, Goes, IsFirst
  <2>2. pc[k] = "idle"
    BY <2>1 DEF Inv, Placement
  <2>3. Fresh(k)
    BY <2>1 DEF Inv, Unsettled
  <2>4. Verdicts' /\ Cancelling' /\ CancelledNeverWins'
    BY <1>7, <1>s, <2>1, <2>2, <2>3 DEF RunFirst
  <2>5. \A j \in Arms : /\ IsFirst(j)' = IsFirst(j)
                        /\ j # k => pc'[j] = pc[j] /\ ~IsFirst(j)
                        /\ IsFirst(j) => site'[j] = "caller"
    BY <1>0, <1>7, <2>1 DEF RunFirst, IsFirst, LiveFrom
  <2>6. Placement'
    BY <1>7, <2>1, <2>5 DEF RunFirst, Inv, Placement
  <2>7. Unsettled'
    BY <2>1 DEF Unsettled
  <2> QED BY <2>4, <2>6, <2>7 DEF Inv
<1>8. ASSUME NEW k \in Arms, Turn(k) PROVE Inv'
  <2>1. IsNextLive(k) /\ live[k] /\ main = "turn" /\ main' = "wait"
    BY <1>8 DEF Turn, Goes, IsNextLive, LiveFrom
  <2>2. pc[k] = "idle" /\ Fresh(k)
    BY <2>1 DEF Inv, Placement, Unsettled
  <2>3. Verdicts' /\ Cancelling' /\ CancelledNeverWins'
    BY <1>8, <1>s, <2>1, <2>2 DEF Turn
  <2>4. \A j \in Arms : /\ IsNextLive(j)' = IsNextLive(j)
                        /\ Fresh(j)' = Fresh(j)
                        /\ j # k => pc'[j] = "idle"
    BY <1>8, <2>1 DEF Turn, IsNextLive, LiveFrom, Fresh, Inv, Placement
  <2>5. site'[k] = "caller" /\ pc'[k] = "call"
    BY <1>8 DEF Turn
  <2>6. Placement'
    BY <2>1, <2>4, <2>5 DEF Placement
  <2>7. Unsettled'
    BY <1>8, <2>1, <2>4 DEF Turn, Inv, Unsettled
  <2> QED BY <2>3, <2>6, <2>7 DEF Inv
<1>9. ASSUME NEW k \in Arms, SettleArm(k) PROVE Inv'
  <2>1. /\ main \in {"wait", "settle"} /\ live[k] /\ k >= next /\ IsNextLive(k)
        /\ main' = IF Wins(k) THEN "choose"
                   ELSE IF main = "wait" THEN "turn" ELSE main
        /\ next' = k + 1 /\ winner' = IF Wins(k) THEN k ELSE winner
    BY <1>9 DEF SettleArm, Goes, IsNextLive, LiveFrom
  <2>2. \A j \in Arms : pc'[j] = "idle"
    BY <1>0, <1>9, <2>1 DEF SettleArm, Idle, Inv, Placement
  <2>3. \A j \in Arms : /\ Fresh(j)' = Fresh(j)
                        /\ j # k => live'[j] = live[j]
                        /\ live'[j] => live[j]
    BY <1>9, <2>1 DEF SettleArm, Fresh
  <2>4. Wins(k) => live'[k]
    BY <1>9 DEF SettleArm
  <2>5. ~Wins(k) => (live'[k] => Fresh(k))
    BY <1>9 DEF SettleArm, Fresh
  <2>6. \A j \in Arms : live[j] /\ j # k =>
          Fresh(j) \/ (main = "settle" /\ j > k)
    BY <1>0, <2>1 DEF Inv, Unsettled, IsNextLive, LiveFrom
  <2>7. Placement'
    BY <2>1, <2>2 DEF Placement
  <2>8. Unsettled'
    BY <1>0, <2>1, <2>3, <2>5, <2>6 DEF Unsettled, Inv, Verdicts
  <2>9. Verdicts'
    <3>1. \A j \in Arms : status[j] \in StoppedByCaller => live'[j]
      BY <2>3, <2>4 DEF Inv, Verdicts, Wins, Fresh
    <3>2. UNCHANGED <<plan, answered, status, code>>
      BY <1>9 DEF SettleArm
    <3> QED BY <2>1, <2>2, <2>3, <3>1, <3>2 DEF Inv, Verdicts, Walking, Refused
  <2>10. Cancelling'
    <3>1. /\ UNCHANGED <<plan, cap, threads, answered, stopped, status>>
      BY <1>9 DEF SettleArm
    <3>2. CASE answered = NArms
      BY <1>0, <2>1, <3>1, <3>2 DEF Inv, Verdicts, Cancelling, parallel
    <3>3. CASE answered # NArms
      <4>0. answered \in 0 .. NArms
        OBVIOUS
      <4>1. answered \in Arms /\ live[answered] /\ status[answered] \in Decided
        BY <3>3, <4>0, RaceAssumption DEF Inv, Cancelling
      <4>2. ~Fresh(answered) /\ code[answered] = "OK"
        BY <4>1 DEF Inv, Verdicts, Fresh
      <4>3. live'[answered]
        BY <2>3, <2>4, <4>1, <4>2 DEF Wins
      <4>4. k <= answered
        BY <1>0, <2>6, <4>1, <4>2
      <4> QED BY <2>1, <3>1, <4>1, <4>3, <4>4
              DEF Inv, Verdicts, Cancelling, parallel
    <3> QED BY <3>2, <3>3
  <2>11. CancelledNeverWins'
    BY <2>1 DEF CancelledNeverWins
  <2> QED BY <2>7, <2>8, <2>9, <2>10, <2>11 DEF Inv
<1>10. CASE InlineDone
  BY <1>10 DEF InlineDone, Goes, Inv, Placement, Unsettled, Verdicts, Walking,
      Cancelling, CancelledNeverWins, Fresh, Refused, parallel, IsFirst, LiveFrom
<1>11. CASE Join
  BY <1>11 DEF Join, Goes, Idle, Inv, Placement, Unsettled, Verdicts, Walking,
      Cancelling, CancelledNeverWins, Fresh, Refused, parallel
<1>12. CASE SpendOut
  BY <1>12 DEF SpendOut, Goes, Inv, Placement, Unsettled, Verdicts, Walking,
      Cancelling, CancelledNeverWins, Fresh, Refused, parallel
<1>13. CASE NextRound
  <2>1. \A j \in Arms : live[j] => Fresh(j)
    BY <1>0, <1>13 DEF NextRound, RoundOver, LiveFrom, Inv, Unsettled
  <2> QED
    BY <1>13, <2>1 DEF NextRound, RoundOver, Goes, Inv, Placement, Unsettled,
      Verdicts, Walking, Cancelling, CancelledNeverWins, Fresh, Refused, parallel
<1>14. CASE LastRound
  <2>1. \A j \in Arms : live[j] => Fresh(j)
    BY <1>0, <1>14 DEF LastRound, RoundOver, LiveFrom, Inv, Unsettled
  <2> QED
    BY <1>14, <2>1 DEF LastRound, RoundOver, Goes, Inv, Placement, Unsettled,
      Verdicts, Walking, Cancelling, CancelledNeverWins, Fresh, Refused, parallel
<1>15. CASE TakeAnswer
  <2>1. Chosen \in Arms
    BY ChosenType
  <2>2. status[Chosen] = "INTERRUPTED" /\ parallel => stopped
    <3>1. CASE winner # NoArm
      BY <1>15, <2>1, <3>1 DEF TakeAnswer, Chosen, Inv, Cancelling
    <3>2. CASE winner = NoArm
      BY <1>15, <2>1, <3>2 DEF TakeAnswer, Inv, Unsettled, Verdicts, Fresh
    <3> QED BY <3>1, <3>2
  <2>3. CancelledNeverWins'
    BY <1>15, <2>2 DEF TakeAnswer, Goes, CancelledNeverWins, parallel
  <2> QED
    BY <1>15, <2>3 DEF TakeAnswer, Goes, Inv, Placement, Unsettled, Verdicts,
      Walking, Cancelling, Fresh, Refused, parallel
<1> QED
  BY <1>1, <1>2, <1>3, <1>4, <1>5, <1>6, <1>7, <1>8, <1>9, <1>10, <1>11,
     <1>12, <1>13, <1>14, <1>15 DEF MainStep

THEOREM Invariance == SecondPassPublishes => (Spec => []Inv)
<1> SUFFICES ASSUME SecondPassPublishes PROVE Spec => []Inv
  OBVIOUS
<1>1. TypeOK /\ Inv /\ [Next]_vars => Inv'
  <2> SUFFICES ASSUME TypeOK, Inv, [Next]_vars PROVE Inv'
    OBVIOUS
  <2>1. CASE UNCHANGED vars
    BY <2>1 DEF vars, Inv, Placement, Unsettled, Verdicts, Cancelling,
        CancelledNeverWins, IsNextLive, IsFirst, LiveFrom, Fresh, Refused,
        parallel
  <2> QED BY <2>1, ArmInv, MainInv DEF Next
<1> QED BY InitInv, Typing, <1>1, PTL DEF Spec

\* The losing arms of a parallel race end with the status a caller's STOP
\* gives, and no such answer is ever taken for the race's (arm_progress,
\* run_arm, settle_arm): for any number of arms and threads, as long as
\* presolve's certificates hold.
THEOREM NoCancelledAnswer == SecondPassPublishes => (Spec =>
        []CancelledNeverWins)
<1>1. Inv => CancelledNeverWins
  BY DEF Inv
<1> QED BY <1>1, Invariance, PTL

LEMMA PlacementCallback ==
    ASSUME TypeOK, Placement
    PROVE  CallbackOnCaller
<1> USE DEF TypeOK, AtRest, InParallel
<1>1. ASSUME NEW k \in Arms, pc[k] = "callback"
      PROVE  /\ site[k] = "caller"
             /\ \/ main = "wait" /\ IsNextLive(k)
                \/ main = "join" /\ IsFirst(k)
  BY <1>1 DEF Placement
<1>2. \A j, k \in Arms : IsNextLive(j) /\ IsNextLive(k) => j <= k /\ k <= j
  BY DEF IsNextLive
<1>3. \A j, k \in Arms : IsFirst(j) /\ IsFirst(k) => j <= k /\ k <= j
  BY RaceAssumption DEF IsFirst, LiveFrom
<1>4. \A j, k \in Arms : j <= k /\ k <= j => j = k
  OBVIOUS
<1> QED BY <1>1, <1>2, <1>3, <1>4 DEF CallbackOnCaller

\* The caller's progress callback runs on the calling thread only, one call
\* at a time, whatever threads start or fail to start.
THEOREM CallbackStaysOnCaller == SecondPassPublishes => (Spec =>
        []CallbackOnCaller)
<1>1. TypeOK /\ Inv => CallbackOnCaller
  BY PlacementCallback DEF Inv
<1> QED BY <1>1, Typing, Invariance, PTL

\* An arm's model is read only when no thread can write it.
THEOREM NoReadBeforeJoin == SecondPassPublishes => (Spec => []ReadsAfterJoin)
<1>1. Inv => ReadsAfterJoin
  BY DEF Inv, Placement, ReadsAfterJoin, AtRest
<1> QED BY <1>1, Invariance, PTL

-----------------------------------------------------------------------------
(* What a turn is, whoever runs it and whatever runs beside it: the          *)
(* invariant behind the refinement.                                          *)

\* The turn of arm k goes on with a parked walk, under this limit.
GoesOn(k) == plan[k].parks /\ ~FirstRound
TurnLimit(k) == Give(slice, cap, spent, IF GoesOn(k) THEN last[k] ELSE 0)

\* Arm k has been started for its turn of this round and is not settled.
Begun(k) ==
    /\ live[k]
    /\ \/ main = "wait" /\ IsNextLive(k)
       \/ main \in {"launch", "inline"} /\ k < next /\ ~IsFirst(k)
       \/ main = "join"
       \/ main = "settle" /\ k >= next

\* Between two turns an arm is as its last turn left it; a parked walk has
\* its budgets behind it and its end before it.
Rested(k, verdict) ==
    /\ status[k] = verdict /\ code[k] = "OK"
    /\ parked[k] = (plan[k].parks /\ verdict = "WORK_LIMIT")
    /\ units[k] = last[k]
    /\ parked[k] => /\ at[k] = last[k]
                    /\ last[k] <= slice /\ last[k] <= plan[k].need

\* On its walk it has neither passed its limit nor its end, and has published
\* nothing but what its presolve did.
Published(k) == plan[k].presolved /\ ~resumed[k]
OnWalk(k) ==
    /\ status[k] = (IF Published(k) THEN "INFEASIBLE" ELSE Before)
    /\ code[k] = "OK" /\ units[k] = (IF Published(k) THEN 0 ELSE last[k])
    /\ at[k] <= limit[k] /\ at[k] <= plan[k].need

\* What its turn came to.
Cut(k) ==
    /\ ~EndsWithin(plan[k], limit[k])
    /\ status[k] = "WORK_LIMIT" /\ code[k] = "OK"
    /\ units[k] = limit[k] /\ at[k] = limit[k]
    /\ parked[k] = plan[k].parks
Ended(k) ==
    /\ EndsWithin(plan[k], limit[k]) /\ plan[k].end # "ERR"
    /\ status[k] = plan[k].end /\ code[k] = "OK" /\ units[k] = plan[k].need
Failed(k) ==
    /\ EndsWithin(plan[k], limit[k]) /\ plan[k].end = "ERR"
    /\ status[k] = Before /\ code[k] = "ERR" /\ units[k] = last[k]
Stopped(k) ==
    /\ status[k] \in StoppedByCaller /\ code[k] = "OK"
    /\ units[k] <= limit[k]
CameTo(k) == Cut(k) \/ Ended(k) \/ Failed(k) \/ Stopped(k)

Stage(k) ==
    /\ limit[k] = TurnLimit(k)
    /\ pc[k] = "call" => Rested(k, Before)
    /\ pc[k] # "call" => resumed[k] = GoesOn(k)
    /\ pc[k] \in Walking \ {"call"} => OnWalk(k)
    /\ pc[k] \notin Walking => CameTo(k)

Turning ==
    /\ \A k \in Arms : Begun(k) => Stage(k)
    /\ main \notin {"choose", "returned"} =>
         \A k \in Arms : live[k] /\ ~Begun(k) =>
           Rested(k, IF k < Turns THEN "WORK_LIMIT" ELSE Before)
    /\ main \in InParallel => \A k \in Arms : live[k] => limit[k] = slice
    /\ main = "choose" /\ winner = NoArm =>
         \A k \in Arms : InFlight(k) => status[k] = Before /\ code[k] = "OK"

\* Only the caller or an earlier answer interrupts an arm.
Interrupting ==
    /\ stopped => UserMayStop
    /\ \A k \in Arms : status[k] = "INTERRUPTED" =>
         UserMayStop \/ answered < k
    /\ \A k \in Arms : status[k] = "TIME_LIMIT" => ClockMayRunOut

\* What each place of the calling thread says of its own variables.
Calling ==
    /\ slice >= Slice
    /\ main # "returned" => answer = NoAnswer
    /\ main \notin {"choose", "returned"} => winner = NoArm /\ ~spentOut
    /\ main = "round" => next = 0
    /\ main = "wait" => ~(cap > 0 /\ spent >= cap)
    /\ main \in InParallel \cup {"settle"} => parallel /\ ~FirstRound
    /\ main \in InParallel => LiveFrom(0) # {}
    /\ main \in {"turn", "settle"} /\ next = 0 => LiveFrom(0) # {}
    /\ main = "choose" =>
         \/ winner # NoArm
         \/ spentOut
         \/ next = 0 /\ LiveFrom(0) = {}
         \/ /\ next > 0 /\ LiveFrom(next) = {}
            /\ slice > MaxUnits \div Growth
    /\ winner # NoArm => winner < next

\* A STOP that the callback gave is with the arm whose turn the race settles
\* next, and then with the winner.
HasStop(k) ==
    pc[k] \in {"ended", "idle"} /\ status[k] = "INTERRUPTED" /\ code[k] = "OK"
Stopping ==
    stopped =>
      \/ main = "wait" /\ \E k \in Arms : IsNextLive(k) /\ HasStop(k)
      \/ main = "join" /\ \E k \in Arms : IsFirst(k) /\ HasStop(k)
      \/ main = "settle" /\ \E k \in Arms : IsNextLive(k) /\ HasStop(k)
      \/ main = "choose" /\ winner # NoArm /\ status[winner] = "INTERRUPTED"
                         /\ code[winner] = "OK"
      \/ main = "returned" /\ answer.status = "INTERRUPTED"
                           /\ answer.code = "OK"

-----------------------------------------------------------------------------
(* What a step of an arm does to its own turn, and not to the others.       *)

\* A step of arm k is its own: it touches no other arm and nothing of the
\* calling thread.
OwnStep(k) ==
    /\ UNCHANGED <<fixed, call, main, next, live, last, limit, asks, site>>
    /\ pc[k] # "idle"
    /\ \A j \in Arms \ {k} :
         /\ pc'[j] = pc[j] /\ status'[j] = status[j] /\ code'[j] = code[j]
         /\ units'[j] = units[j] /\ at'[j] = at[j] /\ parked'[j] = parked[j]
         /\ resumed'[j] = resumed[j]

LEMMA PublishesOwn ==
  ASSUME TypeOK, NEW k \in Arms, NEW verdict, Publishes(k, verdict),
         pc[k] # "idle"
  PROVE  OwnStep(k)
BY DEF Publishes, OwnStep, TypeOK

LEMMA PassesOwn ==
  ASSUME TypeOK, NEW k \in Arms, NEW place, PollPasses(k, place),
         pc[k] # "idle"
  PROVE  OwnStep(k)
BY DEF PollPasses, OwnStep, TypeOK

LEMMA StepIsOwn ==
  ASSUME TypeOK, NEW k \in Arms, ArmStep(k)
  PROVE  OwnStep(k)
<1>1. CASE ArmCall(k)
  BY <1>1 DEF ArmCall, OwnStep, TypeOK
<1>2. CASE ArmFails(k)
  BY <1>2, PublishesOwn DEF ArmFails, OwnStep, TypeOK
<1>3. CASE ArmLimit(k) \/ ArmClock(k) \/ ArmEnds(k)
  BY <1>3, PublishesOwn DEF ArmLimit, ArmClock, ArmEnds, InLoop
<1>4. CASE ArmPolls(k) \/ ArmPivots(k)
  BY <1>4 DEF ArmPolls, ArmPivots, InLoop, OwnStep, TypeOK
<1>5. CASE ArmAsks(k) \/ ArmReadsStopped(k) \/ ArmReadsAnswered(k)
  BY <1>5, PublishesOwn, PassesOwn
     DEF ArmAsks, ArmReadsStopped, ArmReadsAnswered
<1>6. CASE ArmReturns(k) \/ ArmLoads(k) \/ ArmLowers(k)
  BY <1>6 DEF ArmReturns, ArmLoads, ArmLowers, OwnStep, TypeOK
<1> QED
  BY <1>1, <1>2, <1>3, <1>4, <1>5, <1>6 DEF ArmStep

\* Which arm runs is known, and that it has begun its turn.
LEMMA RunningHasBegun ==
  ASSUME TypeOK, Placement, NEW k \in Arms, pc[k] # "idle"
  PROVE  Begun(k) /\ main \notin AtRest
BY DEF TypeOK, Placement, Begun, IsNextLive, LiveFrom, AtRest

\* A verdict published on the walk is what the turn came to.
LEMMA PublishedIsOutcome ==
  ASSUME TypeOK, NEW k \in Arms, Stage(k), pc[k] \in Walking \ {"call"},
         NEW verdict \in Statuses, Publishes(k, verdict),
         \/ verdict = "WORK_LIMIT" /\ at[k] >= limit[k] /\ ~Failing(k)
         \/ /\ verdict = plan[k].end /\ plan[k].end # "ERR"
            /\ at[k] = plan[k].need
            /\ plan[k].end \in Failures \/ at[k] < limit[k]
         \/ verdict \in StoppedByCaller
  PROVE  Stage(k)'
<1>1. /\ limit[k] = TurnLimit(k) /\ resumed[k] = GoesOn(k) /\ OnWalk(k)
  BY DEF Stage, Walking
<1>2. /\ pc'[k] = "ended" /\ status'[k] = verdict /\ code'[k] = "OK"
      /\ units'[k] = at[k] /\ at' = at /\ limit' = limit
      /\ parked'[k] = (plan[k].parks /\
                         verdict \in StoppedByCaller \cup {"WORK_LIMIT"})
      /\ resumed' = resumed /\ plan' = plan
      /\ TurnLimit(k)' = TurnLimit(k) /\ GoesOn(k)' = GoesOn(k)
  BY DEF Publishes, TypeOK, TurnLimit, GoesOn, FirstRound
<1>3. /\ at[k] \in Int /\ limit[k] \in Int /\ plan[k].need \in Int
      /\ at[k] <= limit[k] /\ at[k] <= plan[k].need
      /\ plan[k].parks \in BOOLEAN
  BY <1>1 DEF TypeOK, OnWalk, PlanType
<1>4. CameTo(k)'
  <2>1. CASE verdict = "WORK_LIMIT" /\ at[k] >= limit[k] /\ ~Failing(k)
    <3>1. at[k] = limit[k]
      BY <1>3, <2>1
    <3>2. ~EndsWithin(plan[k], limit[k])
      BY <1>3, <2>1, <3>1 DEF EndsWithin, Failing
    <3> QED
      BY <1>2, <1>3, <2>1, <3>1, <3>2 DEF CameTo, Cut
  <2>2. CASE /\ verdict = plan[k].end /\ plan[k].end # "ERR"
             /\ at[k] = plan[k].need
             /\ plan[k].end \in Failures \/ at[k] < limit[k]
    <3>1. EndsWithin(plan[k], limit[k])
      BY <1>3, <2>2 DEF EndsWithin
    <3> QED
      BY <1>2, <2>2, <3>1 DEF CameTo, Ended
  <2>3. CASE verdict \in StoppedByCaller
    BY <1>2, <1>3, <2>3 DEF CameTo, Stopped
  <2> QED
    BY <2>1, <2>2, <2>3
<1> QED
  BY <1>1, <1>2, <1>4 DEF Stage, Walking

\* A step of the walk that publishes nothing.
LEMMA WalkStays ==
  ASSUME TypeOK, NEW k \in Arms, Stage(k), pc[k] \in Walking \ {"call"},
         pc'[k] \in Walking \ {"call"},
         UNCHANGED <<fixed, slice, spent, limit, last, resumed>>,
         status'[k] = status[k], code'[k] = code[k], units'[k] = units[k],
         at'[k] = at[k] \/
           (at'[k] = at[k] + 1 /\ at[k] < limit[k] /\ at[k] # plan[k].need)
  PROVE  Stage(k)'
<1>1. /\ limit[k] = TurnLimit(k) /\ resumed[k] = GoesOn(k) /\ OnWalk(k)
  BY DEF Stage, Walking
<1>2. /\ TurnLimit(k)' = TurnLimit(k) /\ GoesOn(k)' = GoesOn(k)
      /\ Before' = Before
  BY DEF TurnLimit, GoesOn, FirstRound, Before
<1>3. /\ at[k] \in Int /\ limit[k] \in Int /\ plan[k].need \in Int
  BY DEF TypeOK, PlanType
<1>4. OnWalk(k)'
  BY <1>1, <1>2, <1>3 DEF OnWalk, Published
<1> QED
  BY <1>1, <1>2, <1>4 DEF Stage, Walking

\* A step after the verdict.
LEMMA OutcomeStays ==
  ASSUME TypeOK, NEW k \in Arms, Stage(k), pc[k] \notin Walking,
         pc'[k] \notin Walking,
         UNCHANGED <<fixed, slice, spent, limit, last, resumed>>,
         status'[k] = status[k], code'[k] = code[k], units'[k] = units[k],
         at'[k] = at[k], parked'[k] = parked[k]
  PROVE  Stage(k)'
<1>1. /\ TurnLimit(k)' = TurnLimit(k) /\ GoesOn(k)' = GoesOn(k)
      /\ Before' = Before
  BY DEF TurnLimit, GoesOn, FirstRound, Before
<1>2. CameTo(k)'
  BY <1>1 DEF Stage, CameTo, Cut, Ended, Failed, Stopped
<1> QED
  BY <1>1, <1>2 DEF Stage, Walking

\* A turn's limit is no more than the round's budget, and leaves room for
\* what the walk has behind it.
LEMMA LimitHasRoom ==
  ASSUME TypeOK, Calling, NEW k \in Arms, Begun(k)
  PROVE  /\ TurnLimit(k) \in Int /\ TurnLimit(k) <= slice
         /\ ~GoesOn(k) => TurnLimit(k) >= 0
         /\ GoesOn(k) /\ last[k] <= slice => TurnLimit(k) >= last[k]
<1>1. /\ cap \in Int /\ spent \in Int /\ slice \in Int /\ last[k] \in Int
      /\ slice >= 0 /\ last[k] >= 0
  BY DEF TypeOK
<1>2. cap > 0 => cap - spent > 0
  BY <1>1 DEF Calling, Begun, InParallel, parallel
<1> QED
  BY <1>1, <1>2 DEF TurnLimit, Give

LEMMA CallStarts ==
  ASSUME TypeOK, Calling, SecondPassPublishes, plan \in Plans,
         NEW k \in Arms, Begun(k), Stage(k), ArmCall(k)
  PROVE  Stage(k)'
<1>1. /\ limit[k] = TurnLimit(k) /\ Rested(k, Before)
      /\ pc'[k] = "loop" /\ resumed'[k] = parked[k]
  BY DEF ArmCall, Stage, TypeOK
<1>2. Published(k)' = (plan[k].presolved /\ ~parked[k])
  BY <1>1 DEF Published, ArmCall
<1>3. /\ status'[k] = IF Published(k)' THEN "INFEASIBLE" ELSE status[k]
      /\ units'[k] = IF Published(k)' THEN 0 ELSE units[k]
      /\ at'[k] = IF parked[k] THEN at[k] ELSE 0
      /\ UNCHANGED <<fixed, slice, spent, limit, last, code>>
  <2>1. CASE parked[k]
    BY <1>2, <2>1 DEF ArmCall, TypeOK
  <2>2. CASE ~parked[k]
    BY <1>2, <2>2 DEF ArmCall, PresolveStatus, TypeOK
  <2> QED
    BY <2>1, <2>2
<1>4. /\ TurnLimit(k)' = TurnLimit(k) /\ GoesOn(k)' = GoesOn(k)
      /\ Before' = Before
  BY <1>3 DEF TurnLimit, GoesOn, FirstRound, Before
<1>5. parked[k] = GoesOn(k)
  BY <1>1 DEF Rested, GoesOn, Before
<1>6. OnWalk(k)'
  <2>1. /\ last[k] \in Nat /\ plan[k].need \in Nat
        /\ TurnLimit(k) \in Int
    BY LimitHasRoom DEF TypeOK, PlanType
  <2>2. at'[k] <= limit[k]
    BY <1>1, <1>3, <1>5, <2>1, LimitHasRoom DEF Rested
  <2>3. at'[k] <= plan[k].need
    BY <1>1, <1>3, <2>1 DEF Rested
  <2> QED
    BY <1>1, <1>3, <1>4, <2>2, <2>3 DEF OnWalk, Rested
<1> QED
  BY <1>1, <1>3, <1>4, <1>5, <1>6 DEF Stage, Walking

\* Each step of an arm takes its turn one stage on.
LEMMA StepKeepsStage ==
  ASSUME TypeOK, Calling, SecondPassPublishes, plan \in Plans,
         NEW k \in Arms, Begun(k), Stage(k), ArmStep(k)
  PROVE  Stage(k)'
<1> USE DEF Walking
<1>1. CASE ArmCall(k)
  BY <1>1, CallStarts
<1>2. CASE ArmFails(k)
  <2>1. plan[k].end \in Statuses \cup {"ERR"} /\ at[k] = plan[k].need
    BY <1>2 DEF ArmFails, Failing, TypeOK, PlanType
  <2>2. CASE plan[k].end = "ERR"
    <3>1. /\ pc'[k] = "ended" /\ code'[k] = "ERR" /\ status' = status
          /\ units' = units /\ UNCHANGED <<fixed, slice, spent, limit, last,
                                           resumed>>
      BY <1>2, <2>2 DEF ArmFails, TypeOK
    <3>2. /\ TurnLimit(k)' = TurnLimit(k) /\ GoesOn(k)' = GoesOn(k)
          /\ Before' = Before
      BY <3>1 DEF TurnLimit, GoesOn, FirstRound, Before
    <3>3. /\ limit[k] = TurnLimit(k) /\ resumed[k] = GoesOn(k) /\ OnWalk(k)
      BY <1>2 DEF ArmFails, Stage
    <3>4. EndsWithin(plan[k], limit[k])
      BY <2>1, <2>2, <3>3 DEF EndsWithin, OnWalk
    <3>5. ~Published(k)
      BY <2>2 DEF Published, SecondPassPublishes
    <3>6. Failed(k)'
      BY <2>2, <3>1, <3>2, <3>3, <3>4, <3>5 DEF Failed, OnWalk
    <3> QED
      BY <3>1, <3>2, <3>3, <3>6 DEF Stage, CameTo
  <2>3. CASE plan[k].end # "ERR"
    BY <1>2, <2>1, <2>3, PublishedIsOutcome DEF ArmFails, Failing
  <2> QED
    BY <2>2, <2>3
<1>3. CASE ArmLimit(k)
  BY <1>3, PublishedIsOutcome DEF ArmLimit, InLoop
<1>4. CASE ArmClock(k)
  BY <1>4, PublishedIsOutcome DEF ArmClock, InLoop
<1>5. CASE ArmPolls(k)
  BY <1>5, WalkStays DEF ArmPolls, InLoop, TypeOK
<1>6. CASE ArmEnds(k)
  <2>1. plan[k].end \in Statuses /\ plan[k].end # "ERR"
    BY <1>6 DEF ArmEnds, InLoop, Failing, TypeOK, PlanType
  <2> QED
    BY <1>6, <2>1, PublishedIsOutcome DEF ArmEnds, InLoop
<1>7. CASE ArmPivots(k)
  BY <1>7, WalkStays DEF ArmPivots, InLoop, TypeOK
<1>8. ASSUME NEW place \in {"stopped?", "answered?", "loop"},
             PollPasses(k, place), pc[k] \in Walking \ {"call"}
      PROVE  Stage(k)'
  BY <1>8, WalkStays DEF PollPasses, TypeOK
<1>9. CASE ArmAsks(k)
  BY <1>8, <1>9, PublishedIsOutcome DEF ArmAsks
<1>10. CASE ArmReadsStopped(k) \/ ArmReadsAnswered(k)
  BY <1>8, <1>10, PublishedIsOutcome DEF ArmReadsStopped, ArmReadsAnswered
<1>11. CASE ArmReturns(k) \/ ArmLoads(k) \/ ArmLowers(k)
  BY <1>11, OutcomeStays DEF ArmReturns, ArmLoads, ArmLowers, TypeOK
<1> QED
  BY <1>1, <1>2, <1>3, <1>4, <1>5, <1>6, <1>7, <1>9, <1>10, <1>11 DEF ArmStep

\* It takes no other arm's, and the arms at rest stay so.
LEMMA StepKeepsTurning ==
  ASSUME TypeOK, Placement, Calling, Turning, SecondPassPublishes, plan \in Plans,
         NEW k \in Arms, ArmStep(k)
  PROVE  Turning'
<1>1. OwnStep(k)
  BY StepIsOwn
<1>2. Begun(k) /\ main \notin AtRest
  BY <1>1, RunningHasBegun DEF OwnStep
<1>3. Stage(k)'
  BY <1>2, StepKeepsStage DEF Turning
<1>4. \A j \in Arms : Begun(j)' = Begun(j)
  BY <1>1 DEF OwnStep, Begun, IsNextLive, IsFirst, LiveFrom
<1>5. Before' = Before /\ Turns' = Turns
  BY <1>1 DEF OwnStep, Before, FirstRound, Turns
<1>6. ASSUME NEW j \in Arms, j # k, Begun(j) PROVE Stage(j)'
  <2>1. Stage(j)
    BY <1>6 DEF Turning
  <2>2. TurnLimit(j)' = TurnLimit(j) /\ GoesOn(j)' = GoesOn(j)
    BY <1>1 DEF OwnStep, TurnLimit, GoesOn, FirstRound
  <2> QED
    BY <1>1, <1>5, <1>6, <2>1, <2>2
       DEF OwnStep, Stage, Rested, OnWalk, CameTo, Cut, Ended, Failed, Stopped,
           Published
<1>7. ASSUME NEW j \in Arms, live[j], ~Begun(j)
      PROVE  Rested(j, IF j < Turns THEN "WORK_LIMIT" ELSE Before)'
  <2>1. Rested(j, IF j < Turns THEN "WORK_LIMIT" ELSE Before) /\ j # k
    BY <1>2, <1>7 DEF Turning, AtRest
  <2> QED
    BY <1>1, <1>5, <1>7, <2>1 DEF OwnStep, Rested
<1>8. main' = main /\ live' = live /\ limit' = limit /\ slice' = slice
  BY <1>1 DEF OwnStep
<1>9. main \in InParallel =>
        \A j \in Arms : live[j] => limit'[j] = slice'
  BY <1>8 DEF Turning
<1> QED
  BY <1>2, <1>3, <1>4, <1>6, <1>7, <1>8, <1>9
     DEF Turning, AtRest

LEMMA StepKeepsCalling ==
  ASSUME TypeOK, Placement, Calling, NEW k \in Arms, ArmStep(k)
  PROVE  Calling'
BY StepIsOwn DEF OwnStep, Calling, FirstRound, parallel, LiveFrom

LEMMA StepKeepsInterrupting ==
  ASSUME TypeOK, Inv, Interrupting, NEW k \in Arms,
         ArmStep(k)
  PROVE  Interrupting'
<1>0. /\ plan[k].end \in Statuses \cup {"ERR"}
      /\ plan[k].end \notin StoppedByCaller
  <2>1. plan[k] \in PlanType
    BY DEF TypeOK
  <2> QED
    BY <2>1 DEF PlanType
<1>1. OwnStep(k)
  BY StepIsOwn
<1>2. ASSUME NEW verdict, Publishes(k, verdict), answered' = answered,
             stopped' = stopped \/ (UserMayStop /\ stopped' \in BOOLEAN),
             verdict = "INTERRUPTED" => UserMayStop \/ answered < k,
             verdict = "TIME_LIMIT" => ClockMayRunOut
      PROVE  Interrupting'
  <2>1. status'[k] = verdict
    BY <1>2 DEF Publishes, TypeOK
  <2> QED
    BY <1>1, <1>2, <2>1 DEF OwnStep, Interrupting
<1>3. ASSUME status'[k] \in {status[k], "INFEASIBLE"}, stopped' = stopped,
             answered' = answered \/ (answered' = k /\ k < answered)
      PROVE  Interrupting'
  <2>1. \A j \in Arms : answered < j => answered' < j
    BY <1>3 DEF TypeOK
  <2>2. \A j \in Arms : status'[j] \in {status[j], "INFEASIBLE"}
    BY <1>1, <1>3 DEF OwnStep
  <2> QED
    BY <1>3, <2>1, <2>2 DEF Interrupting
<1>4. CASE ArmCall(k)
  BY <1>0, <1>3, <1>4 DEF ArmCall, PresolveStatus, TypeOK
<1>5. CASE ArmFails(k)
  BY <1>0, <1>2, <1>3, <1>5 DEF ArmFails, TypeOK
<1>6. CASE ArmLimit(k) \/ ArmClock(k) \/ ArmEnds(k)
  BY <1>0, <1>2, <1>6 DEF ArmLimit, ArmClock, ArmEnds
<1>7. CASE ArmPolls(k) \/ ArmPivots(k) \/ ArmReturns(k) \/ ArmLoads(k)
  BY <1>3, <1>7 DEF ArmPolls, ArmPivots, ArmReturns, ArmLoads
<1>8. ASSUME NEW place, PollPasses(k, place) PROVE Interrupting'
  BY <1>3, <1>8 DEF PollPasses
<1>9. CASE ArmAsks(k)
  <2>1. stopped \in BOOLEAN /\ parallel \in BOOLEAN
    BY DEF TypeOK, parallel
  <2> QED
    BY <1>2, <1>8, <1>9, <2>1 DEF ArmAsks
<1>10. CASE ArmReadsStopped(k) \/ ArmReadsAnswered(k)
  BY <1>2, <1>8, <1>10
     DEF ArmReadsStopped, ArmReadsAnswered, Interrupting
<1>11. CASE ArmLowers(k)
  <2>1. k \in Int /\ seen[k] \in Int
    BY DEF TypeOK
  <2> QED
    BY <1>3, <1>11, <2>1 DEF ArmLowers
<1> QED
  BY <1>4, <1>5, <1>6, <1>7, <1>9, <1>10, <1>11 DEF ArmStep

\* An arm that was stopped has nothing left to do but return.
LEMMA StopHolds ==
  ASSUME TypeOK, NEW j \in Arms, HasStop(j), NEW k \in Arms, ArmStep(k)
  PROVE  HasStop(j)'
<1>1. OwnStep(k)
  BY StepIsOwn
<1>2. CASE j # k
  BY <1>1, <1>2 DEF OwnStep, HasStop
<1>3. CASE j = k
  <2>1. ArmReturns(k)
    BY <1>1, <1>3
       DEF ArmStep, HasStop, OwnStep, ArmCall, ArmFails, ArmLimit, ArmClock,
           ArmPolls, ArmEnds, ArmPivots, InLoop, ArmAsks, ArmReadsStopped,
           ArmReadsAnswered, ArmLoads, ArmLowers
  <2> QED
    BY <1>3, <2>1 DEF ArmReturns, HasStop, TypeOK
<1> QED
  BY <1>2, <1>3

LEMMA StepKeepsStopping ==
  ASSUME TypeOK, Inv, Stopping, NEW k \in Arms, ArmStep(k)
  PROVE  Stopping'
<1>1. OwnStep(k)
  BY StepIsOwn
<1>2. Begun(k) /\ main \notin AtRest
  BY <1>1, RunningHasBegun DEF OwnStep, Inv
<1>3. /\ \A j \in Arms : IsNextLive(j)' = IsNextLive(j)
      /\ \A j \in Arms : IsFirst(j)' = IsFirst(j)
      /\ main' = main
  BY <1>1 DEF OwnStep, IsNextLive, IsFirst, LiveFrom
<1>4. CASE stopped
  BY <1>2, <1>3, <1>4, StopHolds DEF Stopping, AtRest
<1>5. CASE ~stopped
  <2>1. CASE stopped'
    <3>1. /\ ArmAsks(k) /\ Publishes(k, "INTERRUPTED")
      BY <1>5, <2>1
         DEF ArmStep, ArmCall, ArmFails, ArmLimit, ArmClock, ArmPolls, ArmEnds,
             ArmPivots, ArmAsks, ArmReadsStopped, ArmReadsAnswered, ArmReturns,
             ArmLoads, ArmLowers, PollPasses
    <3>2. HasStop(k)'
      BY <3>1 DEF Publishes, HasStop, TypeOK
    <3>3. (main = "wait" /\ IsNextLive(k)) \/ (main = "join" /\ IsFirst(k))
      <4>1. pc[k] = "callback" /\ asks[k] /\ live[k]
        BY <1>2, <3>1 DEF ArmAsks, Inv, Placement, Begun
      <4> QED
        BY <1>2, <4>1 DEF Begun, AtRest, Inv, Placement, InParallel
    <3> QED
      BY <1>3, <3>2, <3>3 DEF Stopping
  <2> QED
    BY <2>1 DEF Stopping
<1> QED
  BY <1>4, <1>5 DEF TypeOK

-----------------------------------------------------------------------------
(* A STOP from the callback, followed to the answer.                         *)

LEMMA OneIsNext ==
  /\ \A i, j \in Arms : IsNextLive(i) /\ IsNextLive(j) => i = j
  /\ \A i, j \in Arms : IsFirst(i) /\ IsFirst(j) => i = j
<1>1. ASSUME NEW i \in Arms, NEW j \in Arms, i <= j, j <= i PROVE i = j
  BY <1>1, RaceAssumption
<1>2. \A i \in Arms : i >= 0
  BY RaceAssumption
<1> QED
  BY <1>1, <1>2 DEF IsNextLive, IsFirst, LiveFrom

LEMMA MainKeepsStopping ==
  ASSUME TypeOK, Stopping, MainStep
  PROVE  Stopping'
<1> SUFFICES ASSUME stopped PROVE Stopping'
  BY DEF MainStep, CopyFails, NoneLive, SequentialRound, ParallelRound, Launch,
     LaunchSkipsFirst, RunFirst, Turn, SettleArm, InlineDone, Join, SpendOut,
     NextRound, LastRound, TakeAnswer, Stopping
<1>1. ASSUME NEW k \in Arms, IsNextLive(k), HasStop(k),
             main \in {"wait", "settle"}
      PROVE  Stopping'
  <2>1. ~RoundOver
    BY <1>1 DEF RoundOver, IsNextLive
  <2>2. Wins(k)
    BY <1>1 DEF Wins, HasStop
  <2>3. \E j \in Arms : SettleArm(j)
    BY <1>1, <2>1
       DEF MainStep, CopyFails, NoneLive, SequentialRound, ParallelRound,
           Launch, LaunchSkipsFirst, RunFirst, Turn, InlineDone, Join, SpendOut,
           NextRound, LastRound, TakeAnswer
  <2>4. SettleArm(k)
    BY <1>1, <2>3, OneIsNext DEF SettleArm
  <2> QED
    BY <1>1, <2>2, <2>4, RaceAssumption
       DEF SettleArm, Goes, Stopping, HasStop
<1>2. ASSUME NEW k \in Arms, IsFirst(k), HasStop(k), main = "join"
      PROVE  Stopping'
  <2>1. Join
    BY <1>2
       DEF MainStep, CopyFails, NoneLive, SequentialRound, ParallelRound,
           Launch, LaunchSkipsFirst, RunFirst, Turn, SettleArm, InlineDone,
           SpendOut, NextRound, LastRound, TakeAnswer, RoundOver
  <2>2. IsNextLive(k)'
    BY <1>2, <2>1, RaceAssumption DEF Join, IsNextLive, IsFirst, LiveFrom
  <2>3. HasStop(k)' /\ main' = "settle"
    BY <1>2, <2>1 DEF Join, Goes, HasStop
  <2> QED
    BY <2>2, <2>3 DEF Stopping
<1>3. CASE main = "choose" /\ winner # NoArm /\ status[winner] = "INTERRUPTED"
           /\ code[winner] = "OK"
  <2>1. TakeAnswer
    BY <1>3
       DEF MainStep, CopyFails, NoneLive, SequentialRound, ParallelRound,
           Launch, LaunchSkipsFirst, RunFirst, Turn, SettleArm, InlineDone,
           SpendOut, NextRound, LastRound, Join, RoundOver
  <2> QED
    BY <1>3, <2>1 DEF TakeAnswer, Goes, Chosen, Stopping
<1>4. main # "returned"
  BY DEF MainStep, CopyFails, NoneLive, SequentialRound, ParallelRound, Launch,
     LaunchSkipsFirst, RunFirst, Turn, SettleArm, InlineDone, Join, SpendOut,
     NextRound, LastRound, RoundOver, TakeAnswer
<1> QED
  BY <1>1, <1>2, <1>3, <1>4 DEF Stopping

\* A STOP from the caller's callback is the answer: the arm that asks is the
\* first live one and the race is settled in index order, so that whatever
\* the other arms come to beside it is never looked at (arm_progress,
\* settle_arm).
\* The race never loses a STOP: the arm whose callback gave it is the one the
\* race settles next, that arm wins, and its status is the answer's, on any
\* number of threads (arm_progress, settle_arm, take_answer; docs/api.md, "a
\* stop there stops the other methods too").
THEOREM StopIsTheAnswer == SecondPassPublishes => (Spec =>
        []StopReachesTheAnswer)
<1> SUFFICES ASSUME SecondPassPublishes PROVE Spec => []StopReachesTheAnswer
  OBVIOUS
<1>1. Init => Stopping
  BY DEF Init, Stopping
<1>2. TypeOK /\ Inv /\ Stopping /\ [Next]_vars => Stopping'
  <2> SUFFICES ASSUME TypeOK, Inv, Stopping, [Next]_vars PROVE Stopping'
    OBVIOUS
  <2>1. CASE UNCHANGED vars
    BY <2>1 DEF vars, Stopping, HasStop, IsNextLive, IsFirst, LiveFrom
  <2> QED
    BY <2>1, StepKeepsStopping, MainKeepsStopping DEF Next
<1>3. Stopping => StopReachesTheAnswer
  BY DEF Stopping, StopReachesTheAnswer
<1> QED
  BY <1>1, <1>2, <1>3, Typing, Invariance, PTL DEF Spec

-----------------------------------------------------------------------------
(* What the calling thread does to its own variables and to the turns.      *)

LEMMA MainKeepsInterrupting ==
  ASSUME TypeOK, Inv, Interrupting, MainStep
  PROVE  Interrupting'
<1>1. stopped' = stopped /\ status' = status
  BY DEF MainStep, CopyFails, NoneLive, SequentialRound, ParallelRound, Launch,
     LaunchSkipsFirst, RunFirst, Turn, SettleArm, InlineDone, Join, SpendOut,
     NextRound, LastRound, TakeAnswer
<1>2. CASE answered' = answered
  BY <1>1, <1>2 DEF Interrupting
<1>3. CASE ParallelRound
  <2>1. \A k \in Arms : status[k] \notin StoppedByCaller
    BY <1>3 DEF ParallelRound, Inv, Unsettled, Verdicts, Fresh
  <2> QED
    BY <1>1, <2>1 DEF Interrupting
<1> QED
  BY <1>2, <1>3
     DEF MainStep, CopyFails, NoneLive, SequentialRound, Launch,
         LaunchSkipsFirst, RunFirst, Turn, SettleArm, InlineDone, Join,
         SpendOut, NextRound, LastRound, TakeAnswer

LEMMA BudgetGrows ==
  ASSUME NEW s \in Nat, s >= Slice
  PROVE  s * Growth \in Nat /\ s * Growth > s /\ s * Growth >= Slice
<1>1. Slice \in Nat /\ Slice > 0 /\ Growth \in Nat /\ Growth >= 2
  BY RaceAssumption
<1>2. \A g \in Nat : g >= 2 => s * g \in Nat /\ s * g >= s + s
  BY Z3
<1> QED
  BY <1>1, <1>2

LEMMA MainKeepsCalling ==
  ASSUME TypeOK, Inv, Calling, MainStep
  PROVE  Calling'
<1> USE DEF InParallel
<1>0. slice \in Nat /\ next \in Nat /\ Slice \in Nat
  BY RaceAssumption DEF TypeOK
<1>1. CASE CopyFails
  BY <1>1 DEF CopyFails, Goes, Calling
<1>2. CASE NoneLive \/ SequentialRound \/ ParallelRound
  BY <1>2 DEF NoneLive, SequentialRound, ParallelRound, Goes, Calling,
     FirstRound, parallel, LiveFrom
<1>3. ASSUME NEW k \in Arms, Launch(k) \/ LaunchSkipsFirst(k) \/ RunFirst(k)
      PROVE  Calling'
  <2>1. k \in Int /\ k >= 0 /\ k + 1 # 0 /\ main = "launch"
    BY <1>3, RaceAssumption DEF Launch, LaunchSkipsFirst, RunFirst
  <2>2. /\ UNCHANGED <<slice, spent, cap, threads, winner, spentOut, answer,
                       live>>
        /\ main' \in InParallel
    BY <1>3 DEF Launch, LaunchSkipsFirst, RunFirst, Goes
  <2> QED
    BY <2>1, <2>2 DEF Calling, FirstRound, parallel, LiveFrom
<1>4. CASE InlineDone \/ Join
  BY <1>4 DEF InlineDone, Join, Goes, Calling, FirstRound, parallel, LiveFrom
<1>5. ASSUME NEW k \in Arms, Turn(k) PROVE Calling'
  BY <1>5 DEF Turn, Goes, Calling, FirstRound, parallel, LiveFrom
<1>6. CASE SpendOut
  BY <1>6 DEF SpendOut, Goes, Calling
<1>7. ASSUME NEW k \in Arms, SettleArm(k) PROVE Calling'
  <2>1. k \in Int /\ k >= 0 /\ k + 1 # 0 /\ k < k + 1
    BY RaceAssumption
  <2>2. /\ UNCHANGED <<slice, cap, threads, spentOut, answer>>
        /\ next' = k + 1 /\ main \in {"wait", "settle"}
        /\ winner' = IF Wins(k) THEN k ELSE winner
        /\ main' = IF Wins(k) THEN "choose"
                   ELSE IF main = "wait" THEN "turn" ELSE main
    BY <1>7 DEF SettleArm, Goes
  <2>3. winner = NoArm /\ ~spentOut /\ answer = NoAnswer /\ slice >= Slice
    BY <2>2 DEF Calling
  <2>4. main = "settle" => parallel' /\ ~FirstRound'
    BY <2>2 DEF Calling, parallel, FirstRound
  <2> QED
    BY <2>1, <2>2, <2>3, <2>4 DEF Calling
<1>8. CASE NextRound
  <2>1. slice' >= Slice
    BY <1>0, <1>8, BudgetGrows DEF NextRound, Calling
  <2> QED
    BY <1>8, <2>1 DEF NextRound, Goes, Calling, RoundOver
<1>9. CASE LastRound
  BY <1>0, <1>9 DEF LastRound, Goes, Calling, RoundOver, LiveFrom
<1>10. CASE TakeAnswer
  BY <1>10 DEF TakeAnswer, Goes, Calling
<1> QED
  BY <1>1, <1>2, <1>3, <1>4, <1>5, <1>6, <1>7, <1>8, <1>9, <1>10 DEF MainStep

\* What an arm's turn depends on.
SameArm(j) ==
    /\ status'[j] = status[j] /\ code'[j] = code[j] /\ units'[j] = units[j]
    /\ at'[j] = at[j] /\ parked'[j] = parked[j] /\ last'[j] = last[j]
    /\ pc'[j] = pc[j] /\ limit'[j] = limit[j] /\ resumed'[j] = resumed[j]
    /\ live'[j] = live[j]

LEMMA SameRested ==
  ASSUME NEW j \in Arms, SameArm(j), NEW verdict, Rested(j, verdict),
         UNCHANGED <<plan, slice>>
  PROVE  Rested(j, verdict)'
BY DEF SameArm, Rested

LEMMA SameStage ==
  ASSUME NEW j \in Arms, SameArm(j), Stage(j),
         UNCHANGED <<plan, cap, threads, slice>>,
         spent' = spent \/ ~(cap > 0)
  PROVE  Stage(j)'
<1>1. /\ TurnLimit(j)' = TurnLimit(j) /\ GoesOn(j)' = GoesOn(j)
      /\ Before' = Before
  BY DEF SameArm, TurnLimit, Give, GoesOn, FirstRound, Before
<1>2. CameTo(j) => CameTo(j)'
  BY <1>1 DEF SameArm, CameTo, Cut, Ended, Failed, Stopped
<1>3. OnWalk(j) => OnWalk(j)'
  BY <1>1 DEF SameArm, OnWalk, Published
<1>4. Rested(j, Before) => Rested(j, Before)'
  BY <1>1 DEF SameArm, Rested
<1> QED
  BY <1>1, <1>2, <1>3, <1>4 DEF SameArm, Stage

\* The turn of an arm at rest begins.
LEMMA TurnBegins ==
  ASSUME TypeOK, NEW k \in Arms, Rested(k, Before), pc'[k] = "call",
         limit'[k] = TurnLimit(k),
         UNCHANGED <<plan, slice, cap, threads, spent, status, code, units, at,
                     parked, last>>
  PROVE  Stage(k)'
<1>1. /\ TurnLimit(k)' = TurnLimit(k) /\ GoesOn(k)' = GoesOn(k)
      /\ Before' = Before
  BY DEF TurnLimit, Give, GoesOn, FirstRound, Before
<1> QED
  BY <1>1 DEF Stage, Rested, Walking

\* A turn whose budget was not enough leaves a walk that the next one goes on
\* with.
LEMMA CutIsRested ==
  ASSUME TypeOK, Calling, NEW k \in Arms, Begun(k), Stage(k), CameTo(k),
         code[k] = "OK", status[k] = "WORK_LIMIT",
         last' = [last EXCEPT ![k] = units[k]],
         UNCHANGED <<plan, slice, status, code, units, at, parked>>
  PROVE  Rested(k, "WORK_LIMIT")'
<1>1. Cut(k)
  BY DEF CameTo, Ended, Failed, Stopped, TypeOK, PlanType
<1>2. last'[k] = limit[k] /\ limit[k] = TurnLimit(k)
  BY <1>1 DEF Cut, TypeOK, Stage
<1>3. limit[k] <= slice
  BY <1>2, LimitHasRoom
<1>4. limit[k] <= plan[k].need
  BY <1>1 DEF Cut, EndsWithin, TypeOK, PlanType
<1> QED
  BY <1>1, <1>2, <1>3, <1>4 DEF Cut, Rested, TypeOK, PlanType

LEMMA MainKeepsTurning ==
  ASSUME TypeOK, Inv, Calling, Turning, MainStep
  PROVE  Turning'
<1> USE DEF InParallel
<1>0. /\ slice \in Nat /\ next \in Nat /\ Slice \in Nat
      /\ \A k \in Arms : k \in Int /\ k >= 0 /\ k < k + 1
  BY RaceAssumption DEF TypeOK
<1>1. CASE CopyFails
  BY <1>1 DEF CopyFails, Goes, Turning, Begun
<1>2. CASE NoneLive
  BY <1>0, <1>2 DEF NoneLive, Goes, Turning, Begun, InFlight, LiveFrom
<1>3. CASE SequentialRound
  <2>1. \A j \in Arms : SameArm(j) /\ ~Begun(j) /\ ~Begun(j)'
    BY <1>3 DEF SequentialRound, Goes, SameArm, Begun
  <2>2. Before' = Before /\ Turns' = Turns /\ UNCHANGED <<plan, slice>>
    BY <1>3 DEF SequentialRound, Goes, Before, FirstRound, Turns
  <2>3. main' = "turn" /\ main = "round" /\ live' = live
    BY <1>3 DEF SequentialRound, Goes
  <2> QED
    BY <2>1, <2>2, <2>3, SameRested DEF Turning
<1>4. CASE ParallelRound
  <2>1. main = "round" /\ main' = "launch" /\ next = 0 /\ next' = 0
    BY <1>4 DEF ParallelRound, Goes, Calling
  <2>2. \A j \in Arms : live[j] => Rested(j, Before)
    BY <1>0, <2>1 DEF Turning, Turns, Begun
  <2>3. ASSUME NEW j \in Arms, live[j] PROVE Rested(j, Before)'
    <3>1. Rested(j, Before) /\ Before' = Before
      BY <1>4, <2>2, <2>3 DEF ParallelRound, Before, FirstRound
    <3> QED
      BY <1>4, <2>3, <3>1 DEF ParallelRound, Rested
  <2>4. /\ \A j \in Arms : ~Begun(j)'
        /\ Turns' = 0 /\ live' = live
    BY <1>0, <1>4, <2>1 DEF ParallelRound, Begun, Turns
  <2>5. \A k \in Arms : live[k] => limit'[k] = slice'
    BY <1>4 DEF ParallelRound
  <2> QED
    BY <1>0, <2>1, <2>3, <2>4, <2>5 DEF Turning
<1>5. ASSUME NEW k \in Arms, Launch(k) PROVE Turning'
  <2>1. /\ live[k] /\ k >= next /\ ~IsFirst(k) /\ main = "launch"
        /\ main' \in {"launch", "inline"} /\ next' = k + 1
        /\ \A j \in LiveFrom(next) : k <= j
        /\ UNCHANGED <<plan, cap, threads, slice, spent, live, limit, status,
                       code, units, at, parked, last>>
    BY <1>5 DEF Launch, Goes, IsNextLive, LiveFrom
  <2>2. ~(cap > 0)
    BY <2>1 DEF Calling, parallel
  <2>3. \A j \in Arms : j # k => SameArm(j)
    BY <1>5 DEF Launch, SameArm, TypeOK
  <2>4. Rested(k, Before) /\ limit[k] = slice
    BY <1>0, <2>1 DEF Turning, Begun, Turns
  <2>5. Stage(k)'
    <3>1. pc'[k] = "call" /\ limit'[k] = TurnLimit(k)
      BY <1>5, <2>1, <2>2, <2>4 DEF Launch, TypeOK, TurnLimit, Give
    <3> QED
      BY <2>1, <2>4, <3>1, TurnBegins
  <2>6. \A j \in Arms : j # k => Begun(j)' = Begun(j)
    BY <1>0, <2>1 DEF Begun, IsFirst, LiveFrom
  <2>7. Begun(k)'
    BY <1>0, <2>1 DEF Begun, IsFirst, LiveFrom
  <2>8. Turns' = Turns /\ Turns = 0 /\ Before' = Before
    BY <2>1 DEF Turns, Before, FirstRound
  <2>9. \A j \in Arms : j # k /\ Begun(j) => Stage(j)'
    BY <2>1, <2>3, SameStage DEF Turning
  <2>10. \A j \in Arms : j # k /\ live[j] /\ ~Begun(j) => Rested(j, Before)'
    BY <1>0, <2>1, <2>3, <2>8, SameRested DEF Turning
  <2> QED
    BY <1>0, <2>1, <2>5, <2>6, <2>7, <2>8, <2>9, <2>10 DEF Turning
<1>6. ASSUME NEW k \in Arms, LaunchSkipsFirst(k) PROVE Turning'
  <2>1. /\ IsFirst(k) /\ k >= next /\ main = "launch" /\ main' = "launch"
        /\ next' = k + 1 /\ \A j \in LiveFrom(next) : k <= j
        /\ UNCHANGED <<plan, cap, threads, slice, spent, live, limit>>
    BY <1>6 DEF LaunchSkipsFirst, IsNextLive, LiveFrom
  <2>2. \A j \in Arms : SameArm(j)
    BY <1>6 DEF LaunchSkipsFirst, SameArm
  <2>3. \A j \in Arms : Begun(j)' = Begun(j)
    BY <1>0, <2>1 DEF Begun, IsFirst, LiveFrom
  <2>4. Turns' = Turns /\ Before' = Before
    BY <2>1 DEF Turns, Before, FirstRound
  <2> QED
    BY <2>1, <2>2, <2>3, <2>4, SameStage, SameRested DEF Turning
<1>7. CASE InlineDone
  <2>1. /\ main = "inline" /\ main' = "launch"
        /\ UNCHANGED <<plan, cap, threads, slice, spent, live, limit, next>>
    BY <1>7 DEF InlineDone, Goes
  <2>2. \A j \in Arms : SameArm(j)
    BY <1>7 DEF InlineDone, SameArm
  <2>3. \A j \in Arms : Begun(j)' = Begun(j)
    BY <2>1 DEF Begun, IsFirst, LiveFrom
  <2>4. Turns' = Turns /\ Before' = Before
    BY <2>1 DEF Turns, Before, FirstRound
  <2> QED
    BY <2>1, <2>2, <2>3, <2>4, SameStage, SameRested DEF Turning
<1>8. ASSUME NEW k \in Arms, RunFirst(k) PROVE Turning'
  <2>1. /\ IsFirst(k) /\ live[k] /\ main = "launch" /\ main' = "join"
        /\ LiveFrom(next) = {}
        /\ UNCHANGED <<plan, cap, threads, slice, spent, live, limit, status,
                       code, units, at, parked, last>>
    BY <1>8 DEF RunFirst, Goes, IsFirst
  <2>2. ~(cap > 0)
    BY <2>1 DEF Calling, parallel
  <2>3. \A j \in Arms : j # k => SameArm(j)
    BY <1>8 DEF RunFirst, SameArm, TypeOK
  <2>4. Rested(k, Before) /\ limit[k] = slice
    BY <1>0, <2>1 DEF Turning, Begun, Turns
  <2>5. Stage(k)'
    <3>1. pc'[k] = "call" /\ limit'[k] = TurnLimit(k)
      BY <1>8, <2>1, <2>2, <2>4 DEF RunFirst, TypeOK, TurnLimit, Give
    <3> QED
      BY <2>1, <2>4, <3>1, TurnBegins
  <2>6. \A j \in Arms : j # k /\ live[j] => Begun(j)
    BY <1>0, <2>1, OneIsNext DEF Begun, LiveFrom
  <2>7. \A j \in Arms : j # k /\ live[j] => Stage(j)'
    BY <2>1, <2>3, <2>6, SameStage DEF Turning
  <2>8. \A j \in Arms : Begun(j)' = live[j]
    BY <2>1 DEF Begun, TypeOK
  <2> QED
    BY <2>1, <2>4, <2>5, <2>7, <2>8 DEF Turning
<1>9. CASE Join
  <2>1. /\ main = "join" /\ main' = "settle" /\ next' = 0
        /\ UNCHANGED <<plan, cap, threads, slice, spent, live>>
    BY <1>9 DEF Join, Goes
  <2>2. \A j \in Arms : SameArm(j)
    BY <1>9 DEF Join, SameArm
  <2>3. \A j \in Arms : Begun(j)' = live[j] /\ Begun(j) = live[j]
    BY <1>0, <2>1 DEF Begun, TypeOK
  <2> QED
    BY <2>1, <2>2, <2>3, SameStage DEF Turning
<1>10. ASSUME NEW k \in Arms, Turn(k) PROVE Turning'
  <2>1. /\ main = "turn" /\ main' = "wait" /\ IsNextLive(k) /\ live[k]
        /\ k >= next
        /\ UNCHANGED <<plan, cap, threads, slice, spent, live, status, next,
                       code, units, at, parked, last>>
    BY <1>10 DEF Turn, Goes, IsNextLive, LiveFrom
  <2>2. \A j \in Arms : j # k => SameArm(j)
    BY <1>10 DEF Turn, SameArm, TypeOK
  <2>3. \A j \in Arms : ~Begun(j)
    BY <2>1 DEF Begun
  <2>4. \A j \in Arms : Begun(j)' <=> j = k
    BY <2>1, OneIsNext DEF Begun, IsNextLive, LiveFrom
  <2>5. Turns' = Turns /\ Turns = next /\ Before' = Before
    BY <2>1 DEF Turns, Before, FirstRound
  <2>6. Rested(k, Before)
    BY <1>0, <2>1, <2>3, <2>5 DEF Turning
  <2>7. Stage(k)'
    <3>1. pc'[k] = "call"
      BY <1>10 DEF Turn, TypeOK
    <3>2. limit'[k] = Give(slice, cap, spent, IF parked[k] THEN last[k] ELSE 0)
      BY <1>10 DEF Turn, TypeOK
    <3>3. parked[k] = GoesOn(k)
      BY <2>6 DEF Rested, GoesOn, Before
    <3> QED
      BY <2>1, <2>6, <3>1, <3>2, <3>3, TurnBegins DEF TurnLimit
  <2>8. \A j \in Arms : j # k /\ live[j] =>
          Rested(j, IF j < Turns THEN "WORK_LIMIT" ELSE Before)'
    BY <2>1, <2>2, <2>3, <2>5, SameRested DEF Turning
  <2> QED
    BY <2>1, <2>4, <2>7, <2>8 DEF Turning
<1>11. CASE SpendOut
  <2>1. /\ main = "turn" /\ main' = "choose"
        /\ UNCHANGED <<slice, live, next, status, code>>
    BY <1>11 DEF SpendOut, Goes
  <2>2. \A j \in Arms : ~Begun(j) /\ ~Begun(j)'
    BY <2>1 DEF Begun
  <2>3. /\ \A j \in Arms : InFlight(j)' => live[j] /\ ~(j < Turns)
        /\ Before' = Before
    BY <1>0, <2>1 DEF InFlight, Turns, Before, FirstRound
  <2>4. \A j \in Arms : InFlight(j)' => status[j] = Before /\ code[j] = "OK"
    BY <2>1, <2>2, <2>3 DEF Turning, Rested
  <2> QED
    BY <2>1, <2>2, <2>3, <2>4 DEF Turning
<1>12. ASSUME NEW k \in Arms, SettleArm(k) PROVE Turning'
  <2>1. /\ main \in {"wait", "settle"} /\ IsNextLive(k) /\ live[k] /\ k >= next
        /\ \A j \in LiveFrom(next) : k <= j
        /\ pc[k] = "idle" /\ next' = k + 1
        /\ main' = IF Wins(k) THEN "choose"
                   ELSE IF main = "wait" THEN "turn" ELSE main
        /\ winner' = IF Wins(k) THEN k ELSE winner
        /\ last' = [last EXCEPT ![k] = units[k]]
        /\ UNCHANGED <<plan, cap, threads, slice, status, code, units, at,
                       parked>>
    BY <1>12 DEF SettleArm, Goes, Idle, IsNextLive, LiveFrom
  <2>2. \A j \in Arms : j # k => SameArm(j)
    BY <1>12 DEF SettleArm, SameArm, TypeOK
  <2>3. CASE Wins(k)
    BY <1>0, <2>1, <2>3 DEF Turning, Begun
  <2>4. CASE ~Wins(k)
    <3>1. main' = IF main = "wait" THEN "turn" ELSE "settle"
      BY <2>1, <2>4
    <3>2. Turns' = k + 1 /\ Turns = next /\ Before' = Before
      BY <2>1, <3>1 DEF Turns, Before, FirstRound
    <3>3. Begun(k) /\ Stage(k) /\ CameTo(k)
      BY <2>1 DEF Begun, Turning, Stage, Walking
    <3>4. live'[k] => Rested(k, "WORK_LIMIT")'
      <4>1. live'[k] => code[k] = "OK" /\ status[k] = "WORK_LIMIT"
        BY <1>12, <2>4 DEF SettleArm, TypeOK
      <4> QED
        BY <2>1, <3>3, <4>1, CutIsRested
    <3>5. ~Begun(k)'
      BY <1>0, <2>1, <3>1 DEF Begun
    <3>6. ASSUME NEW j \in Arms, j # k, Begun(j)' PROVE Stage(j)'
      <4>1. main = "settle" /\ live[j] /\ j >= next
        BY <1>0, <2>1, <2>2, <3>1, <3>6 DEF Begun, SameArm
      <4>2. Stage(j) /\ ~(cap > 0)
        BY <4>1 DEF Begun, Turning, Calling, parallel
      <4> QED
        BY <2>1, <2>2, <3>6, <4>2, SameStage
    <3>7. ASSUME NEW j \in Arms, j # k, live'[j], ~Begun(j)'
          PROVE  Rested(j, IF j < k + 1 THEN "WORK_LIMIT" ELSE Before)'
      <4>1. live[j]
        BY <2>2, <3>7 DEF SameArm
      <4>2. j < k + 1 <=> j < next
        BY <1>0, <2>1, <3>7, <4>1 DEF LiveFrom
      <4>3. ~Begun(j)
        BY <1>0, <2>1, <3>1, <3>7, <4>1, <4>2, OneIsNext DEF Begun
      <4>4. Rested(j, IF j < k + 1 THEN "WORK_LIMIT" ELSE Before)
        BY <2>1, <3>2, <4>1, <4>2, <4>3 DEF Turning
      <4> QED
        BY <2>1, <2>2, <3>2, <3>7, <4>4, SameRested
    <3> QED
      BY <1>0, <3>1, <3>2, <3>4, <3>5, <3>6, <3>7 DEF Turning
  <2> QED
    BY <2>3, <2>4
<1>13. CASE NextRound
  <2>1. /\ main \in {"turn", "settle"} /\ LiveFrom(next) = {}
        /\ main' = "round" /\ next' = 0 /\ slice' = slice * Growth
        /\ UNCHANGED <<plan, live>>
    BY <1>13 DEF NextRound, RoundOver, Goes
  <2>2. slice' > slice /\ slice' \in Nat /\ slice >= Slice
    BY <1>0, <2>1, BudgetGrows DEF Calling
  <2>3. Before' = "WORK_LIMIT" /\ Turns' = 0
    BY <1>0, <2>1, <2>2 DEF Before, FirstRound, Turns
  <2>4. \A j \in Arms : ~Begun(j)'
    BY <2>1 DEF Begun
  <2>5. ASSUME NEW j \in Arms, live[j] PROVE Rested(j, "WORK_LIMIT")'
    <3>1. j < next /\ Turns = next
      BY <1>0, <2>1, <2>5 DEF LiveFrom, Turns
    <3>2. ~Begun(j)
      BY <1>0, <2>1, <3>1 DEF Begun
    <3>3. Rested(j, "WORK_LIMIT")
      BY <2>1, <2>5, <3>1, <3>2 DEF Turning
    <3>4. SameArm(j)
      BY <1>13 DEF NextRound, SameArm
    <3>5. last[j] \in Nat
      BY DEF TypeOK
    <3> QED
      BY <1>0, <2>1, <2>2, <3>3, <3>4, <3>5 DEF Rested, SameArm
  <2> QED
    BY <1>0, <2>1, <2>3, <2>4, <2>5 DEF Turning
<1>14. CASE LastRound
  <2>1. /\ LiveFrom(next) = {} /\ main' = "choose"
        /\ UNCHANGED <<live, next>>
    BY <1>14 DEF LastRound, RoundOver, Goes
  <2> QED
    BY <2>1 DEF Turning, Begun, InFlight, Turns, LiveFrom
<1>15. CASE TakeAnswer
  BY <1>15 DEF TakeAnswer, Goes, Turning, Begun
<1> QED
  BY <1>1, <1>2, <1>3, <1>4, <1>5, <1>6, <1>7, <1>8, <1>9, <1>10, <1>11,
     <1>12, <1>13, <1>14, <1>15 DEF MainStep

-----------------------------------------------------------------------------
(* Every step is a step of the race on one thread, or one it does not see.  *)

USE DEF OneThread!Arms, OneThread!NoArm, OneThread!Decided,
        OneThread!StoppedByCaller, OneThread!Failures

LEMMA StartsAsRace == Init => OneThread!Init
BY RaceAssumption
   DEF Init, OneThread!Init, InFlight, Turns, FirstRound, Before, NoAnswer,
       OneThread!NoAnswer

\* What is in flight is no part of the race on one thread.
LEMMA Quiet ==
  ASSUME UNCHANGED <<plan, cap, slice, last, live, spent, winner, spentOut,
                     answer>>,
         Turns' = Turns,
         \A k \in Arms : ~InFlight(k) =>
           status'[k] = status[k] /\ code'[k] = code[k]
  PROVE  UNCHANGED OneThread!raceVars
<1>1. Before' = Before /\ \A k \in Arms : InFlight(k)' = InFlight(k)
  BY DEF Before, FirstRound, InFlight
<1> QED
  BY <1>1 DEF OneThread!raceVars

LEMMA ArmsAreQuiet ==
  ASSUME TypeOK, Placement, NEW k \in Arms, ArmStep(k)
  PROVE  UNCHANGED OneThread!raceVars
<1>1. OwnStep(k)
  BY StepIsOwn
<1>2. Begun(k)
  BY <1>1, RunningHasBegun DEF OwnStep
<1>3. Turns' = Turns
  BY <1>1 DEF OwnStep, Turns
<1>4. InFlight(k)
  BY <1>2, RaceAssumption DEF Begun, InFlight, Turns, IsNextLive, LiveFrom
<1> QED
  BY <1>1, <1>3, <1>4, Quiet DEF OwnStep

\* The turn the settling of arm k makes known.
LEMMA SettledAsTurn ==
  ASSUME TypeOK, Inv, Calling, Turning, Interrupting, SecondPassPublishes,
         NEW k \in Arms, SettleArm(k)
  PROVE  OneThread!Turn(k)
<1>0. \A j \in Arms : j \in Int /\ j >= 0 /\ j < j + 1
  BY RaceAssumption
<1>1. /\ main \in {"wait", "settle"} /\ IsNextLive(k) /\ live[k] /\ k >= next
      /\ \A j \in LiveFrom(next) : k <= j
      /\ pc[k] = "idle" /\ next' = k + 1
      /\ main' \in {"choose", "turn", "settle"}
      /\ UNCHANGED <<plan, cap, threads, slice, spentOut, answer, status, code>>
  BY <1>0 DEF SettleArm, Goes, Idle, IsNextLive, LiveFrom
<1>2. Begun(k) /\ Stage(k) /\ CameTo(k) /\ resumed[k] = GoesOn(k)
  BY <1>1 DEF Begun, Turning, Stage, Walking
<1>3. Turns = next /\ Turns' = k + 1 /\ InFlight(k) /\ Before' = Before
  BY <1>1 DEF Turns, InFlight, Before, FirstRound
<1> DEFINE st == [j \in Arms |-> IF InFlight(j) THEN Before ELSE status[j]]
           co == [j \in Arms |-> IF InFlight(j) THEN "OK" ELSE code[j]]
<1>4. /\ st' = [st EXCEPT ![k] = status[k]]
      /\ co' = [co EXCEPT ![k] = code[k]]
  <2>1. ASSUME NEW j \in Arms, j # k
        PROVE  InFlight(j)' = InFlight(j) /\ status'[j] = status[j]
                 /\ code'[j] = code[j]
    <3>1. live'[j] = live[j]
      BY <2>1 DEF SettleArm, TypeOK
    <3>2. live[j] => (j >= next <=> j >= k + 1)
      BY <1>0, <1>1, <2>1 DEF LiveFrom, TypeOK
    <3> QED
      BY <1>1, <1>3, <3>1, <3>2 DEF InFlight
  <2>2. ~InFlight(k)'
    BY <1>0, <1>3 DEF InFlight
  <2> QED
    BY <1>1, <1>3, <2>1, <2>2
<1>5. st[k] = Before /\ co[k] = "OK"
  BY <1>3
<1>6. OneThread!Resumes(k) = GoesOn(k)
  BY <1>5 DEF OneThread!Resumes, GoesOn, Before
<1>7. OneThread!Limit(k) = TurnLimit(k)
  BY <1>6 DEF OneThread!Limit, TurnLimit, OneThread!Give, Give
<1>8. OneThread!MayTurn(k)
  <2>1. ~(cap > 0 /\ spent >= cap)
    BY <1>1 DEF Calling, parallel, TypeOK
  <2> QED
    BY <1>1, <1>3, <2>1
       DEF OneThread!MayTurn, OneThread!Racing, OneThread!NoAnswer, NoAnswer,
           Calling, OneThread!IsNextLive, OneThread!LiveFrom, IsNextLive,
           LiveFrom
<1>9. winner' = IF Wins(k) THEN k ELSE NoArm
  BY <1>1 DEF SettleArm, Calling
<1>10. ASSUME NEW total, total = units[k], NEW verdict, verdict = status[k],
              NEW result, result = code[k]
       PROVE  OneThread!Settle(k, total, verdict, result)
  <2>1. live' = [live EXCEPT ![k] = code[k] = "OK" /\ status[k] # "NUMERICAL_ERROR"]
    <3>1. (Wins(k) \/ (code[k] = "OK" /\ status[k] = "WORK_LIMIT"))
            = (code[k] = "OK" /\ status[k] # "NUMERICAL_ERROR")
      BY <1>2 DEF Wins, CameTo, Cut, Ended, Failed, Stopped, TypeOK, PlanType
    <3> QED
      BY <3>1 DEF SettleArm
  <2>2. spent' = spent + Billed(OneThread!Resumes(k), last[k], units[k])
    BY <1>2, <1>6 DEF SettleArm, OneThread!Billed, Billed
  <2>3. last' = [last EXCEPT ![k] = units[k]]
    BY DEF SettleArm
  <2> QED
    BY <1>1, <1>3, <1>4, <1>9, <1>10, <2>1, <2>2, <2>3
       DEF OneThread!Settle, OneThread!Billed, Billed, Wins
<1>11. limit[k] = OneThread!Limit(k)
  BY <1>2, <1>7 DEF Stage
<1>12. CASE Cut(k)
  BY <1>8, <1>10, <1>11, <1>12
     DEF Cut, OneThread!TurnCut, OneThread!EndsWithin, EndsWithin,
         OneThread!Turn
<1>13. CASE Ended(k)
  BY <1>8, <1>10, <1>11, <1>13
     DEF Ended, OneThread!TurnEnds, OneThread!EndsWithin, EndsWithin,
         OneThread!Turn
<1>14. CASE Failed(k)
  <2>1. ~plan[k].presolved
    BY <1>14 DEF Failed, SecondPassPublishes, Inv, Cancelling
  <2> QED
    BY <1>5, <1>8, <1>10, <1>11, <1>14, <2>1
       DEF Failed, OneThread!TurnFails, OneThread!EndsWithin, EndsWithin,
         OneThread!Turn
<1>15. CASE Stopped(k)
  <2>1. UserMayStop \/ ClockMayRunOut
    <3>1. ~(answered < k)
      <4>1. answered # NArms /\ answered < NArms => answered \in Arms
        BY RaceAssumption DEF TypeOK
      <4>2. answered < k => /\ answered \in Arms /\ live[answered]
                            /\ status[answered] \in Decided
        BY <1>0, <4>1, RaceAssumption DEF Inv, Cancelling, TypeOK
      <4>3. answered < k => ~Fresh(answered)
        BY <4>2 DEF Fresh
      <4>4. answered < k => ~(answered >= next)
        BY <1>0, <1>1, <4>2 DEF LiveFrom
      <4> QED
        BY <1>0, <1>1, <4>2, <4>3, <4>4 DEF Inv, Unsettled, IsNextLive,
           LiveFrom, TypeOK
    <3> QED
      BY <1>15, <3>1 DEF Interrupting, Stopped
  <2>2. units[k] \in 0 .. OneThread!Limit(k)
    <3>1. limit[k] \in Int
      BY DEF TypeOK
    <3> QED
      BY <1>11, <1>15, <3>1 DEF Stopped, TypeOK
  <2> QED
    BY <1>8, <1>10, <1>15, <2>1, <2>2
       DEF Stopped, OneThread!TurnStopped, OneThread!Turn
<1> QED
  BY <1>2, <1>12, <1>13, <1>14, <1>15 DEF CameTo

\* The steps of the calling thread that the race on one thread does not see.
LEMMA MainIsQuiet ==
  ASSUME TypeOK, Inv, Calling,
         \/ NoneLive \/ SequentialRound \/ ParallelRound \/ InlineDone \/ Join
         \/ LastRound
         \/ \E k \in Arms : Launch(k) \/ LaunchSkipsFirst(k) \/ RunFirst(k)
                              \/ Turn(k)
  PROVE  UNCHANGED OneThread!raceVars
<1>1. CASE NoneLive \/ SequentialRound \/ LastRound
  <2>1. Turns' = Turns
    BY <1>1 DEF NoneLive, SequentialRound, LastRound, RoundOver, Goes, Turns
  <2> QED
    BY <1>1, <2>1, Quiet DEF NoneLive, SequentialRound, LastRound
<1>2. CASE ParallelRound
  <2>1. Turns = 0 /\ Turns' = 0
    BY <1>2 DEF ParallelRound, Goes, Turns, Calling
  <2>2. \A k \in Arms : ~InFlight(k) => ~live[k]
    BY <2>1 DEF InFlight
  <2> QED
    BY <1>2, <2>1, <2>2, Quiet DEF ParallelRound, TypeOK
<1>3. CASE InlineDone \/ Join
  <2>1. Turns' = Turns
    BY <1>3 DEF InlineDone, Join, Goes, Turns
  <2> QED
    BY <1>3, <2>1, Quiet DEF InlineDone, Join
<1>4. ASSUME NEW k \in Arms,
             Launch(k) \/ LaunchSkipsFirst(k) \/ RunFirst(k) \/ Turn(k)
      PROVE  UNCHANGED OneThread!raceVars
  <2>1. Turns' = Turns
    BY <1>4 DEF Launch, LaunchSkipsFirst, RunFirst, Turn, Goes, Turns
  <2> QED
    BY <1>4, <2>1, Quiet DEF Launch, LaunchSkipsFirst, RunFirst, Turn
<1> QED
  BY <1>1, <1>2, <1>3, <1>4

LEMMA RoundAsRound ==
  ASSUME TypeOK, Inv, Calling, Turning, NextRound
  PROVE  OneThread!NextRound
<1>0. next \in Int /\ \A k \in Arms : k \in Int
  BY RaceAssumption DEF TypeOK
<1>1. /\ main \in {"turn", "settle"} /\ LiveFrom(next) = {}
      /\ main' = "round" /\ next' = 0
      /\ slice <= MaxUnits \div Growth /\ slice' = slice * Growth
      /\ UNCHANGED <<plan, cap, last, live, status, code, spent, winner,
                     spentOut, answer>>
  BY DEF NextRound, RoundOver, Goes
<1>2. Turns = next /\ Turns' = 0
  BY <1>1 DEF Turns
<1>3. next > 0
  BY <1>1 DEF Calling, TypeOK
<1>4. Before' = "WORK_LIMIT"
  <2>1. slice \in Nat /\ slice >= Slice
    BY DEF Calling, TypeOK
  <2>2. slice * Growth > slice /\ slice * Growth \in Nat
    BY <2>1, BudgetGrows
  <2> QED
    BY <1>1, <2>1, <2>2, RaceAssumption DEF Before, FirstRound
<1>5. ASSUME NEW k \in Arms, live[k]
      PROVE  /\ ~InFlight(k) /\ InFlight(k)'
             /\ status[k] = "WORK_LIMIT" /\ code[k] = "OK"
  <2>1. k < next
    <3>1. ~(k >= next)
      BY <1>1, <1>5 DEF LiveFrom
    <3> QED
      BY <1>0, <3>1
  <2>2. ~Begun(k)
    <3>1. ~(k >= next)
      BY <1>3, <2>1, RaceAssumption DEF TypeOK
    <3> QED
      BY <1>1, <3>1 DEF Begun
  <2> QED
    BY <1>1, <1>2, <1>5, <2>1, <2>2, RaceAssumption
       DEF InFlight, Turning, Rested, TypeOK
<1>6. ASSUME NEW k \in Arms, ~live[k]
      PROVE  ~InFlight(k) /\ ~InFlight(k)'
  BY <1>1, <1>6 DEF InFlight
<1>7. /\ [k \in Arms |-> IF InFlight(k) THEN Before ELSE status[k]]'
           = [k \in Arms |-> IF InFlight(k) THEN Before ELSE status[k]]
      /\ [k \in Arms |-> IF InFlight(k) THEN "OK" ELSE code[k]]'
           = [k \in Arms |-> IF InFlight(k) THEN "OK" ELSE code[k]]
  BY <1>1, <1>4, <1>5, <1>6
<1> QED
  BY <1>1, <1>2, <1>3, <1>7
     DEF OneThread!NextRound, OneThread!RoundOver, OneThread!Racing, Calling,
         OneThread!LiveFrom, LiveFrom, OneThread!NoAnswer, NoAnswer

\* Without a winner the arm chosen still holds what its model held.
LEMMA AnswerAsAnswer ==
  ASSUME TypeOK, Inv, Calling, Turning, TakeAnswer
  PROVE  OneThread!Finish
<1>1. /\ main = "choose" /\ main' = "returned"
      /\ answer' = [arm |-> Chosen, status |-> status[Chosen],
                    code |-> code[Chosen], work |-> spent]
      /\ UNCHANGED <<plan, cap, slice, next, last, live, status, code, spent,
                     winner, spentOut>>
  BY DEF TakeAnswer, Goes
<1>2. Turns = next /\ Turns' = next
  BY <1>1 DEF Turns
<1>3. OneThread!Chosen = Chosen /\ Chosen \in Arms
  <2>1. \A k : OneThread!IsFirst(k) <=> IsFirst(k)
    BY DEF OneThread!IsFirst, IsFirst, OneThread!LiveFrom, LiveFrom
  <2> QED
    BY <2>1, ChosenType DEF OneThread!Chosen, Chosen
<1>4. InFlight(Chosen) => status[Chosen] = Before /\ code[Chosen] = "OK"
  <2>1. CASE winner # NoArm
    BY <1>2, <1>3, <2>1, RaceAssumption DEF Chosen, Calling, InFlight, TypeOK
  <2>2. CASE winner = NoArm
    BY <1>1, <1>3, <2>2 DEF Turning
  <2> QED
    BY <2>1, <2>2
<1>5. UNCHANGED <<[k \in Arms |-> IF InFlight(k) THEN Before ELSE status[k]],
                  [k \in Arms |-> IF InFlight(k) THEN "OK" ELSE code[k]]>>
  BY <1>1, <1>2 DEF InFlight, Before, FirstRound
<1>6. /\ answer = OneThread!NoAnswer
      /\ \/ winner # NoArm
         \/ spentOut
         \/ Turns = 0 /\ OneThread!LiveFrom(0) = {}
         \/ OneThread!RoundOver /\ slice > MaxUnits \div Growth
  BY <1>1, <1>2
     DEF Calling, OneThread!NoAnswer, NoAnswer, OneThread!RoundOver,
         OneThread!LiveFrom, LiveFrom
<1> QED
  BY <1>1, <1>2, <1>3, <1>4, <1>5, <1>6 DEF OneThread!Finish

LEMMA MainRefines ==
  ASSUME TypeOK, Inv, Calling, Turning, Interrupting, SecondPassPublishes,
         MainStep
  PROVE  OneThread!Next \/ UNCHANGED OneThread!raceVars
<1>1. CASE CopyFails
  <2>1. Turns = 0 /\ Turns' = 0
    BY <1>1 DEF CopyFails, Goes, Turns, Calling
  <2>2. UNCHANGED <<[k \in Arms |-> IF InFlight(k) THEN Before ELSE status[k]],
                    [k \in Arms |-> IF InFlight(k) THEN "OK" ELSE code[k]]>>
    BY <1>1, <2>1 DEF CopyFails, InFlight, Before, FirstRound
  <2>3. OneThread!CopyFails
    BY <1>1, <2>1, <2>2
       DEF CopyFails, OneThread!CopyFails, OneThread!Racing, Calling,
           FirstRound, NoAnswer, OneThread!NoAnswer
  <2> QED
    BY <2>3 DEF OneThread!Next
<1>2. CASE SpendOut
  <2>1. Turns = next /\ Turns' = next
    BY <1>2 DEF SpendOut, Goes, Turns
  <2>2. UNCHANGED <<[k \in Arms |-> IF InFlight(k) THEN Before ELSE status[k]],
                    [k \in Arms |-> IF InFlight(k) THEN "OK" ELSE code[k]]>>
    BY <1>2, <2>1 DEF SpendOut, InFlight, Before, FirstRound
  <2>3. OneThread!SpendOut
    BY <1>2, <2>1, <2>2
       DEF SpendOut, OneThread!SpendOut, OneThread!Racing, Calling,
           OneThread!LiveFrom, LiveFrom, NoAnswer, OneThread!NoAnswer
  <2> QED
    BY <2>3 DEF OneThread!Next
<1>3. ASSUME NEW k \in Arms, SettleArm(k) PROVE OneThread!Next
  BY <1>3, SettledAsTurn DEF OneThread!Next
<1>4. CASE NextRound
  BY <1>4, RoundAsRound DEF OneThread!Next
<1>5. CASE TakeAnswer
  BY <1>5, AnswerAsAnswer DEF OneThread!Next
<1>6. CASE \/ NoneLive \/ SequentialRound \/ ParallelRound \/ InlineDone
           \/ Join \/ LastRound
           \/ \E k \in Arms : Launch(k) \/ LaunchSkipsFirst(k) \/ RunFirst(k)
                                \/ Turn(k)
  BY <1>6, MainIsQuiet
<1> QED
  BY <1>1, <1>2, <1>3, <1>4, <1>5, <1>6 DEF MainStep

\* What a turn is stays true, in the calling thread and in the arms.
Carried == Calling /\ Turning /\ Interrupting

LEMMA InitCarried == Init => Carried
<1> SUFFICES ASSUME Init PROVE Carried
  OBVIOUS
<1>1. /\ main = "round" /\ next = 0 /\ slice = Slice /\ winner = NoArm
      /\ ~spentOut /\ answer = NoAnswer /\ ~stopped
      /\ \A k \in Arms :
           /\ pc[k] = "idle" /\ live[k] /\ status[k] = "NOT_RUN"
           /\ code[k] = "OK" /\ ~parked[k] /\ units[k] = 0 /\ last[k] = 0
  BY DEF Init
<1>2. Calling
  BY <1>1, RaceAssumption DEF Calling, InParallel
<1>3. Turning
  <2>1. \A k \in Arms : ~Begun(k) /\ ~(k < Turns) /\ Rested(k, Before)
    <3>1. Turns = 0 /\ Before = "NOT_RUN"
      BY <1>1 DEF Turns, Before, FirstRound
    <3>2. \A k \in Arms : ~Begun(k) /\ ~(k < Turns)
      BY <1>1, <3>1, RaceAssumption DEF Begun
    <3>3. \A k \in Arms : parked[k] = FALSE
      BY DEF Init
    <3> QED
      BY <1>1, <3>1, <3>2, <3>3 DEF Rested
  <2> QED
    BY <1>1, <2>1 DEF Turning, InParallel
<1>4. Interrupting
  BY <1>1 DEF Interrupting
<1> QED
  BY <1>2, <1>3, <1>4 DEF Carried

LEMMA StepKeepsCarried ==
  ASSUME TypeOK, Inv, Carried, SecondPassPublishes, [Next]_vars
  PROVE  Carried'
<1>1. Placement /\ plan \in Plans
  BY DEF Inv, Cancelling
<1>2. CASE MainStep
  BY <1>2, MainKeepsCalling, MainKeepsTurning, MainKeepsInterrupting
     DEF Carried
<1>3. ASSUME NEW k \in Arms, ArmStep(k) PROVE Carried'
  BY <1>1, <1>3, StepKeepsCalling, StepKeepsTurning, StepKeepsInterrupting
     DEF Carried
<1>4. CASE UNCHANGED vars
  BY <1>4
     DEF vars, Carried, Calling, Turning, Interrupting, parallel, FirstRound,
         LiveFrom, InFlight, Turns, Before, Begun, IsNextLive, IsFirst, Rested,
         Stage, CameTo, Cut, Ended, Failed, Stopped, OnWalk, TurnLimit, GoesOn,
         Published
<1> QED
  BY <1>2, <1>3, <1>4 DEF Next

\* The thread count changes nothing the caller can see: whatever arms run
\* beside each other, whichever is cancelled and whenever the caller or its
\* clock stops one, the answer, the arm it comes from and the work billed are
\* those of a race that runs the same walks one after the other
\* (jm_solve_concurrent; SPECS.md, "Deterministic under parallelism").
THEOREM RaceIsOnOneThread == SecondPassPublishes => (Spec => RaceOnOneThread)
<1> SUFFICES ASSUME SecondPassPublishes PROVE Spec => RaceOnOneThread
  OBVIOUS
<1>1. Init => OneThread!Init
  BY StartsAsRace
<1>2. Init => Carried
  BY InitCarried
<1>3. TypeOK /\ Inv /\ Carried /\ [Next]_vars => Carried'
  BY StepKeepsCarried
<1>4. TypeOK /\ Inv /\ Carried /\ [Next]_vars
        => [OneThread!Next]_OneThread!raceVars
  <2> SUFFICES ASSUME TypeOK, Inv, Carried, [Next]_vars
               PROVE  OneThread!Next \/ UNCHANGED OneThread!raceVars
    OBVIOUS
  <2>1. CASE MainStep
    BY <2>1, MainRefines DEF Carried
  <2>2. ASSUME NEW k \in Arms, ArmStep(k) PROVE UNCHANGED OneThread!raceVars
    BY <2>2, ArmsAreQuiet DEF Inv
  <2>3. CASE UNCHANGED vars
    BY <2>3 DEF vars, OneThread!raceVars, InFlight, Turns, Before, FirstRound
  <2> QED
    BY <2>1, <2>2, <2>3 DEF Next
<1> QED
  BY <1>1, <1>2, <1>3, <1>4, Typing, Invariance, PTL
     DEF Spec, RaceOnOneThread, OneThread!Spec

=============================================================================
