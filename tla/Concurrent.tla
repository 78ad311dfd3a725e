----------------------------- MODULE Concurrent -----------------------------
(* jm_solve_concurrent (src/src/concurrent.c) with its threads: the calling  *)
(* thread, one thread per arm from the second round on, the two atomics they *)
(* share (`answered`, `stopped`) and the progress callback that reads them.  *)
(* An arm's walk is a plan (RaceTerms); what is interleaved here is where    *)
(* each arm is in its walk when another one answers or the caller stops.     *)
(*                                                                           *)
(* Every access to an atomic is a step of its own.  The accesses are         *)
(* memory_order_relaxed: a load may return a value older than the newest     *)
(* one, which is a poll made earlier, and an iteration here may poll or not. *)
(* Everything else an arm touches is its own until the calling thread joins. *)
EXTENDS RaceTerms

CONSTANTS
    Plans,      \* the walks considered: a set of functions from Arms to plans
    Caps,       \* the caller's work limits considered; 0 is none
    ThreadCounts,   \* the thread counts considered
    UserMayStop,    \* the caller's progress callback may answer STOP
    ClockMayRunOut, \* a time limit is set and may be reached
    ThreadMayFail,  \* the system may refuse a thread
    CopyMayFail     \* an arm's copy of the model may be out of memory

VARIABLES
    plan, cap, threads,     \* the call's inputs: fixed
    slice, spent, winner, spentOut, answer,     \* locals of the calling thread
    main,       \* where the calling thread is
    next,       \* the arm its loop is at
    answered, stopped,      \* the shared atomics
    pc, site, asks, polled, seen,   \* per arm: the thread that runs it
    limit, at, parked, units, status, code,     \* per arm: its model
    resumed, last, live     \* per arm: the jm_arm record

fixed == <<plan, cap, threads>>
call == <<slice, spent, winner, spentOut, answer>>
atomics == <<answered, stopped>>
runner == <<pc, site, asks, polled, seen>>
model == <<limit, at, parked, units, status, code>>
record == <<resumed, last, live>>
vars == <<fixed, call, main, next, atomics, runner, model, record>>

parallel == threads > 1 /\ cap = 0
FirstRound == slice = Slice
NoAnswer == [arm |-> NoArm, status |-> "NOT_RUN", code |-> "OK", work |-> 0]

ASSUME ConcurrentAssumption ==
    /\ Plans \subseteq [Arms -> PlanType]
    /\ Caps \subseteq Nat
    /\ ThreadCounts \subseteq Nat \ {0}
    /\ {UserMayStop, ClockMayRunOut, ThreadMayFail, CopyMayFail} \subseteq BOOLEAN

LiveFrom(k) == {j \in Arms : j >= k /\ live[j]}
IsNextLive(k) == k \in LiveFrom(next) /\ \A j \in LiveFrom(next) : k <= j

MainPlaces == {"round", "turn", "wait", "launch", "inline", "join", "settle",
               "choose", "returned"}
ArmPlaces == {"idle", "call", "loop", "callback", "stopped?", "answered?",
              "ended", "load", "cas"}

\* jaos_model_copy three times, then the arms' configuration.  The callback
\* is the caller's own on every arm of the first round.
Init ==
    /\ plan \in Plans
    /\ cap \in Caps
    /\ threads \in ThreadCounts
    /\ slice = Slice
    /\ spent = 0
    /\ winner = NoArm
    /\ spentOut = FALSE
    /\ answer = NoAnswer
    /\ main = "round"
    /\ next = 0
    /\ answered = NArms
    /\ stopped = FALSE
    /\ pc = [k \in Arms |-> "idle"]
    /\ site = [k \in Arms |-> "caller"]
    /\ asks = [k \in Arms |-> TRUE]
    /\ polled = [k \in Arms |-> FALSE]
    /\ seen = [k \in Arms |-> NArms]
    /\ limit = [k \in Arms |-> 0]
    /\ at = [k \in Arms |-> 0]
    /\ parked = [k \in Arms |-> FALSE]
    /\ units = [k \in Arms |-> 0]
    /\ status = [k \in Arms |-> "NOT_RUN"]
    /\ code = [k \in Arms |-> "OK"]
    /\ resumed = [k \in Arms |-> FALSE]
    /\ last = [k \in Arms |-> 0]
    /\ live = [k \in Arms |-> TRUE]

-----------------------------------------------------------------------------
(* One arm: run_arm, the loop of its solve, arm_progress.                    *)

\* The solve returns with a status published: publish() and, on a limit,
\* the parked state.
Publishes(k, verdict) ==
    /\ pc' = [pc EXCEPT ![k] = "ended"]
    /\ status' = [status EXCEPT ![k] = verdict]
    /\ code' = [code EXCEPT ![k] = "OK"]
    /\ units' = [units EXCEPT ![k] = at[k]]
    /\ parked' = [parked EXCEPT ![k] = plan[k].parks /\
                      verdict \in StoppedByCaller \cup {"WORK_LIMIT"}]
    /\ UNCHANGED <<fixed, call, main, next, site, asks, polled, seen, limit,
                   at, record>>

\* run_arm enters jaos_solve: a parked walk goes on, any other starts over.
ArmCall(k) ==
    /\ pc[k] = "call"
    /\ pc' = [pc EXCEPT ![k] = "loop"]
    /\ polled' = [polled EXCEPT ![k] = FALSE]
    /\ resumed' = [resumed EXCEPT ![k] = parked[k]]
    /\ parked' = [parked EXCEPT ![k] = FALSE]
    /\ IF parked[k]
       THEN UNCHANGED <<at, status, units>>
       ELSE /\ at' = [at EXCEPT ![k] = 0]
            /\ status' = [status EXCEPT ![k] = PresolveStatus(plan[k], @)]
            /\ units' = [units EXCEPT ![k] = IF plan[k].presolved THEN 0 ELSE @]
    /\ UNCHANGED <<fixed, call, main, next, atomics, site, asks, seen, limit,
                   code, last, live>>

\* A failure met in the last pivot ends the walk before any test of the loop.
Failing(k) == plan[k].end \in Failures /\ at[k] = plan[k].need

ArmFails(k) ==
    /\ pc[k] = "loop"
    /\ Failing(k)
    /\ UNCHANGED atomics
    /\ IF plan[k].end = "ERR"
       THEN /\ pc' = [pc EXCEPT ![k] = "ended"]
            /\ code' = [code EXCEPT ![k] = "ERR"]
            /\ UNCHANGED <<fixed, call, main, next, site, asks, polled, seen,
                           limit, at, parked, units, status, record>>
       ELSE Publishes(k, plan[k].end)

InLoop(k) == pc[k] = "loop" /\ ~Failing(k)

ArmLimit(k) ==
    /\ InLoop(k)
    /\ at[k] >= limit[k]
    /\ Publishes(k, "WORK_LIMIT")
    /\ UNCHANGED atomics

ArmClock(k) ==
    /\ ClockMayRunOut
    /\ InLoop(k)
    /\ at[k] < limit[k]
    /\ Publishes(k, "TIME_LIMIT")
    /\ UNCHANGED atomics

\* Every PROGRESS_EVERY iterations the loop calls progress_cb: the arm's own
\* arm_progress in a parallel race, the caller's callback otherwise.
ArmPolls(k) ==
    /\ InLoop(k)
    /\ at[k] < limit[k]
    /\ ~polled[k]
    /\ polled' = [polled EXCEPT ![k] = TRUE]
    /\ pc' = [pc EXCEPT ![k] = IF asks[k] THEN "callback" ELSE "stopped?"]
    /\ UNCHANGED <<fixed, call, main, next, atomics, site, asks, seen, model,
                   record>>

\* The loop has nothing left to price: the walk has its verdict.
ArmEnds(k) ==
    /\ InLoop(k)
    /\ at[k] < limit[k]
    /\ at[k] = plan[k].need
    /\ Publishes(k, plan[k].end)
    /\ UNCHANGED atomics

ArmPivots(k) ==
    /\ InLoop(k)
    /\ at[k] < limit[k]
    /\ at[k] # plan[k].need
    /\ at' = [at EXCEPT ![k] = @ + 1]
    /\ polled' = [polled EXCEPT ![k] = FALSE]
    /\ UNCHANGED <<fixed, call, main, next, atomics, pc, site, asks, seen,
                   limit, parked, units, status, code, record>>

PollPasses(k, place) ==
    /\ pc' = [pc EXCEPT ![k] = place]
    /\ UNCHANGED <<fixed, call, main, next, atomics, site, asks, polled, seen,
                   model, record>>

\* The caller's callback answers, on whichever thread runs the arm.
ArmAsks(k) ==
    /\ pc[k] = "callback"
    /\ \/ PollPasses(k, IF parallel THEN "stopped?" ELSE "loop")
       \/ /\ UserMayStop
          /\ stopped' = (stopped \/ parallel)
          /\ UNCHANGED answered
          /\ Publishes(k, "INTERRUPTED")

ArmReadsStopped(k) ==
    /\ pc[k] = "stopped?"
    /\ IF stopped THEN Publishes(k, "INTERRUPTED") /\ UNCHANGED atomics
                  ELSE PollPasses(k, "answered?")

\* Fault: any answer cancels every other arm, not only the later ones.
ArmReadsAnswered_AnyOther(k) ==
    /\ pc[k] = "answered?"
    /\ IF answered # NArms THEN Publishes(k, "INTERRUPTED") /\ UNCHANGED atomics
                           ELSE PollPasses(k, "loop")

ArmReadsAnswered(k) ==
    /\ pc[k] = "answered?"
    /\ IF answered < k THEN Publishes(k, "INTERRUPTED") /\ UNCHANGED atomics
                       ELSE PollPasses(k, "loop")

\* Fault: an arm that ends without a verdict lowers `answered` as well.
ArmReturns_AnyStatus(k) ==
    /\ pc[k] = "ended"
    /\ pc' = [pc EXCEPT ![k] = IF parallel THEN "load" ELSE "idle"]
    /\ UNCHANGED <<fixed, call, main, next, atomics, site, asks, polled, seen,
                   model, record>>

\* run_arm after jaos_solve: it looks at the status and not at the code.
ArmReturns(k) ==
    /\ pc[k] = "ended"
    /\ pc' = [pc EXCEPT ![k] =
                  IF parallel /\ status[k] \in Decided THEN "load" ELSE "idle"]
    /\ UNCHANGED <<fixed, call, main, next, atomics, site, asks, polled, seen,
                   model, record>>

ArmLoads(k) ==
    /\ pc[k] = "load"
    /\ seen' = [seen EXCEPT ![k] = answered]
    /\ pc' = [pc EXCEPT ![k] = "cas"]
    /\ UNCHANGED <<fixed, call, main, next, atomics, site, asks, polled, model,
                   record>>

\* Fault: an exchange that fails does not read `answered` again.
ArmLowers_NoReload(k) ==
    /\ pc[k] = "cas"
    /\ IF k >= seen[k]
       THEN /\ pc' = [pc EXCEPT ![k] = "idle"]
            /\ UNCHANGED answered
       ELSE /\ answered = seen[k]
            /\ answered' = k
            /\ pc' = [pc EXCEPT ![k] = "idle"]
    /\ UNCHANGED <<fixed, call, main, next, stopped, site, asks, polled, seen,
                   model, record>>

\* The loop that lowers `answered`.  A weak exchange that fails, for a newer
\* value or for none, leaves what it read in `cur`.
ArmLowers(k) ==
    /\ pc[k] = "cas"
    /\ IF k >= seen[k]
       THEN /\ pc' = [pc EXCEPT ![k] = "idle"]
            /\ UNCHANGED <<answered, seen>>
       ELSE IF answered = seen[k]
       THEN /\ answered' = k
            /\ pc' = [pc EXCEPT ![k] = "idle"]
            /\ UNCHANGED seen
       ELSE /\ seen' = [seen EXCEPT ![k] = answered]
            /\ UNCHANGED <<answered, pc>>
    /\ UNCHANGED <<fixed, call, main, next, stopped, site, asks, polled, model,
                   record>>

ArmStep(k) ==
    \/ ArmCall(k)
    \/ ArmFails(k)
    \/ ArmLimit(k)
    \/ ArmClock(k)
    \/ ArmPolls(k)
    \/ ArmEnds(k)
    \/ ArmPivots(k)
    \/ ArmAsks(k)
    \/ ArmReadsStopped(k)
    \/ ArmReadsAnswered(k)
    \/ ArmReturns(k)
    \/ ArmLoads(k)
    \/ ArmLowers(k)

-----------------------------------------------------------------------------
(* The calling thread.                                                       *)

Goes(place) == main' = place
Idle(k) == pc[k] = "idle"

\* An arm's model cannot be copied: nothing runs and no answer is taken.
CopyFails ==
    /\ CopyMayFail
    /\ main = "round" /\ FirstRound
    /\ answer' = [NoAnswer EXCEPT !.code = "ERR"]
    /\ Goes("returned")
    /\ UNCHANGED <<fixed, slice, spent, winner, spentOut, next, atomics,
                   runner, model, record>>

NoneLive ==
    /\ main = "round"
    /\ LiveFrom(0) = {}
    /\ Goes("choose")
    /\ UNCHANGED <<fixed, call, next, atomics, runner, model, record>>

SequentialRound ==
    /\ main = "round"
    /\ LiveFrom(0) # {}
    /\ ~parallel \/ FirstRound
    /\ Goes("turn")
    /\ UNCHANGED <<fixed, call, next, atomics, runner, model, record>>

\* The first live arm keeps the caller's callback and the calling thread; the
\* others only read the atomics.  Each arm's fields are set before its thread
\* starts, so setting them together changes nothing an arm can see.
IsFirst(k) == live[k] /\ \A j \in LiveFrom(0) : k <= j

\* Fault: `answered` starts a round one past CONCURRENT_ARMS.
ParallelRound_OnePast ==
    /\ main = "round"
    /\ LiveFrom(0) # {}
    /\ parallel /\ ~FirstRound
    /\ answered' = NArms + 1
    /\ limit' = [k \in Arms |-> IF live[k] THEN slice ELSE limit[k]]
    /\ code' = [k \in Arms |-> IF live[k] THEN "OK" ELSE code[k]]
    /\ asks' = [k \in Arms |-> IF live[k] THEN IsFirst(k) ELSE asks[k]]
    /\ Goes("launch")
    /\ UNCHANGED <<fixed, call, next, stopped, pc, site, polled, seen, at,
                   parked, units, status, record>>

\* Fault: every arm of a parallel round keeps the callback it had.
ParallelRound_KeepsCallback ==
    /\ main = "round"
    /\ LiveFrom(0) # {}
    /\ parallel /\ ~FirstRound
    /\ answered' = NArms
    /\ limit' = [k \in Arms |-> IF live[k] THEN slice ELSE limit[k]]
    /\ code' = [k \in Arms |-> IF live[k] THEN "OK" ELSE code[k]]
    /\ Goes("launch")
    /\ UNCHANGED <<fixed, call, next, stopped, pc, site, asks, polled, seen, at,
                   parked, units, status, record>>

ParallelRound ==
    /\ main = "round"
    /\ LiveFrom(0) # {}
    /\ parallel /\ ~FirstRound
    /\ answered' = NArms
    /\ limit' = [k \in Arms |-> IF live[k] THEN slice ELSE limit[k]]
    /\ code' = [k \in Arms |-> IF live[k] THEN "OK" ELSE code[k]]
    /\ asks' = [k \in Arms |-> IF live[k] THEN IsFirst(k) ELSE asks[k]]
    /\ Goes("launch")
    /\ UNCHANGED <<fixed, call, next, stopped, pc, site, polled, seen, at,
                   parked, units, status, record>>

\* The calling thread gives arm k a thread or, when none starts, runs it.
Launch(k) ==
    /\ main = "launch"
    /\ IsNextLive(k)
    /\ ~IsFirst(k)
    /\ pc' = [pc EXCEPT ![k] = "call"]
    /\ \/ site' = [site EXCEPT ![k] = "worker"] /\ Goes("launch")
       \/ ThreadMayFail /\ site' = [site EXCEPT ![k] = "caller"]
                        /\ Goes("inline")
    /\ next' = k + 1
    /\ UNCHANGED <<fixed, call, atomics, asks, polled, seen, model, record>>

LaunchSkipsFirst(k) ==
    /\ main = "launch"
    /\ IsNextLive(k)
    /\ IsFirst(k)
    /\ next' = k + 1
    /\ UNCHANGED <<fixed, call, main, atomics, runner, model, record>>

InlineDone ==
    /\ main = "inline"
    /\ Idle(next - 1)
    /\ Goes("launch")
    /\ UNCHANGED <<fixed, call, next, atomics, runner, model, record>>

RunFirst(k) ==
    /\ main = "launch"
    /\ LiveFrom(next) = {}
    /\ IsFirst(k)
    /\ pc' = [pc EXCEPT ![k] = "call"]
    /\ site' = [site EXCEPT ![k] = "caller"]
    /\ Goes("join")
    /\ UNCHANGED <<fixed, call, next, atomics, asks, polled, seen, model,
                   record>>

\* Fault: the calling thread waits for its own arm only.
Join_OwnArmOnly ==
    /\ main = "join"
    /\ \E k \in Arms : IsFirst(k) /\ Idle(k)
    /\ next' = 0
    /\ Goes("settle")
    /\ UNCHANGED <<fixed, call, atomics, runner, model, record>>

Join ==
    /\ main = "join"
    /\ \A k \in Arms : Idle(k)
    /\ next' = 0
    /\ Goes("settle")
    /\ UNCHANGED <<fixed, call, atomics, runner, model, record>>

\* A turn of a sequential round: the budget, then run_arm on this thread.
Turn(k) ==
    /\ main = "turn"
    /\ IsNextLive(k)
    /\ ~(cap > 0 /\ spent >= cap)
    /\ limit' = [limit EXCEPT ![k] =
                     Give(slice, cap, spent, IF parked[k] THEN last[k] ELSE 0)]
    /\ pc' = [pc EXCEPT ![k] = "call"]
    /\ site' = [site EXCEPT ![k] = "caller"]
    /\ Goes("wait")
    /\ UNCHANGED <<fixed, call, next, atomics, asks, polled, seen, at, parked,
                   units, status, code, record>>

SpendOut ==
    /\ main = "turn"
    /\ LiveFrom(next) # {}
    /\ cap > 0 /\ spent >= cap
    /\ spentOut' = TRUE
    /\ Goes("choose")
    /\ UNCHANGED <<fixed, slice, spent, winner, answer, next, atomics, runner,
                   model, record>>

\* settle_arm and the test of its result: a turn at a time in a sequential
\* round, every live arm in index order after the join of a parallel one.
\* Faults: a stop by the caller, or a proof of infeasibility, does not end
\* the race.
Wins_NotStopped(k) == code[k] = "OK" /\ status[k] \in Decided
Wins(k) == code[k] = "OK" /\ status[k] \in Decided \cup StoppedByCaller

SettleArm(k) ==
    /\ main \in {"wait", "settle"}
    /\ IsNextLive(k)
    /\ Idle(k)
    /\ last' = [last EXCEPT ![k] = units[k]]
    /\ spent' = spent + Billed(resumed[k], last[k], units[k])
    /\ live' = [live EXCEPT ![k] =
                    Wins(k) \/ (code[k] = "OK" /\ status[k] = "WORK_LIMIT")]
    /\ winner' = IF Wins(k) THEN k ELSE winner
    /\ next' = k + 1
    /\ Goes(IF Wins(k) THEN "choose" ELSE IF main = "wait" THEN "turn" ELSE main)
    /\ UNCHANGED <<fixed, slice, spentOut, answer, atomics, runner, model,
                   resumed>>

RoundOver == main \in {"turn", "settle"} /\ LiveFrom(next) = {}

NextRound ==
    /\ RoundOver
    /\ slice <= MaxUnits \div Growth
    /\ slice' = slice * Growth
    /\ next' = 0
    /\ Goes("round")
    /\ UNCHANGED <<fixed, spent, winner, spentOut, answer, atomics, runner,
                   model, record>>

LastRound ==
    /\ RoundOver
    /\ slice > MaxUnits \div Growth
    /\ Goes("choose")
    /\ UNCHANGED <<fixed, call, next, atomics, runner, model, record>>

\* Without a winner the answer is the first live arm's, or arm 0's.
Chosen ==
    IF winner # NoArm THEN winner
    ELSE IF \E k \in Arms : IsFirst(k) THEN CHOOSE k \in Arms : IsFirst(k)
    ELSE 0

\* take_answer moves the chosen arm's answer onto the caller's model.
TakeAnswer ==
    /\ main = "choose"
    /\ answer' = [arm |-> Chosen, status |-> status[Chosen],
                  code |-> code[Chosen], work |-> spent]
    /\ Goes("returned")
    /\ UNCHANGED <<fixed, slice, spent, winner, spentOut, next, atomics,
                   runner, model, record>>

MainStep ==
    \/ CopyFails
    \/ NoneLive
    \/ SequentialRound
    \/ ParallelRound
    \/ \E k \in Arms : \/ Launch(k)
                       \/ LaunchSkipsFirst(k)
                       \/ RunFirst(k)
                       \/ Turn(k)
                       \/ SettleArm(k)
    \/ InlineDone
    \/ Join
    \/ SpendOut
    \/ NextRound
    \/ LastRound
    \/ TakeAnswer

Next == MainStep \/ \E k \in Arms : ArmStep(k)

Spec == Init /\ [][Next]_vars

\* Every thread that can take a step takes one: the code has no lock and no
\* wait but the join, so this is the fairness of the system's scheduler.
Fairness == WF_vars(MainStep) /\ \A k \in Arms : WF_vars(ArmStep(k))

FairSpec == Spec /\ Fairness

-----------------------------------------------------------------------------
(* What the concurrent solve must never do, whatever its threads interleave, *)
(* and that it implements the race on one thread.                            *)

Answers == [arm : Arms \cup {NoArm}, status : Statuses, code : Codes,
            work : Nat]

\* Types of the shared atomics, of the arms and of the calling thread.
TypeOK ==
    /\ plan \in [Arms -> PlanType] /\ cap \in Nat /\ threads \in Nat
    /\ slice \in Nat \ {0} /\ spent \in Nat
    /\ winner \in Arms \cup {NoArm}
    /\ spentOut \in BOOLEAN
    /\ answer \in Answers
    /\ main \in MainPlaces
    /\ next \in 0 .. NArms
    /\ answered \in 0 .. NArms
    /\ stopped \in BOOLEAN
    /\ pc \in [Arms -> ArmPlaces]
    /\ site \in [Arms -> {"caller", "worker"}]
    /\ asks \in [Arms -> BOOLEAN]
    /\ polled \in [Arms -> BOOLEAN]
    /\ seen \in [Arms -> 0 .. NArms]
    /\ limit \in [Arms -> Int] /\ at \in [Arms -> Nat]
    /\ parked \in [Arms -> BOOLEAN]
    /\ units \in [Arms -> Nat]
    /\ status \in [Arms -> Statuses]
    /\ code \in [Arms -> Codes]
    /\ resumed \in [Arms -> BOOLEAN]
    /\ last \in [Arms -> Nat]
    /\ live \in [Arms -> BOOLEAN]

\* An answer is INTERRUPTED only because the caller's callback said STOP: the
\* race cancels losing arms by the same status, and a cancelled arm must never
\* be the one whose answer is taken (arm_progress, settle_arm).
CancelledNeverWins ==
    main = "returned" /\ answer.status = "INTERRUPTED" /\ parallel => stopped

\* A STOP from the caller's callback reaches the answer: the arm that asks is
\* the first live one, so no other arm's answer overtakes it (docs/api.md,
\* "a stop there stops the other methods too").
StopReachesTheAnswer ==
    main = "returned" /\ stopped =>
        answer.status = "INTERRUPTED" /\ answer.code = "OK"

\* While threads run, the caller's callback is called by the calling thread
\* alone, and by one arm at a time (docs/api.md, "Every callback runs on the
\* thread that called jaos_solve, one call at a time").
CallbackOnCaller ==
    /\ \A k \in Arms : pc[k] = "callback" => site[k] = "caller"
    /\ \A j, k \in Arms : pc[j] = "callback" /\ pc[k] = "callback" => j = k

\* Nothing is read off an arm while its thread can still write it: settling
\* and choosing happen with every arm at rest (the join, settle_arm).
ReadsAfterJoin ==
    main \in {"settle", "choose", "round", "returned"} =>
        \A k \in Arms : pc[k] = "idle"

\* The race ends: every round ends, and budgets outgrow every walk or the
\* integers.
Termination == <>(main = "returned")

-----------------------------------------------------------------------------
(* The race on one thread, as this one carries it out.  A turn happens when  *)
(* its arm is settled; what an arm has done since is not part of it yet.     *)

Turns == IF main \in {"launch", "inline", "join"} THEN 0 ELSE next

InFlight(k) == live[k] /\ k >= Turns

Before == IF FirstRound THEN "NOT_RUN" ELSE "WORK_LIMIT"

OneThread == INSTANCE Race WITH
    next <- Turns,
    status <- [k \in Arms |-> IF InFlight(k) THEN Before ELSE status[k]],
    code <- [k \in Arms |-> IF InFlight(k) THEN "OK" ELSE code[k]],
    MayStop <- UserMayStop \/ ClockMayRunOut

\* The answer, the arm it comes from and the work billed are those of the
\* race on one thread: the thread count changes none of them.
RaceOnOneThread == OneThread!Spec

=============================================================================
