-------------------------------- MODULE Race --------------------------------
(* What jm_solve_concurrent promises: the race on one thread.  The arms take *)
(* turns in index order, each with a budget; the first turn that ends with a *)
(* verdict, or that the caller stops, ends the race; after a round without   *)
(* one the budget grows.  docs/api.md and SPECS.md say that the thread count *)
(* changes neither the answer nor the work.                                  *)
EXTENDS RaceTerms

CONSTANTS
    Plans,      \* the walks considered: a set of functions from Arms to plans
    Caps,       \* the caller's work limits considered; 0 is none
    MayStop,    \* the caller's callback or clock may cut a turn
    CopyMayFail \* an arm's copy of the model may be out of memory

VARIABLES
    plan, cap,              \* the model and the limit: fixed
    slice, next,            \* the round's budget and the arm whose turn is next
    last, live, status, code,   \* per arm, as its last turn left it
    spent, winner, spentOut,
    answer                  \* what the caller's model receives

raceVars == <<plan, cap, slice, next, last, live, status, code, spent,
              winner, spentOut, answer>>

NoAnswer == [arm |-> NoArm, status |-> "NOT_RUN", code |-> "OK", work |-> 0]

LiveFrom(k) == {j \in Arms : j >= k /\ live[j]}
IsNextLive(k) == k \in LiveFrom(next) /\ \A j \in LiveFrom(next) : k <= j

Resumes(k) == plan[k].parks /\ status[k] = "WORK_LIMIT"

Init ==
    /\ plan \in Plans
    /\ cap \in Caps
    /\ slice = Slice
    /\ next = 0
    /\ last = [k \in Arms |-> 0]
    /\ live = [k \in Arms |-> TRUE]
    /\ status = [k \in Arms |-> "NOT_RUN"]
    /\ code = [k \in Arms |-> "OK"]
    /\ spent = 0
    /\ winner = NoArm
    /\ spentOut = FALSE
    /\ answer = NoAnswer

Racing == answer = NoAnswer /\ winner = NoArm /\ ~spentOut

CopyFails ==
    /\ CopyMayFail
    /\ Racing /\ next = 0 /\ slice = Slice
    /\ answer' = [NoAnswer EXCEPT !.code = "ERR"]
    /\ UNCHANGED <<plan, cap, slice, next, last, live, status, code, spent,
                   winner, spentOut>>

\* The outcome of arm k's turn, as settle_arm reads it off the arm's model.
Settle(k, total, verdict, result) ==
    /\ last' = [last EXCEPT ![k] = total]
    /\ status' = [status EXCEPT ![k] = verdict]
    /\ code' = [code EXCEPT ![k] = result]
    /\ spent' = spent + Billed(Resumes(k), last[k], total)
    /\ winner' = IF result = "OK" /\ verdict \in Decided \cup StoppedByCaller
                 THEN k ELSE NoArm
    /\ live' = [live EXCEPT ![k] =
                    result = "OK" /\ verdict # "NUMERICAL_ERROR"]
    /\ next' = k + 1
    /\ UNCHANGED <<plan, cap, slice, spentOut, answer>>

Limit(k) == Give(slice, cap, spent, IF Resumes(k) THEN last[k] ELSE 0)

MayTurn(k) == Racing /\ IsNextLive(k) /\ ~(cap > 0 /\ spent >= cap)

\* The turn runs its whole budget.
TurnCut(k) ==
    /\ MayTurn(k)
    /\ ~EndsWithin(plan[k], Limit(k))
    /\ Settle(k, Limit(k), "WORK_LIMIT", "OK")

\* The walk ends inside the budget and publishes a status.
TurnEnds(k) ==
    /\ MayTurn(k)
    /\ EndsWithin(plan[k], Limit(k))
    /\ plan[k].end # "ERR"
    /\ Settle(k, plan[k].need, plan[k].end, "OK")

\* The walk ends in an error and publishes nothing: what a fresh call's
\* presolve published stands, and otherwise what the arm's model had.
TurnFails(k) ==
    /\ MayTurn(k)
    /\ EndsWithin(plan[k], Limit(k))
    /\ plan[k].end = "ERR"
    /\ LET kept == Resumes(k) \/ ~plan[k].presolved
       IN  Settle(k, IF kept THEN last[k] ELSE 0,
                  IF kept THEN status[k] ELSE "INFEASIBLE", "ERR")

\* The caller's callback or clock cuts the turn.
TurnStopped(k) ==
    /\ MayStop
    /\ MayTurn(k)
    /\ \E total \in 0 .. Limit(k), verdict \in StoppedByCaller :
           Settle(k, total, verdict, "OK")

SpendOut ==
    /\ Racing
    /\ LiveFrom(next) # {}
    /\ cap > 0 /\ spent >= cap
    /\ spentOut' = TRUE
    /\ UNCHANGED <<plan, cap, slice, next, last, live, status, code, spent,
                   winner, answer>>

RoundOver == next > 0 /\ LiveFrom(next) = {}

NextRound ==
    /\ Racing
    /\ RoundOver
    /\ slice <= MaxUnits \div Growth
    /\ slice' = slice * Growth
    /\ next' = 0
    /\ UNCHANGED <<plan, cap, last, live, status, code, spent, winner,
                   spentOut, answer>>

\* Without a winner the answer is the first live arm's, or arm 0's.
IsFirst(k) == live[k] /\ \A j \in LiveFrom(0) : k <= j

Chosen ==
    IF winner # NoArm THEN winner
    ELSE IF \E k \in Arms : IsFirst(k) THEN CHOOSE k \in Arms : IsFirst(k)
    ELSE 0

Finish ==
    /\ answer = NoAnswer
    /\ \/ winner # NoArm
       \/ spentOut
       \/ next = 0 /\ LiveFrom(0) = {}
       \/ RoundOver /\ slice > MaxUnits \div Growth
    /\ answer' = [arm |-> Chosen, status |-> status[Chosen],
                  code |-> code[Chosen], work |-> spent]
    /\ UNCHANGED <<plan, cap, slice, next, last, live, status, code, spent,
                   winner, spentOut>>

Turn(k) == TurnCut(k) \/ TurnEnds(k) \/ TurnFails(k) \/ TurnStopped(k)

Next ==
    \/ CopyFails
    \/ \E k \in Arms : Turn(k)
    \/ SpendOut
    \/ NextRound
    \/ Finish

Spec == Init /\ [][Next]_raceVars

=============================================================================
