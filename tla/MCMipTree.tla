----------------------------- MODULE MCMipTree -----------------------------
EXTENDS MipTree

\* Points 1..3 are the values of one integer column; a branch cuts it between
\* two of them.  At Crossed an SOS set or an indicator leaves another column
\* crossed bounds.
Column == 1 .. 4
Crossed == 4
Uncrossed(B) == IF B = {Crossed} THEN {} ELSE B
Cuts2 == [B \in SUBSET Column |->
            {[down |-> {p \in B : p <= v}, up |-> {p \in B : p > v}] :
               v \in {w \in B : \E p \in B : p > w}}]
Pieces == [B \in SUBSET Column |->
             IF 1 \in B /\ B # {1}
             THEN {[down |-> {1}, up |-> Uncrossed(B \ {1})]} ELSE {}]
NoGap == [v \in Keys |-> 0]

W(a, b, c) ==
    [cost |-> <<a, b, c, Inf>>, root |-> 1 .. 3, cutoff |-> Inf]
Shape == [pieces |-> FALSE, ray |-> {}, unseen |-> {}]
Plain(w) == <<w, Shape>>
Ray(w) == <<w, [Shape EXCEPT !.ray = w.root]>>
RayInPiece(w) == <<w, [Shape EXCEPT !.pieces = TRUE, !.ray = {1}]>>
Lazy(w, u) == <<w, [Shape EXCEPT !.unseen = u]>>

AllWorlds ==
    {Plain(W(3, 1, 2)), Plain(W(Inf, Inf, 2)),
     Plain([W(2, 1, 3) EXCEPT !.cutoff = 2]),
     Plain([W(1, 1, 1) EXCEPT !.root = {}]),
     Ray(W(NegInf, NegInf, NegInf)), Ray(W(Inf, Inf, Inf)),
     RayInPiece([W(Inf, 2, 1) EXCEPT !.root = Column]),
     Lazy(W(Inf, 2, 3), {<<1, 1>>})}
AllModels == {w[1] : w \in AllWorlds}

\* By bound, no dive, nothing optional.
C == [byEst |-> FALSE, batch |-> 1, dive |-> FALSE, backtrack |-> -1,
      diveGap |-> 0, rcfix |-> FALSE, restart |-> FALSE, callback |-> FALSE,
      resolves |-> FALSE, start |-> FALSE, heuristics |-> <<>>,
      rounding |-> FALSE, nodeLimit |-> 0, pool |-> 1, stops |-> {}]
Rounds == [C EXCEPT !.byEst = TRUE, !.batch = 2, !.rounding = TRUE,
                    !.pool = 2, !.stops = {"WORK_LIMIT"}]
Dives == [C EXCEPT !.dive = TRUE, !.backtrack = 1, !.diveGap = 1,
                   !.resolves = TRUE, !.heuristics = <<"dive">>]
Plunge == [C EXCEPT !.dive = TRUE, !.byEst = TRUE, !.nodeLimit = 3]
Fixing == [C EXCEPT !.rcfix = TRUE, !.restart = TRUE, !.rounding = TRUE,
                    !.start = TRUE, !.heuristics = <<"rins">>, !.nodeLimit = 3]
Steered == [C EXCEPT !.callback = TRUE, !.rounding = TRUE,
                     !.heuristics = <<"locks">>, !.stops = {"INTERRUPTED"}]
Calls == {Rounds, Dives, Plunge, Fixing, Steered}

=============================================================================
