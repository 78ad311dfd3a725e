---------------------------- MODULE MCConicTree ----------------------------
EXTENDS ConicTree

\* Points 1..5 are the values of one integer column; a branch cuts it between
\* two of them.  At 4 and at 5 an SOS set or an indicator leaves another column
\* crossed bounds, which a branch finds.
Column == 1 .. 5
Crossed == {4, 5}
Uncrossed(B) == IF B \subseteq Crossed THEN {} ELSE B
Cuts == [B \in SUBSET Column |->
           {[down |-> Uncrossed({p \in B : p <= v}),
             up |-> Uncrossed({p \in B : p > v})] :
              v \in {w \in B : \E p \in B : p > w}}]

\* Point 1 on one side of an SOS set, the others on the other.
Pieces == [B \in SUBSET Column |->
             IF 1 \in B /\ B # {1}
             THEN {[down |-> {1}, up |-> Uncrossed(B \ {1})]} ELSE {}]

OneWide == [v \in Keys |-> IF v \in 1 .. 3 THEN 1 ELSE 0]

W(a, b, c) ==
    [cost |-> <<a, b, c, Inf, Inf>>, root |-> 1 .. 3, cutoff |-> Inf]
WithCrossed(w) == [w EXCEPT !.root = 1 .. 4]
Plain(w) == <<w, [pieces |-> FALSE, semi |-> FALSE, ray |-> {}]>>
Semi(w) == <<w, [pieces |-> FALSE, semi |-> TRUE, ray |-> {}]>>
Ray(w) == <<w, [pieces |-> FALSE, semi |-> FALSE, ray |-> w.root]>>
RayInPiece(w) == <<w, [pieces |-> TRUE, semi |-> FALSE, ray |-> {1}]>>

AllWorlds ==
    {Plain(W(3, 1, 3)), Semi(W(1, Inf, 2)),
     Plain([W(2, 1, 3) EXCEPT !.cutoff = 2]),
     Plain([W(1, 1, 1) EXCEPT !.root = {}]),
     Plain([W(1, 1, 1) EXCEPT !.root = Crossed]),
     Ray(W(NegInf, NegInf, NegInf)), Ray(W(Inf, Inf, Inf)),
     RayInPiece(W(NegInf, 1, Inf)), RayInPiece(WithCrossed(W(Inf, 2, 1)))}

AllModels == {w[1] : w \in AllWorlds}

C(b, n, u) == [batch |-> b, threads |-> 2, nodeLimit |-> n, workLimit |-> u,
               rounding |-> TRUE, dive |-> 1]
Calls == {C(2, 0, 0), C(1, 0, 0), C(1, 2, 0), C(1, 0, 2)}

\* Every assignment has an objective that improves for ever, under a cutoff.
CutoffWorlds == {Ray([W(NegInf, NegInf, NegInf) EXCEPT !.cutoff = -1])}
CutoffModels == {w[1] : w \in CutoffWorlds}
OneCall == {C(1, 0, 0)}

=============================================================================
