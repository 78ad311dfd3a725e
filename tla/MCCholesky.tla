----------------------------- MODULE MCCholesky -----------------------------
EXTENDS Cholesky

\* Two triangles joined at a vertex: dissecting is cheaper than eliminating by
\* degree.  Some of its parts are not connected, some have a cheap order.
Joined == {{1, 6}, {1, 7}, {2, 3}, {2, 6}, {3, 6}, {4, 5}, {4, 7}, {5, 7}}

\* Rows of one block reach columns of the block before columns left of it.
Crossing == {{1, 2}, {1, 3}, {2, 4}, {2, 7}, {3, 4}, {3, 7}}
More == {{1, 5}, {2, 6}, {3, 5}, {4, 6}, {5, 6}, {5, 7}, {6, 7}}

MCGraphs == SUBSET Joined \cup {Crossing \cup E : E \in SUBSET More}

\* The two ways the library asks: a Cholesky factor on threads, all vertices
\* ordered by degree, and an LDLT factor with a dense limit.
MCInputs ==
    [graph : MCGraphs, large : BOOLEAN, dense : {N},
     threads : 2 .. 3, kind : {"chol"}]
    \cup [graph : MCGraphs, large : BOOLEAN, dense : {2},
          threads : {1}, kind : {"ldlt"}]
=============================================================================
