# JAOS in TLA+

JAOS is a C23 library for linear, mixed-integer, quadratic and conic programs
(`src/src`, about 57 000 lines), with a command line (`src/cli`), bindings and
tests. It makes four promises that are hard to keep and hard to test:

1. the answer and the work billed are the same at any thread count;
2. a solve that a limit or a callback stops parks its whole state, and the next
   call goes on to the answer of a solve that never stopped;
3. an answer counts only when an independent check accepts it;
4. what JAOS writes, JAOS reads back as the same model.

Floating point is outside these models. Two kinds of code are inside. In the
life of a solve, the concurrent solve, the trees and the model store it is the
control: which state is kept, dropped, carried over, restarted, resumed or
cancelled, in which order, and by which thread. In the reasoning at the root of
the tree, presolve, the files and the factorisation it is the algorithm itself,
over small integers or symbols in the place of the numbers.

## Inventory

| Component | State | Operations | Depends on | Correct when |
|---|---|---|---|---|
| Concurrent solve (`concurrent.c`, `sys.c`) | three arms, each a copy of the model with its budget and its last status; `answered` and `stopped` shared by the threads | rounds of turns with a growing budget, sequential or on threads; settling; taking the answer | `jaos_solve` on each copy, the caller's callback | the race is the one-thread race, no cancelled arm wins, a STOP is not lost, nothing is read before the join |
| Simplex: life of a solve (`simplex.c`, `jaos_solve` in `model.c`) | the model's answer, start and parked walk; the walk (`sx`) and the ladder's flags; the work and iterations of the call | fresh or resumed start, pivots, settling rounds, four kinds of restart, stops, second passes | presolve, aggregator, checker | restarts are finite, a walk is resumed on its own model only, a resumed solve is the uninterrupted one, limits hold over restarts, a refused certificate is not the answer |
| Conic branch and bound (`conictree.c`) | heap and stack of open nodes, the batch of a round, the incumbent, the best bound, nodes set aside | pick, solve a round on threads, branch, round, dive, prune, stop | conic interior point or barrier as node solver | no node that may hold a better point is lost; the verdict and the published bound are true |
| Branch and bound (`mip.c`) | best-bound and estimate heaps, the dive's stack, incumbent, solution pool; rows and bounds the root derived, cuts, clique table, conflicts | rounds on lanes, heuristics, restarts, limits; contraction, tightening, probing, propagation, separators | simplex on each lane | as above, the pool holds distinct best solutions, and nothing derived takes a point of the model away |
| Model store (`model.c`) | columns, rows, matrix and its row-wise copy, discrete structure, basis, answer, parked walk | load, set, add, delete, copy, getters | everything reads it | every edit drops or renumbers what depended on what it changed, and a failed one changes nothing |
| Presolve, aggregator (`presolve.c`, `aggregate.c`) | what is left of rows, columns and sides; the stack of reductions; columns substituted by rows | nine reductions, substitution, the undoing of each on an answer, a certificate and a basis | simplex | what comes back is optimal, is a certificate, is a basis of the model |
| Barrier, Cholesky (`barrier.c`, `chol.c`) | iterates; the quotient graph, the parts of the dissection, the analysis, lanes over the factor's blocks | order, analyse, factor | concurrent solve | the factor is the Cholesky factor and is the same at any thread count |
| First order, conic interior point (`pdlp.c`, `conic.c`) | iterates | iterate | conic tree | residuals |
| Linear algebra (`lu.c`, `scale.c`) | factors | factor, update | simplex | numerics |
| Exact answers, checker, proofs (`exact.c`, `check.c`, `verify.c`, `proof.c`) | none between calls | pure functions of model and answer | simplex asks the checker about certificates | rational arithmetic |
| Infeasibility analysis (`iis.c`, `relax.c`) | copies of the model | deletion filter, relaxations | simplex | the set is infeasible and minimal |
| Readers and writers (`write.c`, `mps.c`, `lp.c`, `nl.c`, `qplib.c`, `osil.c`, `cbf.c`) | the file being written | six formats, write and read | model store | the model comes back, and a failed write leaves no half file |
| Symmetry, ranging, compression, options, utilities, bindings, command line | none that outlives a call | | | |

Components call each other; only two share memory between threads while they
run: the arms of the concurrent solve, and the lanes on which a round of nodes
(or a block of the factor) is solved. The callbacks run on the calling thread
and may answer STOP.

The list of hazards, each at its line, with the properties that cover it, is in
`PROJECT.json`.

## Plan

1. The concurrent solve, as a refinement of the race on one thread. *Done.*
2. The life of a simplex solve: restarts, settling, parking, second passes.
   *Done.*
3. The conic branch and bound as a refinement of an abstract tree search about
   which the invariant is proved, and the proof that the code's tree implements
   it. *Done.*
4. The open list of the integer branch and bound, its rounds, pool and restart,
   as a refinement of the same `TreeSearch`. *Done.* Then what the root and the
   nodes derive from rows and bounds. *Done*, but for what is named below.
5. The model store as an implementation of a model edited by identity. *Done.*
6. The files: what each writer writes and its reader makes of it. *Done.*
7. The orders, the analysis and the numeric factor on lanes. *Done.*
8. Presolve, the aggregator and their way back, with the simplex as an oracle.
   *Done.* The deletion filter of `iis.c` over a feasibility oracle.
9. Proofs: the race, the life of a solve, both trees and the model store.
   *Done*, but for what "What is proved" leaves to the runs.

`Race`, `TreeSearch` and `ModelData` are abstract specifications that the code's
modules implement; the other modules are held against reference definitions (the
points of a model, the optimality conditions, the fill of a graph, the model that
was written).

## Concurrent solve

Modules: `RaceTerms` (vocabulary), `Race` (the abstract race on one thread),
`Concurrent` (the code with its threads, its properties and the refinement
mapping), `MCConcurrent`, `ConcurrentProofs`.

An arm is deterministic, so a *plan* stands for its walk: at how many work units
it ends, how (`OPTIMAL`, an error code, ...), whether a cut walk parks, and
whether presolve has published an infeasible verdict that did not hold. One unit
is one iteration.

`Concurrent` has one process for the calling thread (`main`, `next`) and one per
arm (`pc`, `site`). Every access to an atomic is a step of its own: `ArmAsks`
stores `stopped`, `ArmReadsStopped` and `ArmReadsAnswered` are the two loads of
`arm_progress`, `ArmLoads` and `ArmLowers` the load and the weak
compare-exchange of `run_arm`. The accesses are relaxed; a stale load is an
earlier poll, and the model lets any iteration poll or not. `Launch` may fail to
get a thread, in which case the arm runs inline (`InlineDone`). `SettleArm` is
`settle_arm`, in a sequential round after each turn and in a parallel one, in
index order, after `Join`.

`Race` is the same race without threads: a turn is one step. The mapping at
the end of `Concurrent` counts a turn as taken when its arm is settled and hides what
an arm in flight has done since.

| Run | Asks | Bounds |
|---|---|---|
| `concurrent` | no cancelled arm wins, a STOP reaches the answer, callbacks stay on the calling thread, no read before the join | three arms (the code's number), budgets 1, 2, 4, walks that end before, at, between and past every budget and in every way, as a first pass and as a second one |
| `concurrent_refines` | on 1 and 3 threads, under no limit and limits 1 and 4: every step is a step of the one-thread race, so the answer, the work and what is left of the limit are too; and the race ends | as above, no stop by the caller (the theorem `RaceIsOnOneThread` has it with stops and a clock too) |
| `concurrent_uncertified` | violation: the answer depends on the thread count when presolve's certificate is refused and the second pass errs | |

The slice starts at `CONCURRENT_SLICE` and doubles until `INT64_MAX / 2`; the
bounds keep the relation of budgets to walks (a walk ends within, exactly at,
and beyond a budget; one never ends before the last round) and three rounds are
the first, which is always sequential, and two parallel ones, so that an arm is
resumed in parallel, is cancelled and is resumed after that.

Fairness: weak fairness of the calling thread and of every arm. The code has no
lock and no wait but the join, so a scheduler that runs every runnable thread is
all `Termination` needs.

## The life of a solve

Modules: `SolveLifecycle`, `SolveProps`, `MCSolve`, `SolveProofs`.

One model `m`, one call at a time. A plan gives, for each attempt of the two
passes, the pivots of a run, the rounds of settling after it and how the attempt
ends (`STALL`: perturbed early and stalled; `BREACH`: the answer does not
satisfy the model; `LOAN`: it rests on a bound phase 1 lent; `FAIL`: error),
and how presolve and the aggregator end. `s` is the `sx` with the flags of
`dual_simplex_once` (`allow_warm`, `allow_loan`, `allow_early_perturb`); `call`
holds the locals of `jaos_solve` and `jm_dual_simplex`. A pivot, and the pricing
that finds nothing left, bill one unit.

The first call is made without limits, and `ref` keeps what it gave; the model
is then loaded again and solved under limits, clock and callback with edits in
between. That makes "a resumed solve is the solve that never stopped" an
invariant over one state.

| Run | Asks | Bounds |
|---|---|---|
| `solve_lifecycle` | all safety properties of `SolveProps` | three calls, one edit, limits 0, 2, 4 and 6, stops of all three kinds at every pivot; every ending of the first two attempts, warm and cold, dual and primal, the longest ladders, two settling rounds, every verdict of presolve with every pair of endings of the two passes, a long first pass before a short second one |

Three calls are two stops and the end: the second stop meets a walk that was
already resumed once. Longer walks repeat a pivot that changes nothing but the
counts.

`ResumeIsExact` leaves out the runs in which a stop fell
where the code does lose something. They are marked where it happens (`Marks`):

- `second`: a stop in a second pass parks the walk but forgets what the first
  pass billed (`simplex.c`, line 5233: the sums are made in the call that started
  the second pass), so the resumed call counts the second pass alone, and a limit
  that was reached in two passes is spent anew;
- `settling`: a STOP in a settling round leaves a priced row for a basis it was
  not priced on (`simplex.c`, line 4033);
- `restart`: a stop stores the basis it was on as the model's start, and an
  early-stall restart after a resume starts warm from it, where the run that
  never stopped restarts from the caller's start or cold;
- `forgotten`: a resumed walk has forgotten that it was on an aggregated model,
  and a certificate that does not hold gets no second pass (`simplex.c`, line
  4561, against `docs/api.md`, line 1716);
- `budget`: nothing was left for a second pass.

A resumed settling round is done again from its start, with the counts it had
there, which is why its end is exact. The model has two more facts a reader of
`docs/work-units.md` may not expect: when presolve alone gave the verdict, the
units it billed are not added to the second pass (line 88 says they are), and the
aggregator also runs with a whole starting basis and with the primal simplex
(line 76 says it does not).

## Conic branch and bound

Modules: `TreeTerms` (vocabulary), `TreeSearch` (what a branch and bound
promises), `TreeProofs`, `ConicTree` (the code, its properties and the
refinement mapping), `MCConicTree`, `ConicTreeProofs`.

A *point* is an assignment of the integer and semi-continuous columns, the SOS
sets and the indicators; its cost is the best objective with it. A node's box is
the set of points it holds. The solver of a relaxation is an oracle: any end is
possible that its certificate allows (a bound below every point of the box, an
infeasible box that is empty, a point that the checker has accepted), and any
node may fail numerically or fall short of its tolerances (`Rough`). So what is
checked is the tree's control, on the premise that each certificate is good.

| Variables of `ConicTree` | Code |
|---|---|
| `heap`, `stack`, `next`, `cur` | the heap by bound, the stack used while there is no incumbent, the child to plunge into, the node selected |
| `batch`, `lane`, `res`, `at` | the nodes of a round, the next node of each lane, what a node's solve billed, the node being processed |
| `inc` | `ct_best`; its key is the cutoff before there is a point |
| `bestBound`, `parkedKey`, `stoppedKey` | `best_bound`, the least bound of nodes that cannot be split, the least bound of what a stop left of a round |
| `told`, `bound` | the bound of the last event, and `mip_bound` |
| `aside` | history: the boxes behind `parkedKey` and `stoppedKey` |

`Select*` is the choice of the next node, `LimitStops` the test of the limits,
`Fill*` and `Launch` the making of a round, `LaneSolves` a lane's next
relaxation, and `Join` the end of the threads. `Node*`, `Fails*`, `OpensPiece`
and `SearchesPoint` are the ends of a relaxation; `Rounding*`, `Dive*`, `Leaf*`
and `Branch` what is done with a node that stays open (`BranchesNowhere` when the
bounds of both sides cross, so that no child takes its place); `Leftover` the end of the
round; `Finish` the verdict and the bound.

`TreeSearch` has a set of open nodes, a set of nodes set aside, an incumbent and
a verdict. Its steps drop what the incumbent closes, replace a node by nodes
that cover it, set nodes aside, improve the incumbent, or end. The mapping
gathers the heap, the stack, the plunge and the round into `open`. `IsTreeSearch`
therefore says that nothing falls between those five places, on any path.

| Run | Asks | Bounds |
|---|---|---|
| `conic_tree` | the tree is a `TreeSearch`; the verdict, the bound and the bounds of the events are true of the model; the search ends | one integer column with up to five values, cut anywhere between two, and a part of it whose bounds cross; a piece (SOS set or indicator) that separates one value; a child without a box; models that are feasible, partly or wholly infeasible, unbounded, under a cutoff; a gap of 1; rounds of one and two nodes on two threads; a node limit and a work limit reached inside a round; clock, STOP, failures and errors |
| `conic_cutoff` | violation: under a cutoff that is not above 0, an unbounded model ends INFEASIBLE | |

Three points that a leaf can hold, and two only boxes with crossed bounds hold,
give trees of depth three: a node, its children and theirs, so that
a round may hold cousins, a second node of a round displaces the child the first
left in `next`, an incumbent of the first node of a round closes the second, and
a limit falls between them. With one column there is one path to each box; the
boxes are the only thing the properties look at.

Fairness: weak fairness of the whole next-state relation. The tree is sequential
code and lanes that the round joins; no step waits for a step that is not
enabled. `Termination` holds for boxes that are finite. The code splits a leaf
that no solve settles at its column's middle, and a column without bounds can be
split for ever.

What the runs do not say:

- The bound of an event leaves out the nodes set aside, though `docs/api.md`
  (line 1621) calls it the best objective an open node could still reach.
  `EventBoundHolds` is therefore stated for points outside them; the bound
  published at the end includes them (`BoundHolds`).
- Bounds and verdicts are true up to the gap, since nodes that the incumbent
  closes are dropped. `TreeAssumption` asks for what a relative gap of at most 1
  gives: a better incumbent never opens again what a worse one has closed.
- The unbounded models of the passing runs have no cutoff of 0 or less, which is
  the run `conic_cutoff`. `unbounded_or_infeasible` in `mip.c` (line 5749) copies
  the model in the same way.
- Without a work limit nothing reads the units, and they are not counted.
- The tree that completes a partial start is one solve here.

## The open list of the integer tree

Modules: `MipTree` (`bb_run` and `bb_tree`), `MCMipTree`, `MipTreeProofs`, over the
same `TreeTerms` and `TreeSearch` as the conic tree.

| Variables of `MipTree` | Code |
|---|---|
| `heap`, `keyHeap`, `byId` | the heap by bound or by estimate; under selection by estimate `kheap`, the entries by bound, and which of them are live |
| `dstack`, `next`, `cur`, `round` | a dive's stack, the plunge, the node in hand, the round on its lanes |
| `kept` | `ilo`, `ihi`: the box that a root's reduced costs leave |
| `inc`, `pool` | the incumbent (or the cutoff), the solution pool |
| `bestBound`, `parkedKey` | as in the conic tree |
| `first` | what a second tree has of the first one after a restart |
| `told`, `offers`, `aside` | history |

| Run | Asks | Bounds |
|---|---|---|
| `mip_tree` | the tree is a `TreeSearch`; the heap by bound agrees with the heap by estimate; the pool holds the best of what it was offered; the incumbent announced before a restart, or a better one, is there when the second tree ends; the search ends | three or four assignments; selection by bound, by estimate and by dive; every heuristic; a node callback with rows, points and STOP; reduced costs; a restart; node, work and time limits; a pool of one and two; errors and memory |

Fairness: weak fairness of the next-state relation, as for the conic tree. The
callback may answer every point with a row; `SteerRounds` (`MIP_STEER_ROUNDS`,
1000 in the code) is then what ends a node, and the run gives it more than the
points its callback can cut off.

Bounds and abstractions: keys are exact; relaxations are monotone (a child's
bound is not below its parent's); the lanes of a round are one action, since
`ConicTree` has their interleaving and the integer tree's lanes share only the
work counter; a callback hands no point that it would itself cut off; models
with a ray under a cutoff of 0 or less are left out (the finding of
`conic_cutoff`, which `unbounded_or_infeasible`, `mip.c` lines 5749-5789, shares).
Reasoning that narrows boxes is in the next section; orbital fixing, the
objective's grid, the choice inside an SOS set and the drop of indicator rows
(line 7999 and after) are in neither.

## Reasoning at the root and at the nodes

Modules: `MipBounds` (rows, boxes and points; tightening, parity, propagation,
probing, cliques), `MipCuts` (the separators), `MipContract` (the
contraction and its postsolve), `MipRoot` (their order), `MCMipRoot`.

Numbers are exact, on a grid of halves, so a relaxation can end at a fraction.
Its point is any corner of the relaxation on the grid: the objective that would
choose one is left open, and so the separators meet more points than a solve
would hand them. Of a round's cuts any one is kept.

| Run | Asks | Bounds |
|---|---|---|
| `mip_root` | no point of the model is lost to a bound, a tightened row, a cut, a conflict row or a clique; a node keeps the points its branchings leave; the contracted model has the model's points and objective | eleven models of one to four columns, each for one separator or reduction; two passes; one cut at the root and one at a node; paths of two branchings |

A loss needs one derivation, or two of which the second rests on the first (a
cut on a tightened row, a conflict on a local bound), which is why one cut per
level and two branchings are enough. The reference is enumeration: the points of
each model in its box. Left out: the objective's grid (`mip.c`, lines 912-964),
orbital fixing (827-861, 6426-6462), branching on indicators, reduced costs, the
ranking of cuts (250-370), tolerances, and the second tree on the original model
when the contracted one does not end (8968-8977).

## Model store

Modules: `ModelData` (the model by identity), `ModelStore` (the arrays),
`ModelStoreProps`, `MCModelStore`, `ModelArraysProofs`.

A model in `ModelData` is a set of columns, a set of rows and relations between
them. In `ModelStore` it is what `jaos_model` has: sequences by position,
optional arrays (`NULL` until first needed), sets, cones, terms and indicators
that name columns by position, and beside them the starting basis, the starting
point, the row-wise copy, the map of names, the answer and the parked walk. The
mapping turns positions into identities; `IsModelData` then says that an edit by
position (with its renumbering) is the edit by identity that `docs/api.md` means.

| Run | Asks | Bounds |
|---|---|---|
| `model_store` | the arrays stay those of one relational model; references are whole; no answer, walk, basis, copy or map outlives what it was of; a call that fails has changed nothing | three calls on three starting models with marks, sets, indicators, cones and quadratic parts; any allocation may fail |

Three calls are an edit, something built on its result, and an edit of that: the
length at which a table that the first edit forgot to renumber is read.
`FailureChangesNothing` is about the model, its names and the answer; a failed
call may drop the basis or the starting point. `IndicatorsFail` is `FALSE` in
the run: see below. Options other than a tolerance and the algorithm are not
modelled.

## Files

Modules: `FileTerms`, one module per format (`MpsFile`, `LpFile`, `NlFile`,
`QplibFile`, `OsilFile`, `CbfFile`: what the writer refuses and writes, what its
reader makes of it, what the format can say), `Files` (the life of a write),
`MCFiles`, `FilesProofs`.

A file is a sequence of records of its sections, not of characters. Numbers are
integers with two large ones, infinite and past a format's own infinity.

| Run | Asks | Bounds |
|---|---|---|
| `files` | what was written reads back as the same model; in CBF as one with the same points, costs and columns; a failed write leaves no half file | families of models that vary the bounds of columns, those of rows, names, and discrete, quadratic and conic structure; an older file or none; every failure of a write; foreign CBF files with cones over expressions |

Left out: what the readers accept that the writers never write, but for CBF;
finite bounds of 1e20 and more in QPLIB and 1e30 in OSiL, which read back as
infinite; compression (the identity here); a failure of the last allocation of a
load; and a member of an SOS set that is named like a set (see below).

## Presolve and aggregation

Modules: `Presolve` (the reductions, the stack and the undoing of each record),
`ReducedSolve` (the aggregator, the simplex as an oracle, the order of it all in
`dual_simplex_once`, and the next solve), `MCPresolve`.

| Variables | Code |
|---|---|
| `m`, `start`, `solCol`, `node` | the model, its starting basis, what the last solve left in `sol_col`, and whether the solve is a node's |
| `pc`, `at`, `round`, `changed` | where the loops of `jm_presolve_run` are |
| `s` | what presolve has left of the model, its counters, and the arena that `ps_push` fills |
| `g` | what `jm_aggregate` leaves of that, and its records |
| `ans` | values, duals, statuses or a certificate, as `publish` and `jm_postsolve_expand` store them |

The passes go over the rows, the columns and the sides in the code's order, each
reduction an action that is taken when its test holds. The simplex is an oracle
on what is left: any optimal basis and its point and duals, any Farkas or ray
certificate, or any basis when it stops. What comes back is held against the
conditions of optimality, of a certificate and of a basis on the model itself.
Small programs are then edited in a cost or a side and solved again from the
basis the first solve left, which `jm_presolve_run` maps through the reductions.

| Run | Asks | Bounds |
|---|---|---|
| `presolve` | an answer that comes back is optimal; a basis has as many members as the model has rows and stands where its statuses say; a certificate proves what it is given for | some five hundred programs of two and three rows and columns that take every reduction, alone and on top of each other; coefficients, sides and costs small integers in units of 1/72, so that every quotient the run meets is exact; two solves |

Two reductions on top of each other are what an order can get wrong, and three
rows let a third read what both wrote. Left out: tolerances (0 here),
compensated sums, the folding of a box that rounding has inverted, and
allocations that fail.

## Orders, analysis and factor

Modules: `FillOrder` (minimum degree on its quotient graph and nested
dissection), `Cholesky` (the race between the orders, the symbolic analysis, the
factor row by row and in blocks on lanes), `CholeskyProofs`, `MCCholesky`. A loop
of `chol.c` over rows, entries or columns is a recursive function here, with its
step an operator, so that it can be reasoned about.

A value of the factor is the sequence of the columns that were subtracted from
it, which is what bit identity is about: two factors agree to the last bit when
the sequences agree.

| Run | Asks | Bounds |
|---|---|---|
| `cholesky` | the quotient graph is the graph that elimination leaves and orders are whole; the numeric factor uses the analysis of the better order; it is the Cholesky factor by definition; it and its work are the same on any number of threads | 384 patterns on seven vertices: all subsets of eight edges and 128 with a separator; dissection down to two; blocks of three columns; two and three threads; a lane that does not start, or runs out of memory; the LDLT factor with two dense columns |

Seven vertices give two blocks and a rest, so that a front reads columns of two
blocks before it, and a dissection with two levels. There is no fairness and
nothing is said of progress but that no state is a dead end: deadlock is checked.
Left out: pivots that are replaced, the solves (lines 1152-1201), allocations
other than a lane's, and the numbers.

## Where the code and its documents disagree

Two runs keep a disagreement as a violation (`concurrent_uncertified`,
`conic_cutoff`). The others were met while modelling. The passing runs follow
the code and leave the case out of the property, or leave out the input:

- an arm of the concurrent solve that gives up exactly at the work limit leaves
  the status NOT_RUN with the code OK (`concurrent.c`, line 228; `docs/api.md`,
  line 1743);
- a work limit that cuts the solve of the conic tree's last leaf ends as
  NUMERICAL_ERROR (`conictree.c`, line 1509; `docs/api.md`, line 1486);
- a second pass that returns an error before it publishes leaves the work units
  at the first pass's, and the first pass's are added to them once more
  (`simplex.c`, lines 5160 and 5237; `docs/api.md`, line 1903): `SpentWithinLimit`
  speaks of the calls that end well;
- a resumed walk on an aggregated model, and a STOP in a settling round: see *The
  life of a solve*;
- a restart gives the second tree what is left of the limits. When a limit of work
  or time, a STOP or a failure ends that tree at its root, before it looks at its
  start, the incumbent that was announced is lost (`mip.c`, lines 6147,
  7188-7245, 7830-7892 and 8588; `docs/api.md`, line 1203). `IncumbentIsKept`
  speaks of the other ends: a second node, OPTIMAL or NODE_LIMIT;
- the bound of an event in the integer tree leaves out the waiting nodes of the
  round and those set aside (`mip.c`, line 7992; `docs/api.md`, lines 1191 and
  1634);
- a node callback's row that rejects a point drops the relaxation's answer,
  and a later look at it returns OUT_OF_MEMORY (`mip.c`, line 7398; `docs/api.md`,
  line 1655);
- `add_rows` that runs out of memory while it grows the indicators frees them
  and returns JAOS_OK (`model.c`, lines 3352-3362), so the model has lost its
  indicator rows;
- presolve gives up at an empty column on which the objective has no end
  (`presolve.c`, lines 521-528) but keeps its stack. The aggregator may then
  reduce the model (`simplex.c`, lines 4663-4671), and `jm_postsolve_expand`
  undoes the old stack too (lines 1743-1792). The basis published then need not
  have "exactly `jaos_num_row(m)` basic entries", as `docs/api.md` says a valid
  one has, and the certificate may be overwritten; only verdicts of presolve
  itself are checked again (`simplex.c`, lines 5097-5125). The properties of
  `ReducedSolve` leave a solve that gave up (`s.gaveUp`) out;
- a column that a singleton row folds to one point, held there by the starting
  basis, can come back AT_UPPER though it stands at its own lower bound, with a
  reduced cost of 0. `BasisHolds` allows it: off the basis a column or row stands
  at the side its status names, or has multiplier 0 and stands at the other;
- the SOS reader of MPS takes a member column named `S1` or `s2` for the header
  of a set (`mps.c`, line 773; `docs/format-support.md`, lines 538 and 554).

## What is proved

The eight proof modules hold for every value of the constants, under the named
assumptions of `RaceTerms`, `Concurrent`, `SolveLifecycle`, `TreeTerms`,
`ConicTree`, `MipTree`, `ModelStore`, `FillOrder` and `Cholesky`. They say that
budgets, counts of rows, blocks and threads are positive, the growth is at least two, the plans and the models have their type, the gap is at most 1, a starting
model is one that calls can have built (`ModelStoreAssumption`), what a call is
given has its C type, no array is `NULL` (`NullAssumption`), and in the graph of a
pattern no vertex is its own neighbour (`md_build` and `nd_order` skip the
diagonal).

`ConcurrentProofs`: type correctness; and, under `SecondPassPublishes` (no plan in
which presolve's refused verdict is followed by an error, the case of the run
`concurrent_uncertified`), that a cancelled arm is never the answer, that the
callback stays on the calling thread, that no arm is read while it runs, that a
STOP reaches the answer, and that the race is the race on one thread. The
inductive invariant `Inv` says where the calling thread can be for each place of
an arm (`Placement`), that arms not settled have no verdict before them
(`Unsettled`), what a status on an arm's model implies (`Verdicts`), and that a
cancelled arm has an answered arm before it (`Cancelling`). The last is what
`CancelledNeverWins` needs: settling goes in index order and stops at the first
verdict, so it never gets to the cancelled arm.

A STOP is followed from the arm whose callback gave it to the answer
(`Stopping`, for `StopIsTheAnswer`): in a parallel round that arm is the first
live one, so it is the first to be settled, and no arm after it is looked at.

`RaceIsOnOneThread` is the refinement, with or without a limit, stops, a clock and
threads that do not start. `Turning` carries what one turn is, whoever runs it
and beside whom: the budget it was given (`TurnLimit`), whether it goes on with
a parked walk (`GoesOn`), how an arm stands between turns (`Rested`), on its
walk (`OnWalk`) and after it (`Cut`, `Ended`, `Failed`, `Stopped`, which are the
four outcomes that `Race` has). `Interrupting` says who can have cut a turn
short, and `Calling` what the places of the calling thread say of its locals. An arm's
steps are then stutters (`ArmsAreQuiet`); the settling of an arm is its turn
(`SettledAsTurn`), where the hard case is an arm cancelled by an answer: one with
a lower index has a verdict, so it was settled first and the race was over.

`SolveProofs`: type correctness (with it, that a second pass is never given a
negative or zero limit), the bound on restarts, the bound on what a call bills,
that a stop parks a walk which is resumed on its own model only, that a verdict is
certified, that the caller's start comes back, and that a resumed solve ends as
the one that never stopped. The inductive invariant `IInv` adds to the types a budget of
restarts (`Ladders_Inv`: each rung takes a flag and pays for the attempt), the
version a walk was left on (`Walk_Inv`), what each place of the call says about
the pass it is in and about parked walks (`Pass_Inv`, `Park_Inv`), which
verdicts can be unsure (`Sure_Inv`) and which start the model has (`Start_Inv`).
For the bill, `Bill_Inv` says how the two passes share the caller's limit, that a
walk is billed a step only below the limit of its pass, and that a resumed walk
starts with no more than the model shows.

`ResumingIsExact` compares a solve cut into many calls with one that ran long
before it, of which only the outcome `ref` is left. The proof writes down the
solve that nothing stops as a machine: `State` is where it is and what decides
how it goes on, `After` its step, a function of the state and the plan. Every
step of a call but a stop and a resume is a step of the machine (`WalkAsNow`,
`RungAsNow`, `EnterAsNow`, `EndsAsNow`, `SecondAsNow`), whatever a stop left in
the basis, the held price and the version (`Plain` leaves these out). `Lead_Inv`
then says that the machine passes through `Now` on its way from its first state
to one that gives `ref`; it says the same of a parked walk and of the start of
the settling round a walk is in, which is where a resume puts it. "Passes
through" would be an induction over steps; it is said instead of all sets that
the machine does not leave (`Reaches`), from which the four facts the proof needs
follow at once. `Straight_Inv` says that no price is held for another basis,
`Stops_Inv` where the model's start can be the basis of a stop. Both, and
`Lead_Inv`, hold while the caller leaves the parked walk alone and no stop fell
on one of the `Marks`; without one of the marks the step named there fails.

`TreeProofs`: a search that is a `TreeSearch` publishes a true verdict, a true
bound and an incumbent that is a point of the model. The inductive invariant
`TreeInv` adds to those three that nothing is lost (`NothingLost`: each point
that is feasible and that the incumbent does not close is in a node that is
open or set aside, whose key is at most its cost) and that the incumbent's key
never rises. Closing is monotone in both the key and the incumbent
(`ClosedUpwards`, `ClosedByBetter`); the second is where the gap of at most 1
comes in.

`ConicTreeProofs`: the code's tree is a `TreeSearch` (`TreeIsSearched`), for any
models, points, boxes, splits, threads, round sizes and limits; so its verdict,
bound and incumbent are true of the model (`AnswerOfTheTree`), and so is the bound
of every event (`EventsOfTheTree`). The inductive invariant `IInv` says,
beside the types, where nodes can be at each place of the code (`Placement`: a
`next` only between a branching and a selection, a round only between its making
and its leftover, lanes never past the round's end), that a leaf the code
takes for closed holds no point that is still wanted (`LeafIsClosed`), that the incumbent
is a point of the model (`IncIsReal`) and what a node's outcome says of its box
(`OutcomeIsSound`). Each action is then shown to be a stutter or one of five
moves, each with its own lemma: the tree discards what is closed, explores a
node, gives a node up, improves the incumbent, or returns. The hard ones are
those that move nodes between two of the five places, where the sets of keys
before and after have to be the same. The least key of the open nodes, which the
bound is read from, exists because the places hold finitely many nodes.

The hypothesis of these theorems, `NoRayUnderCutoff`, is that a model whose
relaxation is unbounded is not solved under a cutoff of 0 or less. It is needed:
without it the run `conic_cutoff` ends with a wrong verdict.

`MipTreeProofs`: the integer tree is a `TreeSearch` too
(`IntegerTreeIsSearched`), under the same hypothesis, for any models, options,
splits, heuristics, callbacks, limits and failures, over a restart; so what
its caller reads is true of the model (`VerdictOfTheIntegerTree`,
`BoundOfTheIntegerTree`, `IncumbentOfTheIntegerTree`). And the heap by bound
agrees with the heap by estimate (`HeapByBoundAgrees`, without the hypothesis):
an id belongs to one node, entries of nodes that have gone are never live again,
and the root is alone until it is branched on (`HeapInv`). Every step is one of
fourteen kinds (`Moves`), most of which leave the nodes alone. Three things are
harder here than in the conic tree:

- The bound. `bestBound` is set when a node leaves the round and read when the
  tree ends, with dives, backtracking and heuristics in between.
  `BestBoundHolds` says that it stays below the node in hand, the plunge and the
  round. For the dive's stack that is not so: a node there may be below it, if
  the dive will not resume before that node is back in the heap, whose own
  bound counts (`DiveIsBounded`, `Waits`). That `Waits` lasts is the argument
  about `resume_within`: the gap to the least open key only grows (`FarStays`),
  and a dive does not get back the leave it has used up (`LeaveIsLost`).
- The restart. A second tree starts without an incumbent, and with that of the
  first one as a start that a heuristic has to try. `StartIsTried` says that it
  does so before it closes any node, and that neither an infeasible nor an
  unbounded end is reached before (`RootHoldsPoint`, `RootHasNoRay`); the
  incumbent of `TreeSearch` is the better of the two (`Announced`). From it
  follows `IncumbentOutlivesRestart`: with a second node, or with OPTIMAL or
  NODE_LIMIT, the start has been tried (`KeptStep`). What it rests on besides is
  that a tree counts a node only at the top of its loop and has no outcome while
  it goes on (`KeepStep`, `RunsOn`).
- The narrowed box. Reduced costs take points away that no node covers any
  more; each costs more than the incumbent, which closes it
  (`NarrowingCovers`).

The pool (`PoolKeepsTheBest`). Its invariant `PoolHolds` says that the pool is in
order, has each point once and under the best objective it was offered with, and
that an offer whose point is not there is barred: the pool is full and its last
entry is no worse. An offer takes an entry out, puts one in and may cut one off; each of the three is a lemma about
sequences (`RemovedOf`, `InsertedOf`, `PlaceOf`), and `OfferKeeps` puts them
together. No hypothesis is needed.

`FilesProofs`: no writer that fails leaves half a file under the path, or a .nl
file beside the names of another model (`NoWriterLeavesHalf`), for any model and
any of the six formats. Two facts make it inductive (`DiskByPhase`): until the
path is opened the disk is as it was, and only a call that has not failed yet
goes on to the files of names.

`ModelArraysProofs`: the model store through every call, for any number of
columns and rows and any calls. Every array keeps the length that the code reads
it with (`ArraysKeepTheirShape`), nothing refers to what is gone
(`NothingDangles`), what is kept beside the arrays fits them
(`WhatIsKeptFits`), and the arrays together are a `ModelData`
(`ArraysAreOneModel`). The inductive invariant `Sound` is the shape of the arrays
(`Shape`: types, lengths, positions in range, tags handed out once, sets without
holes) with what hangs on them (`Attached`: a basis that is whole and counts one
basic entry a row, a starting point of the columns as they are, a row-wise copy
and a map made of the present model). `DriversAreInteger` is inductive beside it,
not within the shape: only the guards of three calls keep it.

The argument goes in two steps. The first follows the loops: `Positions` says what
the running index of a deletion does (it numbers the kept positions in their
order, and `Nth` undoes it), and with it `ColsLonger`, `RowsLonger`, `ColsShorter`
and `RowsShorter` say of every member what `jaos_add_cols`, `jaos_add_rows`,
`jaos_delete_cols` and `jaos_delete_rows` make of it. The second reads the
relations off: each relation of the model after a deletion holds just the tuples
whose columns and rows are kept. That needs the tags to be distinct and the
guards (`NeededStay`): a column that drives an indicator or is in a cone does not
go. A call is then a stutter or one action of `ModelData`.

An answer that can still be read is of the model as it is, and a walk that would
be resumed is on this model, from this basis, under these options
(`NothingStale`). The invariant is the property with the fact that `m` has the
members of `jaos_model`; every call either refuses and changes nothing, passes
through `AnswerIsStale`, or changes only what neither depends on. A call that
fails, at whatever allocation, has changed neither the model, its names nor the
answer (`NothingHalfDone`): where an allocation fails half way, what was already
grown is an array that is still blank, and blank arrays say what their absence
says (`MarksSayNothing`, `PartsSayNothing`).

Whatever is edited in whatever order, every relation of a `ModelData` refers to
columns and rows that are there and an indicator's column is integer
(`ReferencesStayWhole`). The property is inductive as it stands; each deletion
either takes the referrers along or is refused.

`ArraysAreOneModel` has the hypothesis `~IndicatorsFail`: where `jaos_add_rows`
loses the indicators for want of memory and goes on (see above), the step is no
edit that `docs/api.md` knows. The other theorems hold in that case too.

`CholeskyProofs`: the numeric factor, for patterns of any size. A loop is a
recursive function on 0 .. n; `Loop` gives its existence, and `Induct` (a set of
numbers up to n that has 0 and is closed under the next one is all of them, by
its least missing member) what holds all along it. Three theorems.

- `FactorOfOneThread`: lanes and blocks give the factor of `chol_row` on one
  thread. The elimination tree comes first (`HungIs`, `ParentsAre`: each entry of
  a row has the row above it). A path of `ereach` is therefore closed upwards
  (`ReachIs`), and two columns that meet in a later row meet on one path
  (`ReachMeets`), so that a value is complete when it is taken and nothing is
  left in `x` after a row (`RowPending`). Then the two halves are followed in
  step with the one row: the front does of it what the columns before the block
  decide (`FrontFollows`), the back the rest in the same order (`BackFollows`).
  The invariant `SameInv` says that the rows so far are those of one thread and
  that the lanes of a block have done, and billed, the fronts of the rows they
  have passed (`LanesGood`), in any order (`TotalWith`).
- `FactorHolds`: it is the Cholesky factor. The columns that `ereach` finds for a
  row are those that fill in (`ReachIsFilling`): what eliminating column i adds
  to a later row is added to i's parent too, so that fill climbs the tree as
  the walk does. From that the rows of a column (`RowIsFull`) and what
  each value had subtracted (`RowValues`). The factor is one of a permuted
  matrix only if the order lists every vertex once, which is the invariant
  `OrdersInv`: in minimum degree what is ordered, live and left for the end are
  together all vertices and as many (`MdGood`), in the dissection each place has
  a vertex or belongs to just one part, and each vertex has a place or waits in
  a part (`NdHolds`). The lists into which a part is divided are a division of it
  (`ChosenSplits`), whatever the levels are.

- `OrdersHold`: `AnalysisHolds`. `chol.c` eliminates without a graph: a vertex
  keeps direct neighbours that no clique covers yet, the cliques it is in, and a
  bound on its degree. `Quotient` relates that to the graph `Eliminated`, in which
  the neighbours of each eliminated vertex were joined pairwise, and one
  elimination keeps it: a direct neighbour that is dropped is in the new
  clique, a clique that is absorbed lies inside it (`Absorbs`), and so what is
  seen from a vertex stays what it has (`KnownStays`); the bound is a union bound
  over cliques (`Counting`), each counted outside the new one, and an eliminated
  vertex adds at most its clique (`DegreeStays`). This needs that each live
  vertex of a clique lists the clique (`Members`), which no run checks alone. For
  the dissection, the walk of `nd_bfs` has ended after N steps (`WithinEnds`: a
  step that is not the last finds a vertex), so neighbours are at most one level
  apart, and what lies beyond the middle level touches only the separator
  (`SidesApart`), or the part is not connected and its reached half has no edge
  out. For the race, an analysis costs the same under every limit
  (`AnalyseAt`) and at most `NoCap` (`OpsWithin`), so `ChoiceInv` can say of the
  order kept what it costs beside the other (`Cheaper`), also while the arrays
  hold the loser's analysis.

Only model-checked: `Termination` (liveness is outside the prover); `SameModel` and
`SamePoints` of the files, the root's reasoning (`NothingIsLost`,
`NodeKeepsItsPoints`, `ContractionIsExact`) and presolve (`AnswerHolds`,
`BasisHolds`, `CertificateHolds`). Those are computations over coefficients and
over the text of six formats, written with folds and with recursion over
sequences: what they return for every input is an induction over data that these
proofs do not carry out.

## What is not modelled

Pricing, ratio tests, LU updates, interior point and first order iterations and
all other floating point: their control decides nothing that outlives a step,
and their numbers are out of a model checker's reach. Memory errors in the
solve, an inverted box, the probe after a quadratic barrier and the exact finish
are left out of `SolveLifecycle`. The checker, the proofs it writes and reads,
ranging and symmetry are pure functions over rationals. Compression is a
transform of bytes. The bindings and the command line call the library in
sequence. `PROJECT.json` lists every component with its status.
