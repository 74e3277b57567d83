------------------------------ MODULE Assignment ------------------------------
(***************************************************************************)
(* _maximum_assignment (tracking.py): which detection continues which      *)
(* track, as the rectangular assignment of maximum total weight.  The code *)
(* is the shortest augmenting path method on costs, one row at a time; one *)
(* turn of each of its two inner loops is one step here.                   *)
(***************************************************************************)
EXTENDS Integers, FiniteSets, FiniteSetsExt

CONSTANTS
    MaxRows, MaxColumns,    \* sizes of the weight matrices
    MaxWeight,              \* 10 000 basis points in the code
    Infinity                \* larger than every sum of costs

AssignmentBounds ==
    /\ MaxRows \in Nat \ {0} /\ MaxColumns \in Nat \ {0} /\ MaxWeight \in Nat
    /\ Infinity \in Nat /\ Infinity > MaxWeight * (MaxRows + MaxColumns)

VARIABLES
    weights,        \* rows are tracks, columns are detections
    costs,          \* the matrix the method works on, no taller than wide
    row,            \* row_index
    column,         \* column_zero
    rowPotential, columnPotential,
    matchedRow,     \* column -> row, 0 for a free column
    predecessor, minimums, used,
    phase           \* "rows", "scan", "augment" or "done"

vars == <<weights, costs, row, column, rowPotential, columnPotential, matchedRow,
          predecessor, minimums, used, phase>>

Shape(w) == [rows |-> Cardinality({i[1] : i \in DOMAIN w}),
             columns |-> Cardinality({i[2] : i \in DOMAIN w})]

Weights == UNION {[(1..r) \X (1..c) -> 0..MaxWeight] : r \in 1..MaxRows, c \in 1..MaxColumns}

Transposed == Shape(weights).rows > Shape(weights).columns

(* A maximum of weights is a minimum of costs. *)
CostsOf(w) ==
    LET top == Max({w[i] : i \in DOMAIN w})
    IN  IF Transposed THEN [i \in {<<k[2], k[1]>> : k \in DOMAIN w} |-> top - w[<<i[2], i[1]>>]]
        ELSE [i \in DOMAIN w |-> top - w[i]]

Rows == Cardinality(DOMAIN rowPotential) - 1
Columns == Cardinality(DOMAIN columnPotential) - 1

Slack(r, c) == costs[<<r, c>>] - rowPotential[r] - columnPotential[c]

Init ==
    /\ weights \in Weights
    /\ costs = CostsOf(weights)
    /\ row = 0 /\ column = 0
    /\ rowPotential = [r \in 0..Shape(costs).rows |-> 0]
    /\ columnPotential = [c \in 0..Shape(costs).columns |-> 0]
    /\ matchedRow = columnPotential
    /\ predecessor = columnPotential
    /\ minimums = [c \in DOMAIN columnPotential |-> Infinity]
    /\ used = {}
    /\ phase = "rows"

-----------------------------------------------------------------------------
(* for row_index: column 0 stands for the row that looks for a column. *)
NextRow ==
    /\ phase = "rows"
    /\ row < Rows
    /\ row' = row + 1
    /\ matchedRow' = [matchedRow EXCEPT ![0] = row + 1]
    /\ column' = 0 /\ used' = {}
    /\ minimums' = [c \in 0..Columns |-> Infinity]
    /\ phase' = "scan"
    /\ UNCHANGED <<weights, costs, rowPotential, columnPotential, predecessor>>

(* One turn of the search: relax the edges of the row of column, take the
   free column that is nearest, and shift the potentials by its distance. *)
Open == (1..Columns) \ (used \cup {column})

Relaxed(c) ==
    LET s == Slack(matchedRow[column], c) IN IF s < minimums[c] THEN s ELSE minimums[c]

Nearest(ms) == CHOOSE c \in Open : \A k \in Open : ms[c] < ms[k] \/ (ms[c] = ms[k] /\ c <= k)

(* The columns whose rows belong to the search tree. *)
Settled == used \cup {column}

Scan ==
    /\ phase = "scan"
    /\ LET ms == [c \in 0..Columns |-> IF c \in Open THEN Relaxed(c) ELSE minimums[c]]
           next == Nearest(ms)
           delta == ms[next]
       IN  /\ predecessor' = [c \in 0..Columns |->
                 IF c \in Open /\ Relaxed(c) < minimums[c] THEN column ELSE predecessor[c]]
           /\ minimums' = [c \in 0..Columns |-> IF c \in Settled THEN ms[c] ELSE ms[c] - delta]
           /\ rowPotential' = [r \in 0..Rows |->
                 IF \E c \in Settled : matchedRow[c] = r THEN rowPotential[r] + delta
                 ELSE rowPotential[r]]
           /\ columnPotential' = [c \in 0..Columns |->
                 IF c \in Settled THEN columnPotential[c] - delta ELSE columnPotential[c]]
           /\ column' = next
           /\ phase' = IF matchedRow[next] = 0 THEN "augment" ELSE "scan"
    /\ used' = Settled
    /\ UNCHANGED <<weights, costs, row, matchedRow>>

(* One turn of the way back: column takes over the row of its predecessor. *)
Augment ==
    /\ phase = "augment"
    /\ matchedRow' = [matchedRow EXCEPT ![column] = matchedRow[predecessor[column]]]
    /\ column' = predecessor[column]
    /\ phase' = IF column' = 0 THEN "rows" ELSE "augment"
    /\ UNCHANGED <<weights, costs, row, rowPotential, columnPotential, predecessor, minimums, used>>

Finish ==
    /\ phase = "rows" /\ row = Rows
    /\ phase' = "done"
    /\ UNCHANGED <<weights, costs, row, column, rowPotential, columnPotential, matchedRow,
                   predecessor, minimums, used>>

Next == NextRow \/ Scan \/ Augment \/ Finish

Spec == Init /\ [][Next]_vars /\ WF_vars(Next)

(* Slip: the pairs of a transposed matrix are not turned back. *)
PairsAsMatched == {<<matchedRow[c], c>> : c \in {k \in 1..Columns : matchedRow[k] # 0}}

Pairs == {IF Transposed THEN <<c, matchedRow[c]>> ELSE <<matchedRow[c], c>> :
            c \in {k \in 1..Columns : matchedRow[k] # 0}}

-----------------------------------------------------------------------------
TypeOK ==
    /\ weights \in [DOMAIN weights -> 0..MaxWeight]
    /\ row \in 0..Rows /\ column \in 0..Columns
    /\ rowPotential \in [0..Rows -> Int] /\ columnPotential \in [0..Columns -> Int]
    /\ matchedRow \in [0..Columns -> 0..Rows]
    /\ predecessor \in [0..Columns -> 0..Columns]
    /\ minimums \in [0..Columns -> Int]
    /\ used \subseteq 0..Columns
    /\ phase \in {"rows", "scan", "augment", "done"}

(* The invariant the method rests on: no reduced cost is ever negative, the
   reduced costs of matched pairs are zero between rows, and a free column
   has not been paid for. *)
PotentialsAreFeasible ==
    /\ \A r \in 1..Rows, c \in 1..Columns : Slack(r, c) >= 0
    /\ phase \in {"rows", "done"} =>
          \A c \in 1..Columns :
              IF matchedRow[c] = 0 THEN columnPotential[c] = 0 ELSE Slack(matchedRow[c], c) = 0

(* Between rows every row so far has exactly one column of its own. *)
RowsAreMatched ==
    phase \in {"rows", "done"} =>
        \A r \in 1..row : Cardinality({c \in 1..Columns : matchedRow[c] = r}) = 1

(* An assignment pairs as many rows and columns as there are of the fewer. *)
Pairings(w) ==
    LET size == Min({Shape(w).rows, Shape(w).columns})
    IN  {P \in kSubset(size, DOMAIN w) :
            \A p, q \in P : p[1] = q[1] \/ p[2] = q[2] => p = q}

Total(P, w) == MapThenSumSet(LAMBDA p : w[p], P)

MaximumAssignments(w) ==
    LET all == Pairings(w)
        best == Max({Total(P, w) : P \in all})
    IN  {P \in all : Total(P, w) = best}

(* What the tracker relies on: no other assignment has a larger total. *)
ResultIsMaximum == phase = "done" => Pairs \in MaximumAssignments(weights)

=============================================================================
