-------------------------- MODULE AdjacencyMatrix --------------------------
(***************************************************************************)
(* AdjacencyMatrix (adjacency-matrix.cpp): edge weights between named      *)
(* vertices. Cells carry their own two names; two maps lead from a name to *)
(* a row and to a column, and sorting moves rows and columns about.        *)
(***************************************************************************)
EXTENDS Integers, Sequences, FiniteSets, SequencesExt, Functions

CONSTANTS
    VERTEX_LISTS,   \* the lists of names a matrix may be made for
    MAX_WEIGHT      \* bound: the sum of all weights

(* A list names a vertex once: init() asserts that a map has as many names as *)
(* the list, which, with names of an earlier matrix in the map, does not      *)
(* notice every list that repeats one.                                        *)
ASSUME ListsAssumption ==
    \A names \in VERTEX_LISTS : names \in Seq(ToSet(names)) /\ IsInjective(names)

VARIABLES
    matr,           \* rows of cells [y, x, w]
    vertex_names,
    x_vertex_names, y_vertex_names,
    weight,         \* what was added to each pair of names (history)
    columns_swapped,\* swap_columns() was called from outside (history)
    asserted        \* af_assert() failed: SIGABRT

adjVars == <<matr, vertex_names, x_vertex_names, y_vertex_names, weight,
             columns_swapped, asserted>>

size == Len(matr)
Names == UNION {ToSet(l) : l \in VERTEX_LISTS}
Pairs == Names \X Names
NoWeight == [p \in Pairs |-> 0]

(* A later entry for the same name replaces the former one. *)
Overwritten(old, new) ==
    [n \in DOMAIN old \cup DOMAIN new |-> IF n \in DOMAIN new THEN new[n] ELSE old[n]]

(* The last of equal names counts. *)
Position(names) ==
    [n \in ToSet(names) |-> SelectLastInSeq(names, LAMBDA m : m = n)]

RowNames(m) == [i \in DOMAIN m |-> m[i][1].y]
ColumnNames(m) == [j \in DOMAIN m |-> m[1][j].x]

SumOf(s) == FoldFunction(LAMBDA c, acc : c.w + acc, 0, s)
sum_row(m, i) == SumOf(m[i])
sum_column(m, j) == SumOf([i \in DOMAIN m |-> m[i][j]])
Total == FoldFunction(+, 0, [i \in DOMAIN matr |-> sum_row(matr, i)])

BlankMatrix(names) ==
    [i \in DOMAIN names |-> [j \in DOMAIN names |->
        [y |-> names[i], x |-> names[j], w |-> 0]]]

AdjInit ==
    /\ matr = <<>> /\ vertex_names = <<>>
    /\ x_vertex_names = <<>> /\ y_vertex_names = <<>>
    /\ weight = NoWeight
    /\ columns_swapped = FALSE /\ asserted = FALSE

(* init(): clear() empties the matrix and leaves the two maps as they are. *)
AdjReset(names) ==
    /\ matr' = BlankMatrix(names) /\ vertex_names' = names
    /\ x_vertex_names' = Overwritten(x_vertex_names, Position(names))
    /\ y_vertex_names' = Overwritten(y_vertex_names, Position(names))
    /\ asserted' = ~(/\ Cardinality(DOMAIN x_vertex_names') = Len(names)
                     /\ Cardinality(DOMAIN y_vertex_names') = Len(names))
    /\ weight' = NoWeight /\ columns_swapped' = FALSE

AdjClear ==
    /\ matr' = <<>> /\ vertex_names' = <<>>
    /\ weight' = NoWeight /\ columns_swapped' = FALSE
    /\ UNCHANGED <<x_vertex_names, y_vertex_names, asserted>>

(* find_x_index(), find_y_index(): names of an earlier matrix are found too; *)
(* their cells are not there.                                                *)
Found(y, x) == y \in DOMAIN y_vertex_names /\ x \in DOMAIN x_vertex_names
InMatrix(y, x) ==
    Found(y, x) /\ y_vertex_names[y] <= size /\ x_vertex_names[x] <= size

CellOf(y, x) == matr[y_vertex_names[y]][x_vertex_names[x]]

PlusAt(m, y, x, d) ==
    [m EXCEPT ![y_vertex_names[y]][x_vertex_names[x]].w = @ + d]

(* matrix(y, x) += 1 through the reference operator() returns. *)
AdjIncrease(y, x) ==
    /\ InMatrix(y, x) /\ Total < MAX_WEIGHT
    /\ matr' = PlusAt(matr, y, x, 1)
    /\ weight' = [weight EXCEPT ![<<y, x>>] = @ + 1]
    /\ UNCHANGED <<vertex_names, x_vertex_names, y_vertex_names, columns_swapped, asserted>>

(* operator+=, with a matrix over the same number of vertices that has an    *)
(* edge of weight 1 from each vertex to itself. An unknown name is an        *)
(* exception in the first row at the latest, and what was added before it,   *)
(* that row's first cell, stays. An empty matrix is given the other one's    *)
(* names first: AdjReset, then this step.                                    *)
AdjPlus(names) ==
    LET added == {n \in ToSet(names) : /\ InMatrix(n, n)
                                      /\ \/ \A k \in ToSet(names) : InMatrix(k, k)
                                         \/ n = names[1]}
    IN  /\ size = Len(names) /\ size > 0 /\ Total + size <= MAX_WEIGHT
        /\ matr' = [i \in DOMAIN matr |-> [j \in DOMAIN matr[i] |->
                IF \E n \in added : i = y_vertex_names[n] /\ j = x_vertex_names[n]
                THEN [matr[i][j] EXCEPT !.w = @ + 1] ELSE matr[i][j]]]
        /\ weight' = [p \in Pairs |->
                weight[p] + (IF p[1] = p[2] /\ p[1] \in added THEN 1 ELSE 0)]
        /\ UNCHANGED <<vertex_names, x_vertex_names, y_vertex_names, columns_swapped, asserted>>

(* std::sort: any order of equal rows. *)
RowsSorted(m) ==
    {p \in {[i \in DOMAIN m |-> m[f[i]]] : f \in Bijection(DOMAIN m, DOMAIN m)} :
        \A i \in 1..(Len(m) - 1) : sum_row(p, i) >= sum_row(p, i + 1)}

SwapColumns(m, i, j) ==
    [k \in DOMAIN m |-> [m[k] EXCEPT ![i] = m[k][j], ![j] = m[k][i]]]

(* One pass of the bubble sort over the columns. *)
Pass(m) ==
    LET after[i \in 0..Len(m)] ==
            IF i = 0 THEN m
            ELSE IF i < Len(m) /\ sum_column(after[i - 1], i) < sum_column(after[i - 1], i + 1)
            THEN SwapColumns(after[i - 1], i, i + 1) ELSE after[i - 1]
    IN  after[Len(m)]

(* A matrix of n columns is sorted after n passes at most. *)
ColumnsSorted(m) ==
    LET after[i \in 0..Len(m)] == IF i = 0 THEN m ELSE Pass(after[i - 1])
    IN  after[Len(m)]

(* Bug: the map is made before the columns are moved. *)
MutantColumnMap(before, after) == Position(ColumnNames(before))

ColumnMap(before, after) == Position(ColumnNames(after))

SortRows ==
    /\ \E sorted \in RowsSorted(matr) : matr' = sorted
    /\ y_vertex_names' = Position(RowNames(matr'))
    /\ UNCHANGED <<vertex_names, x_vertex_names, weight, columns_swapped, asserted>>

SortColumns ==
    /\ matr' = ColumnsSorted(matr)
    /\ x_vertex_names' = ColumnMap(matr, matr')
    /\ UNCHANGED <<vertex_names, y_vertex_names, weight, columns_swapped, asserted>>

(* sort(): the rows, then the columns. *)
Sort ==
    /\ \E rows \in RowsSorted(matr) :
        /\ matr' = ColumnsSorted(rows)
        /\ y_vertex_names' = Position(RowNames(rows))
        /\ x_vertex_names' = ColumnMap(rows, matr')
    /\ UNCHANGED <<vertex_names, weight, columns_swapped, asserted>>

(* swap_columns() called from outside does not touch the map. *)
SwapOutside(i, j) ==
    /\ matr' = SwapColumns(matr, i, j)
    /\ columns_swapped' = TRUE
    /\ UNCHANGED <<vertex_names, x_vertex_names, y_vertex_names, weight, asserted>>

AdjNext ==
    /\ ~asserted
    /\ \/ \E names \in VERTEX_LISTS : AdjReset(names) \/ AdjPlus(names)
       \/ AdjClear
       \/ \E p \in Pairs : AdjIncrease(p[1], p[2])
       \/ SortRows \/ SortColumns \/ Sort
       \/ \E i, j \in 1..size : i < j /\ SwapOutside(i, j)

AdjSpec == AdjInit /\ [][AdjNext]_adjVars

-----------------------------------------------------------------------------
(* The weight found under two names is what was added under them, in a cell  *)
(* that carries them, after any sequence of additions and sorts; unless      *)
(* columns were swapped from outside: what is added then goes to another     *)
(* cell, and a sort that puts the map right again leaves it there.           *)
LookupFindsEdge ==
    ~columns_swapped /\ ~asserted =>
        \A p \in Pairs : InMatrix(p[1], p[2]) =>
            CellOf(p[1], p[2]) = [y |-> p[1], x |-> p[2], w |-> weight[p]]
=============================================================================
