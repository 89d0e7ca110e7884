----------------------------- MODULE SparseMatrix -----------------------------
(***************************************************************************)
(* The three sparse matrices of OTUSLesson11, written to side by side: the *)
(* list of lists (SparseMatrixLIL), the map from pairs of indices          *)
(* (SparseMatrixDOK) and the map from arrays of N indices                  *)
(* (MultiSparseMatrixDOK, here with N = 2).  A write of the default value  *)
(* through the proxy m[i][j] erases the cell.                              *)
(***************************************************************************)
EXTENDS Integers, Sequences, FiniteSets, SequencesExt

CONSTANTS
  MaxRow,    \* bound: rows are 0 .. MaxRow
  MaxColumn, \* bound: columns are 0 .. MaxColumn
  CellValues \* the values written; zero_value is 0

\* size_t's.
ASSUME SparseMatrixAssumption == MaxRow \in Nat /\ MaxColumn \in Nat

VARIABLES
  rows,     \* data_ of the LIL: RowNodes, sorted, each with its ColNodes
  lilSize,  \* size_ of the LIL
  dok,      \* data_ of the DOK
  multi     \* data_ of the multidimensional one

matrixVars == <<rows, lilSize, dok, multi>>

zero_value == 0
Cell == (0 .. MaxRow) \X (0 .. MaxColumn)

NoCells == [cell \in {} |-> zero_value]

MatrixInit == rows = <<>> /\ lilSize = 0 /\ dok = NoCells /\ multi = NoCells

-----------------------------------------------------------------------------
\* List of lists; nodes are ordered by their key, the row or the column.

\* std::lower_bound in a sorted list.
LowerBound(list, key) == 1 + Cardinality({i \in DOMAIN list : list[i].key < key})

HasKey(list, key) ==
  LET i == LowerBound(list, key) IN i <= Len(list) /\ list[i].key = key

LilValue(data, r, c) ==
  IF ~HasKey(data, r) THEN zero_value
  ELSE LET column == data[LowerBound(data, r)].column
       IN  IF HasKey(column, c) THEN column[LowerBound(column, c)].val ELSE zero_value

\* Mutant of WithRow: a new row goes to the end.
WithRowAppended(data, r) ==
  IF HasKey(data, r) THEN data ELSE Append(data, [key |-> r, column |-> <<>>])

WithRow(data, r) ==
  IF HasKey(data, r) THEN data ELSE InsertAt(data, LowerBound(data, r), [key |-> r, column |-> <<>>])

\* add_value: the new list, and what it adds to size_.
LilAdd(data, r, c, v) ==
  LET list == WithRow(data, r)
      at == LowerBound(list, r)
      column == list[at].column
      ct == LowerBound(column, c)
      node == [key |-> c, val |-> v]
  IN  IF HasKey(column, c)
        THEN [list |-> [list EXCEPT ![at].column = ReplaceAt(column, ct, node)], more |-> 0]
        ELSE [list |-> [list EXCEPT ![at].column = InsertAt(column, ct, node)], more |-> 1]

\* delete_value: a row without cells goes too.
LilDelete(data, r, c) ==
  IF LilValue(data, r, c) = zero_value THEN [list |-> data, more |-> 0]
  ELSE LET at == LowerBound(data, r)
           column == RemoveAt(data[at].column, LowerBound(data[at].column, c))
       IN  [list |-> IF column = <<>> THEN RemoveAt(data, at) ELSE [data EXCEPT ![at].column = column],
            more |-> -1]

\* ValueProxy::operator=(T).
LilAssign(data, r, c, v) == IF v # zero_value THEN LilAdd(data, r, c, v) ELSE LilDelete(data, r, c)

\* begin() .. end(): column by column, then the next row.
LilCells(data) ==
  FlattenSeq([i \in DOMAIN data |-> [j \in DOMAIN data[i].column |->
                <<data[i].key, data[i].column[j].key, data[i].column[j].val>>]])

\* ++ enters the next row at its first column without asking whether it has one.
Walkable(data) == \A i \in DOMAIN data : data[i].column # <<>>

-----------------------------------------------------------------------------
\* Dictionaries of keys.

DokValue(data, cell) == IF cell \in DOMAIN data THEN data[cell] ELSE zero_value

DokAdd(data, cell, v) == [k \in DOMAIN data \cup {cell} |-> IF k = cell THEN v ELSE data[k]]

DokDelete(data, cell) == [k \in DOMAIN data \ {cell} |-> data[k]]

DokAssign(data, cell, v) == IF v # zero_value THEN DokAdd(data, cell, v) ELSE DokDelete(data, cell)

\* IndexHolder: m[i] fills the array with 0 and sets its first index, each
\* further [j] the next one.
IndexHolder(indexes, m, idx) == [indexes EXCEPT ![m] = idx]
MultiIndexes(r, c) == IndexHolder(IndexHolder(<<0, 0>>, 1, r), 2, c)

\* The same accesses of the multidimensional map.
MultiValue(data, r, c) == DokValue(data, MultiIndexes(r, c))
MultiAssign(data, r, c, v) ==
  IF v # zero_value THEN DokAdd(data, MultiIndexes(r, c), v) ELSE DokDelete(data, MultiIndexes(r, c))

-----------------------------------------------------------------------------

Written(r, c, lilVal, dokVal, multiVal) ==
  LET lil == LilAssign(rows, r, c, lilVal) IN
  /\ rows' = lil.list
  /\ lilSize' = lilSize + lil.more
  /\ dok' = DokAssign(dok, <<r, c>>, dokVal)
  /\ multi' = MultiAssign(multi, r, c, multiVal)

\* m[r][c] = v
Assign(r, c, v) == Written(r, c, v, v, v)

\* m[r][c] = m[i][j]: the proxy on the right is read first.
CopyCell(r, c, i, j) == Written(r, c, LilValue(rows, i, j), DokValue(dok, <<i, j>>), MultiValue(multi, i, j))

MatrixNext ==
  \E cell \in Cell :
    \/ \E v \in CellValues \cup {zero_value} : Assign(cell[1], cell[2], v)
    \/ \E from \in Cell : CopyCell(cell[1], cell[2], from[1], from[2])

MatrixSpec == MatrixInit /\ [][MatrixNext]_matrixVars

\* All three matrices read the same at every place.  The list of lists and the
\* dictionary hold the same cells, none of the default value; size_, kept
\* beside the lists by every write, is their number, and the walk over the
\* lists meets each cell once, in order (lil_sparse_matrix.h:116-125, 170-196).
MatricesAgree ==
  LET cells == LilCells(rows) IN
  /\ lilSize = Cardinality(DOMAIN dok)
  /\ Walkable(rows)
  /\ Len(cells) = lilSize
  /\ \A i, j \in DOMAIN cells :
       i < j => cells[i][1] < cells[j][1] \/ (cells[i][1] = cells[j][1] /\ cells[i][2] < cells[j][2])
  /\ \A cell \in Cell :
       /\ LilValue(rows, cell[1], cell[2]) = DokValue(dok, cell)
       /\ MultiValue(multi, cell[1], cell[2]) = DokValue(dok, cell)
       /\ cell \in DOMAIN dok <=> DokValue(dok, cell) # zero_value
       /\ cell \in DOMAIN dok => <<cell[1], cell[2], dok[cell]>> \in {cells[i] : i \in DOMAIN cells}
=============================================================================
