----------------------------- MODULE AdminTable -----------------------------
(***************************************************************************)
(* The pure part of a virtual table of the admin SQL console               *)
(* (AdminCommandTable.cpp): tables kept column by column, constraints of a *)
(* query, the merge of what the nodes answered and the index on a column.  *)
(***************************************************************************)
EXTENDS Integers, Sequences, SequencesExt, FiniteSets

CONSTANTS
  Null,       \* a value that is missing
  Text,       \* a value that is no integer
  num_threads \* threads that parse answers

node_id == 0  \* the column the table adds in front of the fetched ones
FetchableColumns == {1, 2}
Columns == {node_id} \cup FetchableColumns

\* A constraint of the query on a column.  Ops are SQLITE_INDEX_CONSTRAINT_*;
\* NE stands for those that the table does not look at.  Values and expressions
\* are texts in the code, of integers that are written in one way only.
Constraint(col, op, expr) == [col |-> col, op |-> op, expr |-> expr]

compare(op, value, expr) ==
  CASE op = "EQ" -> value = expr
    [] op = "LT" -> value < expr
    [] op = "GT" -> value > expr
    [] op = "LE" -> value <= expr
    [] op = "GE" -> value >= expr
    [] op = "NE" -> value # expr

\* folly::to<int> throws for the expression.
toIntThrows(c) == c.expr = Text

\* For an expression that folly::to<int> converts.
nodeMatchesConstraint(nid, c) ==
  IF c.expr = Null \/ c.op = "NE" THEN "UNUSED"
  ELSE IF compare(c.op, nid, c.expr) THEN "MATCH" ELSE "NO_MATCH"

-----------------------------------------------------------------------------
(* TableData: a sequence of values for every column that is there.          *)

\* The function with one more value.
with(f, x, v) == [y \in DOMAIN f \cup {x} |-> IF y = x THEN v ELSE f[y]]

numRows(table) ==
  IF DOMAIN table = {} THEN 0 ELSE Len(table[CHOOSE c \in DOMAIN table : TRUE])

\* std::vector::resize, which fills up with nulls.
resize(values, n) == [i \in 1..n |-> IF i <= Len(values) THEN values[i] ELSE Null]

rowsBefore(results, i) == FoldLeft(LAMBDA n, t : n + numRows(t), 0, SubSeq(results, 1, i - 1))

\* The values of a column, one answer after the other.  Where an answer lacks the
\* column, its rows are filled with nulls when the next one that has it is copied.
column(results, c) ==
  LET copy(res, i) ==
        IF c \in DOMAIN results[i] THEN resize(res, rowsBefore(results, i)) \o results[i][c] ELSE res
  IN FoldLeft(copy, <<>>, [i \in DOMAIN results |-> i])

\* The columns that some answer has.
allColumns(results) == UNION {DOMAIN results[i] : i \in DOMAIN results}

\* Mutant: nothing is put in for the answers before the first one with the column.
aggregate_NotPadded(results) ==
  LET copy(c, res, i) == IF c \in DOMAIN results[i] THEN res \o results[i][c] ELSE res
      copied(c) == FoldLeft(LAMBDA res, i : copy(c, res, i), <<>>, [i \in DOMAIN results |-> i])
  IN [c \in allColumns(results) |-> resize(copied(c), rowsBefore(results, Len(results) + 1))]

\* Mutant: without the last resize.
aggregate_NotFilled(results) == [c \in allColumns(results) |-> column(results, c)]

\* The merged table; the last resize fills the columns that the last answers lack.
aggregate(results) ==
  LET total_rows == rowsBefore(results, Len(results) + 1)
  IN [c \in allColumns(results) |-> resize(column(results, c), total_rows)]

-----------------------------------------------------------------------------
(* jsonToTableData: the text that a server answers, parsed.  A table comes   *)
(* with the names of its columns and row by row.                             *)

\* A table with a row that is too short, which stands for all that is malformed.
Garbled == [type |-> "table", headers |-> <<1>>, rows |-> << <<>> >>]

wellFormed(json) ==
  /\ json.type = "table"
  /\ \A i \in DOMAIN json.rows : Len(json.rows[i]) = Len(json.headers)

\* Columns that the table does not know are left out.
jsonToTableData(json) ==
  [c \in Range(json.headers) \cap FetchableColumns |->
     LET p == CHOOSE q \in DOMAIN json.headers : json.headers[q] = c
     IN [i \in DOMAIN json.rows |-> json.rows[i][p]]]

\* The rows of a table as SQLite reads them: a column that is not there is null.
rowsOf(table) ==
  [i \in 1..numRows(table) |->
     [c \in Columns |-> IF c \in DOMAIN table THEN table[c][i] ELSE Null]]

-----------------------------------------------------------------------------
(* transformDataParallel: which of n answers each thread parses.            *)

num_per_thread(n) == n \div num_threads + 1

parsedBy(n, t) ==
  LET from == t * num_per_thread(n) IN
  {i \in 1..n : from < i /\ i <= from + num_per_thread(n)}

\* The answers that are parsed; the others stay empty tables.
parsed(n) == UNION {parsedBy(n, t) : t \in {x \in 0..num_threads - 1 : x * num_per_thread(n) < n}}

-----------------------------------------------------------------------------
(* The index on a column: the positions of each value that is not null.     *)

buildIndexForConstraint(table, col) ==
  IF col \notin DOMAIN table THEN <<>>
  ELSE [v \in {table[col][i] : i \in DOMAIN table[col]} \ {Null} |->
          SetToSortSeq({i \in DOMAIN table[col] : table[col][i] = v}, <)]

\* The rows at the positions that the index has for the value.
lookup(table, index, value) ==
  IF value \notin DOMAIN index THEN <<>>
  ELSE [c \in DOMAIN table |->
          [j \in DOMAIN index[value] |-> table[c][index[value][j]]]]

\* Whether a row satisfies all constraints, as SQLite evaluates them: a
\* comparison with null does not hold.
satisfies(row, constraints) ==
  \A c \in constraints :
    /\ row[c.col] # Null
    /\ c.expr # Null
    /\ compare(c.op, row[c.col], c.expr)
=============================================================================
