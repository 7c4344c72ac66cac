---------------------------- MODULE ReceitasReport ----------------------------
(***************************************************************************)
(* The report of Receitas Emitidas (generate_html_report.py): rows grouped *)
(* by machine and by group, a weight for each machine, and the machines    *)
(* spread over two or three columns, each into the lightest one.           *)
(*                                                                         *)
(*   data    the rows: [ob, machine, group]; group 0: none                 *)
(***************************************************************************)
EXTENDS Integers, FiniteSets, Sequences, SequencesExt, FiniteSetsExt

CONSTANTS
  Ob, Machine, Group,   \* sets of numbers; Group without 0
  WideScore,            \* the score from which there are three columns
  WideMachine,          \* the weight of one machine that does so as well
  WideCount             \* the number of machines that does so as well

ReportAssumption ==
  /\ Machine \subseteq Nat /\ Group \subseteq Nat \ {0} /\ Ob \subseteq Nat
  /\ {WideScore, WideMachine, WideCount} \subseteq Nat

VARIABLE data

Row == [ob : Ob, machine : Machine, group : Group \cup {0}]
Init == data = {}
Machines == {r.machine : r \in data}
GroupsOf(m) == {r.group : r \in {q \in data : q.machine = m}}
InGroup(m, g) == {r \in data : r.machine = m /\ r.group = g}

\* The rows of a machine's block.
Cells(m) == [g \in GroupsOf(m) |-> InGroup(m, g)]

\* A title, a line per group that has a name, and one per row.
Weight(m) == 1 + Cardinality(GroupsOf(m) \ {0}) + Cardinality({r \in data : r.machine = m})
Receipts(m) == Cardinality(GroupsOf(m) \ {0}) + Cardinality(InGroup(m, 0))
Total == MapThenSumSet(Weight, Machines)
Heaviest == IF data = {} THEN 0 ELSE Max({Weight(m) : m \in Machines})

\* volume_score, ten times.
Score ==
  10 * Total + 22 * Cardinality(Machines) + 10 * Heaviest
    + (10 * MapThenSumSet(Receipts, Machines)) \div 3
ColumnCount ==
  IF Score >= 10 * WideScore \/ Heaviest >= WideMachine \/ Cardinality(Machines) >= WideCount
  THEN 3 ELSE 2

Lightest(weights) ==
  CHOOSE c \in DOMAIN weights :
    /\ \A d \in DOMAIN weights : weights[c] <= weights[d]
    /\ \A d \in DOMAIN weights : weights[d] = weights[c] => c <= d

ColumnWeight(cols) == [c \in DOMAIN cols |-> MapThenSumSet(Weight, Range(cols[c]))]

\* The machines by name, each into the first of the lightest columns.
Columns ==
  FoldLeft(LAMBDA cols, m : [cols EXCEPT ![Lightest(ColumnWeight(cols))] = Append(@, m)],
           [c \in 1..ColumnCount |-> <<>>], SetToSortSeq(Machines, <))

Next == \E r \in Row \ data : data' = data \cup {r}
Spec == Init /\ [][Next]_data
-----------------------------------------------------------------------------
\* Every row stands in one place of the report.
EveryRowOnce ==
  \A r \in data :
    Cardinality({x \in (DOMAIN Columns) \X (1..Cardinality(Machines)) :
      LET block == Columns[x[1]]
      IN  /\ x[2] \in 1..Len(block) /\ block[x[2]] = r.machine
          /\ r.group \in DOMAIN Cells(r.machine) /\ r \in Cells(r.machine)[r.group]}) = 1

\* No column is heavier than another by more than the heaviest machine.
Balanced ==
  LET w == ColumnWeight(Columns)
  IN  \A c, d \in DOMAIN w : w[c] - w[d] <= Heaviest
=============================================================================
