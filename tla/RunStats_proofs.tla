---------------------------- MODULE RunStats_proofs ----------------------------
(***************************************************************************)
(* For any threads, clients and kinds of operations, and runs of any       *)
(* length: rows stay in order, no reply is lost or counted twice on its    *)
(* way from the client to the report.                                      *)
(***************************************************************************)
EXTENDS RunStats, SumTheorems, SequenceTheorems, TLAPS

-----------------------------------------------------------------------------
(* Rows                                                                    *)

Ops == [Kinds -> Nat]
Rows == [m_second: Int, ops: Ops]

\* Every second has one row.
Unique(rows) == \A i, j \in 1..Len(rows) : rows[i].m_second = rows[j].m_second => i = j

Column(rows, k) == [i \in DOMAIN rows |-> rows[i].ops[k]]

LEMMA RowParts ==
    /\ \A r \in Rows : r.m_second \in Int /\ r.ops \in Ops /\ \A k \in Kinds : r.ops[k] \in Nat
    /\ \A s \in Int, o \in Ops : Row(s, o) \in Rows
    /\ NoOps \in Ops
    /\ \A a, b \in Ops : AddOps(a, b) \in Ops /\ \A k \in Kinds : AddOps(a, b)[k] = a[k] + b[k]
BY DEF Rows, Ops, Row, NoOps, AddOps

LEMMA ColumnNat ==
    ASSUME NEW rows \in Seq(Rows), NEW k \in Kinds
    PROVE  \A i \in 1..Len(rows) : Column(rows, k)[i] = rows[i].ops[k]
                                   /\ Column(rows, k)[i] \in Nat
BY RowParts DEF Column

LEMMA AllRowsSum ==
    ASSUME NEW rows \in Seq(Rows)
    PROVE  /\ AllRows(rows) \in Ops
           /\ \A k \in Kinds :
                AllRows(rows)[k] = SumFunctionOnSet(Column(rows, k), 1..Len(rows))
<1>1. ASSUME NEW k \in Kinds
      PROVE  /\ SumFunction(Column(rows, k)) = SumFunctionOnSet(Column(rows, k), 1..Len(rows))
             /\ SumFunction(Column(rows, k)) \in Nat
  <2>1. IsFiniteSet(1..Len(rows)) /\ DOMAIN Column(rows, k) = 1..Len(rows)
    BY FS_Interval DEF Column
  <2>2. SumFunctionOnSet(Column(rows, k), 1..Len(rows)) \in Nat
    BY <2>1, ColumnNat, SumNat
  <2> QED  BY <2>1, <2>2 DEF SumFunction
<1>2. AllRows(rows) = [k \in Kinds |-> SumFunction(Column(rows, k))]
  BY DEF AllRows, Column
<1> HIDE DEF AllRows
<1> QED  BY <1>1, <1>2 DEF Ops

\* A row that is appended is added.
LEMMA AllRowsAppend ==
    ASSUME NEW rows \in Seq(Rows), NEW r \in Rows
    PROVE  AllRows(Append(rows, r)) = AddOps(AllRows(rows), r.ops)
<1> DEFINE all == Append(rows, r)
<1>1. all \in Seq(Rows) /\ Len(all) = Len(rows) + 1 /\ all[Len(rows) + 1] = r
      /\ \A i \in 1..Len(rows) : all[i] = rows[i]
  OBVIOUS
<1>2. Len(rows) \in Nat /\ IsFiniteSet(1..Len(rows))
  BY FS_Interval
<1> HIDE DEF all
<1>3. ASSUME NEW k \in Kinds PROVE AllRows(all)[k] = AllRows(rows)[k] + r.ops[k]
  <2>1. \A i \in 1..Len(all) : Column(all, k)[i] \in Int
    BY <1>1, ColumnNat
  <2>2. SumFunctionOnSet(Column(all, k), 1..Len(all))
          = SumFunctionOnSet(Column(all, k), 1..Len(rows)) + Column(all, k)[Len(rows) + 1]
    BY <1>1, <1>2, <2>1, SumNext
  <2>3. \A i \in 1..Len(rows) : Column(all, k)[i] = Column(rows, k)[i]
    BY <1>1, <1>2, ColumnNat
  <2>4. SumFunctionOnSet(Column(all, k), 1..Len(rows))
          = SumFunctionOnSet(Column(rows, k), 1..Len(rows))
    BY <1>2, <2>3, SumSame
  <2>5. Column(all, k)[Len(rows) + 1] = r.ops[k]
    BY <1>1, <1>2, ColumnNat
  <2> QED  BY <1>1, <2>2, <2>4, <2>5, AllRowsSum
<1>4. AllRows(all) \in Ops /\ AddOps(AllRows(rows), r.ops) \in Ops
  BY <1>1, AllRowsSum, RowParts
<1>5. \A k \in Kinds : AllRows(all)[k] = AddOps(AllRows(rows), r.ops)[k]
  BY <1>3, AllRowsSum, RowParts
<1> QED  BY <1>4, <1>5 DEF all, Ops

\* A row that is added to another adds as much.
LEMMA AllRowsExcept ==
    ASSUME NEW rows \in Seq(Rows), NEW all \in Seq(Rows), Len(all) = Len(rows),
           NEW i \in 1..Len(rows), NEW o \in Ops,
           \A j \in 1..Len(rows) \ {i} : all[j] = rows[j],
           all[i].ops = AddOps(rows[i].ops, o)
    PROVE  AllRows(all) = AddOps(AllRows(rows), o)
<1>1. IsFiniteSet(1..Len(rows))
  BY FS_Interval
<1>2. ASSUME NEW k \in Kinds PROVE AllRows(all)[k] = AllRows(rows)[k] + o[k]
  <2>1. \A j \in 1..Len(rows) : Column(all, k)[j] \in Int /\ Column(rows, k)[j] \in Int
    BY ColumnNat
  <2>2. \A j \in 1..Len(rows) \ {i} : Column(rows, k)[j] = Column(all, k)[j]
    BY ColumnNat
  <2>3. Column(all, k)[i] = Column(rows, k)[i] + o[k] /\ o[k] \in Int
    <3>1. rows[i] \in Rows /\ rows[i].ops \in Ops /\ rows[i].ops[k] \in Nat /\ o[k] \in Nat
      BY RowParts DEF Ops
    <3>2. all[i].ops[k] = rows[i].ops[k] + o[k]
      BY <3>1, RowParts
    <3>3. Column(all, k)[i] = all[i].ops[k] /\ Column(rows, k)[i] = rows[i].ops[k]
      BY ColumnNat
    <3> QED  BY <3>1, <3>2, <3>3
  <2>4. SumFunctionOnSet(Column(all, k), 1..Len(rows))
          = SumFunctionOnSet(Column(rows, k), 1..Len(rows)) + o[k]
    <3> DEFINE a == Column(all, k)
               b == Column(rows, k)
               S == 1..Len(rows)
               d == o[k]
    <3>1. /\ IsFiniteSet(S) /\ i \in S /\ d \in Int
          /\ \A j \in S : b[j] \in Int
          /\ \A j \in S \ {i} : a[j] = b[j]
          /\ a[i] = b[i] + d
      BY <1>1, <2>1, <2>2, <2>3
    <3> HIDE DEF a, b, S, d
    <3>2. SumFunctionOnSet(a, S) = SumFunctionOnSet(b, S) + d
      BY ONLY <3>1, SumChange, Zenon
    <3> QED  BY <3>2 DEF a, b, S, d
  <2> QED  BY <2>4, AllRowsSum
<1>3. AllRows(all) \in Ops /\ AddOps(AllRows(rows), o) \in Ops
  BY AllRowsSum, RowParts
<1>4. \A k \in Kinds : AllRows(all)[k] = AddOps(AllRows(rows), o)[k]
  BY <1>2, AllRowsSum, RowParts
<1> QED  BY <1>3, <1>4 DEF Ops

\* SelectInSeq finds the row of a second, if there is one.
LEMMA Found ==
    ASSUME NEW rows \in Seq(Rows), NEW n \in Int
    PROVE  LET i == SelectInSeq(rows, LAMBDA s : s.m_second = n)
           IN  \/ i = 0 /\ \A j \in 1..Len(rows) : rows[j].m_second # n
               \/ i \in 1..Len(rows) /\ rows[i].m_second = n
<1> DEFINE I == { i \in 1..Len(rows) : rows[i].m_second = n }
<1>1. SelectInSeq(rows, LAMBDA s : s.m_second = n) = IF I # {} THEN Min(I) ELSE 0
  BY DEF SelectInSeq
<1>2. I # {} => Min(I) \in I
  <2>1. I \in SUBSET Nat
    OBVIOUS
  <2> HIDE DEF I
  <2> QED  BY <2>1, LeastNat DEF Min
<1> QED  BY <1>1, <1>2

\* What the rows of second n have of kind k.
Part(rows, n, k) ==
    [i \in DOMAIN rows |-> IF rows[i].m_second = n THEN rows[i].ops[k] ELSE 0]

LEMMA PartNat ==
    ASSUME NEW rows \in Seq(Rows), NEW n \in Int, NEW k \in Kinds
    PROVE  \A i \in 1..Len(rows) :
              /\ Part(rows, n, k)[i] = IF rows[i].m_second = n THEN rows[i].ops[k] ELSE 0
              /\ Part(rows, n, k)[i] \in Nat
BY RowParts DEF Part

LEMMA OpsInSum ==
    ASSUME NEW rows \in Seq(Rows), NEW n \in Int, NEW k \in Kinds
    PROVE  /\ OpsIn(rows, n, k) = SumFunctionOnSet(Part(rows, n, k), 1..Len(rows))
           /\ OpsIn(rows, n, k) \in Nat
<1>1. IsFiniteSet(1..Len(rows)) /\ DOMAIN Part(rows, n, k) = 1..Len(rows)
  BY FS_Interval DEF Part
<1>2. SumFunctionOnSet(Part(rows, n, k), 1..Len(rows)) \in Nat
  BY <1>1, PartNat, SumNat
<1>3. OpsIn(rows, n, k) = SumFunction(Part(rows, n, k))
  BY DEF OpsIn, Part
<1> QED  BY <1>1, <1>2, <1>3 DEF SumFunction

\* A row counts in its second.
LEMMA OpsInAppend ==
    ASSUME NEW rows \in Seq(Rows), NEW r \in Rows, NEW n \in Int, NEW k \in Kinds
    PROVE  OpsIn(Append(rows, r), n, k)
              = OpsIn(rows, n, k) + (IF n = r.m_second THEN r.ops[k] ELSE 0)
<1> DEFINE all == Append(rows, r)
           v == Part(all, n, k)
<1>1. all \in Seq(Rows) /\ Len(all) = Len(rows) + 1 /\ all[Len(rows) + 1] = r
      /\ \A i \in 1..Len(rows) : all[i] = rows[i]
  OBVIOUS
<1>2. Len(rows) \in Nat /\ IsFiniteSet(1..Len(rows))
  BY FS_Interval
<1> HIDE DEF all
<1>3. \A i \in 1..Len(all) : v[i] = (IF all[i].m_second = n THEN all[i].ops[k] ELSE 0)
                              /\ v[i] \in Nat
  BY <1>1, PartNat
<1> HIDE DEF v
<1>4. SumFunctionOnSet(v, 1..Len(all)) = SumFunctionOnSet(v, 1..Len(rows)) + v[Len(rows) + 1]
  <2>1. \A i \in 1..(Len(rows) + 1) : v[i] \in Int
    BY <1>1, <1>2, <1>3
  <2> QED  BY ONLY <1>1, <1>2, <2>1, SumNext
<1>5. ASSUME NEW i \in 1..Len(rows) PROVE v[i] = Part(rows, n, k)[i]
  <2>1. i \in 1..Len(all) /\ all[i] = rows[i]
    BY <1>1, <1>2
  <2>2. Part(rows, n, k)[i] = IF rows[i].m_second = n THEN rows[i].ops[k] ELSE 0
    BY PartNat
  <2> QED  BY <1>3, <2>1, <2>2
<1>6. SumFunctionOnSet(v, 1..Len(rows)) = SumFunctionOnSet(Part(rows, n, k), 1..Len(rows))
  BY <1>2, <1>5, SumSame
<1>7. v[Len(rows) + 1] = IF n = r.m_second THEN r.ops[k] ELSE 0
  BY <1>1, <1>2, <1>3
<1>8. OpsIn(all, n, k) = SumFunctionOnSet(v, 1..Len(all))
  BY <1>1, OpsInSum DEF v
<1> QED  BY <1>4, <1>6, <1>7, <1>8, OpsInSum DEF all

\* What is added to a row counts in its second.
LEMMA OpsInExcept ==
    ASSUME NEW rows \in Seq(Rows), NEW all \in Seq(Rows), Len(all) = Len(rows),
           NEW i \in 1..Len(rows), NEW o \in Ops,
           \A j \in 1..Len(rows) \ {i} : all[j] = rows[j],
           all[i].ops = AddOps(rows[i].ops, o), all[i].m_second = rows[i].m_second,
           NEW n \in Int, NEW k \in Kinds
    PROVE  OpsIn(all, n, k)
              = OpsIn(rows, n, k) + (IF n = rows[i].m_second THEN o[k] ELSE 0)
<1> DEFINE a == Part(all, n, k)
           b == Part(rows, n, k)
           S == 1..Len(rows)
           d == IF n = rows[i].m_second THEN o[k] ELSE 0
<1>1. IsFiniteSet(S) /\ i \in S
  <2>1. Len(rows) \in Int
    OBVIOUS
  <2> QED  BY <2>1, FS_Interval
<1>2. o[k] \in Int /\ d \in Int
  <2>1. o[k] \in Nat
    BY DEF Ops
  <2> QED  BY <2>1
<1>3. \A j \in S : /\ a[j] = (IF all[j].m_second = n THEN all[j].ops[k] ELSE 0)
                   /\ b[j] = (IF rows[j].m_second = n THEN rows[j].ops[k] ELSE 0)
                   /\ b[j] \in Int
  BY PartNat
<1>4. all[i].ops[k] = rows[i].ops[k] + o[k] /\ rows[i].ops[k] \in Int
  <2>1. rows[i] \in Rows /\ rows[i].ops \in Ops /\ rows[i].ops[k] \in Nat
    BY RowParts
  <2>2. AddOps(rows[i].ops, o)[k] = rows[i].ops[k] + o[k]
    BY <2>1, RowParts
  <2> QED  BY <2>1, <2>2
<1> HIDE DEF a, b
<1>5. (\A j \in S \ {i} : a[j] = b[j]) /\ a[i] = b[i] + d
  <2>1. ASSUME NEW j \in S \ {i} PROVE a[j] = b[j]
    <3>1. j \in S /\ all[j] = rows[j]
      OBVIOUS
    <3> QED  BY <1>3, <3>1
  <2>2. a[i] = b[i] + d
    <3>1. /\ a[i] = (IF rows[i].m_second = n THEN all[i].ops[k] ELSE 0)
          /\ b[i] = (IF rows[i].m_second = n THEN rows[i].ops[k] ELSE 0)
      BY <1>1, <1>3
    <3>2. CASE rows[i].m_second = n
      BY <1>2, <1>4, <3>1, <3>2
    <3>3. CASE rows[i].m_second # n
      BY <3>1, <3>3
    <3> QED  BY <3>2, <3>3
  <2> QED  BY <2>1, <2>2
<1>6. \A j \in S : b[j] \in Int
  BY <1>3
<1> HIDE DEF S, d
<1>7. SumFunctionOnSet(a, S) = SumFunctionOnSet(b, S) + d
  BY ONLY <1>1, <1>2, <1>5, <1>6, SumChange, Zenon
<1>8. OpsIn(all, n, k) = SumFunctionOnSet(a, S) /\ OpsIn(rows, n, k) = SumFunctionOnSet(b, S)
  BY OpsInSum DEF a, b, S
<1> QED  BY <1>7, <1>8 DEF d

LEMMA UniqueAppend ==
    ASSUME NEW rows \in Seq(Rows), Unique(rows), NEW r \in Rows,
           \A i \in 1..Len(rows) : rows[i].m_second # r.m_second
    PROVE  Append(rows, r) \in Seq(Rows) /\ Unique(Append(rows, r))
<1> DEFINE all == Append(rows, r)
<1>1. /\ all \in Seq(Rows) /\ Len(all) = Len(rows) + 1 /\ Len(rows) \in Nat
      /\ all[Len(rows) + 1] = r
      /\ \A i \in 1..Len(rows) : all[i] = rows[i]
  OBVIOUS
<1>2. \A i \in 1..Len(all) : i \in 1..Len(rows) \/ i = Len(rows) + 1
  BY <1>1
<1> HIDE DEF all
<1>3. Unique(all)
  BY <1>1, <1>2 DEF Unique
<1> QED  BY <1>1, <1>3 DEF all

\* all is rows with the row r added to its second.
IsMerged(all, rows, r) ==
    /\ all \in Seq(Rows) /\ Unique(all) /\ Len(all) >= Len(rows)
    /\ \A i \in 1..Len(rows) : all[i].m_second = rows[i].m_second
    /\ AllRows(all) = AddOps(AllRows(rows), r.ops)
    /\ \A n \in Int, k \in Kinds :
          OpsIn(all, n, k) = OpsIn(rows, n, k) + (IF n = r.m_second THEN r.ops[k] ELSE 0)

\* A row is merged: into the one of its second, or as a new one.
LEMMA RowMerged ==
    ASSUME NEW rows \in Seq(Rows), Unique(rows), NEW r \in Rows
    PROVE  IsMerged(MergeRow(rows, r), rows, r)
<1> DEFINE i == SameRow(rows, r)
<1>1. \/ i = 0 /\ \A j \in 1..Len(rows) : rows[j].m_second # r.m_second
      \/ i \in 1..Len(rows) /\ rows[i].m_second = r.m_second
  BY RowParts, Found DEF SameRow
<1>2. MergeRow(rows, r) = IF i > 0 THEN [rows EXCEPT ![i].ops = AddOps(@, r.ops)]
                                   ELSE Append(rows, r)
  BY DEF MergeRow
<1> HIDE DEF i
<1>3. CASE i = 0
  <2>1. MergeRow(rows, r) = Append(rows, r)
    BY <1>2, <1>3
  <2>2. \A j \in 1..Len(rows) : rows[j].m_second # r.m_second
    BY <1>1, <1>3
  <2>3. /\ Len(Append(rows, r)) >= Len(rows)
        /\ \A j \in 1..Len(rows) : Append(rows, r)[j].m_second = rows[j].m_second
    OBVIOUS
  <2> QED  BY <2>1, <2>2, <2>3, UniqueAppend, OpsInAppend, AllRowsAppend DEF IsMerged
<1>4. CASE i \in 1..Len(rows) /\ rows[i].m_second = r.m_second
  <2> DEFINE all == [rows EXCEPT ![i].ops = AddOps(@, r.ops)]
  <2>1. MergeRow(rows, r) = all
    BY <1>2, <1>4
  <2>2. rows[i] \in Rows /\ AddOps(rows[i].ops, r.ops) \in Ops
    BY <1>4, RowParts
  <2>3. /\ all \in Seq(Rows) /\ Len(all) = Len(rows)
        /\ \A j \in 1..Len(rows) \ {i} : all[j] = rows[j]
        /\ all[i] = [rows[i] EXCEPT !.ops = AddOps(@, r.ops)]
    BY <1>4, <2>2 DEF Rows
  <2>4. all[i].ops = AddOps(rows[i].ops, r.ops) /\ all[i].m_second = rows[i].m_second
    BY <2>2, <2>3 DEF Rows
  <2> HIDE DEF all
  <2>5. \A j \in 1..Len(rows) : all[j].m_second = rows[j].m_second
    BY <2>3, <2>4
  <2>6. Unique(all)
    BY <2>3, <2>5 DEF Unique
  <2>7. AllRows(all) = AddOps(AllRows(rows), r.ops)
    <3> DEFINE o == r.ops
    <3>1. /\ rows \in Seq(Rows) /\ all \in Seq(Rows) /\ Len(all) = Len(rows)
          /\ i \in 1..Len(rows) /\ o \in Ops
          /\ \A j \in 1..Len(rows) \ {i} : all[j] = rows[j]
          /\ all[i].ops = AddOps(rows[i].ops, o)
      BY <1>4, <2>3, <2>4, RowParts
    <3> HIDE DEF o, i
    <3>2. AllRows(all) = AddOps(AllRows(rows), o)
      BY ONLY <3>1, AllRowsExcept, Zenon
    <3> QED  BY <3>2 DEF o
  <2>8. ASSUME NEW n \in Int, NEW k \in Kinds
        PROVE  OpsIn(all, n, k) = OpsIn(rows, n, k) + (IF n = r.m_second THEN r.ops[k] ELSE 0)
    <3> DEFINE o == r.ops
    <3>1. /\ rows \in Seq(Rows) /\ all \in Seq(Rows) /\ Len(all) = Len(rows)
          /\ i \in 1..Len(rows) /\ o \in Ops
          /\ \A j \in 1..Len(rows) \ {i} : all[j] = rows[j]
          /\ all[i].ops = AddOps(rows[i].ops, o) /\ all[i].m_second = rows[i].m_second
          /\ n \in Int /\ k \in Kinds
      BY <1>4, <2>3, <2>4, RowParts
    <3> HIDE DEF o, i
    <3>2. OpsIn(all, n, k) = OpsIn(rows, n, k) + (IF n = rows[i].m_second THEN o[k] ELSE 0)
      BY ONLY <3>1, OpsInExcept
    <3> QED  BY <1>4, <3>2 DEF o
  <2> QED  BY <2>1, <2>3, <2>5, <2>6, <2>7, <2>8 DEF IsMerged
<1> QED  BY <1>1, <1>3, <1>4

\* all is rows with all the rows of others added to their seconds.
IsJoined(all, rows, others) ==
    /\ all \in Seq(Rows) /\ Unique(all) /\ Len(all) >= Len(rows)
    /\ \A i \in 1..Len(rows) : all[i].m_second = rows[i].m_second
    /\ AllRows(all) = AddOps(AllRows(rows), AllRows(others))
    /\ \A n \in Int, k \in Kinds :
          OpsIn(all, n, k) = OpsIn(rows, n, k) + OpsIn(others, n, k)

LEMMA AddOpsParts ==
    /\ \A a \in Ops : AddOps(a, NoOps) = a
    /\ \A a, b, c \in Ops : AddOps(AddOps(a, b), c) = AddOps(a, AddOps(b, c))
<1>1. ASSUME NEW a \in Ops PROVE AddOps(a, NoOps) = a
  <2>1. \A k \in Kinds : a[k] + 0 = a[k]
    BY DEF Ops
  <2> QED  BY <2>1 DEF Ops, AddOps, NoOps
<1>2. ASSUME NEW a \in Ops, NEW b \in Ops, NEW c \in Ops
      PROVE  AddOps(AddOps(a, b), c) = AddOps(a, AddOps(b, c))
  <2>1. \A k \in Kinds : (a[k] + b[k]) + c[k] = a[k] + (b[k] + c[k])
    BY DEF Ops
  <2> QED  BY <2>1 DEF AddOps
<1> QED  BY <1>1, <1>2

LEMMA NoRows ==
    /\ << >> \in Seq(Rows) /\ Unique(<< >>) /\ InOrder(<< >>)
    /\ AllRows(<< >>) = NoOps
    /\ \A n \in Int, k \in Kinds : OpsIn(<< >>, n, k) = 0
<1>1. << >> \in Seq(Rows) /\ Unique(<< >>) /\ InOrder(<< >>) /\ Len(<< >>) = 0 /\ 1..0 = {}
  BY DEF Unique, InOrder
<1>2. AllRows(<< >>) = NoOps
  <2>1. \A k \in Kinds : AllRows(<< >>)[k] = 0
    BY <1>1, AllRowsSum, SumEmpty
  <2> QED  BY <1>1, <2>1, AllRowsSum DEF Ops, NoOps
<1>3. ASSUME NEW n \in Int, NEW k \in Kinds PROVE OpsIn(<< >>, n, k) = 0
  <2>1. OpsIn(<< >>, n, k) = SumFunctionOnSet(Part(<< >>, n, k), 1..Len(<< >>))
    BY <1>1, OpsInSum
  <2>2. SumFunctionOnSet(Part(<< >>, n, k), {}) = 0
    BY SumEmpty
  <2>3. OpsIn(<< >>, n, k) = SumFunctionOnSet(Part(<< >>, n, k), {})
    BY ONLY <1>1, <2>1
  <2> QED  BY <2>2, <2>3
<1> QED  BY <1>1, <1>2, <1>3

\* One more row of the others is merged.
LEMMA OneMoreJoined ==
    ASSUME NEW rows \in Seq(Rows), NEW part \in Seq(Rows),
           NEW all, IsJoined(all, rows, part),
           NEW r \in Rows, NEW new, IsMerged(new, all, r)
    PROVE  IsJoined(new, rows, Append(part, r))
<1>1. /\ new \in Seq(Rows) /\ Unique(new) /\ Len(new) >= Len(all) /\ all \in Seq(Rows)
      /\ Len(all) >= Len(rows)
  BY DEF IsJoined, IsMerged
<1>2. Len(new) \in Nat /\ Len(all) \in Nat /\ Len(rows) \in Nat
  BY <1>1
<1>3. Len(new) >= Len(rows) /\ \A i \in 1..Len(rows) : i \in 1..Len(all)
  BY <1>1, <1>2
<1>4. \A i \in 1..Len(rows) : new[i].m_second = rows[i].m_second
  BY <1>3 DEF IsJoined, IsMerged
<1>5. AllRows(new) = AddOps(AllRows(rows), AllRows(Append(part, r)))
  <2>1. AllRows(new) = AddOps(AddOps(AllRows(rows), AllRows(part)), r.ops)
    BY DEF IsJoined, IsMerged
  <2>2. AllRows(Append(part, r)) = AddOps(AllRows(part), r.ops)
    BY AllRowsAppend
  <2>3. AllRows(rows) \in Ops /\ AllRows(part) \in Ops /\ r.ops \in Ops
    BY AllRowsSum, RowParts
  <2> QED  BY <2>1, <2>2, <2>3, AddOpsParts
<1>6. ASSUME NEW n \in Int, NEW k \in Kinds
      PROVE  OpsIn(new, n, k) = OpsIn(rows, n, k) + OpsIn(Append(part, r), n, k)
  <2> DEFINE d == IF n = r.m_second THEN r.ops[k] ELSE 0
  <2>1. OpsIn(new, n, k) = OpsIn(all, n, k) + d
    BY DEF IsMerged
  <2>2. OpsIn(all, n, k) = OpsIn(rows, n, k) + OpsIn(part, n, k)
    BY DEF IsJoined
  <2>3. OpsIn(Append(part, r), n, k) = OpsIn(part, n, k) + d
    BY OpsInAppend
  <2>4. OpsIn(part, n, k) \in Nat /\ d \in Nat
    BY OpsInSum, RowParts
  <2>5. OpsIn(rows, n, k) \in Int
    BY OpsInSum
  <2> HIDE DEF d
  <2> QED  BY <2>1, <2>2, <2>3, <2>4, <2>5
<1> QED  BY <1>1, <1>3, <1>4, <1>5, <1>6 DEF IsJoined

\* The recursion over the rows of the others has a value.
LEMMA MergedExists ==
    ASSUME NEW rows, NEW others, NEW n \in Nat
    PROVE  \E f : f = [i \in 0..n |-> IF i = 0 THEN rows ELSE MergeRow(f[i - 1], others[i])]
<1> DEFINE Follows(f, m) ==
        f = [i \in 0..m |-> IF i = 0 THEN rows ELSE MergeRow(f[i - 1], others[i])]
           T == { m \in Nat : \E f : Follows(f, m) }
<1>1. 0 \in T
  <2> DEFINE f == [i \in 0..0 |-> rows]
  <2>1. Follows(f, 0)
    OBVIOUS
  <2> QED  BY <2>1
<1>2. ASSUME NEW m \in T PROVE m + 1 \in T
  <2>1. PICK f : Follows(f, m)
    OBVIOUS
  <2> DEFINE g == [i \in 0..(m + 1) |-> IF i <= m THEN f[i] ELSE MergeRow(f[m], others[m + 1])]
  <2>2. Follows(g, m + 1)
    <3>1. ASSUME NEW i \in 0..(m + 1)
          PROVE  g[i] = IF i = 0 THEN rows ELSE MergeRow(g[i - 1], others[i])
      <4>1. CASE i = 0
        BY <2>1, <4>1
      <4>2. CASE i # 0 /\ i <= m
        <5>1. g[i] = f[i] /\ g[i - 1] = f[i - 1] /\ i \in 0..m
          BY <4>2
        <5>2. f[i] = MergeRow(f[i - 1], others[i])
          BY <2>1, <4>2, <5>1
        <5> QED  BY <4>2, <5>1, <5>2
      <4>3. CASE i = m + 1
        <5>1. g[i] = MergeRow(f[m], others[m + 1]) /\ g[i - 1] = f[m]
          BY <4>3
        <5> QED  BY <4>3, <5>1
      <4> QED  BY <4>1, <4>2, <4>3
    <3> QED  BY <3>1
  <2> HIDE DEF g
  <2>3. \E h : Follows(h, m + 1)
    <3> HIDE DEF Follows
    <3> QED  BY <2>2
  <2>4. m + 1 \in Nat
    OBVIOUS
  <2> QED  BY <2>3, <2>4
<1> HIDE DEF T
<1>3. n \in T
  BY <1>1, <1>2, NatInduct DEF T
<1> QED  BY <1>3 DEF T

\* All rows of the others are merged.
LEMMA RowsJoined ==
    ASSUME NEW rows \in Seq(Rows), Unique(rows), NEW others \in Seq(Rows)
    PROVE  IsJoined(MergeRowsUnsorted(rows, others), rows, others)
<1> DEFINE n == Len(others)
           Follows(f) ==
              f = [i \in 0..n |-> IF i = 0 THEN rows ELSE MergeRow(f[i - 1], others[i])]
           merged == CHOOSE f : Follows(f)
           part(i) == SubSeq(others, 1, i)
           T == { i \in Nat : i <= n => IsJoined(merged[i], rows, part(i)) }
<1>1. n \in Nat
  OBVIOUS
<1>2. Follows(merged)
  BY <1>1, MergedExists
<1>3. MergeRowsUnsorted(rows, others) = merged[n]
  BY DEF MergeRowsUnsorted
<1> HIDE DEF merged
<1>4. merged[0] = rows /\ \A i \in 1..n : merged[i] = MergeRow(merged[i - 1], others[i])
  BY <1>1, <1>2
<1>5. 0 \in T
  <2>1. part(0) = << >>
    OBVIOUS
  <2>2. IsJoined(rows, rows, << >>)
    <3>1. \A m \in Int, k \in Kinds : OpsIn(rows, m, k) = OpsIn(rows, m, k) + OpsIn(<< >>, m, k)
      BY OpsInSum, NoRows
    <3>2. AllRows(rows) = AddOps(AllRows(rows), AllRows(<< >>))
      BY AllRowsSum, NoRows, AddOpsParts
    <3>3. Len(rows) >= Len(rows)
      OBVIOUS
    <3> QED  BY <3>1, <3>2, <3>3 DEF IsJoined
  <2> QED  BY <1>4, <2>1, <2>2
<1>6. ASSUME NEW i \in T PROVE i + 1 \in T
  <2> SUFFICES ASSUME i + 1 <= n PROVE IsJoined(merged[i + 1], rows, part(i + 1))
    OBVIOUS
  <2>1. i \in Nat /\ i <= n /\ i + 1 \in 1..n /\ others[i + 1] \in Rows
    BY <1>1
  <2>2. IsJoined(merged[i], rows, part(i))
    BY <2>1
  <2>3. /\ part(i) \in Seq(Rows) /\ Len(part(i)) = i /\ \A j \in 1..i : part(i)[j] = others[j]
        /\ part(i + 1) = Append(part(i), others[i + 1])
    <3>1. \A j \in 1..i : j \in 1..n
      BY <1>1, <2>1
    <3>2. part(i) = [j \in 1..i |-> others[j]] /\ part(i + 1) = [j \in 1..(i + 1) |-> others[j]]
      BY <2>1
    <3>3. part(i) \in Seq(Rows) /\ Len(part(i)) = i
      BY <2>1, <3>1, <3>2
    <3>4. part(i + 1) = Append(part(i), others[i + 1])
      BY <2>1, <3>2, <3>3
    <3> QED  BY <3>2, <3>3, <3>4
  <2>5. merged[i + 1] = MergeRow(merged[i], others[i + 1])
    BY <1>4, <2>1
  <2> HIDE DEF part
  <2>6. merged[i] \in Seq(Rows) /\ Unique(merged[i])
    BY <2>2 DEF IsJoined
  <2>7. IsMerged(merged[i + 1], merged[i], others[i + 1])
    BY <2>1, <2>5, <2>6, RowMerged
  <2> QED  BY <2>1, <2>2, <2>3, <2>7, OneMoreJoined
<1> HIDE DEF T
<1>7. n \in T
  BY <1>1, <1>5, <1>6, NatInduct DEF T
<1>8. IsJoined(merged[n], rows, part(n))
  BY <1>1, <1>7 DEF T
<1>9. part(n) = others
  BY <1>1
<1> HIDE DEF part
<1> QED  BY <1>3, <1>8, <1>9

-----------------------------------------------------------------------------
(* Sorting                                                                 *)

\* The place of a row: the number of rows no later than it.
Place(rows, i) ==
    Cardinality({ j \in 1..Len(rows) : rows[j].m_second <= rows[i].m_second })

LEMMA PlaceMonotone ==
    ASSUME NEW rows \in Seq(Rows), NEW i \in 1..Len(rows), NEW j \in 1..Len(rows)
    PROVE  /\ Place(rows, i) \in 1..Len(rows)
           /\ rows[i].m_second < rows[j].m_second => Place(rows, i) < Place(rows, j)
<1> DEFINE D == 1..Len(rows)
           NoLater(x) == { d \in D : rows[d].m_second <= rows[x].m_second }
<1>1. \A x \in D : rows[x].m_second \in Int
  BY RowParts
<1>2. IsFiniteSet(D) /\ Cardinality(D) = Len(rows) /\ Len(rows) \in Nat
  <2>1. Len(rows) \in Nat
    OBVIOUS
  <2>2. Cardinality(1..Len(rows)) = IF 1 > Len(rows) THEN 0 ELSE Len(rows) - 1 + 1
    BY <2>1, FS_Interval
  <2>3. \A n \in Nat : (IF 1 > n THEN 0 ELSE n - 1 + 1) = n
    OBVIOUS
  <2>4. Cardinality(1..Len(rows)) = Len(rows)
    BY ONLY <2>1, <2>2, <2>3
  <2> QED  BY <2>1, <2>4, FS_Interval
<1>3. \A x \in D : /\ NoLater(x) \in SUBSET D /\ x \in NoLater(x)
                   /\ Place(rows, x) = Cardinality(NoLater(x))
  BY <1>1 DEF Place
<1>4. rows[i].m_second < rows[j].m_second =>
         NoLater(i) \in SUBSET NoLater(j) /\ j \notin NoLater(i)
  BY <1>1
<1> HIDE DEF NoLater, D
<1>5. i \in D /\ j \in D
  BY DEF D
<1>6. \A x \in D : /\ IsFiniteSet(NoLater(x)) /\ Cardinality(NoLater(x)) \in Nat
                   /\ Cardinality(NoLater(x)) <= Cardinality(D)
                   /\ Cardinality(NoLater(x)) # 0
  BY <1>2, <1>3, FS_Subset, FS_CardinalityType, FS_EmptySet
<1>7. Place(rows, i) \in 1..Len(rows)
  BY <1>2, <1>3, <1>5, <1>6
<1>8. ASSUME rows[i].m_second < rows[j].m_second PROVE Place(rows, i) < Place(rows, j)
  <2>1. NoLater(i) \in SUBSET NoLater(j) /\ NoLater(i) # NoLater(j)
    BY <1>3, <1>4, <1>5, <1>8
  <2>2. Cardinality(NoLater(i)) <= Cardinality(NoLater(j))
        /\ Cardinality(NoLater(j)) # Cardinality(NoLater(i))
    BY <1>5, <1>6, <2>1, FS_Subset
  <2> QED  BY <1>3, <1>5, <1>6, <2>2
<1> QED  BY <1>7, <1>8

\* Rows of different seconds can be sorted.
LEMMA SortedExists ==
    ASSUME NEW rows \in Seq(Rows), Unique(rows)
    PROVE  \E sorted \in [DOMAIN rows -> ToSet(rows)] :
              ToSet(sorted) = ToSet(rows) /\ InOrder(sorted)
<1> DEFINE D == 1..Len(rows)
           R == [i \in D |-> Place(rows, i)]
<1>1. IsFiniteSet(D) /\ DOMAIN rows = D
  BY FS_Interval
<1>2. \A i \in D : rows[i].m_second \in Int
  BY RowParts
<1>3. \A i, j \in D : /\ R[i] \in D
                      /\ rows[i].m_second < rows[j].m_second => R[i] < R[j]
  BY PlaceMonotone
<1>4. D \subseteq Nat
  OBVIOUS
<1>5. \A i, j \in D : R[i] = R[j] => i = j
  <2> SUFFICES ASSUME NEW i \in D, NEW j \in D, R[i] = R[j] PROVE i = j
    OBVIOUS
  <2>1. R[i] \in Nat /\ R[j] \in Nat
    BY <1>3, <1>4
  <2>2. ~(rows[i].m_second < rows[j].m_second) /\ ~(rows[j].m_second < rows[i].m_second)
    BY <1>3, <2>1
  <2>3. rows[i].m_second = rows[j].m_second
    BY <1>2, <2>2
  <2> QED  BY <2>3 DEF Unique
<1>6. R \in [D -> D]
  BY <1>3
<1> HIDE DEF R, D
<1>7. \A p \in D : \E i \in D : R[i] = p
  <2>1. R \in Injection(D, D)
    BY <1>5, <1>6 DEF Injection, IsInjective
  <2>2. R \in Surjection(D, D)
    BY <1>1, <2>1, FS_Injection
  <2> QED  BY <2>2 DEF Surjection
<1> DEFINE At(p) == CHOOSE i \in D : R[i] = p
           sorted == [p \in D |-> rows[At(p)]]
<1>8. \A p \in D : At(p) \in D /\ R[At(p)] = p
  BY <1>7
<1>9. \A i \in D : At(R[i]) = i /\ R[i] \in D
  BY <1>3, <1>5, <1>8
<1> HIDE DEF At
<1>10. ToSet(rows) = { rows[i] : i \in D } /\ ToSet(sorted) = { sorted[p] : p \in D }
  BY <1>1 DEF ToSet
<1>11. sorted \in [DOMAIN rows -> ToSet(rows)]
  BY <1>1, <1>8, <1>10
<1>12. ToSet(sorted) = ToSet(rows)
  <2>1. \A p \in D : sorted[p] = rows[At(p)] /\ At(p) \in D
    BY <1>8
  <2>2. \A i \in D : rows[i] = sorted[R[i]] /\ R[i] \in D
    BY <1>9
  <2> HIDE DEF sorted
  <2> QED  BY <1>10, <2>1, <2>2
<1>13. InOrder(sorted)
  <2> SUFFICES ASSUME NEW p \in D, NEW q \in D, p < q
               PROVE  rows[At(p)].m_second < rows[At(q)].m_second
    BY DEF InOrder
  <2>1. At(p) \in D /\ At(q) \in D /\ R[At(p)] = p /\ R[At(q)] = q /\ p # q
    BY <1>4, <1>8
  <2>2. ~(rows[At(q)].m_second < rows[At(p)].m_second)
    <3>1. ~(q < p)
      BY <1>4
    <3> QED  BY <1>3, <2>1, <3>1
  <2>3. rows[At(p)].m_second # rows[At(q)].m_second
    BY <2>1 DEF Unique, D
  <2> QED  BY <1>2, <2>1, <2>2, <2>3
<1> HIDE DEF sorted
<1> QED  BY <1>11, <1>12, <1>13

LEMMA InOrderUnique ==
    ASSUME NEW rows \in Seq(Rows), InOrder(rows)
    PROVE  Unique(rows)
<1> SUFFICES ASSUME NEW i \in 1..Len(rows), NEW j \in 1..Len(rows),
                    rows[i].m_second = rows[j].m_second
             PROVE  i = j
  BY DEF Unique
<1>1. rows[i].m_second \in Int /\ rows[j].m_second \in Int
  BY RowParts
<1>2. ~(i < j) /\ ~(j < i)
  BY <1>1 DEF InOrder
<1> QED  BY <1>2

\* A sequence of the same rows, in another order: what merging adds up is the
\* same.
LEMMA SameRowsSame ==
    ASSUME NEW rows \in Seq(Rows), Unique(rows), NEW all \in Seq(Rows), Unique(all),
           Len(all) = Len(rows), ToSet(all) = ToSet(rows)
    PROVE  /\ AllRows(all) = AllRows(rows)
           /\ \A n \in Int, k \in Kinds : OpsIn(all, n, k) = OpsIn(rows, n, k)
<1> DEFINE D == 1..Len(rows)
<1>1. ToSet(rows) = { rows[i] : i \in D } /\ ToSet(all) = { all[i] : i \in D }
  BY DEF ToSet
<1>2. IsFiniteSet(D)
  BY FS_Interval
<1>a. 1..Len(all) = D /\ 1..Len(rows) = D
  OBVIOUS
<1> HIDE DEF D
<1>3. /\ \A i \in D : \E j \in D : all[j] = rows[i]
      /\ \A j \in D : \E i \in D : all[j] = rows[i]
  BY <1>1
<1> DEFINE f == [i \in D |-> CHOOSE j \in D : all[j] = rows[i]]
<1>4. \A i \in D : f[i] \in D /\ all[f[i]] = rows[i]
  BY <1>3
<1>5. f \in [D -> D]
  BY <1>4
<1> HIDE DEF f
<1>6. f \in Bijection(D, D)
  <2>1. \A x, y \in D : f[x] = f[y] => x = y
    BY <1>4, <1>a DEF Unique
  <2>2. \A y \in D : \E x \in D : f[x] = y
    <3> SUFFICES ASSUME NEW y \in D PROVE \E x \in D : f[x] = y
      OBVIOUS
    <3>1. PICK x \in D : all[y] = rows[x]
      BY <1>3
    <3>2. f[x] \in D /\ all[f[x]] = all[y]
      BY <1>4, <3>1
    <3> QED  BY <1>a, <3>2 DEF Unique
  <2> QED  BY <1>5, <2>1, <2>2 DEF Bijection, Injection, Surjection, IsInjective
<1>7. ASSUME NEW k \in Kinds PROVE AllRows(all)[k] = AllRows(rows)[k]
  <2>1. \A i \in D : Column(rows, k)[i] \in Int /\ Column(all, k)[f[i]] = Column(rows, k)[i]
    <3>1. \A i \in D : /\ Column(rows, k)[i] = rows[i].ops[k] /\ Column(rows, k)[i] \in Nat
                      /\ Column(all, k)[i] = all[i].ops[k]
      BY <1>a, ColumnNat
    <3> QED  BY <1>4, <3>1
  <2>2. SumFunctionOnSet(Column(all, k), D) = SumFunctionOnSet(Column(rows, k), D)
    BY <1>2, <1>6, <2>1, SumMoved
  <2> QED  BY <1>a, <2>2, AllRowsSum
<1>8. AllRows(all) = AllRows(rows)
  BY <1>7, AllRowsSum DEF Ops
<1>9. ASSUME NEW n \in Int, NEW k \in Kinds PROVE OpsIn(all, n, k) = OpsIn(rows, n, k)
  <2>1. \A i \in D : Part(rows, n, k)[i] \in Int /\ Part(all, n, k)[f[i]] = Part(rows, n, k)[i]
    <3>1. \A i \in D :
             /\ Part(rows, n, k)[i] = (IF rows[i].m_second = n THEN rows[i].ops[k] ELSE 0)
             /\ Part(rows, n, k)[i] \in Nat
             /\ Part(all, n, k)[i] = (IF all[i].m_second = n THEN all[i].ops[k] ELSE 0)
      BY <1>a, PartNat
    <3> QED  BY <1>4, <3>1
  <2>2. SumFunctionOnSet(Part(all, n, k), D) = SumFunctionOnSet(Part(rows, n, k), D)
    BY <1>2, <1>6, <2>1, SumMoved
  <2> QED  BY <1>a, <2>2, OpsInSum
<1> QED  BY <1>8, <1>9

LEMMA SortedRows ==
    ASSUME NEW rows \in Seq(Rows), Unique(rows)
    PROVE  /\ Sorted(rows) \in Seq(Rows) /\ InOrder(Sorted(rows))
           /\ AllRows(Sorted(rows)) = AllRows(rows)
           /\ \A n \in Int, k \in Kinds : OpsIn(Sorted(rows), n, k) = OpsIn(rows, n, k)
<1> DEFINE all == Sorted(rows)
<1>1. /\ all \in [DOMAIN rows -> ToSet(rows)] /\ ToSet(all) = ToSet(rows)
      /\ InOrder(all)
  BY SortedExists DEF Sorted
<1> HIDE DEF all
<1>2. DOMAIN rows = 1..Len(rows) /\ Len(rows) \in Nat /\ ToSet(rows) \subseteq Rows
  BY DEF ToSet
<1>3. all \in [1..Len(rows) -> Rows]
  BY <1>1, <1>2
<1>4. all \in Seq(Rows) /\ Len(all) = Len(rows)
  BY <1>2, <1>3
<1>5. Unique(all)
  BY <1>1, <1>4, InOrderUnique
<1>6. /\ AllRows(all) = AllRows(rows)
      /\ \A n \in Int, k \in Kinds : OpsIn(all, n, k) = OpsIn(rows, n, k)
  BY <1>1, <1>4, <1>5, SameRowsSame
<1> QED  BY <1>1, <1>4, <1>6 DEF all

\* The result of merging: in order, and as much in every second as before.
IsMergeOf(all, rows, others) ==
    /\ all \in Seq(Rows) /\ InOrder(all)
    /\ AllRows(all) = AddOps(AllRows(rows), AllRows(others))
    /\ \A n \in Int, k \in Kinds :
          OpsIn(all, n, k) = OpsIn(rows, n, k) + OpsIn(others, n, k)

LEMMA RowsMerged ==
    ASSUME NEW rows \in Seq(Rows), InOrder(rows), NEW others \in Seq(Rows)
    PROVE  IsMergeOf(MergeRows(rows, others), rows, others)
<1> DEFINE merged == MergeRowsUnsorted(rows, others)
<1>1. IsJoined(merged, rows, others)
  BY InOrderUnique, RowsJoined
<1>2. MergeRows(rows, others) = IF Len(merged) > Len(rows) THEN Sorted(merged) ELSE merged
  BY DEF MergeRows
<1> HIDE DEF merged
<1>3. /\ merged \in Seq(Rows) /\ Unique(merged) /\ Len(merged) >= Len(rows)
      /\ Len(merged) \in Nat /\ Len(rows) \in Nat
  BY <1>1 DEF IsJoined
<1>4. CASE Len(merged) > Len(rows)
  <2>1. MergeRows(rows, others) = Sorted(merged)
    BY <1>2, <1>4
  <2>2. /\ Sorted(merged) \in Seq(Rows) /\ InOrder(Sorted(merged))
        /\ AllRows(Sorted(merged)) = AllRows(merged)
        /\ \A n \in Int, k \in Kinds : OpsIn(Sorted(merged), n, k) = OpsIn(merged, n, k)
    BY <1>3, SortedRows
  <2> QED  BY <1>1, <2>1, <2>2 DEF IsJoined, IsMergeOf
<1>5. CASE ~(Len(merged) > Len(rows))
  <2>1. MergeRows(rows, others) = merged
    BY <1>2, <1>5
  <2>2. Len(merged) = Len(rows)
    BY <1>3, <1>5
  <2>3. InOrder(merged)
    <3>1. \A i \in 1..Len(rows) : merged[i].m_second = rows[i].m_second
      BY <1>1 DEF IsJoined
    <3>2. DOMAIN merged = 1..Len(rows) /\ DOMAIN rows = 1..Len(rows)
      BY <1>3, <2>2
    <3> QED  BY <3>1, <3>2 DEF InOrder
  <2> QED  BY <1>1, <2>1, <2>3 DEF IsJoined, IsMergeOf
<1> QED  BY <1>4, <1>5

-----------------------------------------------------------------------------
(* A client while it runs                                                  *)

Total(rows) == SumFunctionOnSet(AllRows(rows), Kinds)

\* What is true of a client, of its filed rows, its row being counted and its
\* total.
ClientOK(at, rows, cur, total) ==
    /\ rows \in Seq(Rows) /\ cur \in Rows /\ total \in Nat
    /\ InOrder(rows)
    /\ at # "ended" => \A i \in 1..Len(rows) : rows[i].m_second < cur.m_second
    /\ total = Total(rows) + (IF at = "ended" THEN 0 ELSE SumFunctionOnSet(cur.ops, Kinds))

LEMMA SumOfOps ==
    /\ \A o \in Ops : SumFunctionOnSet(o, Kinds) \in Nat /\ SumFunction(o) = SumFunctionOnSet(o, Kinds)
    /\ SumFunctionOnSet(NoOps, Kinds) = 0
    /\ \A a, b \in Ops : SumFunctionOnSet(AddOps(a, b), Kinds)
                            = SumFunctionOnSet(a, Kinds) + SumFunctionOnSet(b, Kinds)
<1>1. IsFiniteSet(Kinds)
  BY StatsAssumption
<1>2. ASSUME NEW o \in Ops
      PROVE  SumFunctionOnSet(o, Kinds) \in Nat /\ SumFunction(o) = SumFunctionOnSet(o, Kinds)
  <2>1. \A k \in Kinds : o[k] \in Nat
    BY DEF Ops
  <2>2. DOMAIN o = Kinds
    BY DEF Ops
  <2> QED  BY <1>1, <2>1, <2>2, SumNat DEF SumFunction
<1>3. SumFunctionOnSet(NoOps, Kinds) = 0
  BY <1>1, SumZero DEF NoOps
<1>4. ASSUME NEW a \in Ops, NEW b \in Ops
      PROVE  SumFunctionOnSet(AddOps(a, b), Kinds)
                = SumFunctionOnSet(a, Kinds) + SumFunctionOnSet(b, Kinds)
  <2>1. \A k \in Kinds : /\ a[k] \in Int /\ b[k] \in Int
                         /\ AddOps(a, b)[k] = a[k] + b[k]
    BY RowParts DEF Ops
  <2> QED  BY <1>1, <2>1, SumPlus
<1> QED  BY <1>2, <1>3, <1>4

LEMMA TotalAppend ==
    ASSUME NEW rows \in Seq(Rows), NEW r \in Rows
    PROVE  /\ Total(Append(rows, r)) = Total(rows) + SumFunctionOnSet(r.ops, Kinds)
           /\ Total(rows) \in Nat /\ SumFunctionOnSet(r.ops, Kinds) \in Nat
<1>1. AllRows(rows) \in Ops /\ r.ops \in Ops
  BY AllRowsSum, RowParts
<1> QED  BY <1>1, AllRowsAppend, SumOfOps DEF Total

LEMMA RowCounted ==
    ASSUME NEW cur \in Rows, NEW k \in Kinds
    PROVE  /\ Counted(cur, k) \in Rows /\ Counted(cur, k).m_second = cur.m_second
           /\ Counted(cur, k).ops = [cur.ops EXCEPT ![k] = @ + 1]
<1>1. cur = [m_second |-> cur.m_second, ops |-> cur.ops] /\ cur.m_second \in Int
      /\ cur.ops \in Ops
  BY DEF Rows
<1>2. Counted(cur, k) = [m_second |-> cur.m_second, ops |-> [cur.ops EXCEPT ![k] = @ + 1]]
  BY ONLY <1>1 DEF Counted
<1>3. [cur.ops EXCEPT ![k] = @ + 1] \in Ops
  BY <1>1 DEF Ops
<1> QED  BY <1>1, <1>2, <1>3 DEF Rows

\* An operation is counted.
LEMMA OpCounted ==
    ASSUME NEW rows, NEW cur, NEW total, ClientOK("running", rows, cur, total), NEW k \in Kinds
    PROVE  ClientOK("running", rows, Counted(cur, k), total + 1)
<1> DEFINE one == Counted(cur, k)
<1>1. cur \in Rows /\ cur.ops \in Ops /\ rows \in Seq(Rows) /\ total \in Nat
  BY RowParts DEF ClientOK
<1>2. /\ one \in Rows /\ one.m_second = cur.m_second
      /\ one.ops = [cur.ops EXCEPT ![k] = @ + 1]
  BY <1>1, RowCounted
<1> HIDE DEF one
<1>3. /\ \A j \in Kinds : cur.ops[j] \in Int
      /\ \A j \in Kinds \ {k} : one.ops[j] = cur.ops[j]
      /\ one.ops[k] = cur.ops[k] + 1
  BY <1>1, <1>2 DEF Ops
<1>4. SumFunctionOnSet(one.ops, Kinds) = SumFunctionOnSet(cur.ops, Kinds) + 1
  BY <1>3, StatsAssumption, SumCount
<1>5. SumFunctionOnSet(cur.ops, Kinds) \in Nat /\ Total(rows) \in Nat
  BY <1>1, SumOfOps, TotalAppend
<1>6. total = Total(rows) + SumFunctionOnSet(cur.ops, Kinds)
  BY DEF ClientOK
<1>7. total + 1 = Total(rows) + SumFunctionOnSet(one.ops, Kinds)
  BY <1>4, <1>5, <1>6
<1> QED  BY <1>1, <1>2, <1>7 DEF ClientOK, one

\* The row being counted is filed.
LEMMA RowFiled ==
    ASSUME NEW rows, NEW cur, NEW total, ClientOK("running", rows, cur, total)
    PROVE  /\ ClientOK("ended", Append(rows, cur), cur, total)
           /\ \A s \in Int : s > cur.m_second =>
                 ClientOK("running", Append(rows, cur), Row(s, NoOps), total)
<1> DEFINE all == Append(rows, cur)
<1>1. /\ rows \in Seq(Rows) /\ cur \in Rows /\ total \in Nat /\ InOrder(rows)
      /\ \A i \in 1..Len(rows) : rows[i].m_second < cur.m_second
      /\ total = Total(rows) + SumFunctionOnSet(cur.ops, Kinds)
  BY DEF ClientOK
<1>2. /\ all \in Seq(Rows) /\ Len(all) = Len(rows) + 1 /\ Len(rows) \in Nat
      /\ all[Len(rows) + 1] = cur
      /\ \A i \in 1..Len(rows) : all[i] = rows[i]
  BY <1>1
<1>3. total = Total(all) /\ Total(all) \in Nat
  BY <1>1, TotalAppend
<1> HIDE DEF all
<1>4. \A i \in 1..Len(all) : i \in 1..Len(rows) \/ i = Len(rows) + 1
  BY <1>2
<1>5. InOrder(all)
  <2> SUFFICES ASSUME NEW i \in 1..Len(all), NEW j \in 1..Len(all), i < j
               PROVE  all[i].m_second < all[j].m_second
    BY <1>2 DEF InOrder
  <2>1. i \in 1..Len(rows)
    BY <1>2
  <2>2. CASE j \in 1..Len(rows)
    BY <1>1, <1>2, <2>1, <2>2 DEF InOrder
  <2>3. CASE j = Len(rows) + 1
    BY <1>1, <1>2, <2>1, <2>3
  <2> QED  BY <1>4, <2>2, <2>3
<1>6. ClientOK("ended", all, cur, total)
  BY <1>1, <1>2, <1>3, <1>5 DEF ClientOK
<1>7. ASSUME NEW s \in Int, s > cur.m_second
      PROVE  ClientOK("running", all, Row(s, NoOps), total)
  <2>1. /\ Row(s, NoOps) \in Rows /\ Row(s, NoOps).m_second = s
        /\ Row(s, NoOps).ops = NoOps
    BY RowParts DEF Row
  <2>2. \A i \in 1..Len(all) : all[i].m_second < s
    <3> SUFFICES ASSUME NEW i \in 1..Len(all) PROVE all[i].m_second < s
      OBVIOUS
    <3>1. all[i] = cur \/ (i \in 1..Len(rows) /\ all[i] = rows[i])
      BY <1>2, <1>4
    <3>2. cur.m_second \in Int
      BY <1>1, RowParts
    <3>3. all[i].m_second \in Int
      BY <1>2, RowParts
    <3> QED  BY <1>1, <1>7, <3>1, <3>2, <3>3
  <2>3. total = Total(all) + SumFunctionOnSet(NoOps, Kinds)
    BY <1>3, SumOfOps
  <2> QED  BY <1>1, <1>2, <1>5, <2>1, <2>2, <2>3 DEF ClientOK
<1> QED  BY <1>6, <1>7 DEF all

-----------------------------------------------------------------------------
(* The clients in the order they are merged                                *)

First == << 1, 1 >>

\* The clients merged when it is t's turn.
Before(t) == { c \in Clients : c[1] < t[1] \/ (c[1] = t[1] /\ c[2] < t[2]) }

LEMMA ClientParts ==
    ASSUME NEW c
    PROVE  c \in Clients <=> \E g \in 1..Len(GroupSizes) : \E i \in 1..GroupSizes[g] : c = << g, i >>
BY StatsAssumption DEF Clients

LEMMA Sizes ==
    /\ Len(GroupSizes) \in Nat
    /\ \A g \in 1..Len(GroupSizes) : GroupSizes[g] \in Nat \ {0}
BY StatsAssumption

LEMMA ClientsFinite == IsFiniteSet(Clients)
<1> DEFINE D == 1..Len(GroupSizes)
           G(g) == {g} \X (1..GroupSizes[g])
           f == [g \in D |-> G(g)]
           Gs == { G(g) : g \in D }
<1>1. DOMAIN GroupSizes = D /\ Len(GroupSizes) \in Nat
  BY StatsAssumption
<1>2. Clients = UNION Gs
  BY <1>1 DEF Clients
<1>3. IsFiniteSet(D)
  BY <1>1, FS_Interval
<1>4. \A g \in D : IsFiniteSet(G(g))
  <2> TAKE g \in D
  <2>1. IsFiniteSet({g}) /\ IsFiniteSet(1..GroupSizes[g])
    <3>1. GroupSizes[g] \in Int
      BY Sizes
    <3>2. IsFiniteSet(1..GroupSizes[g])
      BY ONLY <3>1, FS_Interval
    <3> QED  BY <3>2, FS_Singleton
  <2> QED  BY <2>1, FS_Product
<1> HIDE DEF G, D
<1>5. f \in Surjection(D, Gs)
  BY DEF Surjection
<1>6. IsFiniteSet(Gs)
  BY <1>3, <1>5, FS_Surjection
<1> QED  BY <1>2, <1>4, <1>6, FS_UNION

LEMMA BeforeEnds == Before(First) = {} /\ Before(Merged) = Clients
<1>1. ASSUME NEW c \in Clients PROVE c \notin Before(First) /\ c \in Before(Merged)
  <2>1a. PICK g \in 1..Len(GroupSizes) : \E i \in 1..GroupSizes[g] : c = << g, i >>
    BY ClientParts
  <2>1. PICK i \in 1..GroupSizes[g] : c = << g, i >>
    BY <2>1a
  <2>2. Len(GroupSizes) \in Nat /\ GroupSizes[g] \in Nat /\ c[1] = g /\ c[2] = i
    BY <2>1, Sizes
  <2> QED  BY <2>1, <2>2 DEF Before, First, Merged
<1> QED  BY <1>1 DEF Before

LEMMA BeforeAfter ==
    ASSUME NEW c \in Clients
    PROVE  /\ After(c) \in Clients \cup {Merged}
           /\ c \notin Before(c)
           /\ Before(After(c)) = Before(c) \cup {c}
<1>1a. PICK g \in 1..Len(GroupSizes) : \E i \in 1..GroupSizes[g] : c = << g, i >>
  BY ClientParts
<1>1. PICK i \in 1..GroupSizes[g] : c = << g, i >>
  BY <1>1a
<1>2. /\ Len(GroupSizes) \in Nat /\ GroupSizes[g] \in Nat \ {0} /\ c[1] = g /\ c[2] = i
      /\ g \in Int /\ i \in Int
  BY <1>1, Sizes
<1>3. After(c) = IF i < GroupSizes[g] THEN << g, i + 1 >> ELSE << g + 1, 1 >>
  BY <1>2 DEF After
<1>4. After(c) \in Clients \cup {Merged}
  <2>1. CASE i < GroupSizes[g]
    <3>1. i + 1 \in 1..GroupSizes[g]
      BY <1>1, <1>2, <2>1
    <3> QED  BY <1>1, <1>3, <2>1, <3>1, ClientParts
  <2>2. CASE ~(i < GroupSizes[g]) /\ g < Len(GroupSizes)
    <3>1. g + 1 \in 1..Len(GroupSizes)
      BY <1>2, <2>2
    <3>2. 1 \in 1..GroupSizes[g + 1]
      BY <3>1, Sizes
    <3> QED  BY <1>3, <2>2, <3>1, <3>2, ClientParts
  <2>3. CASE ~(i < GroupSizes[g]) /\ ~(g < Len(GroupSizes))
    <3>1. g = Len(GroupSizes)
      BY <1>1, <1>2, <2>3
    <3> QED  BY <1>3, <2>3, <3>1 DEF Merged
  <2> QED  BY <2>1, <2>2, <2>3
<1>5. c \notin Before(c)
  BY <1>2 DEF Before
<1>6. ASSUME NEW d \in Clients
      PROVE  d \in Before(After(c)) <=> d \in Before(c) \/ d = c
  <2>1a. PICK h \in 1..Len(GroupSizes) : \E j \in 1..GroupSizes[h] : d = << h, j >>
    BY ClientParts
  <2>1. PICK j \in 1..GroupSizes[h] : d = << h, j >>
    BY <2>1a
  <2>2. /\ GroupSizes[h] \in Nat /\ d[1] = h /\ d[2] = j /\ h \in Int /\ j \in Int
        /\ j <= GroupSizes[h] /\ 1 <= j
    BY <2>1, Sizes
  <2>3. d = c <=> h = g /\ j = i
    BY <1>1, <2>1
  <2>4. d \in Before(c) <=> h < g \/ (h = g /\ j < i)
    BY <1>2, <2>2 DEF Before
  <2>5. CASE i < GroupSizes[g]
    <3>1. After(c)[1] = g /\ After(c)[2] = i + 1
      BY <1>3, <2>5
    <3>2. d \in Before(After(c)) <=> h < g \/ (h = g /\ j < i + 1)
      BY <2>2, <3>1 DEF Before
    <3> QED  BY <1>2, <2>2, <2>3, <2>4, <3>2
  <2>6. CASE ~(i < GroupSizes[g])
    <3>1. After(c)[1] = g + 1 /\ After(c)[2] = 1
      BY <1>3, <2>6
    <3>2. d \in Before(After(c)) <=> h < g + 1 \/ (h = g + 1 /\ j < 1)
      BY <2>2, <3>1 DEF Before
    <3>3. h = g => j <= i
      BY <1>1, <1>2, <2>2, <2>6
    <3> QED  BY <1>2, <2>2, <2>3, <2>4, <3>2, <3>3
  <2> QED  BY <2>5, <2>6
<1>7. Before(After(c)) \subseteq Clients /\ Before(c) \subseteq Clients
  BY DEF Before
<1> QED  BY <1>4, <1>5, <1>6, <1>7

-----------------------------------------------------------------------------
(* The invariant                                                           *)

Times == [sec: Int, usec: Int]

TypeOK ==
    /\ now \in Int
    /\ place \in [Clients -> {"new", "running", "ended", "lost"}]
    /\ \A c \in late : c \in Clients /\ place[c] = "ended"
    /\ m_start_time \in [Clients -> Times]
    /\ m_cur_stats \in [Clients -> Rows]
    /\ m_stats \in [Clients -> Seq(Rows)]
    /\ m_ops \in [Clients -> Nat]

OpsOf(stats, n, k) == [c \in Clients |-> OpsIn(stats[c], n, k)]
TotalOf(stats) == [c \in Clients |-> Total(stats[c])]

\* The result, when it is t's turn, is the sum of the clients before t.
MergeOK(t, result, stats, totals) ==
    /\ t \in Clients \cup {Merged}
    /\ result.m_stats \in Seq(Rows) /\ InOrder(result.m_stats)
    /\ result.m_ops = SumFunctionOnSet(totals, Before(t))
    /\ Total(result.m_stats) = SumFunctionOnSet(TotalOf(stats), Before(t))
    /\ \A n \in Int, k \in Kinds :
          OpsIn(result.m_stats, n, k) = SumFunctionOnSet(OpsOf(stats, n, k), Before(t))

StatsInv ==
    /\ TypeOK
    /\ \A c \in Clients \ late : ClientOK(place[c], m_stats[c], m_cur_stats[c], m_ops[c])
    /\ turn # First => Joined
    /\ MergeOK(turn, target, m_stats, m_ops)
    /\ summary = NoOps \/ (turn = Merged /\ summary = AllRows(target.m_stats))

\* Before the first client is merged, the clients may change.
LEMMA MergeNotBegun ==
    ASSUME NEW result, NEW stats, NEW totals, MergeOK(First, result, stats, totals),
           NEW stats1, NEW totals1
    PROVE  MergeOK(First, result, stats1, totals1)
BY BeforeEnds, SumEmpty DEF MergeOK

\* One more client is merged.
LEMMA ClientMerged ==
    ASSUME NEW c \in Clients, NEW stats \in [Clients -> Seq(Rows)],
           NEW totals \in [Clients -> Nat],
           NEW result, MergeOK(c, result, stats, totals), NEW new,
           new.m_stats = MergeRows(result.m_stats, stats[c]),
           new.m_ops = result.m_ops + totals[c]
    PROVE  MergeOK(After(c), new, stats, totals)
<1> DEFINE S == Before(c)
<1>1. /\ After(c) \in Clients \cup {Merged} /\ c \notin S
      /\ Before(After(c)) = S \cup {c}
  BY BeforeAfter
<1>2. S \subseteq Clients /\ S \cup {c} \subseteq Clients
  BY DEF Before
<1>3. IsFiniteSet(S)
  BY <1>2, ClientsFinite, FS_Subset
<1>4. IsMergeOf(new.m_stats, result.m_stats, stats[c])
  BY RowsMerged DEF MergeOK
<1> HIDE DEF S
<1>5. new.m_ops = SumFunctionOnSet(totals, S \cup {c})
  <2>1. \A y \in S \cup {c} : totals[y] \in Int
    BY <1>2
  <2>2. SumFunctionOnSet(totals, S \cup {c}) = SumFunctionOnSet(totals, S) + totals[c]
    BY <1>1, <1>3, <2>1, SumAdd
  <2> QED  BY <2>2 DEF MergeOK, S
<1>6. Total(new.m_stats) = SumFunctionOnSet(TotalOf(stats), S \cup {c})
  <2>1. \A y \in S \cup {c} : TotalOf(stats)[y] = Total(stats[y]) /\ Total(stats[y]) \in Int
    <3>1. \A y \in S \cup {c} : AllRows(stats[y]) \in Ops
      BY <1>2, AllRowsSum
    <3> QED  BY <1>2, <3>1, SumOfOps DEF TotalOf, Total
  <2>a. \A y \in S \cup {c} : TotalOf(stats)[y] \in Int
    BY <2>1
  <2>2. SumFunctionOnSet(TotalOf(stats), S \cup {c})
          = SumFunctionOnSet(TotalOf(stats), S) + TotalOf(stats)[c]
    BY ONLY <1>1, <1>3, <2>a, SumAdd
  <2>3. Total(new.m_stats) = Total(result.m_stats) + Total(stats[c])
    <3>1. AllRows(result.m_stats) \in Ops /\ AllRows(stats[c]) \in Ops
      BY AllRowsSum DEF MergeOK
    <3>2. AllRows(new.m_stats) = AddOps(AllRows(result.m_stats), AllRows(stats[c]))
      BY <1>4 DEF IsMergeOf
    <3> QED  BY <3>1, <3>2, SumOfOps DEF Total
  <2>4. Total(result.m_stats) = SumFunctionOnSet(TotalOf(stats), S)
    BY DEF MergeOK, S
  <2>5. TotalOf(stats)[c] = Total(stats[c])
    BY <2>1
  <2> QED  BY <2>2, <2>3, <2>4, <2>5
<1>7. ASSUME NEW n \in Int, NEW k \in Kinds
      PROVE  OpsIn(new.m_stats, n, k) = SumFunctionOnSet(OpsOf(stats, n, k), S \cup {c})
  <2>1. \A y \in S \cup {c} : /\ OpsOf(stats, n, k)[y] = OpsIn(stats[y], n, k)
                              /\ OpsIn(stats[y], n, k) \in Int
    <3>1. \A y \in S \cup {c} : stats[y] \in Seq(Rows) /\ y \in Clients
      BY <1>2
    <3>2. \A y \in S \cup {c} : OpsIn(stats[y], n, k) \in Nat
      BY <3>1, OpsInSum
    <3> QED  BY <3>1, <3>2 DEF OpsOf
  <2>a. \A y \in S \cup {c} : OpsOf(stats, n, k)[y] \in Int
    BY <2>1
  <2>2. SumFunctionOnSet(OpsOf(stats, n, k), S \cup {c})
          = SumFunctionOnSet(OpsOf(stats, n, k), S) + OpsOf(stats, n, k)[c]
    BY ONLY <1>1, <1>3, <2>a, SumAdd
  <2>3. OpsIn(new.m_stats, n, k) = OpsIn(result.m_stats, n, k) + OpsIn(stats[c], n, k)
    BY <1>4 DEF IsMergeOf
  <2>4. OpsIn(result.m_stats, n, k) = SumFunctionOnSet(OpsOf(stats, n, k), S)
    BY DEF MergeOK, S
  <2>5. OpsOf(stats, n, k)[c] = OpsIn(stats[c], n, k)
    BY <2>1
  <2> QED  BY <2>2, <2>3, <2>4, <2>5
<1> QED  BY <1>1, <1>4, <1>5, <1>6, <1>7 DEF MergeOK, IsMergeOf

LEMMA Timeval ==
    /\ NotSet \in Times
    /\ \A tick \in Int : timeval(tick) \in Times
    /\ \A a, b \in Times : ts_diff(a, b) \div 1000000 \in Int
<1>1. NotSet \in Times
  BY DEF NotSet, Times
<1>2. ASSUME NEW tick \in Int PROVE timeval(tick) \in Times
  <2>1. TicksPerSecond \in Nat /\ TicksPerSecond > 0
    BY StatsAssumption
  <2>2. tick \div TicksPerSecond \in Int /\ tick % TicksPerSecond \in Int
        /\ 1000000 \div TicksPerSecond \in Int
    BY <2>1
  <2>3. \A x, y \in Int : x * y \in Int
    OBVIOUS
  <2> QED  BY <2>2, <2>3 DEF timeval, Times
<1>3. ASSUME NEW a \in Times, NEW b \in Times PROVE ts_diff(a, b) \div 1000000 \in Int
  BY DEF ts_diff, Times
<1> QED  BY <1>1, <1>2, <1>3

LEMMA InvInit == Init => StatsInv
<1> SUFFICES ASSUME Init PROVE StatsInv
  OBVIOUS
<1>1. TypeOK
  <2>1. now \in Int
    BY StatsAssumption DEF Init
  <2>2. Row(0, NoOps) \in Rows /\ << >> \in Seq(Rows) /\ NotSet \in Times
    BY RowParts, NoRows, Timeval
  <2> QED  BY <2>1, <2>2 DEF Init, TypeOK
<1>2. ASSUME NEW c \in Clients
      PROVE  ClientOK(place[c], m_stats[c], m_cur_stats[c], m_ops[c])
  <2>1. /\ place[c] = "new" /\ m_stats[c] = << >> /\ m_cur_stats[c] = Row(0, NoOps)
        /\ m_ops[c] = 0
    BY <1>2 DEF Init
  <2>2. Total(<< >>) = 0 /\ Len(<< >>) = 0 /\ 1..0 = {}
    BY NoRows, SumOfOps DEF Total
  <2>3. Row(0, NoOps) \in Rows /\ SumFunctionOnSet(Row(0, NoOps).ops, Kinds) = 0
    BY RowParts, SumOfOps DEF Row
  <2> QED  BY <2>1, <2>2, <2>3, NoRows DEF ClientOK
<1>3. turn = First /\ summary = NoOps
  BY DEF Init, First
<1>4. MergeOK(turn, target, m_stats, m_ops)
  <2>1. turn \in Clients \cup {Merged}
    <3>1. CASE Len(GroupSizes) = 0
      BY <1>3, <3>1 DEF First, Merged
    <3>2. CASE Len(GroupSizes) # 0
      <4>1. 1 \in 1..Len(GroupSizes)
        BY <3>2, Sizes
      <4>2. 1 \in 1..GroupSizes[1]
        BY <4>1, Sizes
      <4> QED  BY <1>3, <4>1, <4>2, ClientParts DEF First
    <3> QED  BY <3>1, <3>2
  <2>2. target.m_stats = << >> /\ target.m_ops = 0
    BY DEF Init
  <2>3. Total(<< >>) = 0
    BY NoRows, SumOfOps DEF Total
  <2> QED  BY <1>3, <2>1, <2>2, <2>3, BeforeEnds, SumEmpty, NoRows DEF MergeOK
<1> QED  BY <1>1, <1>2, <1>3, <1>4 DEF StatsInv

\* A step of one client, before any is merged.
LEMMA ClientStep ==
    ASSUME StatsInv, NEW c \in Clients, turn = First, TypeOK',
           c \in late' \/ ClientOK(place'[c], m_stats'[c], m_cur_stats'[c], m_ops'[c]),
           \A d \in Clients \ {c} : /\ place'[d] = place[d] /\ m_stats'[d] = m_stats[d]
                                    /\ m_cur_stats'[d] = m_cur_stats[d] /\ m_ops'[d] = m_ops[d],
           \A d \in late : d \in late', UNCHANGED << turn, target, summary >>
    PROVE  StatsInv'
<1>1. MergeOK(turn', target', m_stats', m_ops')
  BY MergeNotBegun DEF StatsInv
<1>2. \A d \in Clients \ late' : ClientOK(place'[d], m_stats'[d], m_cur_stats'[d], m_ops'[d])
  BY DEF StatsInv
<1>3. turn' = First
  OBVIOUS
<1>4. summary' = NoOps \/ (turn' = Merged /\ summary' = AllRows(target'.m_stats))
  BY DEF StatsInv
<1> QED  BY <1>1, <1>2, <1>3, <1>4 DEF StatsInv

LEMMA StartKeeps ==
    ASSUME StatsInv, NEW c \in Clients, set_start_time(c)
    PROVE  StatsInv'
<1>1. /\ UNCHANGED << now, m_end_time, m_cur_stats, m_stats, m_ops, late, turn, target, summary >>
      /\ turn = First
      /\ place' = [place EXCEPT ![c] = IF @ = "new" THEN "running" ELSE @]
      /\ m_start_time' = [m_start_time EXCEPT ![c] = timeval(now)]
  BY DEF set_start_time, Running, First
<1>2. TypeOK /\ timeval(now) \in Times
  <2>1. TypeOK
    BY DEF StatsInv
  <2>2. now \in Int
    BY <2>1 DEF TypeOK
  <2> QED  BY <2>1, <2>2, Timeval
<1>3. /\ place'[c] = place[c] \/ (place[c] = "new" /\ place'[c] = "running")
      /\ \A d \in Clients \ {c} : place'[d] = place[d]
  BY <1>1, <1>2 DEF TypeOK
<1>4. TypeOK'
  <2>1. place' \in [Clients -> {"new", "running", "ended", "lost"}]
    BY <1>1, <1>2 DEF TypeOK
  <2>2. m_start_time' \in [Clients -> Times]
    BY <1>1, <1>2 DEF TypeOK
  <2>3. \A d \in late' : d \in Clients /\ place'[d] = "ended"
    BY <1>1, <1>2, <1>3 DEF TypeOK
  <2> QED  BY <1>1, <1>2, <2>1, <2>2, <2>3 DEF TypeOK
<1>5. c \in late' \/ ClientOK(place'[c], m_stats'[c], m_cur_stats'[c], m_ops'[c])
  <2>1. c \notin late => ClientOK(place[c], m_stats[c], m_cur_stats[c], m_ops[c])
    BY DEF StatsInv
  <2>2. c \notin late => ClientOK(place'[c], m_stats[c], m_cur_stats[c], m_ops[c])
    BY <1>3, <2>1 DEF ClientOK
  <2> QED  BY <1>1, <2>2
<1> QED  BY <1>1, <1>3, <1>4, <1>5, ClientStep

LEMMA ReplyKeeps ==
    ASSUME StatsInv, NEW c \in Clients, NEW k \in Kinds, Reply(c, k)
    PROVE  StatsInv'
<1>0. /\ TypeOK
      /\ c \notin late => ClientOK(place[c], m_stats[c], m_cur_stats[c], m_ops[c])
      /\ m_stats[c] \in Seq(Rows) /\ m_cur_stats[c] \in Rows /\ m_ops[c] \in Nat
  BY DEF StatsInv, TypeOK
<1>1. /\ UNCHANGED << now, place, m_start_time, m_end_time, turn, target, summary >>
      /\ turn = First /\ place[c] \in {"running", "ended"}
      /\ m_ops' = [m_ops EXCEPT ![c] = @ + 1]
      /\ late' = late \cup { d \in {c} : place[d] = "ended" }
  BY DEF Reply, Running, First
<1>2. /\ \A d \in late : d \in late'
      /\ place[c] = "ended" => c \in late'
      /\ \A d \in late' : d \in Clients /\ place'[d] = "ended"
  BY <1>0, <1>1 DEF TypeOK
<1>3. place[c] = "running" => ClientOK("running", m_stats[c], m_cur_stats[c], m_ops[c])
  BY <1>0, <1>1 DEF TypeOK
<1>4. CASE Rolls(c)
  <2>1. /\ m_stats' = [m_stats EXCEPT ![c] = Append(@, m_cur_stats[c])]
        /\ m_cur_stats' = [m_cur_stats EXCEPT ![c] = Counted(Rolled(c), k)]
    BY <1>4 DEF Reply
  <2>2. Second(c) \in Int /\ Second(c) > m_cur_stats[c].m_second
    BY <1>0, <1>4, Timeval DEF Second, Rolls, TypeOK
  <2>3. Rolled(c) \in Rows
    BY <2>2, RowParts DEF Rolled
  <2>4. /\ Append(m_stats[c], m_cur_stats[c]) \in Seq(Rows)
        /\ Counted(Rolled(c), k) \in Rows /\ m_ops[c] + 1 \in Nat
    <3>1. Counted(Rolled(c), k) \in Rows
      BY ONLY <2>3, k \in Kinds, RowCounted, Zenon
    <3> QED  BY ONLY <1>0, <3>1
  <2>5. TypeOK'
    <3>1. m_stats' \in [Clients -> Seq(Rows)] /\ m_cur_stats' \in [Clients -> Rows]
      BY <1>0, <2>1, <2>4 DEF TypeOK
    <3> QED  BY <1>0, <1>1, <1>2, <2>4, <3>1 DEF TypeOK
  <2>6. /\ m_stats'[c] = Append(m_stats[c], m_cur_stats[c])
        /\ m_cur_stats'[c] = Counted(Rolled(c), k) /\ m_ops'[c] = m_ops[c] + 1
        /\ \A d \in Clients \ {c} : /\ m_stats'[d] = m_stats[d] /\ m_ops'[d] = m_ops[d]
                                    /\ m_cur_stats'[d] = m_cur_stats[d]
    BY <1>0, <1>1, <2>1 DEF TypeOK
  <2>7. ASSUME place[c] = "running"
        PROVE  ClientOK(place'[c], m_stats'[c], m_cur_stats'[c], m_ops'[c])
    <3>1. ClientOK("running", Append(m_stats[c], m_cur_stats[c]), Rolled(c), m_ops[c])
      BY <1>3, <2>2, <2>7, RowFiled DEF Rolled
    <3>2. ClientOK("running", Append(m_stats[c], m_cur_stats[c]), Counted(Rolled(c), k),
                   m_ops[c] + 1)
      BY <3>1, OpCounted
    <3> QED  BY <1>1, <2>6, <2>7, <3>2
  <2> QED  BY <1>1, <1>2, <2>5, <2>6, <2>7, ClientStep
<1>5. CASE ~Rolls(c)
  <2>1. /\ m_stats' = m_stats
        /\ m_cur_stats' = [m_cur_stats EXCEPT ![c] = Counted(@, k)]
    BY <1>5 DEF Reply
  <2>2. Counted(m_cur_stats[c], k) \in Rows /\ m_ops[c] + 1 \in Nat
    <3>1. Counted(m_cur_stats[c], k) \in Rows
      BY ONLY <1>0, k \in Kinds, RowCounted, Zenon
    <3> QED  BY ONLY <1>0, <3>1
  <2>3. TypeOK'
    <3>1. m_stats' \in [Clients -> Seq(Rows)] /\ m_cur_stats' \in [Clients -> Rows]
      BY <1>0, <2>1, <2>2 DEF TypeOK
    <3> QED  BY <1>0, <1>1, <1>2, <2>2, <3>1 DEF TypeOK
  <2>4. /\ m_stats'[c] = m_stats[c]
        /\ m_cur_stats'[c] = Counted(m_cur_stats[c], k) /\ m_ops'[c] = m_ops[c] + 1
        /\ \A d \in Clients \ {c} : /\ m_stats'[d] = m_stats[d] /\ m_ops'[d] = m_ops[d]
                                    /\ m_cur_stats'[d] = m_cur_stats[d]
    BY <1>0, <1>1, <2>1 DEF TypeOK
  <2>5. ASSUME place[c] = "running"
        PROVE  ClientOK(place'[c], m_stats'[c], m_cur_stats'[c], m_ops'[c])
    <3>1. ClientOK("running", m_stats[c], Counted(m_cur_stats[c], k), m_ops[c] + 1)
      BY <1>3, <2>5, OpCounted
    <3> QED  BY <1>1, <2>4, <2>5, <3>1
  <2> QED  BY <1>1, <1>2, <2>3, <2>4, <2>5, ClientStep
<1> QED  BY <1>4, <1>5

LEMMA EndKeeps ==
    ASSUME StatsInv, NEW c \in Clients, set_end_time(c)
    PROVE  StatsInv'
<1>0. TypeOK /\ \A d \in Clients \ late : ClientOK(place[d], m_stats[d], m_cur_stats[d], m_ops[d])
  BY DEF StatsInv
<1>1. /\ UNCHANGED << now, m_start_time, m_cur_stats, m_ops, late, turn, target, summary >>
      /\ place[c] = "running"
      /\ place' = [place EXCEPT ![c] = "ended"]
      /\ m_stats' = [m_stats EXCEPT ![c] = Append(@, m_cur_stats[c])]
  BY DEF set_end_time
<1>2. turn = First /\ c \notin late
  BY <1>0, <1>1 DEF StatsInv, Joined, TypeOK
<1>3. ClientOK("ended", Append(m_stats[c], m_cur_stats[c]), m_cur_stats[c], m_ops[c])
  BY <1>0, <1>1, <1>2, RowFiled
<1>4. Append(m_stats[c], m_cur_stats[c]) \in Seq(Rows)
  BY <1>3 DEF ClientOK
<1>5. /\ m_stats'[c] = Append(m_stats[c], m_cur_stats[c]) /\ place'[c] = "ended"
      /\ \A d \in Clients \ {c} : m_stats'[d] = m_stats[d] /\ place'[d] = place[d]
  BY <1>0, <1>1 DEF TypeOK
<1>6. TypeOK'
  <2>1. \A d \in late' : d \in Clients /\ place'[d] = "ended"
    BY <1>0, <1>1, <1>5 DEF TypeOK
  <2> QED  BY <1>0, <1>1, <1>4, <2>1 DEF TypeOK
<1>7. ClientOK(place'[c], m_stats'[c], m_cur_stats'[c], m_ops'[c])
  BY <1>1, <1>3, <1>5
<1> QED  BY <1>1, <1>2, <1>5, <1>6, <1>7, ClientStep

LEMMA LossKeeps ==
    ASSUME StatsInv, NEW c \in Clients, ConnectionLost(c)
    PROVE  StatsInv'
<1>0. TypeOK /\ \A d \in Clients \ late : ClientOK(place[d], m_stats[d], m_cur_stats[d], m_ops[d])
  BY DEF StatsInv
<1>1. /\ UNCHANGED << now, m_start_time, m_cur_stats, m_stats, m_ops, late, turn, target, summary >>
      /\ place[c] \in {"new", "running"}
      /\ place' = [place EXCEPT ![c] = "lost"]
  BY DEF ConnectionLost
<1>2. turn = First /\ c \notin late
  BY <1>0, <1>1 DEF StatsInv, Joined, TypeOK
<1>3. place'[c] = "lost" /\ \A d \in Clients \ {c} : place'[d] = place[d]
  BY <1>0, <1>1 DEF TypeOK
<1>4. TypeOK'
  <2>1. \A d \in late' : d \in Clients /\ place'[d] = "ended"
    BY <1>0, <1>1, <1>2, <1>3 DEF TypeOK
  <2> QED  BY <1>0, <1>1, <2>1 DEF TypeOK
<1>5. ClientOK(place[c], m_stats[c], m_cur_stats[c], m_ops[c])
  BY <1>0, <1>2
<1>6. ClientOK(place'[c], m_stats'[c], m_cur_stats'[c], m_ops'[c])
  BY <1>1, <1>3, <1>5 DEF ClientOK
<1> QED  BY <1>1, <1>2, <1>3, <1>4, <1>6, ClientStep

LEMMA InvNext == StatsInv /\ [Next]_vars => StatsInv'
<1> SUFFICES ASSUME StatsInv, [Next]_vars PROVE StatsInv'
  OBVIOUS
<1>0. /\ TypeOK
      /\ turn # First => Joined
      /\ MergeOK(turn, target, m_stats, m_ops)
      /\ summary = NoOps \/ (turn = Merged /\ summary = AllRows(target.m_stats))
  BY DEF StatsInv
<1>1. CASE Tick
  <2>1. UNCHANGED << clients, turn, target, summary >> /\ now' \in Int
    BY <1>0, <1>1 DEF Tick, TypeOK
  <2> QED  BY <1>0, <2>1 DEF StatsInv, clients, TypeOK, Joined
<1>2. ASSUME NEW c \in Clients, Client(c) PROVE StatsInv'
  BY <1>2, StartKeeps, ReplyKeeps, EndKeeps, LossKeeps DEF Client
<1>6. CASE merge
  <2>1. /\ Joined /\ turn # Merged /\ UNCHANGED << now, clients, summary >>
        /\ turn' = After(turn) /\ target' \in MergeInto(target, turn)
    BY <1>6 DEF merge
  <2>2. turn \in Clients
    BY <1>0, <2>1 DEF MergeOK
  <2>3. /\ target'.m_stats = MergeRows(target.m_stats, m_stats[turn])
        /\ target'.m_ops = target.m_ops + m_ops[turn]
    BY <2>1 DEF MergeInto
  <2>5. MergeOK(turn', target', m_stats, m_ops)
    BY <1>0, <2>1, <2>2, <2>3, ClientMerged DEF TypeOK
  <2>6. summary = NoOps
    BY <1>0, <2>1
  <2> QED  BY <1>0, <2>1, <2>5, <2>6 DEF StatsInv, clients, TypeOK, Joined
<1>7. CASE summarize
  <2>1. /\ Joined /\ turn = Merged /\ summary' = AllRows(target.m_stats)
        /\ UNCHANGED << now, clients, turn, target >>
    BY <1>7 DEF summarize
  <2> QED  BY <1>0, <2>1 DEF StatsInv, clients, TypeOK, Joined
<1>8. CASE UNCHANGED vars
  BY <1>0, <1>8 DEF StatsInv, vars, clients, TypeOK, Joined
<1> QED  BY <1>1, <1>2, <1>6, <1>7, <1>8 DEF Next

LEMMA InvAlways == Spec => []StatsInv
BY InvInit, InvNext, PTL DEF Spec

-----------------------------------------------------------------------------
(* Theorems                                                                *)

\* The seconds of the report, and of a client that counts nothing after its end, are
\* filed once and in order.
THEOREM OrderOfSeconds == Spec => []RowsInOrder
<1>1. StatsInv => RowsInOrder
  <2> SUFFICES ASSUME StatsInv PROVE RowsInOrder
    OBVIOUS
  <2>1. \A c \in Clients : m_stats[c] \in Seq(Rows)
    BY DEF StatsInv, TypeOK
  <2> QED  BY <2>1 DEF StatsInv, ClientOK, MergeOK, RowsInOrder
<1> QED  BY <1>1, InvAlways, PTL

\* The rows of a client add up to what its total says, unless it has counted replies
\* after its end.
THEOREM LedgerBalanced == Spec => []Ledger
<1>1. StatsInv => Ledger
  <2> SUFFICES ASSUME StatsInv, NEW c \in Clients \ late
               PROVE  m_ops[c] = SumFunction(AllRows(m_stats[c])) + Unfiled(c)
    BY DEF Ledger
  <2>1. ClientOK(place[c], m_stats[c], m_cur_stats[c], m_ops[c])
    BY DEF StatsInv
  <2>2. AllRows(m_stats[c]) \in Ops /\ m_cur_stats[c].ops \in Ops
    BY <2>1, AllRowsSum, RowParts DEF ClientOK
  <2>3. SumFunction(AllRows(m_stats[c])) = Total(m_stats[c])
    BY <2>2, SumOfOps DEF Total
  <2>4. SumFunction(m_cur_stats[c].ops) = SumFunctionOnSet(m_cur_stats[c].ops, Kinds)
    BY <2>2, SumOfOps
  <2> QED  BY <2>1, <2>3, <2>4 DEF ClientOK, Unfiled
<1> QED  BY <1>1, InvAlways, PTL

\* In every second the report has the operations of all clients.
THEOREM SecondsMerged == Spec => []MergedBySecond
<1>1. StatsInv => MergedBySecond
  <2> SUFFICES ASSUME StatsInv, turn = Merged, NEW s \in 0..MaxTick, NEW k \in Kinds
               PROVE  OpsIn(target.m_stats, s, k) = SumFunction(OpsOf(m_stats, s, k))
    BY DEF MergedBySecond, OpsOf
  <2>1. s \in Int
    OBVIOUS
  <2>2. OpsIn(target.m_stats, s, k) = SumFunctionOnSet(OpsOf(m_stats, s, k), Clients)
    BY <2>1, BeforeEnds DEF StatsInv, MergeOK
  <2>3. DOMAIN OpsOf(m_stats, s, k) = Clients
    BY DEF OpsOf
  <2> QED  BY <2>2, <2>3 DEF SumFunction
<1> QED  BY <1>1, InvAlways, PTL

\* The total has every reply, and the report has it too if no client has counted one
\* after its end.
THEOREM NothingLost == Spec => []ReportComplete
<1>1. StatsInv => ReportComplete
  <2> SUFFICES ASSUME StatsInv, turn = Merged, summary # NoOps
               PROVE  /\ target.m_ops = SumFunction(m_ops)
                      /\ late = {} =>
                           SumFunction(summary) + SumFunction([c \in Clients |-> Unfiled(c)])
                              = target.m_ops
    BY DEF ReportComplete
  <2> DEFINE unfiled == [c \in Clients |-> Unfiled(c)]
  <2>1. target.m_ops = SumFunctionOnSet(m_ops, Clients)
    BY BeforeEnds DEF StatsInv, MergeOK
  <2>2. SumFunction(m_ops) = SumFunctionOnSet(m_ops, Clients)
    BY DEF StatsInv, TypeOK, SumFunction
  <2>3. SumFunction(unfiled) = SumFunctionOnSet(unfiled, Clients)
    BY DEF SumFunction
  <2>4. SumFunction(summary) = SumFunctionOnSet(TotalOf(m_stats), Clients)
    <3>1. summary = AllRows(target.m_stats) /\ target.m_stats \in Seq(Rows)
      BY DEF StatsInv, MergeOK
    <3>2. SumFunction(summary) = Total(target.m_stats)
      BY <3>1, AllRowsSum, SumOfOps DEF Total
    <3> QED  BY <3>2, BeforeEnds DEF StatsInv, MergeOK
  <2>5. ASSUME late = {}
        PROVE  \A c \in Clients : /\ TotalOf(m_stats)[c] \in Int /\ unfiled[c] \in Int
                                  /\ m_ops[c] = TotalOf(m_stats)[c] + unfiled[c]
    <3> SUFFICES ASSUME NEW c \in Clients
                 PROVE  /\ TotalOf(m_stats)[c] \in Int /\ unfiled[c] \in Int
                        /\ m_ops[c] = TotalOf(m_stats)[c] + unfiled[c]
      OBVIOUS
    <3>1. ClientOK(place[c], m_stats[c], m_cur_stats[c], m_ops[c])
      BY <2>5 DEF StatsInv
    <3>2. AllRows(m_stats[c]) \in Ops /\ m_cur_stats[c].ops \in Ops
      BY <3>1, AllRowsSum, RowParts DEF ClientOK
    <3>3. /\ unfiled[c] = IF place[c] = "ended" THEN 0
                                               ELSE SumFunctionOnSet(m_cur_stats[c].ops, Kinds)
          /\ SumFunctionOnSet(m_cur_stats[c].ops, Kinds) \in Nat
          /\ Total(m_stats[c]) \in Nat
      BY <3>2, SumOfOps DEF Unfiled, Total
    <3>4. TotalOf(m_stats)[c] = Total(m_stats[c])
      BY DEF TotalOf
    <3> QED  BY <3>1, <3>3, <3>4 DEF ClientOK
  <2> HIDE DEF unfiled
  <2>6. late = {} => SumFunctionOnSet(m_ops, Clients)
          = SumFunctionOnSet(TotalOf(m_stats), Clients) + SumFunctionOnSet(unfiled, Clients)
    BY <2>5, ClientsFinite, SumPlus
  <2> QED  BY <2>1, <2>2, <2>3, <2>4, <2>6 DEF unfiled
<1> QED  BY <1>1, InvAlways, PTL

-----------------------------------------------------------------------------
(* The duration                                                            *)

ClockTimes == [sec: Nat, usec: { n \in Nat : n <= 999999 }]

\* Before the second L, or exactly at it; and not before it.
Sooner(L, t) == t.sec <= L /\ t.usec <= 999999 /\ (t.sec = L => t.usec <= 0)
Later(L, t) == t.sec >= L /\ t.usec >= 0

LEMMA Quotient ==
    \A x \in Int, w \in Nat \ {0} :
        /\ x \div w \in Int /\ w * (x \div w) <= x /\ x < w * (x \div w) + w
        /\ x % w = 0 => x = w * (x \div w)
OBVIOUS

LEMMA ProductMonotone ==
    /\ \A w \in Nat, a \in Int, b \in Int : a <= b => w * a <= w * b
    /\ \A w \in Nat \ {0}, a \in Int, b \in Int : w * a < w * b + w => a <= b
<1>1. \A w \in Nat, a \in Int, b \in Int : a <= b => w * a <= w * b
  OBVIOUS
<1>2. ASSUME NEW w \in Nat \ {0}, NEW a \in Int, NEW b \in Int, a > b
      PROVE  ~(w * a < w * b + w)
  <2>1. a >= b + 1
    BY <1>2
  <2>2. w * a >= w * (b + 1)
    BY <1>1, <2>1
  <2>3. w * (b + 1) = w * b + w
    OBVIOUS
  <2> QED  BY <2>2, <2>3
<1> QED  BY <1>1, <1>2

\* A weighted average that is cut off stays within the bounds of both values,
\* and reaches the upper one only when they do.
LEMMA CutBounds ==
    ASSUME NEW w \in Nat \ {0}, NEW a \in Int, NEW b \in Int, NEW E \in Int
    PROVE  LET q == ((w - 1) * a + b) \div w
           IN  /\ q \in Int
               /\ b <= E /\ (w = 1 \/ a <= E) => q <= E
               /\ b >= E /\ (w = 1 \/ a >= E) => q >= E
               /\ b <= E /\ (w = 1 \/ a <= E) /\ q = E => b = E /\ (w = 1 \/ a = E)
<1> DEFINE x == (w - 1) * a + b
           q == x \div w
<1>1. w - 1 \in Nat /\ x \in Int
  OBVIOUS
<1>2. q \in Int /\ w * q <= x /\ x < w * q + w
  BY <1>1, Quotient
<1> HIDE DEF q
<1>3. w * E = (w - 1) * E + E
  OBVIOUS
<1>4. ASSUME a <= E \/ w = 1 PROVE (w - 1) * a <= (w - 1) * E
  BY <1>1, <1>4, ProductMonotone
<1>5. ASSUME a >= E \/ w = 1 PROVE (w - 1) * a >= (w - 1) * E
  BY <1>1, <1>5, ProductMonotone
<1>6. ASSUME b <= E, w = 1 \/ a <= E PROVE q <= E
  <2>1. x <= w * E
    BY <1>3, <1>4, <1>6
  <2> HIDE DEF x
  <2>2. w * q < w * E + w
    BY <1>1, <1>2, <2>1
  <2> QED  BY <1>2, <2>2, ProductMonotone
<1>7. ASSUME b >= E, w = 1 \/ a >= E PROVE q >= E
  <2>1. x >= w * E
    BY <1>3, <1>5, <1>7
  <2> HIDE DEF x
  <2>2. w * E < w * q + w
    BY <1>1, <1>2, <2>1
  <2> QED  BY <1>2, <2>2, ProductMonotone
<1>8. ASSUME b <= E, w = 1 \/ a <= E, q = E PROVE b = E /\ (w = 1 \/ a = E)
  <2>1. (w - 1) * a + b >= (w - 1) * E + E
    BY <1>2, <1>3, <1>8
  <2>2. (w - 1) * a <= (w - 1) * E
    BY <1>4, <1>8
  <2>3. (w - 1) * a \in Int /\ (w - 1) * E \in Int
    OBVIOUS
  <2>4. b = E
    BY <1>8, <2>1, <2>2, <2>3
  <2>5. (w - 1) * E <= (w - 1) * a
    BY <2>1, <2>3, <2>4
  <2>6. ASSUME w # 1, a < E PROVE FALSE
    <3>1. w - 1 \in Nat \ {0} /\ a + 1 <= E
      BY <2>6
    <3>2. (w - 1) * (a + 1) <= (w - 1) * E
      BY <3>1, ProductMonotone
    <3>3. (w - 1) * (a + 1) = (w - 1) * a + (w - 1)
      OBVIOUS
    <3> QED  BY <2>3, <2>5, <3>1, <3>2, <3>3
  <2> QED  BY <1>8, <2>4, <2>6
<1> QED  BY <1>2, <1>6, <1>7, <1>8 DEF q

\* What is lost beyond the fraction costs a lower bound at most one, however often
\* averages are averaged, and the bound 0 nothing.
LEMMA AverageBounds ==
    ASSUME NEW w \in Nat \ {0}, NEW a \in Int, NEW b \in Int, NEW L \in Int,
           NEW q \in Averages(a, b, w)
    PROVE  /\ q \in Int
           /\ b <= L /\ (w = 1 \/ a <= L) => q <= L
           /\ b >= L + 1 /\ (w = 1 \/ a >= L) => q >= L
           /\ b >= 0 /\ (w = 1 \/ a >= 0) => q >= 0
           /\ b <= L /\ (w = 1 \/ a <= L) /\ q = L => b = L /\ (w = 1 \/ a = L)
<1> DEFINE x == (w - 1) * a + b
           f == x \div w
<1>1. q = f \/ (q = f - 1 /\ w > 2 /\ x > 0 /\ x % w = 0)
  BY DEF Averages
<1>2. /\ f \in Int
      /\ b <= L /\ (w = 1 \/ a <= L) => f <= L
      /\ b >= L /\ (w = 1 \/ a >= L) => f >= L
      /\ b <= L /\ (w = 1 \/ a <= L) /\ f = L => b = L /\ (w = 1 \/ a = L)
  BY ONLY w \in Nat \ {0}, a \in Int, b \in Int, L \in Int, CutBounds
<1>3. b >= 0 /\ (w = 1 \/ a >= 0) => f >= 0
  BY ONLY w \in Nat \ {0}, a \in Int, b \in Int, 0 \in Int, CutBounds
<1>4. x \in Int /\ x = (w - 1) * a + b
  OBVIOUS
<1>5. x % w = 0 => x = w * f
  BY <1>4, Quotient
<1> HIDE DEF x, f
<1>6. q \in Int /\ (b <= L /\ (w = 1 \/ a <= L) => q <= L)
  BY <1>1, <1>2
<1>7. ASSUME b >= L + 1, w = 1 \/ a >= L PROVE q >= L
  <2>1. CASE q = f
    BY <1>2, <1>7, <2>1
  <2>2. CASE q = f - 1 /\ w > 2 /\ x = w * f
    <3>1. (w - 1) * L <= (w - 1) * a
      <4>1. w - 1 \in Nat /\ L <= a
        BY <1>7, <2>2
      <4> QED  BY <4>1, ProductMonotone
    <3>2. (w - 1) * L + L = w * L /\ (w - 1) * L \in Int /\ (w - 1) * a \in Int
      OBVIOUS
    <3>3. w * f > w * L
      BY <1>4, <1>7, <2>2, <3>1, <3>2
    <3>4. ~(f <= L)
      <4>1. w \in Nat /\ w * f \in Int /\ w * L \in Int
        BY <1>2
      <4> QED  BY <1>2, <3>3, <4>1, ProductMonotone
    <3> QED  BY <1>2, <2>2, <3>4
  <2> QED  BY <1>1, <1>5, <2>1, <2>2
<1>8. ASSUME b >= 0, w = 1 \/ a >= 0 PROVE q >= 0
  <2>1. CASE q = f
    BY <1>3, <1>8, <2>1
  <2>2. CASE q = f - 1 /\ x > 0 /\ x = w * f
    <3>1. ~(f <= 0)
      <4>1. w \in Nat /\ w * f > 0 /\ w * 0 = 0
        BY <2>2
      <4> QED  BY <1>2, <4>1, ProductMonotone
    <3> QED  BY <1>2, <2>2, <3>1
  <2> QED  BY <1>1, <1>5, <2>1, <2>2
<1>9. ASSUME b <= L, w = 1 \/ a <= L, q = L PROVE b = L /\ (w = 1 \/ a = L)
  BY <1>1, <1>2, <1>9
<1> QED  BY <1>6, <1>7, <1>8, <1>9

LEMMA AverageOfTimes ==
    ASSUME NEW a \in Times, NEW b \in Times, NEW w \in Nat \ {0}, NEW L \in Int,
           NEW t \in timeval_factorial_average(a, b, w)
    PROVE  /\ t \in Times
           /\ Sooner(L, b) /\ (w = 1 \/ Sooner(L, a)) => Sooner(L, t)
           /\ Later(L + 1, b) /\ (w = 1 \/ Later(L, a)) => Later(L, t)
<1> DEFINE s == t.sec
           u == t.usec
<1>1. /\ t = [sec |-> s, usec |-> u]
      /\ s \in Averages(a.sec, b.sec, w) /\ u \in Averages(a.usec, b.usec, w)
  BY DEF timeval_factorial_average
<1>2. a.sec \in Int /\ a.usec \in Int /\ b.sec \in Int /\ b.usec \in Int
  BY DEF Times
<1> HIDE DEF s, u
<1>3. /\ s \in Int
      /\ b.sec <= L /\ (w = 1 \/ a.sec <= L) => s <= L
      /\ b.sec >= L + 1 /\ (w = 1 \/ a.sec >= L) => s >= L
      /\ b.sec <= L /\ (w = 1 \/ a.sec <= L) /\ s = L => b.sec = L /\ (w = 1 \/ a.sec = L)
  <2> DEFINE A == a.sec
             B == b.sec
  <2>1. s \in Averages(A, B, w) /\ A \in Int /\ B \in Int
    BY <1>1, <1>2
  <2> HIDE DEF A, B
  <2>2. /\ s \in Int
        /\ B <= L /\ (w = 1 \/ A <= L) => s <= L
        /\ B >= L + 1 /\ (w = 1 \/ A >= L) => s >= L
        /\ B >= 0 /\ (w = 1 \/ A >= 0) => s >= 0
        /\ B <= L /\ (w = 1 \/ A <= L) /\ s = L => B = L /\ (w = 1 \/ A = L)
    BY ONLY <2>1, w \in Nat \ {0}, L \in Int, AverageBounds
  <2> QED  BY <2>2 DEF A, B
<1>4. ASSUME NEW F \in Int
      PROVE  /\ u \in Int
             /\ b.usec <= F /\ (w = 1 \/ a.usec <= F) => u <= F
             /\ b.usec >= 0 /\ (w = 1 \/ a.usec >= 0) => u >= 0
  BY ONLY <1>1, <1>2, w \in Nat \ {0}, F \in Int, AverageBounds
<1>5. ASSUME Sooner(L, b), w = 1 \/ Sooner(L, a)
      PROVE  s <= L /\ u <= 999999 /\ (s = L => u <= 0)
  <2>1. u <= 999999
    BY <1>2, <1>4, <1>5 DEF Sooner
  <2>2. s <= L
    BY <1>2, <1>3, <1>5 DEF Sooner
  <2>3. ASSUME s = L PROVE u <= 0
    <3>1. b.sec = L /\ (w = 1 \/ a.sec = L)
      BY <1>2, <1>3, <1>5, <2>3 DEF Sooner
    <3>2. b.usec <= 0 /\ (w = 1 \/ a.usec <= 0)
      BY <1>5, <3>1 DEF Sooner
    <3> QED  BY <1>4, <3>2
  <2> QED  BY <2>1, <2>2, <2>3
<1>6. ASSUME Later(L + 1, b), w = 1 \/ Later(L, a) PROVE s >= L /\ u >= 0
  BY <1>2, <1>3, <1>4, <1>6 DEF Later
<1>7. t \in Times
  <2>1. u \in Int
    BY <1>4
  <2> QED  BY <1>1, <1>3, <2>1 DEF Times
<1> QED  BY <1>5, <1>6, <1>7 DEF Sooner, Later, s, u

\* The averages lie where all clients' times do, once one is merged.
Averaged(result, starts, ends) ==
    \A L \in Int :
        (\A c \in Clients : Sooner(L, starts[c]) /\ Later(L + 1, ends[c]))
            => Sooner(L, result.m_start_time) /\ Later(L, result.m_end_time)

DurationInv ==
    /\ now \in Nat
    /\ m_start_time \in [Clients -> ClockTimes] /\ m_end_time \in [Clients -> ClockTimes]
    /\ target.m_start_time \in Times /\ target.m_end_time \in Times
    /\ turn = First => target.m_start_time = NotSet /\ target.m_end_time = NotSet
    /\ turn # First => Averaged(target, m_start_time, m_end_time)

LEMMA ClockTime == NotSet \in ClockTimes /\ \A tick \in Nat : timeval(tick) \in ClockTimes
<1>1. NotSet \in ClockTimes
  BY DEF NotSet, ClockTimes
<1>2. ASSUME NEW tick \in Nat PROVE timeval(tick) \in ClockTimes
  <2> DEFINE T == TicksPerSecond
             q == 1000000 \div T
             r == tick % T
  <2>1. T \in Nat \ {0}
    BY StatsAssumption
  <2> HIDE DEF T
  <2>2. q \in Int /\ T * q <= 1000000 /\ 1000000 < T * q + T
    BY <2>1, Quotient
  <2>3. r \in 0..(T - 1) /\ tick \div T \in Nat
    BY <2>1
  <2>4. q \in Nat
    <3>1. T * 0 < T * q + T
      BY <2>1, <2>2
    <3>2. 0 <= q
      BY <2>1, <2>2, <3>1, ProductMonotone
    <3> QED  BY <2>2, <3>2
  <2> HIDE DEF q, r
  <2>5. r * q \in Nat
    BY <2>3, <2>4
  <2>6. r * q <= 999999
    <3>1. q * r <= q * (T - 1)
      BY <2>1, <2>3, <2>4, ProductMonotone
    <3>2. q * (T - 1) = T * q - q /\ r * q = q * r /\ T * q \in Int
      BY <2>1, <2>3, <2>4
    <3>3. CASE q = 0
      BY <2>3, <3>3
    <3>4. CASE q # 0
      BY <2>2, <2>4, <2>5, <3>1, <3>2, <3>4
    <3> QED  BY <3>3, <3>4
  <2> QED  BY <2>3, <2>5, <2>6 DEF timeval, ClockTimes, T, q, r
<1> QED  BY <1>1, <1>2

LEMMA DurationInit == Init => DurationInv
<1> SUFFICES ASSUME Init PROVE DurationInv
  OBVIOUS
<1>1. now \in Nat
  BY StatsAssumption DEF Init
<1>2. NotSet \in Times /\ NotSet \in ClockTimes
  BY Timeval, ClockTime
<1> QED  BY <1>1, <1>2 DEF Init, DurationInv, First

LEMMA DurationNext == StatsInv /\ DurationInv /\ [Next]_vars => DurationInv'
<1> SUFFICES ASSUME StatsInv, DurationInv, [Next]_vars PROVE DurationInv'
  OBVIOUS
<1>0. /\ now \in Nat
      /\ m_start_time \in [Clients -> ClockTimes] /\ m_end_time \in [Clients -> ClockTimes]
      /\ target.m_start_time \in Times /\ target.m_end_time \in Times
      /\ turn = First => target.m_start_time = NotSet /\ target.m_end_time = NotSet
      /\ turn # First => Averaged(target, m_start_time, m_end_time)
      /\ turn # First => Joined
      /\ turn \in Clients \cup {Merged}
  BY DEF StatsInv, DurationInv, MergeOK
<1>1. ASSUME UNCHANGED << turn, target >>, now' \in Nat,
             m_start_time' \in [Clients -> ClockTimes], m_end_time' \in [Clients -> ClockTimes],
             turn = First \/ UNCHANGED << m_start_time, m_end_time >>
      PROVE  DurationInv'
  <2>1. turn' = turn /\ target' = target
    BY <1>1
  <2>2. turn' # First => Averaged(target', m_start_time', m_end_time')
    <3> SUFFICES ASSUME turn # First PROVE Averaged(target', m_start_time', m_end_time')
      BY <2>1
    <3>1. m_start_time' = m_start_time /\ m_end_time' = m_end_time
      BY <1>0, <1>1
    <3> QED  BY ONLY <1>0, <2>1, <3>1, turn # First
  <2>3. turn' = First => target'.m_start_time = NotSet /\ target'.m_end_time = NotSet
    BY <1>0, <2>1
  <2> QED  BY <1>0, <1>1, <2>1, <2>2, <2>3 DEF DurationInv
<1>2. CASE Tick
  <2>1. UNCHANGED << turn, target, m_start_time, m_end_time >> /\ now' \in Nat
    BY <1>0, <1>2 DEF Tick, clients
  <2> QED  BY <1>0, <1>1, <2>1
<1>3. ASSUME NEW c \in Clients, set_start_time(c) PROVE DurationInv'
  <2>1. /\ UNCHANGED << now, turn, target, m_end_time >> /\ turn = First
        /\ m_start_time' = [m_start_time EXCEPT ![c] = timeval(now)]
    BY <1>3 DEF set_start_time, Running, First
  <2>2. m_start_time' \in [Clients -> ClockTimes]
    BY <1>0, <2>1, ClockTime
  <2> QED  BY <1>0, <1>1, <2>1, <2>2
<1>4. ASSUME NEW c \in Clients, set_end_time(c) PROVE DurationInv'
  <2>1. /\ UNCHANGED << now, turn, target, m_start_time >> /\ turn = First
        /\ m_end_time' = [m_end_time EXCEPT ![c] = timeval(now)]
    BY <1>0, <1>4 DEF set_end_time, Joined
  <2>2. m_end_time' \in [Clients -> ClockTimes]
    BY <1>0, <2>1, ClockTime
  <2> QED  BY <1>0, <1>1, <2>1, <2>2
<1>5. ASSUME NEW c \in Clients, ConnectionLost(c) \/ \E k \in Kinds : Reply(c, k)
      PROVE  DurationInv'
  <2>1. UNCHANGED << now, turn, target, m_start_time, m_end_time >>
    BY <1>5 DEF ConnectionLost, Reply
  <2> QED  BY <1>0, <1>1, <2>1
<1>6. CASE merge
  <2> DEFINE w == turn[2]
             s == target'.m_start_time
             e == target'.m_end_time
  <2>1. /\ UNCHANGED << now, m_start_time, m_end_time >> /\ turn \in Clients
        /\ turn' = After(turn)
        /\ s \in timeval_factorial_average(target.m_start_time, m_start_time[turn], w)
        /\ e \in timeval_factorial_average(target.m_end_time, m_end_time[turn], w)
    <3>1. target' \in MergeInto(target, turn) /\ turn # Merged /\ turn' = After(turn)
          /\ UNCHANGED << now, m_start_time, m_end_time >>
      BY <1>6 DEF merge, clients
    <3> QED  BY <1>0, <3>1 DEF MergeInto
  <2>2. w \in Nat \ {0}
    <3>1. PICK g \in 1..Len(GroupSizes) : \E i \in 1..GroupSizes[g] : turn = << g, i >>
      BY <2>1, ClientParts
    <3>2. PICK i \in 1..GroupSizes[g] : turn = << g, i >>
      BY <3>1
    <3> QED  BY <3>2, Sizes
  <2>3. turn = First => w = 1
    BY DEF First
  <2>4. After(turn) # First
    <3>1. turn \in Before(After(turn))
      BY <2>1, BeforeAfter
    <3> QED  BY <3>1, BeforeEnds
  <2>5. /\ m_start_time[turn] \in Times /\ m_end_time[turn] \in Times
        /\ target.m_start_time \in Times /\ target.m_end_time \in Times
    BY <1>0, <2>1 DEF ClockTimes, Times
  <2> HIDE DEF w, s, e
  <2>6. s \in Times /\ e \in Times
    BY ONLY <2>1, <2>2, <2>5, 0 \in Int, AverageOfTimes
  <2>7. ASSUME NEW L \in Int,
               \A c \in Clients : Sooner(L, m_start_time[c]) /\ Later(L + 1, m_end_time[c])
        PROVE  Sooner(L, s) /\ Later(L, e)
    <3>1. Sooner(L, m_start_time[turn]) /\ Later(L + 1, m_end_time[turn])
      BY <2>1, <2>7
    <3>2. w = 1 \/ (Sooner(L, target.m_start_time) /\ Later(L, target.m_end_time))
      BY <1>0, <2>3, <2>7 DEF Averaged
    <3> QED  BY ONLY <2>1, <2>2, <2>5, <3>1, <3>2, L \in Int, AverageOfTimes
  <2>8. Averaged(target', m_start_time, m_end_time)
    BY <2>7 DEF Averaged, s, e
  <2>9. Averaged(target', m_start_time', m_end_time')
    BY <2>1, <2>8
  <2> QED  BY <1>0, <2>1, <2>4, <2>6, <2>9 DEF DurationInv, s, e
<1>7. CASE summarize
  <2>1. UNCHANGED << now, turn, target, m_start_time, m_end_time >>
    BY <1>7 DEF summarize, clients
  <2> QED  BY <1>0, <1>1, <2>1
<1>8. CASE UNCHANGED vars
  <2>1. UNCHANGED << now, turn, target, m_start_time, m_end_time >>
    BY <1>8 DEF vars, clients
  <2> QED  BY <1>0, <1>1, <2>1
<1> QED  BY <1>2, <1>3, <1>4, <1>5, <1>6, <1>7, <1>8 DEF Next, Client

\* The averaged start does not come after the averaged end, when every client starts
\* a second before the one in which the first of them ends.
THEOREM DurationNotNegative == Spec => []DurationSane
<1>1. StatsInv /\ DurationInv => DurationSane
  <2> SUFFICES ASSUME StatsInv, DurationInv, turn = Merged,
                      \A c, d \in Clients :
                         ts_diff(m_start_time[c], [m_end_time[d] EXCEPT !.usec = 0]) >= 1000000
               PROVE  ts_diff(target.m_start_time, target.m_end_time) >= 0
    BY DEF DurationSane
  <2>1. CASE turn = First
    BY <2>1 DEF DurationInv, NotSet, ts_diff
  <2>2. CASE turn # First
    <3>1. First \in Clients
      <4>1. Len(GroupSizes) \in Nat /\ Len(GroupSizes) # 0
        BY <2>2, Sizes DEF First, Merged
      <4>2. 1 \in 1..Len(GroupSizes)
        BY <4>1
      <4>3. 1 \in 1..GroupSizes[1]
        BY <4>2, Sizes
      <4> QED  BY <4>2, <4>3, ClientParts DEF First
    <3>2. \A c \in Clients : m_start_time[c] \in ClockTimes /\ m_end_time[c] \in ClockTimes
      BY DEF DurationInv
    <3> DEFINE Ends == { m_end_time[d].sec : d \in Clients }
    <3>3. Ends \in SUBSET Nat /\ Ends # {}
      <4>1. \A c \in Clients : m_end_time[c].sec \in Nat
        BY <3>2 DEF ClockTimes
      <4>2. m_end_time[First].sec \in Ends
        BY <3>1
      <4> QED  BY <4>1, <4>2
    <3>4. PICK E \in Ends : \A n \in Ends : E <= n
      <4> HIDE DEF Ends
      <4> QED  BY <3>3, LeastNat
    <3>5. PICK d \in Clients : E = m_end_time[d].sec
      BY <3>4
    <3> DEFINE L == E - 1
    <3>6. ASSUME NEW c \in Clients
          PROVE  Sooner(L, m_start_time[c]) /\ Later(L + 1, m_end_time[c])
      <4>1. /\ m_start_time[c].sec \in Nat /\ m_start_time[c].usec \in Nat
            /\ m_start_time[c].usec <= 999999
            /\ m_end_time[c].sec \in Nat /\ m_end_time[c].usec \in Nat
            /\ m_end_time[c].sec \in Ends
        BY <3>2 DEF ClockTimes
      <4>2. (E - m_start_time[c].sec) * 1000000 + (0 - m_start_time[c].usec) >= 1000000
        <5>1. /\ [m_end_time[d] EXCEPT !.usec = 0].sec = E
              /\ [m_end_time[d] EXCEPT !.usec = 0].usec = 0
          BY <3>2, <3>5 DEF ClockTimes
        <5>2. ts_diff(m_start_time[c], [m_end_time[d] EXCEPT !.usec = 0]) >= 1000000
          OBVIOUS
        <5> QED  BY <5>1, <5>2 DEF ts_diff
      <4>3. E \in Nat /\ E <= m_end_time[c].sec
        BY <3>3, <3>4, <4>1
      <4>4. m_start_time[c].sec <= L /\ (m_start_time[c].sec = L => m_start_time[c].usec <= 0)
        <5>1. \A s, u \in Int : (E - s) * 1000000 + (0 - u) >= 1000000 /\ u >= 0
                                  => s <= E - 1 /\ (s = E - 1 => u <= 0)
          BY ONLY <4>3
        <5> QED  BY ONLY <4>1, <4>2, <5>1
      <4>5. m_end_time[c].sec >= L + 1
        BY ONLY <4>1, <4>3
      <4> HIDE DEF Ends, L
      <4> QED  BY <4>1, <4>4, <4>5 DEF Sooner, Later
    <3>7. L \in Int
      <4>1. E \in Nat
        BY <3>3, <3>4
      <4> QED  BY ONLY <4>1
    <3> HIDE DEF L
    <3>8. Sooner(L, target.m_start_time) /\ Later(L, target.m_end_time)
      BY <2>2, <3>6, <3>7 DEF DurationInv, Averaged
    <3>9. target.m_start_time \in Times /\ target.m_end_time \in Times
      BY DEF DurationInv
    <3>10. ASSUME NEW a \in Times, NEW b \in Times, Sooner(L, a), Later(L, b)
           PROVE  ts_diff(a, b) >= 0
      <4>1. /\ a.sec \in Int /\ a.usec \in Int /\ b.sec \in Int /\ b.usec \in Int
            /\ a.sec <= L /\ a.usec <= 999999 /\ (a.sec = L => a.usec <= 0)
            /\ b.sec >= L /\ b.usec >= 0
        BY <3>10 DEF Times, Sooner, Later
      <4>2. (b.sec - a.sec) * 1000000 + (b.usec - a.usec) >= 0
        BY <3>7, <4>1, SMT
      <4> QED  BY <4>2 DEF ts_diff
    <3> HIDE DEF Ends
    <3> QED  BY <3>8, <3>9, <3>10
  <2> QED  BY <2>1, <2>2
<1> QED  BY <1>1, InvInit, InvNext, DurationInit, DurationNext, PTL DEF Spec

=============================================================================
