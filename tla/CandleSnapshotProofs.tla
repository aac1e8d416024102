------------------------- MODULE CandleSnapshotProofs -------------------------
(***************************************************************************)
(* Proofs about CandleSnapshot, for any finite sets of symbols and         *)
(* indices, any rows and sizes, any flags and any budgets.                 *)
(*                                                                         *)
(* LedgerExact is not inductive: what a reset gives back is snap, which it *)
(* does not mention.  Grown says what snap is: the weight a symbol has     *)
(* gained over the rows that are protected, all of which it still holds.   *)
(* Transactions says whose events are buffered and applied, so that no     *)
(* transaction of a symbol is open or under way once its snapshot ends.    *)
(***************************************************************************)
EXTENDS CandleSnapshot, FiniteSetTheorems, TLAPS

\* The rows and indices that are held, and what they weigh.
Filled(rows) == {i \in Indices : rows[i] # NoRow}
Weight(row) == IF row = NoRow THEN 0 ELSE SizeOf[row]
Weighs(d) == RowBytes(d.rows) + IndexBytes * Cardinality(d.seen)

\* What a symbol is charged for besides its rows and indices.
Charged(s) ==
  NameBytes * Cardinality(heard[s]) + EventBytes * Len(pending[s]) + stranded[s]

\* A symbol's counters count what it holds.
Counted(d) ==
  /\ d.unique = Cardinality(d.seen)
  /\ d.count = Cardinality(Filled(d.rows)) /\ d.count <= MaxRows

\* d holds everything that k held, and snap is what it has gained since.
Grown(d, k) ==
  /\ k.seen \subseteq d.seen
  /\ \A i \in Indices : k.rows[i] # NoRow => d.rows[i] = k.rows[i]
  /\ d.snap = Weighs(d) - Weighs(k)

\* d is sound data of a symbol with protected data k, charged for the rest.
Retained(d, k, charged) ==
  d \in Data /\ Counted(d) /\ Grown(d, k) /\ d.bytes = Weighs(d) + charged

\* Every symbol's ledger.
Exact ==
  \A s \in Symbols :
    /\ Counted(kept[s]) /\ IsFiniteSet(heard[s])
    /\ Retained(data[s], kept[s], Charged(s))

\* The attempt's own counters, and the budgets.
AllBytes == Total([s \in Symbols |-> data[s].bytes])
Budgets ==
  /\ bytes = AllBytes + (IF unmatched THEN NameBytes ELSE 0)
  /\ Buffered <= MaxBuffer
  /\ daily => events <= MaxEvents

\* A transaction holds events of one symbol; none is buffered for a symbol that
\* has ended, or while one is applied; and only a message applies one.
Transactions ==
  /\ \A s \in Symbols : \A k \in DOMAIN pending[s] : pending[s][k].sym = s
  /\ \A s \in Symbols : Terminal(s) => pending[s] = <<>>
  /\ \A j, k \in DOMAIN todo : todo[j].sym = todo[k].sym
  /\ \A k \in DOMAIN todo : pending[todo[k].sym] = <<>>
  /\ ~busy => todo = <<>>
  /\ busy => queued > 0

\* Nothing is protected or cut off before a reconnect that resumes.
Attempts ==
  attempt = 1 \/ ~daily => kept = PerSymbol(NoData) /\ stranded = PerSymbol(0)

IInv == TypeOK /\ Exact /\ Budgets /\ Transactions /\ Attempts

-----------------------------------------------------------------------------
(* Sums.                                                                   *)

\* One element for each unit of each term.
Units(f) == UNION {{x} \X (1..f[x]) : x \in DOMAIN f}

LEMMA IntervalSize ==
  ASSUME NEW n \in Nat
  PROVE  IsFiniteSet(1..n) /\ Cardinality(1..n) = n
<1>1. IsFiniteSet(1..n) /\ Cardinality(1..n) = IF 1 > n THEN 0 ELSE n - 1 + 1
  BY FS_Interval
<1> QED
  BY <1>1

LEMMA RowOfUnits ==
  ASSUME NEW x, NEW n \in Nat
  PROVE  IsFiniteSet({x} \X (1..n)) /\ Cardinality({x} \X (1..n)) = n
<1>1. IsFiniteSet({x}) /\ Cardinality({x}) = 1
  BY FS_Singleton
<1>2. IsFiniteSet({x} \X (1..n))
      /\ Cardinality({x} \X (1..n)) = Cardinality({x}) * Cardinality(1..n)
  BY <1>1, IntervalSize, FS_Product
<1> QED
  BY <1>1, <1>2, IntervalSize

LEMMA UnitsFinite ==
  ASSUME NEW S, IsFiniteSet(S), NEW f \in [S -> Nat], NEW T \in SUBSET S
  PROVE  IsFiniteSet(UNION {{x} \X (1..f[x]) : x \in T})
<1> DEFINE R == {{x} \X (1..f[x]) : x \in T}
           g == [x \in T |-> {x} \X (1..f[x])]
<1>1. IsFiniteSet(T)
  BY FS_Subset
<1>2. g \in Surjection(T, R)
  BY DEF Surjection
<1>3. IsFiniteSet(R)
  BY <1>1, <1>2, FS_Surjection
<1>4. \A U \in R : IsFiniteSet(U)
  <2>1. \A x \in T : f[x] \in Nat
    OBVIOUS
  <2>2. \A x \in T : IsFiniteSet({x} \X (1..f[x]))
    BY <2>1, RowOfUnits
  <2> QED
    BY <2>2
<1> QED
  BY <1>3, <1>4, FS_UNION

LEMMA TotalIsNat ==
  ASSUME NEW S, IsFiniteSet(S), NEW f \in [S -> Nat]
  PROVE  Total(f) \in Nat
<1>1. IsFiniteSet(UNION {{x} \X (1..f[x]) : x \in DOMAIN f})
  BY UnitsFinite
<1> QED
  BY <1>1, FS_CardinalityType DEF Total

LEMMA TotalMonotone ==
  ASSUME NEW S, IsFiniteSet(S), NEW f \in [S -> Nat], NEW g \in [S -> Nat],
         \A x \in S : f[x] <= g[x]
  PROVE  Total(f) <= Total(g)
<1>1. Units(f) \subseteq Units(g)
  BY DEF Units
<1>2. IsFiniteSet(Units(g))
  BY UnitsFinite DEF Units
<1> QED
  BY <1>1, <1>2, FS_Subset DEF Total, Units

\* One term can be taken out of a sum.
LEMMA TotalSplit ==
  ASSUME NEW S, IsFiniteSet(S), NEW f \in [S -> Nat], NEW x \in S
  PROVE  LET rest == UNION {{y} \X (1..f[y]) : y \in S \ {x}}
         IN  /\ Cardinality(rest) \in Nat
             /\ Total(f) = f[x] + Cardinality(rest)
<1> DEFINE rest == UNION {{y} \X (1..f[y]) : y \in S \ {x}}
           own == {x} \X (1..f[x])
<1>1. IsFiniteSet(rest) /\ Cardinality(rest) \in Nat
  BY UnitsFinite, FS_CardinalityType
<1>2. IsFiniteSet(own) /\ Cardinality(own) = f[x]
  BY RowOfUnits
<1>3. Units(f) = own \cup rest
  BY DEF Units
<1>4. own \cap rest = {}
  OBVIOUS
<1>5. Cardinality(own \cup rest) =
        Cardinality(own) + Cardinality(rest) - Cardinality(own \cap rest)
  BY <1>1, <1>2, FS_Union
<1>6. Cardinality(own \cap rest) = 0
  BY <1>4, FS_EmptySet
<1>7. Total(f) = Cardinality(own \cup rest)
  BY <1>3 DEF Total
<1>8. f[x] \in Nat
  OBVIOUS
<1> HIDE DEF own, rest
<1>9. Total(f) = f[x] + Cardinality(rest)
  BY <1>1, <1>2, <1>5, <1>6, <1>7, <1>8
<1> QED
  BY <1>1, <1>9 DEF rest

\* Changing one term changes the sum by as much.
LEMMA TotalUpdate ==
  ASSUME NEW S, IsFiniteSet(S), NEW f \in [S -> Nat], NEW g \in [S -> Nat],
         NEW x \in S, \A y \in S \ {x} : g[y] = f[y]
  PROVE  Total(g) = Total(f) + g[x] - f[x]
<1> DEFINE rest(h) == UNION {{y} \X (1..h[y]) : y \in S \ {x}}
<1>1. Cardinality(rest(f)) \in Nat /\ Total(f) = f[x] + Cardinality(rest(f))
  BY TotalSplit
<1>2. Total(g) = g[x] + Cardinality(rest(g))
  BY TotalSplit
<1>3. rest(g) = rest(f)
  OBVIOUS
<1>4. f[x] \in Nat /\ g[x] \in Nat
  OBVIOUS
<1> HIDE DEF rest
<1> QED
  BY <1>1, <1>2, <1>3, <1>4

LEMMA TotalOfNothing ==
  ASSUME NEW S
  PROVE  Total([x \in S |-> 0]) = 0
<1>1. 1..0 = {}
  OBVIOUS
<1>2. Units([x \in S |-> 0]) = {}
  BY <1>1 DEF Units
<1> QED
  BY <1>2, FS_EmptySet DEF Total

-----------------------------------------------------------------------------
(* Bytes.                                                                  *)

LEMMA ConstantTypes ==
  /\ IsFiniteSet(Symbols) /\ IsFiniteSet(Indices)
  /\ NoRow \notin Rows /\ Wanted \subseteq Rows
  /\ \A r \in Rows : SizeOf[r] \in Nat
  /\ IndexBytes \in Nat /\ NameBytes \in Nat /\ EventBytes \in Nat
  /\ MessageBytes \in Nat /\ MaxBuffer \in Nat /\ MaxEvents \in Nat
  /\ MaxRows \in Nat /\ MaxQueued \in Nat
BY FiniteAssumption, RowAssumption, SizeAssumption

LEMMA Times0 ==
  ASSUME NEW m \in Nat, NEW a \in Int, NEW b \in Int
  PROVE  /\ m * (a + b) = m * a + m * b
         /\ m * (a + 1) = m * a + m /\ m * (a - 1) = m * a - m
         /\ m * a \in Int /\ (a >= 0 => m * a >= 0 /\ m * a \in Nat)
         /\ m * 0 = 0 /\ m * 1 = m /\ a * m = m * a
         /\ (a + 1) * m = a * m + m
OBVIOUS

LEMMA RowBytesIsNat ==
  ASSUME NEW rows \in [Indices -> Rows \cup {NoRow}]
  PROVE  RowBytes(rows) \in Nat
<1>1. [i \in Indices |-> IF rows[i] = NoRow THEN 0 ELSE SizeOf[rows[i]]]
        \in [Indices -> Nat]
  BY ConstantTypes
<1> QED
  BY <1>1, TotalIsNat, ConstantTypes DEF RowBytes

\* Replacing one row changes the bytes by the difference of the two.
LEMMA RowBytesUpdate ==
  ASSUME NEW rows \in [Indices -> Rows \cup {NoRow}], NEW i \in Indices,
         NEW row \in Rows \cup {NoRow}
  PROVE  RowBytes([rows EXCEPT ![i] = row])
           = RowBytes(rows) + Weight(row) - Weight(rows[i])
<1> DEFINE f == [j \in Indices |-> IF rows[j] = NoRow THEN 0 ELSE SizeOf[rows[j]]]
           new == [rows EXCEPT ![i] = row]
           g == [j \in Indices |-> IF new[j] = NoRow THEN 0 ELSE SizeOf[new[j]]]
<1>1. f \in [Indices -> Nat] /\ g \in [Indices -> Nat]
  BY ConstantTypes
<1>2. /\ \A j \in Indices \ {i} : g[j] = f[j]
      /\ g[i] = Weight(row) /\ f[i] = Weight(rows[i])
  BY DEF Weight
<1>3. Total(g) = Total(f) + g[i] - f[i]
  BY <1>1, <1>2, ConstantTypes, TotalUpdate
<1> QED
  BY <1>2, <1>3 DEF RowBytes

LEMMA RowBytesMonotone ==
  ASSUME NEW old \in [Indices -> Rows \cup {NoRow}],
         NEW rows \in [Indices -> Rows \cup {NoRow}],
         \A i \in Indices : old[i] # NoRow => rows[i] = old[i]
  PROVE  RowBytes(old) <= RowBytes(rows)
<1> DEFINE f == [j \in Indices |-> IF old[j] = NoRow THEN 0 ELSE SizeOf[old[j]]]
           g == [j \in Indices |-> IF rows[j] = NoRow THEN 0 ELSE SizeOf[rows[j]]]
<1>1. f \in [Indices -> Nat] /\ g \in [Indices -> Nat]
  BY ConstantTypes
<1>2. \A j \in Indices : f[j] <= g[j]
  BY ConstantTypes
<1> QED
  BY <1>1, <1>2, ConstantTypes, TotalMonotone DEF RowBytes

LEMMA SeenIsFinite ==
  ASSUME NEW seen \in SUBSET Indices
  PROVE  IsFiniteSet(seen) /\ Cardinality(seen) \in Nat
BY ConstantTypes, FS_Subset, FS_CardinalityType

LEMMA WeighsIsNat ==
  ASSUME NEW d \in Data
  PROVE  Weighs(d) \in Nat /\ RowBytes(d.rows) \in Nat /\ Cardinality(d.seen) \in Nat
<1>1. d.rows \in [Indices -> Rows \cup {NoRow}] /\ d.seen \in SUBSET Indices
  BY DEF Data
<1>2. RowBytes(d.rows) \in Nat /\ Cardinality(d.seen) \in Nat
  BY <1>1, RowBytesIsNat, SeenIsFinite
<1> QED
  BY <1>2, ConstantTypes DEF Weighs

\* Data that holds everything k held weighs at least as much.
LEMMA GrownWeighs ==
  ASSUME NEW d \in Data, NEW k \in Data, k.seen \subseteq d.seen,
         \A i \in Indices : k.rows[i] # NoRow => d.rows[i] = k.rows[i]
  PROVE  Weighs(k) <= Weighs(d)
<1>1. /\ d.rows \in [Indices -> Rows \cup {NoRow}] /\ d.seen \in SUBSET Indices
      /\ k.rows \in [Indices -> Rows \cup {NoRow}] /\ k.seen \in SUBSET Indices
  BY DEF Data
<1>2. RowBytes(k.rows) <= RowBytes(d.rows)
  BY <1>1, RowBytesMonotone
<1>3. Cardinality(k.seen) <= Cardinality(d.seen)
  BY <1>1, SeenIsFinite, FS_Subset
<1>4. IndexBytes * Cardinality(k.seen) <= IndexBytes * Cardinality(d.seen)
  <2>1. Cardinality(d.seen) - Cardinality(k.seen) \in Nat
    BY <1>3, WeighsIsNat
  <2>2. IndexBytes * (Cardinality(k.seen) + (Cardinality(d.seen) - Cardinality(k.seen)))
        = IndexBytes * Cardinality(k.seen)
          + IndexBytes * (Cardinality(d.seen) - Cardinality(k.seen))
    BY <2>1, WeighsIsNat, ConstantTypes
  <2>3. IndexBytes * (Cardinality(d.seen) - Cardinality(k.seen)) \in Nat
    BY <2>1, ConstantTypes
  <2>4. Cardinality(k.seen) + (Cardinality(d.seen) - Cardinality(k.seen)) = Cardinality(d.seen)
    BY WeighsIsNat
  <2>5. IndexBytes * Cardinality(k.seen) \in Nat
    BY WeighsIsNat, ConstantTypes
  <2> QED
    BY <2>2, <2>3, <2>4, <2>5
<1> QED
  BY <1>2, <1>4, WeighsIsNat, ConstantTypes DEF Weighs

-----------------------------------------------------------------------------
(* What an event does to the rows of its symbol.                           *)

LEMMA DataFields ==
  ASSUME NEW d \in Data
  PROVE  /\ d.rows \in [Indices -> Rows \cup {NoRow}] /\ d.seen \in SUBSET Indices
         /\ d.snap \in Nat /\ d.bytes \in Nat /\ d.unique \in Nat /\ d.count \in Nat
BY DEF Data

LEMMA FilledFinite ==
  ASSUME NEW rows
  PROVE  IsFiniteSet(Filled(rows)) /\ Cardinality(Filled(rows)) \in Nat
BY ConstantTypes, FS_Subset, FS_CardinalityType DEF Filled

\* A reset gives back exactly what the symbol has gained since the reconnect.
LEMMA ResetKeeps ==
  ASSUME TypeOK, NEW s \in Symbols, NEW charged \in Nat, Counted(kept[s]),
         Retained(data[s], kept[s], charged)
  PROVE  /\ Retained(Reset(s), kept[s], charged)
         /\ Reset(s).bytes <= data[s].bytes
<1>1. data[s] \in Data /\ kept[s] \in Data
  BY DEF TypeOK
<1>2. /\ Reset(s).rows = kept[s].rows /\ Reset(s).seen = kept[s].seen
      /\ Reset(s).unique = kept[s].unique /\ Reset(s).count = kept[s].count
      /\ Reset(s).bytes = data[s].bytes - data[s].snap /\ Reset(s).snap = 0
      /\ (data[s].bytes - data[s].snap \in Nat => Reset(s) \in Data)
  <2> DEFINE d == data[s]
             k == kept[s]
             b == d.bytes - d.snap
  <2>1. Reset(s) = [d EXCEPT !.rows = k.rows, !.seen = k.seen, !.unique = k.unique,
                             !.count = k.count, !.bytes = b, !.snap = 0]
    BY <1>1 DEF Reset
  <2>2. d \in Data /\ k.rows \in [Indices -> Rows \cup {NoRow}]
        /\ k.seen \in SUBSET Indices /\ k.unique \in Nat /\ k.count \in Nat
    BY <1>1 DEF Data
  <2> HIDE DEF d, k, b
  <2>3. /\ Reset(s).rows = k.rows /\ Reset(s).seen = k.seen
        /\ Reset(s).unique = k.unique /\ Reset(s).count = k.count
        /\ Reset(s).bytes = b /\ Reset(s).snap = 0
        /\ (b \in Nat => Reset(s) \in Data)
    <3> DEFINE n == [d EXCEPT !.rows = k.rows, !.seen = k.seen, !.unique = k.unique,
                              !.count = k.count, !.bytes = b, !.snap = 0]
    <3>1. /\ n.rows = k.rows /\ n.seen = k.seen /\ n.unique = k.unique
          /\ n.count = k.count /\ n.bytes = b /\ n.snap = 0
      BY <2>2
    <3>2. ASSUME b \in Nat PROVE n \in Data
      BY <2>2, <3>2 DEF Data
    <3> QED
      BY <2>1, <3>1, <3>2
  <2> QED
    BY <2>3 DEF d, k, b
<1>3. Weighs(Reset(s)) = Weighs(kept[s]) /\ Weighs(kept[s]) \in Nat
  BY <1>1, <1>2, WeighsIsNat DEF Weighs
<1>4. Weighs(data[s]) \in Nat
  BY <1>1, WeighsIsNat
<1>5. Reset(s).bytes = Weighs(Reset(s)) + charged /\ Reset(s).bytes \in Nat
  BY <1>1, <1>2, <1>3, <1>4 DEF Retained, Grown
<1>6. Reset(s) \in Data
  BY <1>1, <1>2, <1>5
<1>7. Counted(Reset(s))
  BY <1>2 DEF Counted
<1>8. Grown(Reset(s), kept[s])
  BY <1>2, <1>3 DEF Grown
<1>9. Reset(s).bytes <= data[s].bytes
  BY <1>1, <1>2, DataFields
<1> QED
  BY <1>5, <1>6, <1>7, <1>8, <1>9 DEF Retained

\* A removed row takes its bytes with it; a protected row stays.
LEMMA RemovedKeeps ==
  ASSUME TypeOK, NEW s \in Symbols, NEW charged \in Nat, NEW d, NEW i \in Indices,
         Retained(d, kept[s], charged)
  PROVE  /\ Retained(Removed(s, d, i), kept[s], charged)
         /\ Removed(s, d, i).bytes <= d.bytes
<1>0. d \in Data /\ kept[s] \in Data
  BY DEF TypeOK, Retained
<1>1. CASE d.rows[i] = NoRow \/ kept[s].rows[i] # NoRow
  <2>1. Removed(s, d, i) = d
    BY <1>1 DEF Removed
  <2> QED
    BY <1>0, <2>1, DataFields
<1>2. CASE ~(d.rows[i] = NoRow \/ kept[s].rows[i] # NoRow)
  <2> DEFINE n == Removed(s, d, i)
  <2>1. /\ n.rows = [d.rows EXCEPT ![i] = NoRow] /\ n.seen = d.seen
        /\ n.unique = d.unique /\ n.count = d.count - 1
        /\ n.bytes = d.bytes - SizeOf[d.rows[i]] /\ n.snap = d.snap - SizeOf[d.rows[i]]
        /\ ([d.rows EXCEPT ![i] = NoRow] \in [Indices -> Rows \cup {NoRow}]
            /\ d.snap - SizeOf[d.rows[i]] \in Nat
            /\ d.bytes - SizeOf[d.rows[i]] \in Nat /\ d.count - 1 \in Nat => n \in Data)
    <3>1. n = [d EXCEPT !.rows = [d.rows EXCEPT ![i] = NoRow], !.count = d.count - 1,
                        !.bytes = d.bytes - SizeOf[d.rows[i]],
                        !.snap = d.snap - SizeOf[d.rows[i]]]
      BY <1>0, <1>2 DEF Removed
    <3> QED
      BY <1>0, <3>1 DEF Data
  <2>2. d.rows \in [Indices -> Rows \cup {NoRow}] /\ d.rows[i] \in Rows
        /\ SizeOf[d.rows[i]] \in Nat
    BY <1>0, <1>2, ConstantTypes DEF Data
  <2> HIDE DEF n
  <2>3. n.rows \in [Indices -> Rows \cup {NoRow}]
    BY <2>1, <2>2
  <2>4. RowBytes(n.rows) = RowBytes(d.rows) - SizeOf[d.rows[i]]
    <3>1. RowBytes(n.rows) = RowBytes(d.rows) + Weight(NoRow) - Weight(d.rows[i])
      BY <2>1, <2>2, RowBytesUpdate
    <3>2. RowBytes(d.rows) \in Nat
      BY <1>0, WeighsIsNat
    <3> QED
      BY <1>2, <2>2, <3>1, <3>2 DEF Weight
  <2>5. Weighs(n) = Weighs(d) - SizeOf[d.rows[i]]
    <3>1. RowBytes(d.rows) \in Nat /\ IndexBytes * Cardinality(d.seen) \in Nat
      BY <1>0, WeighsIsNat, ConstantTypes
    <3> QED
      BY <2>1, <2>2, <2>4, <3>1 DEF Weighs
  <2>6. Filled(n.rows) = Filled(d.rows) \ {i} /\ i \in Filled(d.rows)
    BY <1>2, <2>1, <2>2 DEF Filled
  <2>7. Counted(n)
    <3>1. Cardinality(Filled(n.rows)) = Cardinality(Filled(d.rows)) - 1
      BY <2>6, FilledFinite, FS_RemoveElement
    <3> QED
      BY <2>1, <3>1, FilledFinite, ConstantTypes DEF Counted, Retained
  <2>8. /\ n.bytes = Weighs(n) + charged /\ n.snap = Weighs(n) - Weighs(kept[s])
    <3>1. Weighs(d) \in Nat /\ Weighs(kept[s]) \in Nat
      BY <1>0, WeighsIsNat
    <3> QED
      BY <2>1, <2>2, <2>5, <3>1 DEF Retained, Grown
  <2>9. /\ kept[s].seen \subseteq n.seen
        /\ \A j \in Indices : kept[s].rows[j] # NoRow => n.rows[j] = kept[s].rows[j]
    BY <1>2, <2>1, <2>2 DEF Retained, Grown
  <2>10. n \in Data
    <3>1. Weighs([d EXCEPT !.rows = n.rows]) = Weighs(n)
          /\ [d EXCEPT !.rows = n.rows] \in Data
          /\ [d EXCEPT !.rows = n.rows].rows = n.rows
          /\ [d EXCEPT !.rows = n.rows].seen = n.seen
      BY <1>0, <2>1, <2>3 DEF Data, Weighs
    <3>2. Weighs(kept[s]) <= Weighs(n) /\ Weighs(n) \in Nat /\ Weighs(kept[s]) \in Nat
      BY <1>0, <2>9, <3>1, GrownWeighs, WeighsIsNat
    <3>3. n.snap \in Nat /\ n.bytes \in Nat
      BY <2>8, <3>2
    <3>4. n.count \in Nat
      BY <2>7, FilledFinite DEF Counted
    <3> QED
      BY <2>1, <2>3, <3>3, <3>4
  <2>11. n.bytes <= d.bytes
    BY <1>0, <2>1, <2>2, DataFields
  <2> QED
    BY <2>7, <2>8, <2>9, <2>10, <2>11 DEF Retained, Grown, n
<1> QED
  BY <1>1, <1>2

\* A stored row is charged for itself and for an index not seen before.
LEMMA StoredKeeps ==
  ASSUME TypeOK, NEW s \in Symbols, NEW charged \in Nat, NEW d, NEW i \in Indices,
         NEW row \in Rows, Retained(d, kept[s], charged), Open4Write(s, i),
         d.rows[i] = NoRow => d.count < MaxRows
  PROVE  /\ Retained(Stored(d, i, row), kept[s], charged)
         /\ Stored(d, i, row).bytes = d.bytes + IndexCost(d, i) + RowCost(d, i, row)
         /\ IndexCost(d, i) \in Nat /\ RowCost(d, i, row) \in Int
<1> DEFINE n == Stored(d, i, row)
           cost == IndexCost(d, i) + RowCost(d, i, row)
<1>1. d \in Data /\ kept[s] \in Data /\ kept[s].rows[i] = NoRow
  BY DEF TypeOK, Retained, Open4Write
<1>2. /\ d.rows \in [Indices -> Rows \cup {NoRow}] /\ d.seen \in SUBSET Indices
      /\ d.rows[i] \in Rows \cup {NoRow} /\ SizeOf[row] \in Nat
      /\ Weight(d.rows[i]) \in Nat /\ Weight(row) = SizeOf[row] /\ row # NoRow
      /\ d.count \in Nat /\ d.unique \in Nat /\ d.snap \in Nat /\ d.bytes \in Nat
  BY <1>1, ConstantTypes DEF Data, Weight
<1>3. IndexCost(d, i) \in Nat /\ RowCost(d, i, row) = Weight(row) - Weight(d.rows[i])
      /\ RowCost(d, i, row) \in Int /\ cost \in Int
  BY <1>2, ConstantTypes DEF IndexCost, RowCost, Weight
<1>4. /\ n.rows = [d.rows EXCEPT ![i] = row] /\ n.seen = d.seen \cup {i}
      /\ n.unique = (IF i \in d.seen THEN d.unique ELSE d.unique + 1)
      /\ n.count = (IF d.rows[i] = NoRow THEN d.count + 1 ELSE d.count)
      /\ n.bytes = d.bytes + cost /\ n.snap = d.snap + cost
      /\ (n.rows \in [Indices -> Rows \cup {NoRow}] /\ n.seen \in SUBSET Indices
          /\ n.snap \in Nat /\ n.bytes \in Nat /\ n.unique \in Nat /\ n.count \in Nat
            => n \in Data)
  <2> HIDE DEF cost
  <2> DEFINE r == [d.rows EXCEPT ![i] = row]
             u == IF i \in d.seen THEN d.unique ELSE d.unique + 1
             c == IF d.rows[i] = NoRow THEN d.count + 1 ELSE d.count
  <2>1. n = [d EXCEPT !.rows = r, !.seen = d.seen \cup {i}, !.unique = u, !.count = c,
                      !.bytes = d.bytes + cost, !.snap = d.snap + cost]
    BY <1>1 DEF Stored, cost
  <2> HIDE DEF r, u, c, n
  <2>2. /\ n.rows = r /\ n.seen = d.seen \cup {i} /\ n.unique = u /\ n.count = c
        /\ n.bytes = d.bytes + cost /\ n.snap = d.snap + cost
        /\ (r \in [Indices -> Rows \cup {NoRow}] /\ d.seen \cup {i} \in SUBSET Indices
            /\ d.snap + cost \in Nat /\ d.bytes + cost \in Nat /\ u \in Nat /\ c \in Nat
              => n \in Data)
    BY <1>1, <2>1 DEF Data
  <2> QED
    BY <2>2 DEF r, u, c
<1> HIDE DEF n
<1>5. n.rows \in [Indices -> Rows \cup {NoRow}] /\ n.seen \in SUBSET Indices
  BY <1>2, <1>4
<1>6. RowBytes(n.rows) = RowBytes(d.rows) + RowCost(d, i, row)
  <2>1. RowBytes(n.rows) = RowBytes(d.rows) + Weight(row) - Weight(d.rows[i])
    BY <1>2, <1>4, RowBytesUpdate
  <2>2. RowBytes(d.rows) \in Nat
    BY <1>1, WeighsIsNat
  <2> QED
    BY <1>2, <1>3, <2>1, <2>2
<1>7. Cardinality(n.seen) = Cardinality(d.seen) + (IF i \in d.seen THEN 0 ELSE 1)
  BY <1>2, <1>4, SeenIsFinite, FS_AddElement
<1>8. IndexBytes * Cardinality(n.seen) = IndexBytes * Cardinality(d.seen) + IndexCost(d, i)
  <2>1. Cardinality(d.seen) \in Nat
    BY <1>1, WeighsIsNat
  <2> QED
    <3>1. CASE i \in d.seen
      <4>1. Cardinality(n.seen) = Cardinality(d.seen) /\ IndexCost(d, i) = 0
        BY <1>7, <2>1, <3>1 DEF IndexCost
      <4> QED
        BY <2>1, <4>1, ConstantTypes
    <3>2. CASE i \notin d.seen
      <4>1. Cardinality(n.seen) = Cardinality(d.seen) + 1 /\ IndexCost(d, i) = IndexBytes
        BY <1>7, <3>2 DEF IndexCost
      <4> QED
        BY <2>1, <4>1, ConstantTypes
    <3> QED
      BY <3>1, <3>2
<1>9. Weighs(n) = Weighs(d) + cost
  <2>1. RowBytes(d.rows) \in Nat /\ IndexBytes * Cardinality(d.seen) \in Nat
    BY <1>1, WeighsIsNat, ConstantTypes
  <2> QED
    BY <1>3, <1>6, <1>8, <2>1 DEF Weighs
<1>10. Counted(n)
  <2>1. Filled(n.rows) = Filled(d.rows) \cup {i}
    BY <1>2, <1>4 DEF Filled
  <2>2. i \in Filled(d.rows) <=> d.rows[i] # NoRow
    BY DEF Filled
  <2>3. Cardinality(Filled(n.rows)) =
          Cardinality(Filled(d.rows)) + (IF d.rows[i] = NoRow THEN 1 ELSE 0)
    <3>1. /\ IsFiniteSet(Filled(d.rows)) /\ Cardinality(Filled(d.rows)) \in Nat
      BY FilledFinite
    <3>2. Cardinality(Filled(d.rows) \cup {i}) =
            IF i \in Filled(d.rows) THEN Cardinality(Filled(d.rows))
            ELSE Cardinality(Filled(d.rows)) + 1
      BY <3>1, FS_AddElement
    <3> QED
      BY <2>1, <2>2, <3>1, <3>2
  <2>4. Cardinality(d.seen) \in Nat
    BY <1>1, WeighsIsNat
  <2> QED
    BY <1>2, <1>4, <1>7, <2>3, <2>4, ConstantTypes DEF Counted, Retained
<1>11. n.bytes = Weighs(n) + charged /\ n.snap = Weighs(n) - Weighs(kept[s])
  <2>1. Weighs(d) \in Nat /\ Weighs(kept[s]) \in Nat
    BY <1>1, WeighsIsNat
  <2> QED
    BY <1>3, <1>4, <1>9, <2>1 DEF Retained, Grown
<1>12. /\ kept[s].seen \subseteq n.seen
       /\ \A j \in Indices : kept[s].rows[j] # NoRow => n.rows[j] = kept[s].rows[j]
  BY <1>1, <1>2, <1>4 DEF Retained, Grown
<1>13. n \in Data
  <2> DEFINE e == [d EXCEPT !.rows = n.rows, !.seen = n.seen]
  <2>1. e \in Data /\ e.rows = n.rows /\ e.seen = n.seen
    BY <1>1, <1>5 DEF Data
  <2>2. Weighs(e) = Weighs(n)
    BY <2>1 DEF Weighs
  <2>3. Weighs(kept[s]) <= Weighs(n) /\ Weighs(n) \in Nat /\ Weighs(kept[s]) \in Nat
    <3> HIDE DEF e
    <3> QED
      BY <1>1, <1>12, <2>1, <2>2, GrownWeighs, WeighsIsNat
  <2>4. n.snap \in Nat /\ n.bytes \in Nat
    BY <1>11, <2>3
  <2>5. n.count \in Nat /\ n.unique \in Nat
    BY <1>2, <1>4
  <2> QED
    BY <1>4, <1>5, <2>4, <2>5
<1> QED
  BY <1>3, <1>4, <1>2, <1>10, <1>11, <1>12, <1>13 DEF Retained, Grown, n


-----------------------------------------------------------------------------
(* What a step does to the sums.                                           *)

LEMMA ChargedIsNat ==
  ASSUME TypeOK, NEW s \in Symbols, IsFiniteSet(heard[s])
  PROVE  /\ Charged(s) \in Nat /\ Cardinality(heard[s]) \in Nat
         /\ NameBytes * Cardinality(heard[s]) \in Nat
         /\ Len(pending[s]) \in Nat /\ EventBytes * Len(pending[s]) \in Nat
         /\ stranded[s] \in Nat
<1>1. Cardinality(heard[s]) \in Nat
  BY FS_CardinalityType
<1>2. pending[s] \in Seq(Events) /\ Len(pending[s]) \in Nat /\ stranded[s] \in Nat
  BY DEF TypeOK
<1>3. NameBytes * Cardinality(heard[s]) \in Nat /\ EventBytes * Len(pending[s]) \in Nat
  BY <1>1, <1>2, ConstantTypes
<1> QED
  BY <1>1, <1>2, <1>3 DEF Charged

LEMMA AllBytesIsNat ==
  ASSUME TypeOK
  PROVE  AllBytes \in Nat
<1>1. [s \in Symbols |-> data[s].bytes] \in [Symbols -> Nat]
  BY DEF TypeOK, Data
<1> QED
  BY <1>1, ConstantTypes, TotalIsNat DEF AllBytes

LEMMA AllBytesStep ==
  ASSUME data \in [Symbols -> Data], NEW s \in Symbols, NEW d \in Data,
         data' = [data EXCEPT ![s] = d]
  PROVE  /\ AllBytes \in Nat /\ AllBytes' = AllBytes + d.bytes - data[s].bytes
         /\ d.bytes \in Nat /\ data[s].bytes \in Nat
<1> DEFINE f == [x \in Symbols |-> data[x].bytes]
           g == [x \in Symbols |-> data'[x].bytes]
<1>1. \A x \in Symbols : data[x].bytes \in Nat /\ data'[x].bytes \in Nat
  BY DEF Data
<1>2. f \in [Symbols -> Nat] /\ g \in [Symbols -> Nat]
  BY <1>1
<1>3. /\ \A x \in Symbols \ {s} : g[x] = f[x]
      /\ g[s] = d.bytes /\ f[s] = data[s].bytes
  OBVIOUS
<1>4. Total(f) \in Nat /\ Total(g) = Total(f) + g[s] - f[s]
  BY <1>2, <1>3, ConstantTypes, TotalIsNat, TotalUpdate
<1>5. AllBytes = Total(f) /\ AllBytes' = Total(g)
  BY DEF AllBytes
<1> QED
  BY <1>1, <1>3, <1>4, <1>5

\* A step that replaces the data of one symbol and charges the difference.
LEMMA OneSymbol ==
  ASSUME IInv, NEW s \in Symbols, NEW d, data' = [data EXCEPT ![s] = d],
         UNCHANGED <<kept, unmatched>>, IsFiniteSet(heard'[s]),
         Retained(d, kept[s], Charged(s)'),
         \A x \in Symbols \ {s} : heard'[x] = heard[x] /\ Charged(x)' = Charged(x),
         bytes' = bytes + d.bytes - data[s].bytes
  PROVE  Exact' /\ data' \in [Symbols -> Data] /\ bytes' \in Nat
         /\ bytes' = AllBytes' + (IF unmatched' THEN NameBytes ELSE 0)
<1>1. data \in [Symbols -> Data] /\ d \in Data
  BY DEF IInv, TypeOK, Retained
<1>2. data' \in [Symbols -> Data]
  BY <1>1
<1>3. /\ AllBytes' = AllBytes + d.bytes - data[s].bytes
      /\ AllBytes \in Nat /\ d.bytes \in Nat /\ data[s].bytes \in Nat
  BY <1>1, AllBytesStep
<1>4. bytes = AllBytes + (IF unmatched THEN NameBytes ELSE 0) /\ unmatched \in BOOLEAN
  BY DEF IInv, Budgets, TypeOK
<1>5. bytes' = AllBytes' + (IF unmatched' THEN NameBytes ELSE 0)
  BY <1>3, <1>4, ConstantTypes
<1>6. AllBytes' \in Nat
  <2>1. [x \in Symbols |-> data'[x].bytes] \in [Symbols -> Nat]
    BY <1>2 DEF Data
  <2>2. Total([x \in Symbols |-> data'[x].bytes]) \in Nat
    BY <2>1, ConstantTypes, TotalIsNat
  <2> QED
    BY <2>2 DEF AllBytes
<1>7. bytes' \in Nat
  BY <1>4, <1>5, <1>6, ConstantTypes
<1>8. Exact'
  <2> SUFFICES ASSUME NEW x \in Symbols
               PROVE  /\ Counted(kept'[x]) /\ IsFiniteSet(heard'[x])
                      /\ Retained(data'[x], kept'[x], Charged(x)')
    BY DEF Exact
  <2>1. /\ Counted(kept[x]) /\ IsFiniteSet(heard[x])
        /\ Retained(data[x], kept[x], Charged(x))
    BY DEF IInv, Exact
  <2>2. CASE x = s
    <3>1. data'[x] = d
      BY <1>1, <2>2
    <3> QED
      BY <2>1, <2>2, <3>1
  <2>3. CASE x # s
    <3>1. data'[x] = data[x] /\ Charged(x)' = Charged(x) /\ heard'[x] = heard[x]
      BY <1>1, <2>3
    <3> QED
      BY <2>1, <3>1
  <2> QED
    BY <2>2, <2>3
<1> QED
  BY <1>2, <1>5, <1>7, <1>8

LEMMA EventTypes ==
  ASSUME NEW e \in Events
  PROVE  /\ e.sym \in Symbols /\ e.index \in Indices /\ e.row \in Rows \cup {NoRow}
         /\ e.flags \in FlagSets \cup {None}
         /\ e.flags = None => e.row = NoRow
         /\ Has(e, "REMOVE") => e.row = NoRow
         /\ \A flag : Has(e, flag) \in BOOLEAN
BY DEF Events, Has

\* The names of an event are charged once.
LEMMA NamesTypes ==
  ASSUME TypeOK, NEW e \in Events, IsFiniteSet(heard[e.sym])
  PROVE  /\ heard[e.sym] \cup Names(e) \in SUBSET ({OwnName} \cup Times)
         /\ IsFiniteSet(heard[e.sym] \cup Names(e)) /\ NameCost(e) \in Nat
         /\ NameBytes * Cardinality(heard[e.sym] \cup Names(e))
              = NameBytes * Cardinality(heard[e.sym]) + NameCost(e)
<1> DEFINE h == heard[e.sym]
           new == Names(e) \ h
<1>1. e.sym \in Symbols /\ h \in SUBSET ({OwnName} \cup Times)
  BY EventTypes DEF TypeOK
<1>2. Names(e) \in SUBSET ({OwnName} \cup Times)
  BY EventTypes DEF Names, Times
<1>3. IsFiniteSet(Names(e))
  <2>1. IsFiniteSet({OwnName}) /\ IsFiniteSet({TimeOf[e.row]}) /\ IsFiniteSet({})
    BY FS_Singleton, FS_EmptySet
  <2> QED
    BY <2>1, FS_Union DEF Names
<1>4. IsFiniteSet(h) /\ IsFiniteSet(new) /\ h \cap new = {} /\ h \cup new = h \cup Names(e)
  BY <1>3, FS_Subset
<1>5. IsFiniteSet(h \cup new)
      /\ Cardinality(h \cup new)
           = Cardinality(h) + Cardinality(new) - Cardinality(h \cap new)
  BY <1>4, FS_Union
<1>6. /\ Cardinality(h) \in Nat /\ Cardinality(new) \in Nat
      /\ Cardinality(h \cap new) = 0
  BY <1>4, FS_CardinalityType, FS_EmptySet
<1>7. NameBytes * (Cardinality(h) + Cardinality(new))
        = NameBytes * Cardinality(h) + NameBytes * Cardinality(new)
      /\ NameBytes * Cardinality(new) \in Nat
  BY <1>6, ConstantTypes
<1>8. NameCost(e) = NameBytes * Cardinality(new)
  BY DEF NameCost
<1>9. Cardinality(h \cup Names(e)) = Cardinality(h) + Cardinality(new)
  <2>1. Cardinality(h \cup Names(e)) = Cardinality(h \cup new)
    BY <1>4
  <2> HIDE DEF h, new
  <2> QED
    BY <1>5, <1>6, <2>1
<1> QED
  BY <1>1, <1>2, <1>4, <1>5, <1>7, <1>8, <1>9

\* An event is heard, and the symbol's pending events become p.
LEMMA HearingKeeps ==
  ASSUME IInv, NEW e \in Events, NEW delta \in Int, NEW p \in Seq(Events),
         Hear(e, delta), pending' = [pending EXCEPT ![e.sym] = p],
         delta = EventBytes * (Len(p) - Len(pending[e.sym])),
         Fits(NameCost(e) + delta), ~EventsSpent
  PROVE  /\ Exact' /\ Budgets'
         /\ data' \in [Symbols -> Data] /\ bytes' \in Nat /\ events' \in Nat
         /\ heard' \in [Symbols -> SUBSET ({OwnName} \cup Times)]
         /\ pending' \in [Symbols -> Seq(Events)]
<1> DEFINE s == e.sym
           more == NameCost(e) + delta
           d == [data[s] EXCEPT !.bytes = @ + NameCost(e) + delta]
<1>1. TypeOK /\ s \in Symbols /\ Exact /\ Budgets
  BY EventTypes DEF IInv
<1>2. /\ data[s] \in Data /\ data[s].bytes \in Nat /\ IsFiniteSet(heard[s])
      /\ Retained(data[s], kept[s], Charged(s))
  BY <1>1 DEF Exact, TypeOK, Data
<1>3. /\ heard[s] \cup Names(e) \in SUBSET ({OwnName} \cup Times)
      /\ IsFiniteSet(heard[s] \cup Names(e)) /\ NameCost(e) \in Nat
      /\ NameBytes * Cardinality(heard[s] \cup Names(e))
           = NameBytes * Cardinality(heard[s]) + NameCost(e)
  BY <1>1, <1>2, NamesTypes
<1>4. heard' = [heard EXCEPT ![s] = heard[s] \cup Names(e)]
      /\ heard' \in [Symbols -> SUBSET ({OwnName} \cup Times)]
      /\ heard'[s] = heard[s] \cup Names(e)
      /\ \A x \in Symbols \ {s} : heard'[x] = heard[x]
  <2>1. heard' = [heard EXCEPT ![s] = heard[s] \cup Names(e)]
    BY DEF Hear
  <2>2. heard \in [Symbols -> SUBSET ({OwnName} \cup Times)]
    BY <1>1 DEF TypeOK
  <2> HIDE DEF s
  <2> QED
    BY <1>1, <1>3, <2>1, <2>2
<1>5. /\ pending' \in [Symbols -> Seq(Events)] /\ pending'[s] = p
      /\ \A x \in Symbols \ {s} : pending'[x] = pending[x]
  BY <1>1 DEF TypeOK
<1>6. stranded' = stranded /\ unmatched' = unmatched /\ kept' = kept
      /\ queued' = queued /\ daily' = daily /\ events' = events + 1
      /\ bytes' = bytes + NameCost(e) + delta
  BY DEF Hear, history
<1>7. data' = [data EXCEPT ![s] = d]
  BY <1>1 DEF Hear
<1>8. /\ Charged(s) \in Nat /\ NameBytes * Cardinality(heard[s]) \in Nat
      /\ Len(pending[s]) \in Nat /\ EventBytes * Len(pending[s]) \in Nat
      /\ stranded[s] \in Nat
  BY <1>1, <1>2, ChargedIsNat
<1>9. EventBytes * Len(p) = EventBytes * Len(pending[s]) + delta
      /\ EventBytes * Len(p) \in Nat
  <2> DEFINE n == Len(pending[s])
             m == Len(p) - n
  <2>1. n \in Nat /\ m \in Int /\ Len(p) = n + m /\ Len(p) \in Nat
    BY <1>8
  <2>2. delta = EventBytes * m
    OBVIOUS
  <2> HIDE DEF n, m
  <2>3. EventBytes * (n + m) = EventBytes * n + EventBytes * m
    BY <2>1, ConstantTypes
  <2>4. EventBytes * Len(p) \in Nat
    BY <2>1, ConstantTypes
  <2>5. EventBytes * Len(p) = EventBytes * n + delta
    BY <2>1, <2>2, <2>3
  <2> QED
    BY <2>4, <2>5 DEF n
<1>10. Charged(s)' = Charged(s) + more /\ Charged(s)' \in Nat
  <2> DEFINE a == NameBytes * Cardinality(heard[s])
             q == EventBytes * Len(pending[s])
             n == NameCost(e)
             t == stranded[s]
  <2>1. a \in Nat /\ q \in Nat /\ n \in Nat /\ t \in Nat
    BY <1>3, <1>8
  <2>2. Charged(s) = a + q + t
    BY DEF Charged
  <2>3. NameBytes * Cardinality(heard'[s]) = a + n
    BY <1>3, <1>4
  <2>4. EventBytes * Len(pending'[s]) = q + delta /\ q + delta \in Nat
    BY <1>5, <1>9
  <2>5. Charged(s)' = (a + n) + (q + delta) + t
    BY <1>6, <2>3, <2>4 DEF Charged
  <2>6. more = n + delta
    OBVIOUS
  <2> HIDE DEF a, q, n, t, more
  <2>7. (a + n) + (q + delta) + t = (a + q + t) + (n + delta)
    BY <2>1
  <2>8. \A x, y, z \in Nat : x + y + z \in Nat
    OBVIOUS
  <2>9. a + n \in Nat
    BY <2>1
  <2> QED
    BY <2>1, <2>2, <2>4, <2>5, <2>6, <2>7, <2>8, <2>9
<1>11. \A x \in Symbols \ {s} : Charged(x)' = Charged(x)
  BY <1>4, <1>5, <1>6 DEF Charged
<1>12. more \in Int /\ bytes' = bytes + more /\ bytes \in Nat
  <2>1. bytes \in Nat /\ NameCost(e) \in Nat
    BY <1>1, <1>3 DEF TypeOK
  <2>2. bytes' = bytes + NameCost(e) + delta
    BY <1>6
  <2> QED
    BY <2>1, <2>2
<1>13. /\ d.bytes = data[s].bytes + more
       /\ d.rows = data[s].rows /\ d.seen = data[s].seen /\ d.snap = data[s].snap
       /\ d.unique = data[s].unique /\ d.count = data[s].count
       /\ (data[s].bytes + more \in Nat => d \in Data)
  <2> DEFINE o == data[s]
             b == o.bytes + NameCost(e) + delta
  <2>1. o \in Data /\ o.bytes \in Nat /\ b = o.bytes + more
    BY <1>2, <1>3
  <2>2. d = [o EXCEPT !.bytes = b]
    OBVIOUS
  <2> HIDE DEF o, b, d, more
  <2>3. /\ d.bytes = b /\ d.rows = o.rows /\ d.seen = o.seen /\ d.snap = o.snap
        /\ d.unique = o.unique /\ d.count = o.count /\ (b \in Nat => d \in Data)
    BY <2>1, <2>2 DEF Data
  <2> QED
    BY <2>1, <2>3 DEF o
<1> HIDE DEF d, more
<1>14. Weighs(d) = Weighs(data[s]) /\ Weighs(d) \in Nat
  BY <1>2, <1>13, WeighsIsNat DEF Weighs
<1>15. d.bytes = Weighs(d) + Charged(s)' /\ d.bytes \in Nat
  <2>1. data[s].bytes = Weighs(data[s]) + Charged(s)
    BY <1>2 DEF Retained
  <2>2. d.bytes = Weighs(data[s]) + Charged(s) + more
    BY <1>13, <2>1
  <2>3. d.bytes = Weighs(d) + Charged(s)'
    BY <1>8, <1>10, <1>12, <1>14, <2>2
  <2> QED
    BY <1>10, <1>14, <2>3
<1>16. d \in Data /\ Counted(d) /\ Grown(d, kept[s])
  BY <1>2, <1>13, <1>14, <1>15 DEF Retained, Counted, Grown
<1>17. Retained(d, kept[s], Charged(s)')
  BY <1>15, <1>16 DEF Retained
<1>18. bytes' = bytes + d.bytes - data[s].bytes
  BY <1>2, <1>12, <1>13
<1>19. Exact' /\ data' \in [Symbols -> Data] /\ bytes' \in Nat
       /\ bytes' = AllBytes' + (IF unmatched' THEN NameBytes ELSE 0)
  <2> HIDE DEF s
  <2> QED
    BY <1>1, <1>3, <1>4, <1>6, <1>7, <1>11, <1>17, <1>18, OneSymbol
<1>20. Buffered' <= MaxBuffer
  <2>1. Buffered' = bytes + more + queued * MessageBytes
    BY <1>6, <1>12 DEF Buffered
  <2>2. queued * MessageBytes \in Int
    BY <1>1, ConstantTypes DEF TypeOK
  <2>3. bytes + queued * MessageBytes + more <= MaxBuffer
    BY DEF Fits, Buffered, more
  <2> QED
    BY <1>12, <2>1, <2>2, <2>3
<1>21. events' \in Nat /\ events' <= MaxEvents
  BY <1>1, <1>6, ConstantTypes DEF TypeOK, EventsSpent
<1> QED
  BY <1>4, <1>5, <1>6, <1>19, <1>20, <1>21 DEF Budgets

-----------------------------------------------------------------------------
(* The invariant holds initially and every step keeps it.                  *)

LEMMA NothingHeld ==
  /\ PerSymbol(NoData) \in [Symbols -> Data] /\ Counted(NoData)
  /\ NoData.rows = [i \in Indices |-> NoRow] /\ NoData.seen = {}
  /\ NoData.bytes = 0 /\ NoData.snap = 0
  /\ Weighs(NoData) = 0
<1>1. /\ NoData.rows = [i \in Indices |-> NoRow] /\ NoData.seen = {}
      /\ NoData.snap = 0 /\ NoData.bytes = 0 /\ NoData.unique = 0 /\ NoData.count = 0
  BY DEF NoData
<1>2. NoData \in Data
  BY DEF NoData, Data
<1>3. Filled(NoData.rows) = {}
  BY <1>1 DEF Filled
<1>4. Counted(NoData)
  BY <1>1, <1>3, FS_EmptySet, ConstantTypes DEF Counted
<1>5. RowBytes(NoData.rows) = 0
  <2>1. [i \in Indices |-> IF NoData.rows[i] = NoRow THEN 0 ELSE SizeOf[NoData.rows[i]]]
          = [i \in Indices |-> 0]
    BY <1>1
  <2> QED
    BY <2>1, TotalOfNothing DEF RowBytes
<1>6. IndexBytes * Cardinality(NoData.seen) = 0
  BY <1>1, FS_EmptySet, ConstantTypes
<1>7. Weighs(NoData) = 0
  BY <1>5, <1>6 DEF Weighs
<1> QED
  BY <1>1, <1>2, <1>4, <1>7 DEF PerSymbol

LEMMA NothingCharged ==
  NameBytes * Cardinality({}) + EventBytes * Len(<<>>) + 0 = 0 /\ IsFiniteSet({})
<1>1. Cardinality({}) = 0 /\ IsFiniteSet({}) /\ Len(<<>>) = 0
  BY FS_EmptySet
<1>2. NameBytes * 0 = 0 /\ EventBytes * 0 = 0
  BY ConstantTypes
<1> QED
  BY <1>1, <1>2

LEMMA InitEstablishes == Init => IInv
<1> SUFFICES ASSUME Init PROVE IInv
  OBVIOUS
<1>1. TypeOK
  <2>1. data \in [Symbols -> Data] /\ kept \in [Symbols -> Data]
    BY NothingHeld DEF Init
  <2>2. pending \in [Symbols -> Seq(Events)] /\ todo \in Seq(Events)
    BY DEF Init, PerSymbol
  <2>3. /\ complete \in [Symbols -> BOOLEAN] /\ snipped \in [Symbols -> BOOLEAN]
        /\ local \in [Symbols -> LocalFailures \cup {None}]
        /\ stranded \in [Symbols -> Nat] /\ dropped \in [Symbols -> BOOLEAN]
    BY DEF Init, PerSymbol
  <2>4. heard \in [Symbols -> SUBSET ({OwnName} \cup Times)]
    BY DEF Init, PerSymbol
  <2> QED
    <3>1. /\ daily \in DailyRequests /\ attempt \in {1, 2} /\ stage \in Stages
          /\ active \subseteq Symbols /\ outcome \in Outcomes \cup {None}
      BY DEF Init, Stages
    <3>2. /\ authSent \in BOOLEAN /\ authConfirmed \in BOOLEAN
          /\ busy \in BOOLEAN /\ unmatched \in BOOLEAN
      BY DEF Init
    <3>3. queued \in 0..MaxQueued /\ events \in Nat /\ bytes \in Nat
      BY ConstantTypes DEF Init
    <3> QED
      BY <2>1, <2>2, <2>3, <2>4, <3>1, <3>2, <3>3 DEF TypeOK
<1>2. Exact
  <2> SUFFICES ASSUME NEW s \in Symbols
               PROVE  /\ Counted(kept[s]) /\ IsFiniteSet(heard[s])
                      /\ Retained(data[s], kept[s], Charged(s))
    BY DEF Exact
  <2>1. /\ data[s] = NoData /\ kept[s] = NoData /\ heard[s] = {}
        /\ pending[s] = <<>> /\ stranded[s] = 0
    BY DEF Init, PerSymbol
  <2>2. Charged(s) = 0
    BY <2>1, NothingCharged DEF Charged
  <2>3. NoData \in Data
    BY <2>1, <1>1 DEF TypeOK
  <2> QED
    BY <2>1, <2>2, <2>3, NothingHeld, NothingCharged DEF Retained, Grown
<1>3. Budgets
  <2>1. [s \in Symbols |-> data[s].bytes] = [s \in Symbols |-> 0]
    BY NothingHeld DEF Init, PerSymbol
  <2>2. AllBytes = 0
    BY <2>1, TotalOfNothing DEF AllBytes
  <2>3. queued * MessageBytes = 0
    BY ConstantTypes DEF Init
  <2> QED
    BY <2>2, <2>3, ConstantTypes DEF Init, Budgets, Buffered
<1>4. Transactions
  BY DEF Init, Transactions, PerSymbol
<1>5. Attempts
  BY DEF Init, Attempts
<1> QED
  BY <1>1, <1>2, <1>3, <1>4, <1>5 DEF IInv

LEMMA SettleTypes ==
  ASSUME TypeOK, NEW how \in Outcomes, Settle(how)
  PROVE  outcome' \in Outcomes \cup {None} /\ active' \subseteq Symbols
BY DEF TypeOK, Settle

\* Steps of the socket and of the timers touch no symbol.
LEMMA FrameKeeps ==
  ASSUME IInv, UNCHANGED <<symbolVars, todo, attempt>>,
         stage' \in Stages, authSent' \in BOOLEAN, authConfirmed' \in BOOLEAN,
         queued' \in 0..MaxQueued, busy' \in BOOLEAN, active' \subseteq Symbols,
         outcome' \in Outcomes \cup {None},
         Buffered' <= MaxBuffer, busy' => queued' > 0, ~busy' => todo = <<>>
  PROVE  IInv'
<1> USE DEF symbolVars, marks, ledger, history
<1>1. TypeOK'
  BY DEF IInv, TypeOK
<1>2. Exact'
  BY DEF IInv, Exact, Charged
<1>3. Budgets'
  <2>1. AllBytes' = AllBytes
    BY DEF AllBytes
  <2> QED
    BY <2>1 DEF IInv, Budgets
<1>4. Transactions'
  <2>1. \A s \in Symbols : Terminal(s)' = Terminal(s)
    BY DEF Terminal
  <2> QED
    BY <2>1 DEF IInv, Transactions
<1>5. Attempts'
  BY DEF IInv, Attempts
<1> QED
  BY <1>1, <1>2, <1>3, <1>4, <1>5 DEF IInv

LEMMA FewerQueued ==
  ASSUME TypeOK, Buffered <= MaxBuffer, bytes' = bytes,
         queued' = queued - 1 \/ queued' = queued, queued' \in Nat
  PROVE  Buffered' <= MaxBuffer
<1>1. queued \in Nat /\ bytes \in Nat
  BY DEF TypeOK
<1>2. (queued - 1) * MessageBytes = queued * MessageBytes - MessageBytes
      /\ queued * MessageBytes \in Int
  BY <1>1, ConstantTypes
<1>3. CASE queued' = queued - 1
  BY <1>1, <1>2, <1>3, ConstantTypes DEF Buffered
<1>4. CASE queued' = queued
  BY <1>4 DEF Buffered
<1> QED
  BY <1>3, <1>4

LEMMA MessagesKeep ==
  ASSUME IInv, Receive PROVE IInv'
<1>1. /\ TypeOK /\ queued \in Nat /\ bytes \in Nat /\ ~busy /\ todo = <<>>
      /\ Buffered <= MaxBuffer
  BY DEF IInv, Receive, Calm, TypeOK, Transactions, Budgets
<1>2. UNCHANGED <<symbolVars, todo, attempt, stage, authSent, authConfirmed, busy, bytes>>
  BY DEF Receive, link, symbolVars, ledger
<1>3. CASE Fits(MessageBytes)
  <2>1. queued' = queued + 1 /\ UNCHANGED <<active, outcome>> /\ queued' \in 0..MaxQueued
    BY <1>1, <1>3, ConstantTypes DEF Receive
  <2>2. (queued + 1) * MessageBytes = queued * MessageBytes + MessageBytes
        /\ queued * MessageBytes \in Int
    BY <1>1, ConstantTypes
  <2>3. Buffered' <= MaxBuffer
    BY <1>1, <1>2, <1>3, <2>1, <2>2, ConstantTypes DEF Buffered, Fits
  <2> QED
    BY <1>1, <1>2, <2>1, <2>3, FrameKeeps DEF TypeOK
<1>4. CASE ~Fits(MessageBytes)
  <2>1. Settle("LOCAL_BUFFER_BUDGET_EXCEEDED") /\ queued' = queued
    BY <1>4 DEF Receive
  <2>2. outcome' \in Outcomes \cup {None} /\ active' \subseteq Symbols
    BY <1>1, <2>1, SettleTypes DEF Outcomes
  <2>3. Buffered' <= MaxBuffer
    BY <1>1, <1>2, <2>1 DEF Buffered
  <2> QED
    BY <1>1, <1>2, <2>1, <2>2, <2>3, FrameKeeps DEF TypeOK
<1> QED
  BY <1>3, <1>4

LEMMA HandshakeKeeps ==
  ASSUME IInv, Handshake PROVE IInv'
<1>1. TypeOK /\ ~busy /\ todo = <<>> /\ Buffered <= MaxBuffer
  BY DEF IInv, Handshake, Open, Challenge, Authorized, ChannelOpened,
     FeedConfig, Unauthorized, Consume, Calm, Transactions, Budgets
<1>2. /\ UNCHANGED <<symbolVars, todo, attempt, busy>>
      /\ stage' \in Stages /\ authSent' \in BOOLEAN /\ authConfirmed' \in BOOLEAN
      /\ (queued' = queued - 1 /\ queued > 0) \/ queued' = queued
      /\ (active' = active /\ outcome' = outcome) \/ Settle("UNAUTHORIZED")
  BY <1>1 DEF Handshake, Open, Challenge, Authorized, ChannelOpened,
     FeedConfig, Unauthorized, Consume, TypeOK, Stages
<1>3. queued' \in 0..MaxQueued /\ queued' \in Nat
  BY <1>1, <1>2, ConstantTypes DEF TypeOK
<1>4. outcome' \in Outcomes \cup {None} /\ active' \subseteq Symbols
  <2>1. CASE active' = active /\ outcome' = outcome
    BY <1>1, <2>1 DEF TypeOK
  <2>2. CASE Settle("UNAUTHORIZED")
    BY <1>1, <2>2, SettleTypes DEF Outcomes
  <2> QED
    BY <1>2, <2>1, <2>2
<1>5. bytes' = bytes
  BY <1>2 DEF symbolVars, ledger
<1>6. Buffered' <= MaxBuffer
  BY <1>1, <1>2, <1>3, <1>5, FewerQueued
<1>7. busy' \in BOOLEAN /\ ~busy'
  BY <1>1, <1>2 DEF TypeOK
<1> QED
  BY <1>1, <1>2, <1>3, <1>4, <1>6, <1>7, FrameKeeps

LEMMA SettlingKeeps ==
  ASSUME IInv, Break \/ Deadline \/ Abort \/ GiveUp \/ BeginData PROVE IInv'
<1>1. /\ TypeOK /\ Buffered <= MaxBuffer /\ (busy => queued > 0) /\ (~busy => todo = <<>>)
  BY DEF IInv, Transactions, Budgets
<1>2. UNCHANGED <<symbolVars, todo, link, queued>>
  BY DEF Break, Deadline, Abort, GiveUp, BeginData
<1>3. \/ busy' = busy
      \/ busy' = TRUE /\ queued > 0
  BY DEF Break, Deadline, Abort, GiveUp, BeginData
<1>4. outcome' \in Outcomes \cup {None} /\ active' \subseteq Symbols
  <2>1. CASE Break
    BY <1>1, <2>1, SettleTypes DEF Break, BreakOutcome, Outcomes
  <2>2. CASE Deadline
    BY <1>1, <2>2, SettleTypes DEF Deadline, Outcomes
  <2>3. CASE Abort
    BY <1>1, <2>3, SettleTypes DEF Abort, Outcomes
  <2>4. CASE GiveUp
    BY <1>1, <2>4 DEF GiveUp, TypeOK, Outcomes
  <2>5. CASE BeginData
    BY <1>1, <2>5 DEF BeginData, TypeOK
  <2> QED
    BY <2>1, <2>2, <2>3, <2>4, <2>5
<1>5. Buffered' <= MaxBuffer
  BY <1>1, <1>2 DEF Buffered, symbolVars, ledger
<1> QED
  <2>1. busy' \in BOOLEAN /\ (busy' => queued' > 0) /\ (~busy' => todo = <<>>)
    <3>1. CASE busy' = busy
      BY <1>1, <1>2, <3>1 DEF TypeOK
    <3>2. CASE busy' = TRUE /\ queued > 0
      BY <1>2, <3>2
    <3> QED
      BY <1>3, <3>1, <3>2
  <2>2. /\ UNCHANGED <<symbolVars, todo, attempt>> /\ queued' \in 0..MaxQueued
        /\ stage' \in Stages /\ authSent' \in BOOLEAN /\ authConfirmed' \in BOOLEAN
    BY <1>1, <1>2 DEF TypeOK, link
  <2> QED
    BY <1>4, <1>5, <2>1, <2>2, FrameKeeps

LEMMA EndDataKeeps ==
  ASSUME IInv, EndData PROVE IInv'
<1>1. /\ TypeOK /\ Buffered <= MaxBuffer /\ queued > 0 /\ todo = <<>>
  BY DEF IInv, Transactions, Budgets, EndData
<1>2. UNCHANGED <<symbolVars, todo, link>> /\ busy' = FALSE /\ queued' = queued - 1
  BY DEF EndData
<1>3. outcome' \in Outcomes \cup {None} /\ active' \subseteq Symbols
  <2>1. CASE active' = active /\ outcome' = outcome
    BY <1>1, <2>1 DEF TypeOK
  <2>2. CASE Settle("COMPLETE")
    BY <1>1, <2>2, SettleTypes DEF Outcomes
  <2> QED
    BY <2>1, <2>2 DEF EndData
<1>4. queued' \in 0..MaxQueued /\ queued' \in Nat
  BY <1>1, <1>2, ConstantTypes DEF TypeOK
<1>5. Buffered' <= MaxBuffer
  BY <1>1, <1>2, <1>4, FewerQueued DEF symbolVars, ledger
<1> QED
  BY <1>1, <1>2, <1>3, <1>4, <1>5, FrameKeeps DEF TypeOK, link

\* Steps that only count: an event over the limit, an unknown name.
LEMMA CountingKeeps ==
  ASSUME IInv, UNCHANGED <<link, queued, busy, todo, data, kept, pending, marks, heard,
                           history>>,
         unmatched' \in BOOLEAN, events' \in Nat, daily => events' <= MaxEvents,
         bytes' \in Nat, bytes' = AllBytes + (IF unmatched' THEN NameBytes ELSE 0),
         Buffered' <= MaxBuffer,
         active' \subseteq Symbols, outcome' \in Outcomes \cup {None}
  PROVE  IInv'
<1> USE DEF link, marks, history
<1>1. TypeOK'
  BY DEF IInv, TypeOK
<1>2. Exact'
  BY DEF IInv, Exact, Charged
<1>3. Budgets'
  <2>1. AllBytes' = AllBytes
    BY DEF AllBytes
  <2> QED
    BY <2>1 DEF Budgets
<1>4. Transactions'
  <2>1. \A s \in Symbols : Terminal(s)' = Terminal(s)
    BY DEF Terminal
  <2> QED
    BY <2>1 DEF IInv, Transactions
<1>5. Attempts'
  BY DEF IInv, Attempts
<1> QED
  BY <1>1, <1>2, <1>3, <1>4, <1>5 DEF IInv

LEMMA OneMoreEvent ==
  ASSUME IInv, ~EventsSpent
  PROVE  events + 1 \in Nat /\ events + 1 <= MaxEvents
BY ConstantTypes DEF IInv, TypeOK, EventsSpent

\* An event is refused.
LEMMA RefusingKeeps ==
  ASSUME IInv,
         UNCHANGED <<link, queued, busy, todo, data, kept, pending, marks, heard,
                     unmatched, bytes, history>>,
         events' \in Nat, daily => events' <= MaxEvents,
         active' \subseteq Symbols, outcome' \in Outcomes \cup {None}
  PROVE  IInv'
<1>1. /\ unmatched \in BOOLEAN /\ bytes \in Nat /\ Buffered <= MaxBuffer
      /\ bytes = AllBytes + (IF unmatched THEN NameBytes ELSE 0)
  BY DEF IInv, TypeOK, Budgets
<1>2. Buffered' = Buffered
  BY DEF Buffered
<1> QED
  BY <1>1, <1>2, CountingKeeps

LEMMA OverEventsKeeps ==
  ASSUME IInv, OverEvents PROVE IInv'
<1>1. TypeOK /\ events \in Nat /\ daily \in BOOLEAN /\ (daily => events <= MaxEvents)
  BY DailyAssumption DEF IInv, TypeOK, Budgets
<1>2. events' \in Nat /\ (daily => events' <= MaxEvents)
  BY <1>1 DEF OverEvents
<1>3. outcome' \in Outcomes \cup {None} /\ active' \subseteq Symbols
  BY <1>1, SettleTypes DEF OverEvents, Outcomes
<1> QED
  BY <1>2, <1>3, RefusingKeeps DEF OverEvents

LEMMA OverheardKeeps ==
  ASSUME IInv, NEW e \in Events, Overheard(e) PROVE IInv'
<1>1. TypeOK /\ events' \in Nat /\ events' <= MaxEvents
  BY OneMoreEvent DEF IInv, Overheard, Known
<1>2. outcome' \in Outcomes \cup {None} /\ active' \subseteq Symbols
  BY <1>1, SettleTypes DEF Overheard, Outcomes
<1> QED
  BY <1>1, <1>2, RefusingKeeps DEF Overheard

LEMMA UnknownKeeps ==
  ASSUME IInv, Unknown PROVE IInv'
<1>1. /\ TypeOK /\ bytes \in Nat /\ unmatched \in BOOLEAN /\ queued \in Nat
      /\ Buffered <= MaxBuffer
      /\ bytes = AllBytes + (IF unmatched THEN NameBytes ELSE 0)
  BY DEF IInv, TypeOK, Budgets
<1>2. /\ events' = events + 1 /\ events' \in Nat /\ events' <= MaxEvents
      /\ UNCHANGED <<link, queued, busy, todo, data, kept, pending, marks, heard, history>>
  BY OneMoreEvent DEF Unknown
<1>3. CASE ~unmatched /\ Fits(NameBytes)
  <2>1. /\ unmatched' = TRUE /\ bytes' = bytes + NameBytes /\ UNCHANGED <<outcome, active>>
    BY <1>3 DEF Unknown
  <2>2. queued * MessageBytes \in Int
    BY <1>1, ConstantTypes
  <2>3. Buffered' <= MaxBuffer
    BY <1>1, <1>2, <1>3, <2>1, <2>2, ConstantTypes DEF Fits, Buffered
  <2>4. AllBytes \in Nat
    BY <1>1, AllBytesIsNat
  <2>5. bytes' \in Nat /\ bytes' = AllBytes + NameBytes
    BY <1>1, <1>3, <2>1, <2>4, ConstantTypes
  <2> QED
    BY <1>1, <1>2, <2>1, <2>3, <2>5, CountingKeeps DEF TypeOK
<1>4. CASE unmatched \/ ~Fits(NameBytes)
  <2>1. unmatched' = unmatched /\ bytes' = bytes
    BY <1>4 DEF Unknown
  <2>2. outcome' \in Outcomes \cup {None} /\ active' \subseteq Symbols
    <3>1. CASE unmatched
      BY <1>1, <3>1 DEF Unknown, TypeOK
    <3>2. CASE ~unmatched
      <4>1. Settle("LOCAL_BUFFER_BUDGET_EXCEEDED")
        BY <1>4, <3>2 DEF Unknown
      <4> QED
        BY <1>1, <4>1, SettleTypes DEF Outcomes
    <3> QED
      BY <3>1, <3>2
  <2> QED
    BY <1>2, <2>1, <2>2, RefusingKeeps
<1> QED
  BY <1>1, <1>3, <1>4

\* Steps that take an event of a requested symbol.
LEMMA HeardKeeps ==
  ASSUME IInv, NEW e \in Events, NEW delta \in Int, NEW p \in Seq(Events),
         Hear(e, delta), pending' = [pending EXCEPT ![e.sym] = p],
         delta = EventBytes * (Len(p) - Len(pending[e.sym])),
         Fits(NameCost(e) + delta), ~EventsSpent,
         todo' \in Seq(Events), active' \subseteq Symbols,
         complete' \in [Symbols -> BOOLEAN], snipped' \in [Symbols -> BOOLEAN],
         local' = local, outcome' \in Outcomes \cup {None}, Transactions'
  PROVE  IInv'
<1>1. /\ Exact' /\ Budgets'
      /\ data' \in [Symbols -> Data] /\ bytes' \in Nat /\ events' \in Nat
      /\ heard' \in [Symbols -> SUBSET ({OwnName} \cup Times)]
      /\ pending' \in [Symbols -> Seq(Events)]
  BY HearingKeeps
<1>2. UNCHANGED <<link, queued, busy, kept, unmatched, history>>
  BY DEF Hear
<1>3. TypeOK'
  BY <1>1, <1>2 DEF IInv, TypeOK, link, history
<1>4. Attempts'
  BY <1>2 DEF IInv, Attempts, link, history
<1> QED
  BY <1>1, <1>3, <1>4 DEF IInv

\* Nothing is queued for the symbol: its pending events stay what they are.
LEMMA SilentlyHeard ==
  ASSUME IInv, NEW e \in Events, Matched(e), Hear(e, 0), pending' = pending,
         todo' = todo, active' \subseteq Symbols,
         complete' \in [Symbols -> BOOLEAN], snipped' \in [Symbols -> BOOLEAN],
         local' = local, outcome' \in Outcomes \cup {None},
         \A s \in Symbols : Terminal(s)' => Terminal(s)
  PROVE  IInv'
<1> DEFINE p == pending[e.sym]
<1>1. TypeOK /\ e.sym \in Symbols /\ p \in Seq(Events) /\ Len(p) \in Nat
  BY EventTypes DEF IInv, TypeOK
<1>2. pending' = [pending EXCEPT ![e.sym] = p] /\ 0 \in Int
  BY <1>1 DEF TypeOK
<1>3. 0 = EventBytes * (Len(p) - Len(pending[e.sym]))
  <2>1. Len(p) - Len(pending[e.sym]) = 0
    BY <1>1
  <2> QED
    BY <2>1, ConstantTypes
<1>4. IsFiniteSet(heard[e.sym])
  BY <1>1 DEF IInv, Exact
<1>5. Fits(NameCost(e) + 0) /\ ~EventsSpent
  <2>1. NameCost(e) \in Nat
    BY <1>1, <1>4, NamesTypes
  <2>2. NameCost(e) + 0 = NameCost(e)
    BY <2>1
  <2> QED
    BY <2>2 DEF Matched, Known
<1>6. Transactions'
  <2>1. busy' = busy /\ queued' = queued
    BY DEF Hear
  <2> QED
    BY <2>1 DEF IInv, Transactions
<1>7. todo' \in Seq(Events)
  BY <1>1 DEF TypeOK
<1> QED
  BY <1>1, <1>2, <1>3, <1>5, <1>6, <1>7, HeardKeeps

LEMMA IgnoreKeeps ==
  ASSUME IInv, NEW e \in Events, Ignore(e) PROVE IInv'
<1>1. TypeOK /\ UNCHANGED <<todo, active, pending, complete, snipped, local, outcome>>
  BY DEF IInv, Ignore, marks
<1>2. \A s \in Symbols : Terminal(s)' => Terminal(s)
  BY <1>1 DEF Terminal
<1>3. /\ active' \subseteq Symbols /\ outcome' \in Outcomes \cup {None}
      /\ complete' \in [Symbols -> BOOLEAN] /\ snipped' \in [Symbols -> BOOLEAN]
  BY <1>1 DEF TypeOK
<1>4. Matched(e) /\ Hear(e, 0)
  BY DEF Ignore
<1> QED
  BY <1>1, <1>2, <1>3, <1>4, SilentlyHeard

LEMMA AfterFailureKeeps ==
  ASSUME IInv, NEW e \in Events, AfterFailure(e) PROVE IInv'
<1>1. TypeOK /\ e.sym \in Symbols
  BY EventTypes DEF IInv
<1>2. UNCHANGED <<todo, pending, local, outcome>> /\ active' = Unsubscribed(e.sym)
  BY DEF AfterFailure
<1>3. Terminal(e.sym)
  BY DEF AfterFailure, Terminal
<1>4. \E c, n \in BOOLEAN : /\ complete' = [complete EXCEPT ![e.sym] = c]
                            /\ snipped' = [snipped EXCEPT ![e.sym] = n]
  <2> DEFINE c == complete[e.sym]
                  \/ (e.flags # None /\ ~Has(e, "TX_PENDING") /\ Has(e, "END"))
             n == snipped[e.sym]
                  \/ (e.flags # None /\ ~Has(e, "TX_PENDING") /\ Has(e, "SNIP"))
  <2>1. /\ complete' = [complete EXCEPT ![e.sym] = c]
        /\ snipped' = [snipped EXCEPT ![e.sym] = n]
    BY DEF AfterFailure
  <2>2. c \in BOOLEAN /\ n \in BOOLEAN
    OBVIOUS
  <2> HIDE DEF c, n
  <2> QED
    BY <2>1, <2>2
<1>5. /\ complete' \in [Symbols -> BOOLEAN] /\ snipped' \in [Symbols -> BOOLEAN]
      /\ \A s \in Symbols \ {e.sym} : complete'[s] = complete[s] /\ snipped'[s] = snipped[s]
  BY <1>1, <1>4 DEF TypeOK
<1>6. \A s \in Symbols : Terminal(s)' => Terminal(s)
  BY <1>2, <1>3, <1>5 DEF Terminal
<1>7. active' \subseteq Symbols /\ outcome' \in Outcomes \cup {None}
  BY <1>1, <1>2 DEF TypeOK, Unsubscribed
<1> QED
  BY <1>2, <1>5, <1>6, <1>7, SilentlyHeard DEF AfterFailure

\* A transaction grows by one event, or the budget ends the attempt.
LEMMA BufferKeeps ==
  ASSUME IInv, NEW e \in Events, Buffer(e) PROVE IInv'
<1>1. TypeOK /\ e.sym \in Symbols /\ Transactions
  BY EventTypes DEF IInv
<1>2. UNCHANGED <<todo, complete, snipped, local>>
  BY DEF Buffer, marks
<1>3. \A s \in Symbols : Terminal(s)' = Terminal(s)
  BY <1>2 DEF Terminal
<1>4. /\ Matched(e) /\ ~EventsSpent /\ todo = <<>> /\ ~Terminal(e.sym)
  BY DEF Buffer, Live, Matched, Known, Ready, Terminal, Done
<1>5. CASE Fits(NameCost(e) + EventBytes)
  <2> DEFINE q == pending[e.sym]
             p == Append(q, e)
  <2>1. /\ Hear(e, EventBytes) /\ pending' = [pending EXCEPT ![e.sym] = p]
        /\ UNCHANGED <<outcome, active>>
    BY <1>5 DEF Buffer
  <2>2. q \in Seq(Events) /\ p \in Seq(Events) /\ Len(p) = Len(q) + 1 /\ Len(q) \in Nat
    BY <1>1 DEF TypeOK
  <2>3. EventBytes = EventBytes * (Len(p) - Len(q))
    <3>1. Len(p) - Len(q) = 1
      BY <2>2
    <3> QED
      BY <3>1, ConstantTypes
  <2>4. \A k \in DOMAIN p : p[k].sym = e.sym
    BY <1>1, <2>2 DEF Transactions
  <2>5. pending' \in [Symbols -> Seq(Events)] /\ pending'[e.sym] = p
        /\ \A s \in Symbols \ {e.sym} : pending'[s] = pending[s]
    BY <1>1, <2>1, <2>2 DEF TypeOK
  <2> HIDE DEF p, q
  <2>6. Transactions'
    <3>1. busy' = busy /\ queued' = queued
      BY <2>1 DEF Hear
    <3>2. \A s \in Symbols : \A k \in DOMAIN pending'[s] : pending'[s][k].sym = s
      <4> TAKE s \in Symbols
      <4> QED
        BY <1>1, <2>4, <2>5 DEF Transactions
    <3>3. \A s \in Symbols : Terminal(s)' => pending'[s] = <<>>
      BY <1>1, <1>3, <1>4, <2>5 DEF Transactions
    <3>4. DOMAIN todo = {}
      BY <1>4
    <3> QED
      BY <1>1, <1>2, <1>4, <3>1, <3>2, <3>3, <3>4 DEF Transactions
  <2>7. EventBytes \in Int
    BY ConstantTypes
  <2> QED
    BY <1>1, <1>2, <1>4, <1>5, <2>1, <2>2, <2>3, <2>6, <2>7, HeardKeeps
       DEF TypeOK, q
<1>6. CASE ~Fits(NameCost(e) + EventBytes)
  <2>1. Hear(e, 0) /\ Settle("LOCAL_BUFFER_BUDGET_EXCEEDED") /\ pending' = pending
    BY <1>6 DEF Buffer
  <2>2. outcome' \in Outcomes \cup {None} /\ active' \subseteq Symbols
    BY <1>1, <2>1, SettleTypes DEF Outcomes
  <2> QED
    <3>1. complete' \in [Symbols -> BOOLEAN] /\ snipped' \in [Symbols -> BOOLEAN]
      BY <1>1, <1>2 DEF TypeOK
    <3>2. \A s \in Symbols : Terminal(s)' => Terminal(s)
      BY <1>3
    <3> QED
      BY <1>2, <1>4, <2>1, <2>2, <3>1, <3>2, SilentlyHeard
<1> QED
  BY <1>5, <1>6

\* A whole transaction is released: its charge goes with it.
LEMMA CommitKeeps ==
  ASSUME IInv, NEW e \in Events, Commit(e) PROVE IInv'
<1> DEFINE q == pending[e.sym]
           delta == 0 - EventBytes * Len(q)
<1>1. TypeOK /\ e.sym \in Symbols /\ Transactions /\ q \in Seq(Events) /\ Len(q) \in Nat
  BY EventTypes DEF IInv, TypeOK
<1>2. /\ UNCHANGED <<active, complete, snipped, local, outcome>>
      /\ Hear(e, delta) /\ todo' = Append(q, e)
      /\ pending' = [pending EXCEPT ![e.sym] = <<>>]
  BY DEF Commit, marks, Released
<1>3. /\ Matched(e) /\ ~EventsSpent /\ busy
  BY DEF Commit, Live, Matched, Known, Ready
<1>4. <<>> \in Seq(Events) /\ Len(<<>>) = 0
  OBVIOUS
<1>5. EventBytes * Len(q) \in Nat /\ delta \in Int
      /\ delta = EventBytes * (Len(<<>>) - Len(q))
  <2> DEFINE n == Len(q)
             m == 0 - n
  <2>1. n \in Nat /\ m \in Int /\ n + m = 0 /\ Len(<<>>) - n = m
    BY <1>1, <1>4
  <2> HIDE DEF n, m
  <2>2. EventBytes * (n + m) = EventBytes * n + EventBytes * m
        /\ EventBytes * 0 = 0 /\ EventBytes * m \in Int
    BY <2>1, ConstantTypes
  <2>3. EventBytes * n \in Nat
    BY <2>1, ConstantTypes
  <2>4. EventBytes * m = 0 - EventBytes * n
    BY <2>1, <2>2, <2>3
  <2> QED
    BY <2>1, <2>3, <2>4 DEF n
<1>6. Fits(NameCost(e) + delta)
  <2>1. IsFiniteSet(heard[e.sym])
    BY <1>1 DEF IInv, Exact
  <2>2. NameCost(e) \in Nat
    BY <1>1, <2>1, NamesTypes
  <2>3. bytes \in Nat /\ queued * MessageBytes \in Int
    BY <1>1, ConstantTypes DEF TypeOK
  <2>4. bytes + queued * MessageBytes + NameCost(e) <= MaxBuffer
    BY <1>3 DEF Matched, Fits, Buffered
  <2> DEFINE x == EventBytes * Len(q)
  <2>5. x \in Nat /\ delta = 0 - x /\ MaxBuffer \in Int
    BY <1>5, ConstantTypes
  <2> HIDE DEF x, delta
  <2>6. bytes + queued * MessageBytes + (NameCost(e) + delta) <= MaxBuffer
    BY <2>2, <2>3, <2>4, <2>5
  <2> QED
    BY <2>6 DEF Fits, Buffered
<1>7. todo' \in Seq(Events) /\ \A k \in DOMAIN todo' : todo'[k].sym = e.sym
  BY <1>1, <1>2 DEF Transactions
<1>8. Transactions'
  <2>1. busy' = busy /\ queued' = queued
    BY <1>2 DEF Hear
  <2>2. pending' \in [Symbols -> Seq(Events)] /\ pending'[e.sym] = <<>>
        /\ \A s \in Symbols \ {e.sym} : pending'[s] = pending[s]
    BY <1>1, <1>2 DEF TypeOK
  <2>3. \A s \in Symbols : Terminal(s)' = Terminal(s)
    BY <1>2 DEF Terminal
  <2>4. \A s \in Symbols : \A k \in DOMAIN pending'[s] : pending'[s][k].sym = s
    <3> TAKE s \in Symbols
    <3>1. DOMAIN <<>> = {}
      OBVIOUS
    <3> QED
      BY <1>1, <2>2, <3>1 DEF Transactions
  <2> QED
    BY <1>1, <1>3, <1>7, <2>1, <2>2, <2>3, <2>4 DEF Transactions
<1> HIDE DEF delta
<1> QED
  BY <1>1, <1>2, <1>3, <1>4, <1>5, <1>6, <1>7, <1>8, HeardKeeps DEF TypeOK

\* What one event of a transaction makes of the data of its symbol.
Ended(e, begun, verdict) ==
  CASE Has(e, "REMOVE") -> Removed(e.sym, begun, e.index)
    [] verdict = "store" -> Stored(begun, e.index, e.row)
    [] OTHER -> begun
Begun(e) == IF Has(e, "BEGIN") THEN Reset(e.sym) ELSE data[e.sym]
Judged(e) ==
  IF e.row = NoRow \/ local[e.sym] # None THEN "skip"
  ELSE Verdict(e.sym, Begun(e), e.index, e.row)

\* Whatever the verdict, the ledger stays exact and within the budget.
LEMMA EndedKeeps ==
  ASSUME IInv, NEW e \in Events, NEW s, s = e.sym, NEW b, b = Begun(e),
         NEW d, d = Ended(e, b, Judged(e))
  PROVE  /\ Retained(d, kept[s], Charged(s))
         /\ Buffered + (d.bytes - data[s].bytes) <= MaxBuffer
<1>1. /\ TypeOK /\ s \in Symbols /\ e.index \in Indices
      /\ e.row \in Rows \cup {NoRow} /\ (Has(e, "REMOVE") => e.row = NoRow)
      /\ Buffered <= MaxBuffer
  BY EventTypes DEF IInv, Budgets
<1>2. /\ Counted(kept[s]) /\ Retained(data[s], kept[s], Charged(s)) /\ Charged(s) \in Nat
  BY <1>1, ChargedIsNat DEF IInv, Exact
<1>3. Retained(b, kept[s], Charged(s)) /\ b.bytes <= data[s].bytes
  <2>1. data[s].bytes \in Nat
    BY <1>1 DEF TypeOK, Data
  <2>2. CASE Has(e, "BEGIN")
    BY <1>1, <1>2, <2>2, ResetKeeps DEF Begun
  <2>3. CASE ~Has(e, "BEGIN")
    BY <1>2, <2>1, <2>3 DEF Begun
  <2> QED
    BY <2>2, <2>3
<1>4. /\ Buffered \in Int /\ data[s].bytes \in Nat /\ b \in Data /\ b.bytes \in Nat
  <2>1. queued * MessageBytes \in Int
    BY <1>1, ConstantTypes DEF TypeOK
  <2>2. b \in Data
    BY <1>3 DEF Retained
  <2>3. b.bytes \in Nat
    BY <2>2 DEF Data
  <2>4. data[s].bytes \in Nat /\ bytes \in Nat
    BY <1>1 DEF TypeOK, Data
  <2> QED
    BY <2>1, <2>2, <2>3, <2>4 DEF Buffered
<1>5. CASE Has(e, "REMOVE")
  <2>1. d = Removed(s, b, e.index)
    <3>1. Judged(e) # "store"
      BY <1>1, <1>5 DEF Judged
    <3> QED
      BY <1>5, <3>1 DEF Ended
  <2>2. /\ Retained(d, kept[s], Charged(s)) /\ d.bytes <= b.bytes
    BY <1>1, <1>2, <1>3, <2>1, RemovedKeeps
  <2>3. d.bytes \in Nat
    BY <2>2 DEF Retained, Data
  <2> QED
    BY <1>1, <1>3, <1>4, <2>2, <2>3, ConstantTypes
<1>6. CASE ~Has(e, "REMOVE") /\ Judged(e) = "store"
  <2> DEFINE i == e.index
             row == e.row
  <2>1. d = Stored(b, i, row)
    BY <1>6 DEF Ended
  <2>2. row \in Rows /\ Verdict(s, b, i, row) = "store"
    BY <1>1, <1>6 DEF Judged
  <2>3. /\ Open4Write(s, i) /\ ~(b.rows[i] = NoRow /\ b.count >= MaxRows)
        /\ Fits(b.bytes - data[s].bytes + IndexCost(b, i) + Positive(RowCost(b, i, row)))
    BY <2>2 DEF Verdict
  <2>4. b.count \in Nat
    BY <1>4 DEF Data
  <2>5. b.rows[i] = NoRow => b.count < MaxRows
    BY <2>3, <2>4, ConstantTypes
  <2>6. /\ Retained(d, kept[s], Charged(s))
        /\ d.bytes = b.bytes + IndexCost(b, i) + RowCost(b, i, row)
        /\ IndexCost(b, i) \in Nat /\ RowCost(b, i, row) \in Int
    BY <1>1, <1>2, <1>3, <2>1, <2>2, <2>3, <2>5, StoredKeeps
  <2>7. Positive(RowCost(b, i, row)) \in Int
        /\ RowCost(b, i, row) <= Positive(RowCost(b, i, row))
    BY <2>6 DEF Positive
  <2>8. Buffered + (b.bytes - data[s].bytes + IndexCost(b, i)
                    + Positive(RowCost(b, i, row))) <= MaxBuffer
    BY <2>3 DEF Fits
  <2> QED
    BY <1>4, <2>6, <2>7, <2>8, ConstantTypes
<1>7. CASE ~Has(e, "REMOVE") /\ Judged(e) # "store"
  <2>1. d = b
    BY <1>7 DEF Ended
  <2> QED
    BY <1>1, <1>3, <1>4, <2>1, ConstantTypes
<1> QED
  BY <1>5, <1>6, <1>7

LEMMA EventApplied ==
  ASSUME IInv, Apply, NEW e, e = Head(todo), NEW s, s = e.sym,
         NEW d, d = Ended(e, Begun(e), Judged(e))
  PROVE  IInv'
<1>1. TypeOK /\ Transactions /\ Attempts /\ busy /\ queued > 0 /\ todo # <<>>
  BY DEF IInv, Apply, Transactions
<1>2. e \in Events /\ Tail(todo) \in Seq(Events) /\ 1 \in DOMAIN todo /\ e = todo[1]
  BY <1>1 DEF TypeOK
<1>3. s \in Symbols /\ pending[s] = <<>>
  BY <1>1, <1>2, EventTypes DEF Transactions
<1>4. /\ data' = [data EXCEPT ![s] = d] /\ bytes' = bytes + d.bytes - data[s].bytes
      /\ UNCHANGED <<link, queued, busy, kept, pending, heard, unmatched, events,
                     daily, stranded>>
      /\ todo' = <<>> \/ todo' = Tail(todo)
  BY DEF Apply, Ended, Begun, Judged
<1>5. /\ \E l \in LocalFailures \cup {None} : local' = [local EXCEPT ![s] = l]
      /\ \E c \in BOOLEAN : complete' = [complete EXCEPT ![s] = c]
      /\ \E n \in BOOLEAN : snipped' = [snipped EXCEPT ![s] = n]
      /\ \E m \in BOOLEAN : dropped' = [dropped EXCEPT ![s] = m]
  <2>1. \E l \in LocalFailures \cup {None} : local' = [local EXCEPT ![s] = l]
    <3> DEFINE v == Judged(e)
    <3>1. local' = [local EXCEPT ![s] = IF v \in LocalFailures THEN v ELSE local[s]]
      BY DEF Apply, Judged, Begun
    <3>2. local[s] \in LocalFailures \cup {None}
      BY <1>1, <1>3 DEF TypeOK
    <3> HIDE DEF v
    <3> QED
      BY <3>1, <3>2
  <2>2. \E c \in BOOLEAN : complete' = [complete EXCEPT ![s] = c]
    <3> DEFINE c == Has(e, "END") \/ (complete[s] /\ ~Has(e, "BEGIN"))
    <3>1. complete' = [complete EXCEPT ![s] = c]
      BY DEF Apply
    <3>2. c \in BOOLEAN
      OBVIOUS
    <3> HIDE DEF c
    <3> QED
      BY <3>1, <3>2
  <2>3. \E n \in BOOLEAN : snipped' = [snipped EXCEPT ![s] = n]
    <3> DEFINE n == Has(e, "SNIP") \/ (snipped[s] /\ ~Has(e, "BEGIN"))
    <3>1. snipped' = [snipped EXCEPT ![s] = n]
      BY DEF Apply
    <3>2. n \in BOOLEAN
      OBVIOUS
    <3> HIDE DEF n
    <3> QED
      BY <3>1, <3>2
  <2>4. \E m \in BOOLEAN : dropped' = [dropped EXCEPT ![s] = m]
    <3> DEFINE v == Judged(e)
               m == \/ v = "LOCAL_BUFFER_BUDGET_EXCEEDED" \/ v \in LocalFailures
                    \/ (dropped[s] /\ ~Has(e, "BEGIN"))
    <3>1. dropped' = [dropped EXCEPT ![s] = m]
      BY DEF Apply, Judged, Begun
    <3>2. m \in BOOLEAN
      OBVIOUS
    <3> HIDE DEF m
    <3> QED
      BY <3>1, <3>2
  <2> QED
    BY <2>1, <2>2, <2>3, <2>4
<1>6. /\ local' \in [Symbols -> LocalFailures \cup {None}]
      /\ complete' \in [Symbols -> BOOLEAN] /\ snipped' \in [Symbols -> BOOLEAN]
      /\ dropped' \in [Symbols -> BOOLEAN]
      /\ \A x \in Symbols \ {s} :
           local'[x] = local[x] /\ complete'[x] = complete[x] /\ snipped'[x] = snipped[x]
  <2>1. PICK l \in LocalFailures \cup {None} : local' = [local EXCEPT ![s] = l]
    BY <1>5
  <2>2. PICK c \in BOOLEAN : complete' = [complete EXCEPT ![s] = c]
    BY <1>5
  <2>3. PICK n \in BOOLEAN : snipped' = [snipped EXCEPT ![s] = n]
    BY <1>5
  <2>4. PICK m \in BOOLEAN : dropped' = [dropped EXCEPT ![s] = m]
    BY <1>5
  <2>5. /\ local \in [Symbols -> LocalFailures \cup {None}]
        /\ complete \in [Symbols -> BOOLEAN] /\ snipped \in [Symbols -> BOOLEAN]
        /\ dropped \in [Symbols -> BOOLEAN]
    BY <1>1 DEF TypeOK
  <2>6. /\ local' \in [Symbols -> LocalFailures \cup {None}]
        /\ \A x \in Symbols \ {s} : local'[x] = local[x]
    BY <2>1, <2>5
  <2>7. /\ complete' \in [Symbols -> BOOLEAN]
        /\ \A x \in Symbols \ {s} : complete'[x] = complete[x]
    BY <2>2, <2>5
  <2>8. /\ snipped' \in [Symbols -> BOOLEAN]
        /\ \A x \in Symbols \ {s} : snipped'[x] = snipped[x]
    BY <2>3, <2>5
  <2>9. dropped' \in [Symbols -> BOOLEAN]
    BY <2>4, <2>5
  <2> QED
    BY <2>6, <2>7, <2>8, <2>9
<1>7. active' \subseteq Symbols /\ outcome' \in Outcomes \cup {None}
  <2>1. CASE Judged(e) = "LOCAL_BUFFER_BUDGET_EXCEEDED"
    <3>1. Settle("LOCAL_BUFFER_BUDGET_EXCEEDED")
      BY <2>1 DEF Apply, Judged, Begun
    <3> QED
      BY <1>1, <3>1, SettleTypes DEF Outcomes
  <2>2. CASE Judged(e) # "LOCAL_BUFFER_BUDGET_EXCEEDED"
    <3>1. outcome' = outcome /\ (active' = active \/ active' = Unsubscribed(s))
      BY <2>2 DEF Apply, Judged, Begun
    <3> QED
      BY <1>1, <3>1 DEF TypeOK, Unsubscribed
  <2> QED
    BY <2>1, <2>2
<1>8. todo' \in Seq(Events) /\ \A k \in DOMAIN todo' : todo'[k].sym = s
  <2>1. CASE todo' = <<>>
    BY <2>1
  <2>2. CASE todo' = Tail(todo)
    <3>1. \A k \in DOMAIN Tail(todo) : k + 1 \in DOMAIN todo /\ Tail(todo)[k] = todo[k + 1]
      BY <1>1 DEF TypeOK
    <3>2. \A k \in DOMAIN todo : todo[k].sym = s
      BY <1>1, <1>2 DEF Transactions
    <3> QED
      BY <1>2, <2>2, <3>1, <3>2
  <2> QED
    BY <1>4, <2>1, <2>2
<1>9. /\ Retained(d, kept[s], Charged(s)) /\ Buffered + (d.bytes - data[s].bytes) <= MaxBuffer
  BY <1>2, EndedKeeps
<1>10. \A x \in Symbols : Charged(x)' = Charged(x)
  BY <1>4 DEF Charged
<1>11. Exact' /\ data' \in [Symbols -> Data] /\ bytes' \in Nat
       /\ bytes' = AllBytes' + (IF unmatched' THEN NameBytes ELSE 0)
  <2>1. IsFiniteSet(heard'[s])
    BY <1>3, <1>4 DEF IInv, Exact
  <2>2. Retained(d, kept[s], Charged(s)')
    BY <1>3, <1>9, <1>10
  <2>3. \A x \in Symbols \ {s} : heard'[x] = heard[x] /\ Charged(x)' = Charged(x)
    BY <1>4, <1>10
  <2> QED
    BY <1>3, <1>4, <2>1, <2>2, <2>3, OneSymbol
<1>12. Budgets'
  <2>1. /\ data[s].bytes \in Nat /\ bytes \in Nat /\ queued * MessageBytes \in Int
    BY <1>1, <1>3, ConstantTypes DEF TypeOK, Data
  <2>2. d.bytes \in Nat
    BY <1>9 DEF Retained, Data
  <2>3. Buffered' = bytes + d.bytes - data[s].bytes + queued * MessageBytes
    BY <1>4 DEF Buffered
  <2>4. bytes + queued * MessageBytes + (d.bytes - data[s].bytes) <= MaxBuffer
    BY <1>9 DEF Buffered
  <2>5. Buffered' <= MaxBuffer
    BY <2>1, <2>2, <2>3, <2>4
  <2> QED
    BY <1>4, <1>11, <2>5 DEF IInv, Budgets
<1>13. Transactions'
  <2>1. \A x \in Symbols : Terminal(x)' => pending'[x] = <<>>
    <3> TAKE x \in Symbols
    <3>1. CASE x = s
      BY <1>3, <1>4, <3>1
    <3>2. CASE x # s
      BY <1>1, <1>4, <1>6, <3>2 DEF Transactions, Terminal
    <3> QED
      BY <3>1, <3>2
  <2>2. \A k \in DOMAIN todo' : pending'[todo'[k].sym] = <<>>
    BY <1>3, <1>4, <1>8
  <2>3. \A j, k \in DOMAIN todo' : todo'[j].sym = todo'[k].sym
    BY <1>8
  <2> QED
    BY <1>1, <1>4, <2>1, <2>2, <2>3 DEF Transactions
<1>14. TypeOK' /\ Attempts'
  BY <1>1, <1>4, <1>6, <1>7, <1>8, <1>11 DEF TypeOK, Attempts, link
<1> QED
  BY <1>11, <1>12, <1>13, <1>14 DEF IInv

LEMMA ApplyKeeps ==
  ASSUME IInv, Apply PROVE IInv'
BY EventApplied

\* A reconnect moves the bytes of open transactions to stranded.
LEMMA ResumeKeeps ==
  ASSUME IInv, Resume PROVE IInv'
<1>1. /\ TypeOK /\ Exact /\ Transactions /\ Attempts /\ daily \in BOOLEAN
      /\ bytes = AllBytes + (IF unmatched THEN NameBytes ELSE 0)
      /\ bytes \in Nat /\ bytes <= MaxBuffer /\ (daily => events <= MaxEvents)
  <2>1. bytes \in Nat /\ bytes < MaxBuffer
    BY DEF IInv, TypeOK, Resume
  <2> QED
    BY <2>1, ConstantTypes, DailyAssumption DEF IInv, Budgets, TypeOK
<1>2. /\ daily /\ attempt' = 2 /\ stage' = "CONNECTING" /\ authSent' = FALSE
      /\ authConfirmed' = FALSE /\ queued' = 0 /\ busy' = FALSE /\ todo' = <<>>
      /\ outcome' = None
      /\ stranded' = [s \in Symbols |-> stranded[s] + EventBytes * Len(pending[s])]
      /\ pending' = PerSymbol(<<>>)
      /\ data' = [s \in Symbols |-> [data[s] EXCEPT !.snap = 0]]
      /\ kept' = data /\ active' \subseteq Symbols
      /\ UNCHANGED <<daily, complete, snipped, local, heard, unmatched, events, bytes,
                     dropped>>
  BY DEF Resume, Reconnect, marks, ledger
<1>3. \A s \in Symbols :
        /\ data[s] \in Data /\ data'[s] \in Data /\ kept'[s] = data[s]
        /\ data'[s].rows = data[s].rows /\ data'[s].seen = data[s].seen
        /\ data'[s].snap = 0 /\ data'[s].bytes = data[s].bytes
        /\ data'[s].unique = data[s].unique /\ data'[s].count = data[s].count
  <2> TAKE s \in Symbols
  <2>1. data'[s] = [data[s] EXCEPT !.snap = 0] /\ data[s] \in Data
    BY <1>1, <1>2 DEF TypeOK
  <2> QED
    BY <1>2, <2>1 DEF Data
<1>4. \A s \in Symbols :
        IsFiniteSet(heard[s]) /\ Counted(data[s])
        /\ data[s].bytes = Weighs(data[s]) + Charged(s)
  BY <1>1 DEF Exact, Retained
<1>5. \A s \in Symbols :
        Charged(s)' = Charged(s) /\ stranded'[s] \in Nat /\ pending'[s] = <<>>
  <2> TAKE s \in Symbols
  <2>1. /\ NameBytes * Cardinality(heard[s]) \in Nat
        /\ EventBytes * Len(pending[s]) \in Nat /\ stranded[s] \in Nat
    BY <1>1, <1>4, ChargedIsNat
  <2>2. /\ pending'[s] = <<>> /\ Len(<<>>) = 0 /\ EventBytes * 0 = 0
        /\ stranded'[s] = stranded[s] + EventBytes * Len(pending[s])
    BY <1>2, ConstantTypes DEF PerSymbol
  <2>3. Charged(s)' = NameBytes * Cardinality(heard[s]) + 0 + stranded'[s]
    BY <1>2, <2>2 DEF Charged
  <2> QED
    BY <2>1, <2>2, <2>3 DEF Charged
<1>6. Exact'
  <2> SUFFICES ASSUME NEW s \in Symbols
               PROVE  /\ Counted(kept'[s]) /\ IsFiniteSet(heard'[s])
                      /\ Retained(data'[s], kept'[s], Charged(s)')
    BY DEF Exact
  <2>1. Weighs(data'[s]) = Weighs(data[s]) /\ Weighs(data[s]) \in Nat
    BY <1>3, WeighsIsNat DEF Weighs
  <2>2. Counted(data'[s])
    BY <1>3, <1>4 DEF Counted
  <2>3. Grown(data'[s], kept'[s])
    BY <1>3, <2>1 DEF Grown
  <2>4. data'[s].bytes = Weighs(data'[s]) + Charged(s)'
    BY <1>3, <1>4, <1>5, <2>1
  <2> QED
    BY <1>2, <1>3, <1>4, <2>2, <2>3, <2>4 DEF Retained
<1>7. Budgets'
  <2>1. [s \in Symbols |-> data'[s].bytes] = [s \in Symbols |-> data[s].bytes]
    BY <1>3
  <2>2. AllBytes' = AllBytes
    BY <2>1 DEF AllBytes
  <2>3. queued' * MessageBytes = 0
    BY <1>2, ConstantTypes
  <2>4. Buffered' = bytes
    BY <1>1, <1>2, <2>3 DEF Buffered
  <2> QED
    BY <1>1, <1>2, <2>2, <2>4 DEF Budgets
<1>8. Transactions'
  BY <1>2, <1>5 DEF Transactions
<1>9. Attempts'
  BY <1>2 DEF Attempts
<1>10. TypeOK'
  <2>1. data' \in [Symbols -> Data] /\ kept' \in [Symbols -> Data]
    BY <1>1, <1>2, <1>3 DEF TypeOK
  <2>2. pending' \in [Symbols -> Seq(Events)] /\ todo' \in Seq(Events)
    BY <1>2 DEF PerSymbol
  <2>3. stranded' \in [Symbols -> Nat]
    BY <1>2, <1>5
  <2>4. stage' \in Stages /\ attempt' \in {1, 2} /\ outcome' \in Outcomes \cup {None}
    BY <1>2 DEF Stages
  <2>5. authSent' \in BOOLEAN /\ authConfirmed' \in BOOLEAN /\ busy' \in BOOLEAN
    BY <1>2
  <2>6. queued' \in 0..MaxQueued
    BY <1>2, ConstantTypes
  <2> QED
    BY <1>1, <1>2, <2>1, <2>2, <2>3, <2>4, <2>5, <2>6 DEF TypeOK
<1> QED
  BY <1>6, <1>7, <1>8, <1>9, <1>10 DEF IInv

LEMMA StartOverKeeps ==
  ASSUME IInv, StartOver PROVE IInv'
<1>1. TypeOK /\ kept = PerSymbol(NoData) /\ stranded = PerSymbol(0)
  BY DEF IInv, Attempts, StartOver
<1>2. /\ ~daily /\ attempt' = 2 /\ stage' = "CONNECTING" /\ authSent' = FALSE
      /\ authConfirmed' = FALSE /\ queued' = 0 /\ busy' = FALSE /\ todo' = <<>>
      /\ outcome' = None
      /\ data' = PerSymbol(NoData) /\ pending' = PerSymbol(<<>>)
      /\ complete' = PerSymbol(FALSE) /\ snipped' = PerSymbol(FALSE)
      /\ local' = PerSymbol(None)
      /\ heard' = PerSymbol({}) /\ unmatched' = FALSE
      /\ events' = 0 /\ bytes' = 0 /\ active' = Symbols
      /\ dropped' = PerSymbol(FALSE)
      /\ UNCHANGED <<daily, kept, stranded>>
  BY DEF StartOver, Reconnect
<1>3. Exact'
  <2> SUFFICES ASSUME NEW s \in Symbols
               PROVE  /\ Counted(kept'[s]) /\ IsFiniteSet(heard'[s])
                      /\ Retained(data'[s], kept'[s], Charged(s)')
    BY DEF Exact
  <2>1. /\ data'[s] = NoData /\ kept'[s] = NoData /\ heard'[s] = {}
        /\ pending'[s] = <<>> /\ stranded'[s] = 0
    BY <1>1, <1>2 DEF PerSymbol
  <2>2. Charged(s)' = 0
    BY <2>1, NothingCharged DEF Charged
  <2>3. NoData \in Data
    BY NothingHeld DEF PerSymbol
  <2> QED
    BY <2>1, <2>2, <2>3, NothingHeld, NothingCharged DEF Retained, Grown
<1>4. Budgets'
  <2>1. [s \in Symbols |-> data'[s].bytes] = [s \in Symbols |-> 0]
    BY <1>2, NothingHeld DEF PerSymbol
  <2>2. Total([s \in Symbols |-> data'[s].bytes]) = 0
    BY <2>1, TotalOfNothing
  <2>3. AllBytes' = 0
    BY <2>2 DEF AllBytes
  <2>4. queued' * MessageBytes = 0
    BY <1>2, ConstantTypes
  <2>5. Buffered' = 0
    BY <1>2, <2>4 DEF Buffered
  <2> QED
    BY <1>2, <2>3, <2>5, ConstantTypes DEF Budgets
<1>5. Transactions'
  BY <1>2 DEF Transactions, PerSymbol
<1>6. Attempts'
  BY <1>1, <1>2 DEF Attempts
<1>7. TypeOK'
  <2>1. data' \in [Symbols -> Data] /\ kept' \in [Symbols -> Data]
    BY <1>1, <1>2, NothingHeld
  <2>2. pending' \in [Symbols -> Seq(Events)] /\ todo' \in Seq(Events)
    BY <1>2 DEF PerSymbol
  <2>3. /\ complete' \in [Symbols -> BOOLEAN] /\ snipped' \in [Symbols -> BOOLEAN]
        /\ local' \in [Symbols -> LocalFailures \cup {None}]
        /\ dropped' \in [Symbols -> BOOLEAN]
    BY <1>2 DEF PerSymbol
  <2>4. heard' \in [Symbols -> SUBSET ({OwnName} \cup Times)]
    BY <1>2 DEF PerSymbol
  <2>5. /\ stage' \in Stages /\ attempt' \in {1, 2} /\ outcome' \in Outcomes \cup {None}
        /\ active' \subseteq Symbols
    BY <1>2 DEF Stages
  <2>6. /\ authSent' \in BOOLEAN /\ authConfirmed' \in BOOLEAN /\ busy' \in BOOLEAN
        /\ unmatched' \in BOOLEAN
    BY <1>2
  <2>7. queued' \in 0..MaxQueued /\ events' \in Nat /\ bytes' \in Nat
    BY <1>2, ConstantTypes
  <2> QED
    BY <1>1, <1>2, <2>1, <2>2, <2>3, <2>4, <2>5, <2>6, <2>7 DEF TypeOK
<1> QED
  BY <1>3, <1>4, <1>5, <1>6, <1>7 DEF IInv

LEMMA StutterKeeps ==
  ASSUME IInv, UNCHANGED vars PROVE IInv'
<1>1. /\ UNCHANGED <<symbolVars, todo, attempt>>
      /\ UNCHANGED <<stage, authSent, authConfirmed, queued, busy, active, outcome>>
  BY DEF vars, link, symbolVars
<1>2. Buffered' = Buffered
  BY <1>1 DEF Buffered, symbolVars, ledger
<1>3. /\ stage \in Stages /\ authSent \in BOOLEAN /\ authConfirmed \in BOOLEAN
      /\ queued \in 0..MaxQueued /\ busy \in BOOLEAN /\ active \subseteq Symbols
      /\ outcome \in Outcomes \cup {None} /\ Buffered <= MaxBuffer
      /\ (busy => queued > 0) /\ (~busy => todo = <<>>)
  BY DEF IInv, TypeOK, Budgets, Transactions
<1> QED
  BY <1>1, <1>2, <1>3, FrameKeeps

LEMMA NextKeeps == IInv /\ [Next]_vars => IInv'
<1> SUFFICES ASSUME IInv, [Next]_vars PROVE IInv'
  OBVIOUS
<1>1. CASE Handshake
  BY <1>1, HandshakeKeeps
<1>2. CASE Receive
  BY <1>2, MessagesKeep
<1>3. CASE Break \/ Deadline \/ Abort \/ GiveUp \/ BeginData
  BY <1>3, SettlingKeeps
<1>4. CASE EndData
  BY <1>4, EndDataKeeps
<1>5. CASE Apply
  BY <1>5, ApplyKeeps
<1>6. CASE OverEvents
  BY <1>6, OverEventsKeeps
<1>7. CASE Unknown
  BY <1>7, UnknownKeeps
<1>8. ASSUME NEW e \in Events, TakeEvent(e) PROVE IInv'
  BY <1>8, OverheardKeeps, IgnoreKeeps, AfterFailureKeeps, BufferKeeps,
     CommitKeeps DEF TakeEvent
<1>9. CASE Resume
  BY <1>9, ResumeKeeps
<1>10. CASE StartOver
  BY <1>10, StartOverKeeps
<1>11. CASE UNCHANGED vars
  BY <1>11, StutterKeeps
<1> QED
  BY <1>1, <1>2, <1>3, <1>4, <1>5, <1>6, <1>7, <1>8, <1>9, <1>10, <1>11
     DEF Next

-----------------------------------------------------------------------------
(* The theorems.                                                           *)

LEMMA Invariance == Spec => []IInv
BY InitEstablishes, NextKeeps, PTL DEF Spec

\* Every variable keeps to its type, for any symbols, rows and budgets.
THEOREM TypeCorrect == Spec => []TypeOK
<1>1. IInv => TypeOK
  BY DEF IInv
<1> QED
  BY <1>1, Invariance, PTL

\* The charges of queueTransactionEvent, retainCandle, removeRetainedCandle,
\* resetSnapshotData and releasePendingTransaction add up to exactly what is
\* retained, and never exceed the budgets, whatever the sizes.
THEOREM LedgerIsExact == Spec => []LedgerExact
<1>1. IInv => LedgerExact
  <2> SUFFICES ASSUME IInv PROVE LedgerExact
    OBVIOUS
  <2>1. \A s \in Symbols :
          /\ Cardinality(Filled(data[s].rows)) <= MaxRows
          /\ data[s].bytes = Weighs(data[s]) + Charged(s)
          /\ data[s].unique = Cardinality(data[s].seen)
          /\ data[s].count = Cardinality(Filled(data[s].rows))
          /\ Weighs(data[s]) \in Nat /\ Charged(s) \in Nat
          /\ RowBytes(data[s].rows) \in Nat
          /\ IndexBytes * Cardinality(data[s].seen) \in Nat
          /\ NameBytes * Cardinality(heard[s]) \in Nat
          /\ EventBytes * Len(pending[s]) \in Nat /\ stranded[s] \in Nat
    <3> TAKE s \in Symbols
    <3>1. TypeOK /\ data[s] \in Data /\ IsFiniteSet(heard[s])
          /\ Retained(data[s], kept[s], Charged(s))
      BY DEF IInv, Exact, TypeOK
    <3>2. IndexBytes * Cardinality(data[s].seen) \in Nat
      BY <3>1, WeighsIsNat, ConstantTypes
    <3> QED
      BY <3>1, <3>2, WeighsIsNat, ChargedIsNat DEF Retained, Counted
  <2>2. \A s \in Symbols :
          data[s].bytes = RowBytes(data[s].rows) + IndexBytes * Cardinality(data[s].seen)
            + NameBytes * Cardinality(heard[s]) + EventBytes * Len(pending[s]) + stranded[s]
    <3> TAKE s \in Symbols
    <3> DEFINE r == RowBytes(data[s].rows)
               x == IndexBytes * Cardinality(data[s].seen)
               a == NameBytes * Cardinality(heard[s])
               q == EventBytes * Len(pending[s])
               t == stranded[s]
    <3>1. r \in Nat /\ x \in Nat /\ a \in Nat /\ q \in Nat /\ t \in Nat
      BY <2>1
    <3>2. Weighs(data[s]) = r + x /\ Charged(s) = a + q + t
      BY DEF Weighs, Charged
    <3> HIDE DEF r, x, a, q, t
    <3>3. data[s].bytes = (r + x) + (a + q + t)
      BY <2>1, <3>2
    <3>4. (r + x) + (a + q + t) = r + x + a + q + t
      BY <3>1
    <3> QED
      BY <3>3, <3>4 DEF r, x, a, q, t
  <2>3. Buffered <= MaxBuffer /\ (daily => events <= MaxEvents)
        /\ bytes = AllBytes + (IF unmatched THEN NameBytes ELSE 0)
    BY DEF IInv, Budgets
  <2> QED
    BY <2>1, <2>2, <2>3 DEF LedgerExact, Filled, AllBytes
<1> QED
  BY <1>1, Invariance, PTL

\* A symbol that ended has no open transaction, and rows protected by the
\* reconnect survive every SNAPSHOT_BEGIN and REMOVE_EVENT.
THEOREM CommittedRowsHold == Spec => []CommitsHold
<1>1. IInv => CommitsHold
  BY DEF IInv, Exact, Retained, Grown, Transactions, CommitsHold
<1> QED
  BY <1>1, Invariance, PTL

\* A step keeps the marks and rows of a symbol whose snapshot has ended.
Keeps(s) ==
  todo = <<>> /\ Done(s) /\ (daily \/ attempt' = attempt) =>
    /\ Done(s)' /\ data'[s].rows = data[s].rows
    /\ \A k \in DOMAIN todo' : todo'[k].sym # s

LEMMA HearKeepsRows ==
  ASSUME TypeOK, NEW e \in Events, NEW delta, Hear(e, delta), NEW s \in Symbols
  PROVE  data'[s].rows = data[s].rows
<1>1. data[e.sym] \in Data /\ data[s] \in Data /\ e.sym \in Symbols
  BY EventTypes DEF TypeOK
<1>2. \/ data'[s] = data[s]
      \/ \E b : data'[s] = [data[s] EXCEPT !.bytes = b]
  BY <1>1 DEF Hear, TypeOK
<1> QED
  BY <1>1, <1>2 DEF Data

LEMMA StepKeepsCompleted ==
  ASSUME IInv, Next, NEW s \in Symbols PROVE Keeps(s)
<1> SUFFICES ASSUME todo = <<>>, Done(s), daily \/ attempt' = attempt
             PROVE  /\ Done(s)' /\ data'[s].rows = data[s].rows
                    /\ \A k \in DOMAIN todo' : todo'[k].sym # s
  BY DEF Keeps
<1>1. TypeOK /\ Transactions /\ DOMAIN todo = {}
  BY DEF IInv
<1>2. CASE UNCHANGED <<todo, data, marks>>
  BY <1>1, <1>2 DEF Done, marks
<1>3. CASE \/ Handshake \/ Receive \/ Break \/ Deadline \/ Abort \/ BeginData \/ EndData
           \/ OverEvents \/ Unknown \/ GiveUp
  <2>1. UNCHANGED <<todo, data, marks>>
    BY <1>3 DEF Handshake, Open, Challenge, Authorized, ChannelOpened,
       FeedConfig, Unauthorized, Receive, Break, Deadline, Abort, BeginData,
       EndData, OverEvents, Unknown, GiveUp, symbolVars
  <2> QED
    BY <1>2, <2>1
<1>4. CASE Apply
  BY <1>4 DEF Apply
<1>5. CASE Resume
  <2>1. /\ todo' = <<>> /\ UNCHANGED <<complete, snipped>>
        /\ data'[s] = [data[s] EXCEPT !.snap = 0] /\ data[s] \in Data
    BY <1>1, <1>5 DEF Resume, Reconnect, marks, TypeOK
  <2>2. data'[s].rows = data[s].rows
    BY <2>1
  <2> QED
    BY <2>1, <2>2 DEF Done
<1>6. CASE StartOver
  BY <1>6 DEF StartOver, Reconnect
<1>7. ASSUME NEW e \in Events, TakeEvent(e)
      PROVE  /\ Done(s)' /\ data'[s].rows = data[s].rows
             /\ \A k \in DOMAIN todo' : todo'[k].sym # s
  <2>0. e.sym \in Symbols
    BY EventTypes
  <2>1. CASE Overheard(e)
    BY <1>2, <2>1 DEF Overheard
  <2>2. CASE Ignore(e)
    <3>1. UNCHANGED <<todo, marks>> /\ data'[s].rows = data[s].rows
      BY <1>1, <2>2, HearKeepsRows DEF Ignore
    <3> QED
      BY <1>1, <3>1 DEF Done, marks
  <2>3. CASE AfterFailure(e)
    <3>1. todo' = todo /\ e.sym # s /\ data'[s].rows = data[s].rows
      BY <1>1, <2>3, HearKeepsRows DEF AfterFailure
    <3>2. complete'[s] = complete[s] /\ snipped'[s] = snipped[s]
      BY <1>1, <2>3, <3>1 DEF AfterFailure
    <3> QED
      BY <1>1, <3>1, <3>2 DEF Done
  <2>4. CASE Buffer(e)
    <3>1. UNCHANGED <<todo, marks>> /\ data'[s].rows = data[s].rows
      BY <1>1, <2>4, HearKeepsRows DEF Buffer
    <3> QED
      BY <1>1, <3>1 DEF Done, marks
  <2>5. CASE Commit(e)
    <3>1. /\ e.sym # s /\ UNCHANGED marks /\ todo' = Append(pending[e.sym], e)
          /\ data'[s].rows = data[s].rows
      BY <1>1, <2>5, HearKeepsRows DEF Commit, Live
    <3>2. pending[e.sym] \in Seq(Events)
          /\ \A k \in DOMAIN pending[e.sym] : pending[e.sym][k].sym = e.sym
      BY <1>1, <2>0 DEF TypeOK, Transactions
    <3>3. \A k \in DOMAIN todo' : todo'[k].sym = e.sym
      BY <3>1, <3>2
    <3> QED
      BY <3>1, <3>3 DEF Done, marks
  <2> QED
    BY <1>7, <2>1, <2>2, <2>3, <2>4, <2>5 DEF TakeEvent
<1> QED
  BY <1>3, <1>4, <1>5, <1>6, <1>7 DEF Next

\* Once its snapshot has ended a symbol keeps its rows and its marks, and
\* releasePendingTransaction applies nothing to it any more.
THEOREM CompletedSymbolsKeep == Spec => CompletedKept
<1>1. IInv /\ [Next]_vars =>
        [\A s \in Symbols :
           todo = <<>> /\ Done(s) /\ (daily \/ attempt' = attempt) =>
             /\ Done(s)' /\ data'[s].rows = data[s].rows
             /\ \A k \in DOMAIN todo' : todo'[k].sym # s]_vars
  BY StepKeepsCompleted DEF Keeps
<1> QED
  BY <1>1, Invariance, PTL DEF Spec, CompletedKept
=============================================================================
