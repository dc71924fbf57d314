-------------------------- MODULE HarnessRunProofs --------------------------
(***************************************************************************)
(* The properties of HarnessRun for every catalog, every list of scenarios *)
(* and every status they report.                                           *)
(***************************************************************************)
EXTENDS HarnessRun, SequenceTheorems, FiniteSetTheorems, TLAPS

(***************************************************************************)
(* The inductive invariant.                                                *)
(***************************************************************************)

\* What upsert knows while it goes through its replacements: its index still
\* points at rows of that identifier, and a replacement the index does not have
\* is in no row yet.
UpsertInv ==
  /\ DistinctIds(pending)
  /\ pending # <<>> =>
       /\ \A id \in DOMAIN index : rows[index[id]].id = id
       /\ \A k \in DOMAIN pending :
            pending[k].id \notin DOMAIN index => pending[k].id \notin IdsOf(rows)

\* What Summarize has seen.
ColorInv ==
  /\ stage \notin {"summarize", "done"} => pos = 1 /\ color = "green"
  /\ stage = "summarize" /\ pending # <<>> => pos = 1
  /\ stage = "summarize" => color = Declared(rows, pos - 1)
  /\ stage = "done" => pending = <<>> /\ color = Declared(rows, Len(rows))

\* A row shows the last status reported for it unless upsert has still to get
\* to it.
LatestInv ==
  /\ \A k \in DOMAIN pending : latest[pending[k].id] = pending[k].status
  /\ \A k \in DOMAIN rows :
       rows[k].id \in IdsOf(pending) \/ rows[k].status = latest[rows[k].id]
  /\ IdsOf(rows) \subseteq DOMAIN latest
  /\ IdsOf(pending) \subseteq DOMAIN latest

IInv ==
  /\ TypeOK
  /\ UpsertInv
  /\ RowsAreUnique
  /\ CatalogStaysVisible
  /\ ColorInv
  /\ LatestInv

-----------------------------------------------------------------------------
(* The sort of Summarize. *)

\* Distinct numbers below n, given to 1 .. n, leave none of them out.
LEMMA RankIsOnto ==
  ASSUME NEW n \in Nat, NEW rank \in [1 .. n -> 0 .. n - 1],
         \A i, j \in 1 .. n : rank[i] = rank[j] => i = j
  PROVE  \A k \in 1 .. n : \E i \in 1 .. n : rank[i] = k - 1
<1>1. rank \in Injection(1 .. n, 0 .. n - 1)
  BY DEF Injection, IsInjective
<1>2. /\ IsFiniteSet(1 .. n) /\ Cardinality(1 .. n) = n
      /\ IsFiniteSet(0 .. n - 1) /\ Cardinality(0 .. n - 1) = n
  <2>1. 0 \in Int /\ 1 \in Int /\ n \in Int /\ n - 1 \in Int
    OBVIOUS
  <2>2. IsFiniteSet(1 .. n) /\ Cardinality(1 .. n) = IF 1 > n THEN 0 ELSE n - 1 + 1
    BY <2>1, FS_Interval
  <2>3. IsFiniteSet(0 .. n - 1) /\ Cardinality(0 .. n - 1) = IF 0 > n - 1 THEN 0 ELSE n - 1 - 0 + 1
    BY <2>1, FS_Interval
  <2> QED
    BY <2>2, <2>3
<1>3. rank \in Surjection(1 .. n, 0 .. n - 1)
  BY <1>1, <1>2, FS_Injection
<1>4. \A k \in 1 .. n : k - 1 \in 0 .. n - 1
  OBVIOUS
<1> QED
  BY <1>3, <1>4 DEF Surjection

\* sort.SliceStable only moves rows: the result has the rows it was given.
LEMMA SortMovesRows ==
  ASSUME NEW rs \in Seq(Row)
  PROVE  /\ SortById(rs) \in Seq(Row)
         /\ Len(SortById(rs)) = Len(rs)
         /\ \A k \in DOMAIN rs : \E i \in DOMAIN rs : SortById(rs)[k] = rs[i]
         /\ \A i \in DOMAIN rs : \E k \in DOMAIN rs : SortById(rs)[k] = rs[i]
         /\ DistinctIds(rs) => DistinctIds(SortById(rs))
<1> DEFINE n        == Len(rs)
           Less(i)  == {j \in 1 .. n : Before(rs, j, i)}
           rank     == [i \in 1 .. n |-> Cardinality(Less(i))]
           place(k) == CHOOSE i \in 1 .. n : Cardinality(Less(i)) = k - 1
<1>1. n \in Nat /\ DOMAIN rs = 1 .. n /\ \A i \in 1 .. n : rs[i] \in Row /\ rs[i].id \in Nat
  <2>1. n \in Nat /\ DOMAIN rs = 1 .. n /\ rs \in [1 .. n -> Row]
    BY LenProperties
  <2>2. \A r \in Row : r.id \in Nat
    BY DEF Row
  <2> QED
    BY <2>1, <2>2
<1>2. Len(rs) = n
  OBVIOUS
<1> HIDE DEF n
<1>3. IsFiniteSet(1 .. n) /\ Cardinality(1 .. n) = n
  BY <1>1, FS_Interval
<1>4. \A i \in 1 .. n : IsFiniteSet(Less(i)) /\ Cardinality(Less(i)) \in 0 .. n - 1
  <2> TAKE i \in 1 .. n
  <2>1. Less(i) \subseteq 1 .. n /\ i \notin Less(i)
    BY <1>1 DEF Before
  <2>2. Less(i) # 1 .. n
    BY <2>1
  <2>3. IsFiniteSet(Less(i)) /\ Cardinality(Less(i)) <= n /\ Cardinality(Less(i)) # n
    BY <1>3, <2>1, <2>2, FS_Subset
  <2>4. Cardinality(Less(i)) \in Nat
    BY <2>3, FS_CardinalityType
  <2> QED
    BY <1>1, <2>3, <2>4
<1>5. \A i \in 1 .. n : rank[i] = Cardinality(Less(i)) /\ rank[i] \in 0 .. n - 1
  BY <1>4
<1>6. rank \in [1 .. n -> 0 .. n - 1]
  BY <1>4
<1>7. \A i, j \in 1 .. n : Before(rs, i, j) => rank[i] # rank[j]
  <2> SUFFICES ASSUME NEW i \in 1 .. n, NEW j \in 1 .. n, Before(rs, i, j)
               PROVE  Cardinality(Less(i)) # Cardinality(Less(j))
    BY <1>5
  <2>1. Less(i) \subseteq Less(j)
    BY <1>1 DEF Before
  <2>2. i \in Less(j) /\ i \notin Less(i)
    BY <1>1 DEF Before
  <2> QED
    BY <1>4, <2>1, <2>2, FS_Subset
<1> HIDE DEF rank
<1>8. \A i, j \in 1 .. n : i # j => Before(rs, i, j) \/ Before(rs, j, i)
  BY <1>1 DEF Before
<1>9. \A i, j \in 1 .. n : rank[i] = rank[j] => i = j
  BY <1>7, <1>8
<1>10. \A k \in 1 .. n : \E i \in 1 .. n : rank[i] = k - 1
  BY <1>1, <1>6, <1>9, RankIsOnto
<1>11. \A k \in 1 .. n : place(k) \in 1 .. n /\ rank[place(k)] = k - 1
  <2> TAKE k \in 1 .. n
  <2>1. PICK i \in 1 .. n : Cardinality(Less(i)) = k - 1
    BY <1>5, <1>10
  <2>2. place(k) \in 1 .. n /\ Cardinality(Less(place(k))) = k - 1
    BY <2>1
  <2> QED
    BY <1>5, <2>2
<1>12. DOMAIN SortById(rs) = 1 .. n /\ \A k \in 1 .. n : SortById(rs)[k] = rs[place(k)]
  BY <1>1 DEF SortById
<1> HIDE DEF Less, place
<1>13. SortById(rs) \in [1 .. n -> Row]
  <2>1. SortById(rs) = [k \in 1 .. n |-> SortById(rs)[k]]
    BY <1>1 DEF SortById
  <2>2. \A k \in 1 .. n : SortById(rs)[k] \in Row
    BY <1>1, <1>11, <1>12
  <2> QED
    BY <2>1, <2>2
<1>14. SortById(rs) \in Seq(Row) /\ Len(SortById(rs)) = n
  BY <1>1, <1>13
<1>15. \A i \in 1 .. n : rank[i] + 1 \in 1 .. n /\ place(rank[i] + 1) = i
  <2> TAKE i \in 1 .. n
  <2>1. rank[i] \in Int /\ 0 <= rank[i] /\ rank[i] <= n - 1
    BY <1>1, <1>5
  <2>2. rank[i] + 1 \in 1 .. n /\ (rank[i] + 1) - 1 = rank[i]
    BY <1>1, <2>1
  <2>3. place(rank[i] + 1) \in 1 .. n /\ rank[place(rank[i] + 1)] = rank[i]
    BY <1>11, <2>2
  <2> QED
    BY <1>9, <2>2, <2>3
<1>16. \A j, k \in 1 .. n : place(j) = place(k) => j = k
  <2> SUFFICES ASSUME NEW j \in 1 .. n, NEW k \in 1 .. n, place(j) = place(k) PROVE j = k
    OBVIOUS
  <2>1. j - 1 = k - 1
    BY <1>11
  <2> QED
    BY <1>1, <2>1
<1>17. \A i \in 1 .. n : SortById(rs)[rank[i] + 1] = rs[i]
  BY <1>12, <1>15
<1>18. ASSUME DistinctIds(rs) PROVE DistinctIds(SortById(rs))
  <2> SUFFICES ASSUME NEW j \in 1 .. n, NEW k \in 1 .. n,
                      SortById(rs)[j].id = SortById(rs)[k].id
               PROVE  j = k
    BY <1>12 DEF DistinctIds
  <2>1. rs[place(j)].id = rs[place(k)].id
    BY <1>12
  <2>2. place(j) = place(k)
    BY <1>1, <1>11, <1>18, <2>1 DEF DistinctIds
  <2> QED
    BY <1>16, <2>2
<1> QED
  BY <1>1, <1>2, <1>11, <1>12, <1>14, <1>15, <1>17, <1>18

-----------------------------------------------------------------------------
(* Rows and their identifiers. *)

\* A list of rows is a function on 1 .. Len with rows as values.
LEMMA RowsAreRows ==
  ASSUME NEW rs \in Seq(Row)
  PROVE  /\ Len(rs) \in Nat /\ DOMAIN rs = 1 .. Len(rs)
         /\ \A k \in DOMAIN rs :
              /\ rs[k] \in Row /\ rs[k].id \in Nat
              /\ rs[k].level \in Levels /\ rs[k].status \in Statuses
<1>1. Len(rs) \in Nat /\ DOMAIN rs = 1 .. Len(rs) /\ rs \in [1 .. Len(rs) -> Row]
  BY LenProperties
<1>2. \A r \in Row : r.id \in Nat /\ r.level \in Levels /\ r.status \in Statuses
  BY DEF Row
<1> QED
  BY <1>1, <1>2

\* The row that upsert's index remembers has the identifier it is found under.
LEMMA LastOfIsItsRow ==
  ASSUME NEW rs \in Seq(Row), DistinctIds(rs), NEW id \in IdsOf(rs)
  PROVE  LastOf(rs, id) \in DOMAIN rs /\ rs[LastOf(rs, id)].id = id
<1>1. PICK k \in DOMAIN rs : rs[k].id = id
  BY DEF IdsOf
<1>2. \A j \in DOMAIN rs : rs[j].id = id => j = k
  BY <1>1 DEF DistinctIds
<1>3. k <= k
  BY <1>1, RowsAreRows
<1> QED
  BY <1>1, <1>2, <1>3 DEF LastOf

\* Rows made of distinct definitions are distinct rows.
LEMMA ResultsAreRows ==
  ASSUME NEW D, \A d \in D : d.id \in Nat /\ d.level \in Levels,
         NEW defs \in Seq(D), DistinctIds(defs),
         NEW status \in [DOMAIN defs -> Statuses],
         NEW new, new = [k \in DOMAIN defs |-> Result(defs[k], status[k])]
  PROVE  /\ new \in Seq(Row)
         /\ DistinctIds(new)
         /\ IdsOf(new) = IdsOf(defs)
<1>1. Len(defs) \in Nat /\ DOMAIN defs = 1 .. Len(defs)
      /\ defs \in [1 .. Len(defs) -> D]
  BY LenProperties
<1>2. \A k \in 1 .. Len(defs) : Result(defs[k], status[k]) \in Row
  BY <1>1 DEF Result, Row
<1>3. new \in [1 .. Len(defs) -> Row]
  BY <1>1, <1>2
<1>4. new \in Seq(Row)
  BY <1>1, <1>3
<1>5. DOMAIN new = DOMAIN defs /\ \A k \in DOMAIN defs : new[k].id = defs[k].id
  BY DEF Result
<1>6. DistinctIds(new)
  BY <1>5 DEF DistinctIds
<1>7. IdsOf(new) = IdsOf(defs)
  BY <1>5, Zenon DEF IdsOf
<1> QED
  BY <1>4, <1>6, <1>7

\* A row on its own is a list of rows.
LEMMA OneRow ==
  ASSUME NEW row \in Row
  PROVE  <<row>> \in Seq(Row) /\ DistinctIds(<<row>>)
  BY DEF DistinctIds

-----------------------------------------------------------------------------
(* What a call of upsert does to the invariant, and each turn of its loop. *)

\* A call of upsert with distinct rows, made when none is under way and before
\* Summarize: every replacement is either at the row its index says or in no
\* row yet.
LEMMA ReportKeepsIInv ==
  ASSUME IInv, pending = <<>>, stage \notin {"summarize", "done"},
         NEW new \in Seq(Row), DistinctIds(new),
         NEW next \in {"identity", "adapter", "skip", "scenarios", "summarize"},
         Report(new, next),
         rows' = rows, color' = color, pos' = pos,
         scen' \in 1 .. Len(Scenarios) + 1, erred' \subseteq DOMAIN Scenarios
  PROVE  IInv'
<1> USE DEF IInv
<1>1. rows \in Seq(Row) /\ DistinctIds(rows)
  BY DEF TypeOK, RowsAreUnique
<1>2. \A id \in IdsOf(rows) : LastOf(rows, id) \in DOMAIN rows /\ rows[LastOf(rows, id)].id = id
  BY <1>1, LastOfIsItsRow
<1>3. /\ pending' = new
      /\ stage' = next
      /\ DOMAIN index' = IdsOf(rows)
      /\ \A id \in IdsOf(rows) : index'[id] = LastOf(rows, id)
  BY DEF Report, IndexOf
<1>4. IdsOf(rows) \subseteq Nat
  BY <1>1, RowsAreRows DEF IdsOf
<1>5. TypeOK'
  BY <1>2, <1>3, <1>4 DEF TypeOK
<1>6. UpsertInv'
  BY <1>2, <1>3 DEF UpsertInv, IdsOf
<1>7. RowsAreUnique' /\ CatalogStaysVisible'
  BY DEF RowsAreUnique, CatalogStaysVisible
<1>8. ColorInv'
  <2>1. pos = 1 /\ color = "green"
    BY DEF ColorInv
  <2>2. Declared(rows, 0) = "green"
    BY DEF Declared
  <2> QED
    BY <1>3, <2>1, <2>2 DEF ColorInv
<1>9. LatestInv'
  <2>1. \A k \in DOMAIN new : latest'[new[k].id] = new[k].status
    <3> TAKE k \in DOMAIN new
    <3>1. new[k].id \in IdsOf(new)
      BY DEF IdsOf
    <3>2. LastOf(new, new[k].id) = k
      BY <3>1, LastOfIsItsRow DEF DistinctIds
    <3> QED
      BY <3>1, <3>2 DEF Report
  <2>2. \A k \in DOMAIN rows : rows[k].id \in IdsOf(new) \/ rows[k].status = latest'[rows[k].id]
    <3> TAKE k \in DOMAIN rows
    <3>1. rows[k].status = latest[rows[k].id] /\ rows[k].id \in DOMAIN latest
      BY DEF LatestInv, IdsOf
    <3> QED
      BY <3>1 DEF Report
  <2>3. DOMAIN latest' = DOMAIN latest \cup IdsOf(new)
    BY DEF Report
  <2> QED
    BY <1>3, <2>1, <2>2, <2>3 DEF LatestInv
<1> QED
  BY <1>5, <1>6, <1>7, <1>8, <1>9

\* One turn of upsert's loop writes the row the index says, or a new one.
LEMMA UpsertOneKeepsIInv ==
  ASSUME IInv, UpsertOne
  PROVE  IInv' /\ IdsOf(rows) \cup IdsOf(pending) = IdsOf(rows') \cup IdsOf(pending')
<1> DEFINE new == Head(pending)
<1> USE DEF IInv
<1>1. /\ rows \in Seq(Row) /\ pending \in Seq(Row) /\ pending # <<>>
      /\ pending' = Tail(pending)
      /\ UNCHANGED <<stage, index, scen, color, pos, latest, erred>>
  BY DEF TypeOK, UpsertOne
<1>2. /\ new \in Row
      /\ new = pending[1] /\ 1 \in DOMAIN pending
      /\ pending' \in Seq(Row)
      /\ \A k \in DOMAIN pending' : k + 1 \in DOMAIN pending /\ pending'[k] = pending[k + 1] /\ k + 1 # 1
      /\ \A k \in DOMAIN pending : k # 1 => k - 1 \in DOMAIN pending' /\ pending'[k - 1] = pending[k]
  <2>1. Len(pending) \in Nat \ {0} /\ DOMAIN pending = 1 .. Len(pending)
    BY <1>1, EmptySeq, LenProperties
  <2>2. pending' \in Seq(Row) /\ Len(pending') = Len(pending) - 1 /\ DOMAIN pending' = 1 .. Len(pending')
    BY <1>1, HeadTailProperties, LenProperties
  <2>3. \A k \in 1 .. Len(pending') : pending'[k] = pending[k + 1]
    BY <1>1, HeadTailProperties
  <2>4. \A k \in DOMAIN pending' : k \in Int /\ 1 <= k /\ k <= Len(pending) - 1
    BY <2>1, <2>2
  <2>5. \A k \in DOMAIN pending : k # 1 => k - 1 \in 1 .. Len(pending') /\ (k - 1) + 1 = k
    BY <2>1, <2>2
  <2>6. new = pending[1] /\ 1 \in DOMAIN pending /\ new \in Row
    BY <1>1, <2>1, HeadTailProperties
  <2> QED
    BY <2>1, <2>2, <2>3, <2>4, <2>5, <2>6
<1>3. \A k \in DOMAIN pending' : pending'[k].id # new.id
  BY <1>1, <1>2 DEF UpsertInv, DistinctIds
<1>4. IdsOf(pending) = {new.id} \cup IdsOf(pending') /\ new.id \notin IdsOf(pending')
  <2>1. new.id \in IdsOf(pending)
    BY <1>2 DEF IdsOf
  <2>2. IdsOf(pending') \subseteq IdsOf(pending)
    BY <1>2 DEF IdsOf
  <2>3. IdsOf(pending) \subseteq {new.id} \cup IdsOf(pending')
    <3> SUFFICES ASSUME NEW k \in DOMAIN pending
                 PROVE  pending[k].id \in {new.id} \cup IdsOf(pending')
      BY DEF IdsOf
    <3>1. CASE k = 1
      BY <1>2, <3>1
    <3>2. CASE k # 1
      BY <1>2, <3>2 DEF IdsOf
    <3> QED
      BY <3>1, <3>2
  <2>4. new.id \notin IdsOf(pending')
    BY <1>3 DEF IdsOf
  <2> QED
    BY <2>1, <2>2, <2>3, <2>4
<1> DEFINE place == IF new.id \in DOMAIN index THEN index[new.id] ELSE Len(rows) + 1
<1> HIDE DEF new
<1>5. /\ rows' \in Seq(Row)
      /\ DOMAIN rows' = DOMAIN rows \cup {place}
      /\ place \in DOMAIN rows'
      /\ rows'[place] = new
      /\ \A k \in DOMAIN rows : k # place => rows'[k] = rows[k]
      /\ place \in DOMAIN rows => rows[place].id = new.id
      /\ place \notin DOMAIN rows => new.id \notin IdsOf(rows)
      /\ Len(rows') >= Len(rows)
  <2>0. Len(rows) \in Nat /\ DOMAIN rows = 1 .. Len(rows)
    BY <1>1, RowsAreRows
  <2>1. CASE new.id \in DOMAIN index
    <3>1. place = index[new.id] /\ place \in DOMAIN rows /\ rows[place].id = new.id
      BY <1>1, <2>1 DEF TypeOK, UpsertInv
    <3>2. rows' = [rows EXCEPT ![place] = new]
      BY <2>1, <3>1 DEF UpsertOne, new
    <3>3. rows' \in Seq(Row) /\ Len(rows') = Len(rows) /\ DOMAIN rows' = DOMAIN rows
      BY <1>1, <1>2, <2>0, <3>1, <3>2, ExceptSeq
    <3> HIDE DEF place
    <3> QED
      BY <2>0, <3>1, <3>2, <3>3
  <2>2. CASE new.id \notin DOMAIN index
    <3>1. place = Len(rows) + 1 /\ place \notin DOMAIN rows
      BY <2>0, <2>2
    <3>2. rows' = Append(rows, new)
      BY <2>2 DEF UpsertOne, new
    <3>3. new.id \notin IdsOf(rows)
      BY <1>1, <1>2, <2>2 DEF UpsertInv
    <3>4. rows' \in Seq(Row) /\ Len(rows') = Len(rows) + 1 /\ DOMAIN rows' = 1 .. Len(rows) + 1
      BY <1>1, <1>2, <2>0, <3>2
    <3>5. rows'[Len(rows) + 1] = new /\ \A k \in 1 .. Len(rows) : rows'[k] = rows[k]
      BY <1>1, <1>2, <2>0, <3>2
    <3> HIDE DEF place
    <3> QED
      BY <2>0, <3>1, <3>3, <3>4, <3>5
  <2> QED
    BY <2>1, <2>2
<1>6. IdsOf(rows') = IdsOf(rows) \cup {new.id}
  BY <1>5 DEF IdsOf
<1> HIDE DEF place
<1>7. RowsAreUnique'
  BY <1>5 DEF RowsAreUnique, DistinctIds, IdsOf
<1>8. CatalogStaysVisible'
  BY <1>6 DEF CatalogStaysVisible
<1>9. TypeOK'
  <2>1. Len(rows) \in Nat /\ Len(rows') \in Nat
    BY <1>1, <1>5, RowsAreRows
  <2>2. pos' \in 1 .. Len(rows') + 1
    BY <1>1, <1>5, <2>1 DEF TypeOK
  <2> QED
    BY <1>1, <1>2, <1>5, <2>2 DEF TypeOK
<1>10. UpsertInv'
  <2>1. DistinctIds(pending')
    BY <1>1, <1>2 DEF UpsertInv, DistinctIds
  <2>2. \A id \in DOMAIN index : rows'[index[id]].id = id
    BY <1>1, <1>5 DEF UpsertInv, TypeOK
  <2>3. \A k \in DOMAIN pending' : pending'[k].id \notin DOMAIN index => pending'[k].id \notin IdsOf(rows')
    BY <1>1, <1>2, <1>3, <1>6 DEF UpsertInv
  <2> QED
    BY <1>1, <2>1, <2>2, <2>3 DEF UpsertInv
<1>11. ColorInv'
  <2>1. stage # "done" /\ (stage = "summarize" => pos = 1)
    BY <1>1 DEF ColorInv
  <2>2. Declared(rows, 0) = "green" /\ Declared(rows', 0) = "green"
    BY DEF Declared
  <2> QED
    BY <1>1, <2>1, <2>2 DEF ColorInv
<1>12. LatestInv'
  <2>1. \A k \in DOMAIN pending' : latest[pending'[k].id] = pending'[k].status
    BY <1>2 DEF LatestInv
  <2>2. latest[new.id] = new.status
    BY <1>2 DEF LatestInv
  <2>3. \A k \in DOMAIN rows' : rows'[k].id \in IdsOf(pending') \/ rows'[k].status = latest[rows'[k].id]
    <3> TAKE k \in DOMAIN rows'
    <3>1. CASE k = place
      BY <1>5, <2>2, <3>1
    <3>2. CASE k # place
      <4>1. k \in DOMAIN rows /\ rows'[k] = rows[k] /\ rows[k].id # new.id
        BY <1>5, <3>2 DEF RowsAreUnique, DistinctIds, IdsOf
      <4> QED
        BY <1>4, <4>1 DEF LatestInv
    <3> QED
      BY <3>1, <3>2
  <2>4. IdsOf(rows') \subseteq DOMAIN latest /\ IdsOf(pending') \subseteq DOMAIN latest
    BY <1>4, <1>6 DEF LatestInv
  <2> QED
    BY <1>1, <2>1, <2>3, <2>4 DEF LatestInv
<1>13. IdsOf(rows) \cup IdsOf(pending) = IdsOf(rows') \cup IdsOf(pending')
  BY <1>4, <1>6
<1> QED
  BY <1>7, <1>8, <1>9, <1>10, <1>11, <1>12, <1>13

\* One turn of Summarize's loop: the color is still the policy's color for the
\* rows it has seen.
LEMMA SummarizeRowKeepsIInv ==
  ASSUME IInv, SummarizeRow
  PROVE  IInv'
<1> USE DEF IInv
<1>1. /\ stage = "summarize" /\ pending = <<>>
      /\ pos \in 1 .. Len(rows) /\ pos' = pos + 1 /\ Len(rows) \in Nat
      /\ UNCHANGED <<stage, rows, pending, index, scen, latest, erred>>
  BY LenProperties DEF TypeOK, SummarizeRow, At
<1>2. color' = Declared(rows, pos)
  <2>1. color = Declared(rows, pos - 1)
    BY <1>1 DEF ColorInv
  <2>2. 1 .. pos = (1 .. pos - 1) \cup {pos}
    BY <1>1
  <2>3. color' = IF rows[pos].level = "must" /\ Bad(rows[pos]) THEN "red"
                 ELSE IF color = "green" /\ rows[pos].level = "should" /\ Bad(rows[pos])
                 THEN "orange" ELSE color
    BY DEF SummarizeRow
  <2> HIDE DEF IInv
  <2> QED
    BY <2>1, <2>2, <2>3 DEF Declared
<1>3. color' \in {"green", "orange", "red"}
  BY <1>2 DEF Declared
<1>4. TypeOK'
  BY <1>1, <1>3 DEF TypeOK
<1>5. ColorInv'
  <2>1. pos' - 1 = pos
    BY <1>1
  <2> QED
    BY <1>1, <1>2, <2>1 DEF ColorInv
<1> QED
  BY <1>1, <1>4, <1>5 DEF UpsertInv, RowsAreUnique, CatalogStaysVisible, LatestInv

\* The final sort keeps the rows, and with them the color and what they show.
LEMMA SortRowsKeepsIInv ==
  ASSUME IInv, SortRows
  PROVE  IInv' /\ IdsOf(rows') = IdsOf(rows)
<1> USE DEF IInv
<1>1. /\ stage = "summarize" /\ pending = <<>> /\ stage' = "done"
      /\ rows \in Seq(Row) /\ rows' = SortById(rows)
      /\ pos = Len(rows) + 1 /\ Len(rows) \in Nat /\ DOMAIN rows = 1 .. Len(rows)
      /\ UNCHANGED <<pending, index, scen, color, pos, latest, erred>>
  BY LenProperties DEF TypeOK, SortRows, At
<1>2. /\ rows' \in Seq(Row) /\ Len(rows') = Len(rows) /\ DOMAIN rows' = DOMAIN rows
      /\ \A k \in DOMAIN rows : \E i \in DOMAIN rows : rows'[k] = rows[i]
      /\ \A i \in DOMAIN rows : \E k \in DOMAIN rows : rows'[k] = rows[i]
      /\ DistinctIds(rows')
  BY <1>1, SortMovesRows, LenProperties DEF RowsAreUnique
<1>3. IdsOf(rows') = IdsOf(rows)
  <2>1. ASSUME NEW k \in DOMAIN rows' PROVE rows'[k].id \in IdsOf(rows)
    BY <1>2 DEF IdsOf
  <2>2. ASSUME NEW i \in DOMAIN rows PROVE rows[i].id \in IdsOf(rows')
    <3>1. PICK k \in DOMAIN rows' : rows'[k] = rows[i]
      BY <1>2
    <3> QED
      BY <3>1 DEF IdsOf
  <2> QED
    BY <2>1, <2>2 DEF IdsOf
<1>4. TypeOK'
  BY <1>1, <1>2 DEF TypeOK
<1>5. ColorInv'
  <2>1. color = Declared(rows, Len(rows))
    BY <1>1 DEF ColorInv
  <2>2. \A level : (\E k \in 1 .. Len(rows') : rows'[k].level = level /\ Bad(rows'[k]))
                   <=> (\E k \in 1 .. Len(rows) : rows[k].level = level /\ Bad(rows[k]))
    <3> TAKE level
    <3>1. ASSUME NEW k \in DOMAIN rows, rows'[k].level = level, Bad(rows'[k])
          PROVE  \E i \in DOMAIN rows : rows[i].level = level /\ Bad(rows[i])
      BY <1>2, <3>1, Zenon
    <3>2. ASSUME NEW i \in DOMAIN rows, rows[i].level = level, Bad(rows[i])
          PROVE  \E k \in DOMAIN rows : rows'[k].level = level /\ Bad(rows'[k])
      BY <1>2, <3>2, Zenon
    <3> QED
      BY <1>1, <1>2, <3>1, <3>2, Zenon
  <2>3. Declared(rows', Len(rows')) = Declared(rows, Len(rows))
    BY <2>2, Zenon DEF Declared
  <2> QED
    BY <1>1, <2>1, <2>3 DEF ColorInv
<1>6. LatestInv'
  <2>1. \A k \in DOMAIN rows' : rows'[k].status = latest[rows'[k].id]
    <3> TAKE k \in DOMAIN rows'
    <3>1. PICK i \in DOMAIN rows : rows'[k] = rows[i]
      BY <1>2
    <3>2. rows[i].status = latest[rows[i].id]
      BY <1>1 DEF LatestInv, IdsOf
    <3> QED
      BY <3>1, <3>2
  <2>2. IdsOf(rows') \subseteq DOMAIN latest
    BY <1>3 DEF LatestInv
  <2> QED
    BY <1>1, <2>1, <2>2 DEF LatestInv, IdsOf
<1> QED
  BY <1>1, <1>2, <1>3, <1>4, <1>5, <1>6 DEF UpsertInv, RowsAreUnique, CatalogStaysVisible

-----------------------------------------------------------------------------
(* The invariant of the whole run. *)

\* catalogAsSkipped establishes the invariant.
LEMMA InitIInv == Init => IInv
<1> SUFFICES ASSUME Init PROVE IInv
  OBVIOUS
<1> USE DEF Init
<1>1. /\ Catalog \in Seq(Def) /\ DistinctIds(Catalog)
      /\ \A d \in Def : d.id \in Nat /\ d.level \in Levels
  BY HarnessAssumption DEF Def
<1>2. rows \in Seq(Row) /\ DistinctIds(rows) /\ IdsOf(rows) = IdsOf(Catalog)
  <2> DEFINE status == [k \in DOMAIN Catalog |-> "skipped"]
  <2>1. status \in [DOMAIN Catalog -> Statuses]
    BY DEF Statuses
  <2>2. rows = [k \in DOMAIN Catalog |-> Result(Catalog[k], status[k])]
    BY DEF Results
  <2> HIDE DEF status, Init
  <2> QED
    BY <1>1, <2>1, <2>2, ResultsAreRows, Zenon
<1>3. index = [id \in {} |-> 0]
  BY DEF IndexOf, IdsOf
<1>4. Len(Scenarios) \in Nat /\ Len(rows) \in Nat
  BY HarnessAssumption, <1>2, LenProperties
<1>5. TypeOK
  BY <1>2, <1>3, <1>4 DEF TypeOK
<1>6. ColorInv
  BY DEF ColorInv
<1>7. LatestInv
  <2>1. \A k \in DOMAIN rows : rows[k].status = "skipped" /\ rows[k].id \in IdsOf(Catalog)
    BY <1>2 DEF Results, Result, IdsOf
  <2> QED
    BY <1>2, <2>1 DEF LatestInv, IdsOf
<1>8. UpsertInv
  BY DEF UpsertInv, DistinctIds
<1> QED
  BY <1>2, <1>5, <1>6, <1>7, <1>8 DEF IInv, RowsAreUnique, CatalogStaysVisible

\* Every statement of Run keeps it.
LEMMA NextIInv == IInv /\ [Next]_vars => IInv'
<1> SUFFICES ASSUME IInv, [Next]_vars PROVE IInv'
  OBVIOUS
<1> DEFINE Running == {"identity", "adapter", "skip", "scenarios", "summarize"}
<1>1. /\ Internal \in Seq(Def) /\ DistinctIds(Internal)
      /\ Identity \in Def /\ EnvRow \in Def
      /\ Len(Scenarios) \in Nat /\ DOMAIN Scenarios = 1 .. Len(Scenarios)
      /\ DistinctIds(Scenarios)
      /\ \A n \in DOMAIN Scenarios :
           /\ Scenarios[n] \in [id : Nat, level : Levels, reports : Seq(Def)]
           /\ Scenarios[n].reports \in Seq(Def) /\ DistinctIds(Scenarios[n].reports)
           /\ Scenarios[n].id \in Nat /\ Scenarios[n].level \in Levels
  <2>1. Scenarios \in [1 .. Len(Scenarios) -> [id : Nat, level : Levels, reports : Seq(Def)]]
    BY HarnessAssumption, LenProperties
  <2> QED
    BY HarnessAssumption, LenProperties, <2>1
<1>2. \A d \in Def : d.id \in Nat /\ d.level \in Levels
  BY DEF Def
<1>3. \A d, s : d.id \in Nat /\ d.level \in Levels /\ s \in Statuses => Result(d, s) \in Row
  BY DEF Result, Row
<1>4. scen \in 1 .. Len(Scenarios) + 1 /\ erred \subseteq DOMAIN Scenarios
  BY DEF IInv, TypeOK
<1>5. CASE UpsertOne
  BY <1>5, UpsertOneKeepsIInv
<1>6. CASE BIP158Internal
  <2>1. PICK failed \in SUBSET DOMAIN Internal :
          Report([k \in DOMAIN Internal |->
                    Result(Internal[k], IF k \in failed THEN "fail" ELSE "pass")], "identity")
    BY <1>6 DEF BIP158Internal
  <2> DEFINE status == [k \in DOMAIN Internal |-> IF k \in failed THEN "fail" ELSE "pass"]
             new == [k \in DOMAIN Internal |-> Result(Internal[k], status[k])]
  <2>2. status \in [DOMAIN Internal -> Statuses]
    BY DEF Statuses
  <2>3. Report(new, "identity")
    BY <2>1
  <2>4. new = [k \in DOMAIN Internal |-> Result(Internal[k], status[k])]
    OBVIOUS
  <2>5. Internal \in Seq(Def) /\ DistinctIds(Internal)
    BY <1>1
  <2> HIDE DEF status, new
  <2>6. new \in Seq(Row) /\ DistinctIds(new)
    BY <1>2, <2>2, <2>4, <2>5, ResultsAreRows, Zenon
  <2> QED
    BY <1>4, <1>6, <2>3, <2>6, ReportKeepsIInv DEF BIP158Internal, At
<1>7. CASE PeerIdentity
  <2>1. PICK status \in {"pass", "fail", "unsupported"} :
          Report(<<Result(Identity, status)>>, "adapter")
    BY <1>7 DEF PeerIdentity
  <2>2. Result(Identity, status) \in Row
    BY <1>1, <1>2, <1>3 DEF Statuses
  <2> QED
    BY <1>4, <1>7, <2>1, <2>2, OneRow, ReportKeepsIInv DEF PeerIdentity, At
<1>8. CASE NoAdapter \/ ScenariosDone
  <2>1. pos = 1 /\ color = "green" /\ pending = <<>> /\ stage' = "summarize"
        /\ UNCHANGED <<rows, pending, index, scen, color, pos, latest, erred>>
    BY <1>8 DEF NoAdapter, ScenariosDone, At, IInv, ColorInv
  <2>2. Declared(rows, 0) = "green"
    BY DEF Declared
  <2> QED
    BY <2>1, <2>2 DEF IInv, TypeOK, UpsertInv, RowsAreUnique, CatalogStaysVisible, ColorInv, LatestInv
<1>9. CASE Unsupported
  <2>1. Result(EnvRow, "unsupported") \in Row
    BY <1>1, <1>2, <1>3 DEF Statuses
  <2> QED
    BY <1>4, <1>9, <2>1, OneRow, ReportKeepsIInv DEF Unsupported, At
<1>10. CASE SkipScenarios
  <2> DEFINE status == [k \in DOMAIN Scenarios |-> "skipped"]
             new == Results(Scenarios, "skipped")
  <2>1. status \in [DOMAIN Scenarios -> Statuses]
    BY DEF Statuses
  <2>2. new = [k \in DOMAIN Scenarios |-> Result(Scenarios[k], status[k])]
    BY DEF Results
  <2> HIDE DEF status, new
  <2> DEFINE S == [id : Nat, level : Levels, reports : Seq(Def)]
  <2>3. Scenarios \in Seq(S) /\ DistinctIds(Scenarios) /\ \A d \in S : d.id \in Nat /\ d.level \in Levels
    BY HarnessAssumption
  <2> HIDE DEF S
  <2>4. new \in Seq(Row) /\ DistinctIds(new)
    BY <2>1, <2>2, <2>3, ResultsAreRows, Zenon
  <2>5. Report(new, "summarize")
    BY <1>10 DEF SkipScenarios, new
  <2> QED
    BY <1>4, <1>10, <2>4, <2>5, ReportKeepsIInv DEF SkipScenarios, At
<1>11. CASE SupportedEnvironment
  <2>1. Result(EnvRow, "pass") \in Row
    BY <1>1, <1>2, <1>3 DEF Statuses
  <2> QED
    BY <1>4, <1>11, <2>1, OneRow, ReportKeepsIInv DEF SupportedEnvironment, At
<1>12. CASE ScenarioReports
  <2>1. scen \in DOMAIN Scenarios /\ scen' \in 1 .. Len(Scenarios) + 1
    BY <1>1, <1>4, <1>12 DEF ScenarioReports
  <2>2. PICK verdict \in {"pass", "fail", "skipped"} :
          Report(Results(Scenarios[scen].reports, verdict), "scenarios")
    BY <1>12 DEF ScenarioReports
  <2> DEFINE defs == Scenarios[scen].reports
             status == [k \in DOMAIN defs |-> verdict]
             new == Results(defs, verdict)
  <2>3. status \in [DOMAIN defs -> Statuses]
    BY DEF Statuses
  <2>4. new = [k \in DOMAIN defs |-> Result(defs[k], status[k])]
    BY DEF Results
  <2>5. defs \in Seq(Def) /\ DistinctIds(defs)
    BY <1>1, <2>1
  <2>6. Report(new, "scenarios")
    BY <2>2
  <2> HIDE DEF status, new, defs
  <2>7. new \in Seq(Row) /\ DistinctIds(new)
    BY <1>2, <2>3, <2>4, <2>5, ResultsAreRows
  <2> QED
    BY <1>4, <1>12, <2>1, <2>6, <2>7, ReportKeepsIInv DEF ScenarioReports, At
<1>13. CASE ScenarioErrs
  <2>1. scen \in DOMAIN Scenarios /\ scen' \in 1 .. Len(Scenarios) + 1
        /\ erred' \subseteq DOMAIN Scenarios
    BY <1>1, <1>4, <1>13 DEF ScenarioErrs
  <2>2. Result(Scenarios[scen], "fail") \in Row
    BY <1>1, <1>3, <2>1 DEF Statuses
  <2> QED
    BY <1>13, <2>1, <2>2, OneRow, ReportKeepsIInv DEF ScenarioErrs, At
<1>14. CASE SummarizeRow
  BY <1>14, SummarizeRowKeepsIInv
<1>15. CASE SortRows
  BY <1>15, SortRowsKeepsIInv
<1>16. CASE UNCHANGED vars
  BY <1>16 DEF vars, IInv, TypeOK, UpsertInv, RowsAreUnique, CatalogStaysVisible, ColorInv, LatestInv
<1> QED
  BY <1>5, <1>6, <1>7, <1>8, <1>9, <1>10, <1>11, <1>12, <1>13, <1>14, <1>15, <1>16 DEF Next

\* Whatever the scenarios report, and wherever Run returns early, the inductive
\* invariant holds in every state of a run.
THEOREM Invariance == Spec => []IInv
<1>1. Init => IInv
  BY InitIInv
<1>2. IInv /\ [Next]_vars => IInv'
  BY NextIInv
<1> QED
  BY <1>1, <1>2, PTL DEF Spec

-----------------------------------------------------------------------------
(* What the runs check, for every catalog and every list of scenarios. *)

\* Run's variables keep their types: in particular the index upsert built
\* before its loop never points past the rows it is used on.
THEOREM TypeCorrect == Spec => []TypeOK
<1>1. IInv => TypeOK
  BY DEF IInv
<1> QED
  BY <1>1, Invariance, PTL

\* No row is reported twice, although upsert does not index what it appends.
THEOREM UniqueRows == Spec => []RowsAreUnique
<1>1. IInv => RowsAreUnique
  BY DEF IInv
<1> QED
  BY <1>1, Invariance, PTL

\* A cataloged row is in every report.
THEOREM VisibleCatalog == Spec => []CatalogStaysVisible
<1>1. IInv => CatalogStaysVisible
  BY DEF IInv
<1> QED
  BY <1>1, Invariance, PTL

\* Between two calls of upsert a row shows the last status reported for it.
THEOREM LatestReport == Spec => []LatestReportStands
<1>1. IInv => LatestReportStands
  <2> SUFFICES ASSUME IInv, pending = <<>>, NEW k \in DOMAIN rows
               PROVE  rows[k].status = latest[rows[k].id]
    BY DEF LatestReportStands
  <2>1. IdsOf(pending) = {}
    BY DEF IdsOf
  <2> QED
    BY <2>1 DEF IInv, LatestInv
<1> QED
  BY <1>1, Invariance, PTL

\* The color of a finished report is the one the policy gives to its rows.
THEOREM DeclaredColor == Spec => []ColorIsDeclared
<1>1. IInv => ColorIsDeclared
  BY DEF IInv, ColorInv, ColorIsDeclared
<1> QED
  BY <1>1, Invariance, PTL

-----------------------------------------------------------------------------
(* The errors of scenarios. *)

\* The failure of scenario n is the last report of its row, or a later scenario
\* has reported under the same identifier.
ErrorStands(n) ==
  \/ /\ Scenarios[n].id \in IdsOf(rows) \cup IdsOf(pending)
     /\ latest[Scenarios[n].id] = "fail"
  \/ \E m \in n + 1 .. scen - 1 :
       Scenarios[n].id \in {Scenarios[m].id} \cup IdsOf(Scenarios[m].reports)

ErrorsInv ==
  /\ stage \in {"internal", "identity", "adapter", "skip"} => erred = {}
  /\ \A n \in erred : n < scen /\ ErrorStands(n)

\* A report changes what stands of the rows it names only.
LEMMA ReportKeepsErrors ==
  ASSUME IInv, ErrorsInv, NEW new \in Seq(Row), NEW next, Report(new, next), pending = <<>>,
         rows' = rows, NEW n \in erred, scen' = scen + 1,
         \A id \in IdsOf(new) : id \in {Scenarios[scen].id} \cup IdsOf(Scenarios[scen].reports)
  PROVE  n < scen' /\ ErrorStands(n)'
<1>1. /\ n < scen /\ ErrorStands(n) /\ n \in Nat /\ scen \in Nat
      /\ IdsOf(rows) \subseteq DOMAIN latest
  <2>1. erred \subseteq DOMAIN Scenarios /\ scen \in 1 .. Len(Scenarios) + 1
    BY DEF IInv, TypeOK
  <2>2. Len(Scenarios) \in Nat /\ DOMAIN Scenarios = 1 .. Len(Scenarios)
    BY HarnessAssumption, LenProperties
  <2> QED
    BY <2>1, <2>2 DEF ErrorsInv, IInv, LatestInv
<1>2. /\ pending' = new
      /\ latest' = [id \in DOMAIN latest \cup IdsOf(new) |->
                      IF id \in IdsOf(new) THEN new[LastOf(new, id)].status ELSE latest[id]]
  BY DEF Report
<1>3. IdsOf(pending) = {}
  BY DEF IdsOf
<1> DEFINE id == Scenarios[n].id
<1>4. CASE id \in IdsOf(new)
  <2>1. scen \in n + 1 .. scen' - 1
    BY <1>1
  <2>2. id \in {Scenarios[scen].id} \cup IdsOf(Scenarios[scen].reports)
    BY <1>4
  <2> QED
    BY <1>1, <2>1, <2>2 DEF ErrorStands
<1>5. CASE id \notin IdsOf(new)
  <2>1. CASE id \in IdsOf(rows) /\ latest[id] = "fail"
    <3>1. latest'[id] = "fail"
      BY <1>1, <1>2, <1>5, <2>1
    <3> QED
      BY <1>1, <2>1, <3>1 DEF ErrorStands
  <2>2. CASE \E m \in n + 1 .. scen - 1 : id \in {Scenarios[m].id} \cup IdsOf(Scenarios[m].reports)
    <3>1. PICK m \in n + 1 .. scen - 1 : id \in {Scenarios[m].id} \cup IdsOf(Scenarios[m].reports)
      BY <2>2
    <3>2. m \in n + 1 .. scen' - 1
      BY <1>1
    <3> QED
      BY <1>1, <3>1, <3>2 DEF ErrorStands
  <2> QED
    BY <1>1, <1>3, <2>1, <2>2 DEF ErrorStands
<1> QED
  BY <1>4, <1>5

LEMMA ErrorsStep ==
  ASSUME IInv, ErrorsInv, [Next]_vars
  PROVE  ErrorsInv'
<1>1. ASSUME UNCHANGED <<latest, scen, erred>>,
             IdsOf(rows) \cup IdsOf(pending) \subseteq IdsOf(rows') \cup IdsOf(pending'),
             stage' = stage \/ stage' \in {"summarize", "done"}
      PROVE  ErrorsInv'
  BY <1>1 DEF ErrorsInv, ErrorStands
<1>2. CASE UpsertOne
  <2>1. UNCHANGED <<latest, scen, erred, stage>>
    BY <1>2 DEF UpsertOne
  <2> QED
    BY <1>1, <1>2, <2>1, UpsertOneKeepsIInv
<1>3. CASE SortRows
  <2>1. UNCHANGED <<latest, scen, erred, pending>> /\ stage' = "done"
    BY <1>3 DEF SortRows
  <2> QED
    BY <1>1, <1>3, <2>1, SortRowsKeepsIInv
<1>4. CASE SummarizeRow \/ NoAdapter \/ ScenariosDone \/ UNCHANGED vars
  <2>1. UNCHANGED <<latest, scen, erred, rows, pending>>
        /\ (stage' = stage \/ stage' = "summarize")
    BY <1>4 DEF SummarizeRow, NoAdapter, ScenariosDone, vars
  <2> QED
    BY <1>1, <2>1
<1>5. CASE BIP158Internal \/ PeerIdentity \/ Unsupported \/ SkipScenarios \/ SupportedEnvironment
  <2>1. erred = {} /\ erred' = erred
    BY <1>5 DEF BIP158Internal, PeerIdentity, Unsupported, SkipScenarios, SupportedEnvironment,
                At, ErrorsInv
  <2> QED
    BY <2>1 DEF ErrorsInv
<1>6. scen \in Nat /\ (scen <= Len(Scenarios) => scen \in DOMAIN Scenarios)
  <2>1. scen \in 1 .. Len(Scenarios) + 1
    BY DEF IInv, TypeOK
  <2>2. Len(Scenarios) \in Nat /\ DOMAIN Scenarios = 1 .. Len(Scenarios)
    BY HarnessAssumption, LenProperties
  <2> QED
    BY <2>1, <2>2
<1>7. \A n \in DOMAIN Scenarios :
        /\ Scenarios[n].id \in Nat /\ Scenarios[n].level \in Levels
        /\ Scenarios[n].reports \in Seq(Def)
  <2>1. Scenarios \in [DOMAIN Scenarios -> [id : Nat, level : Levels, reports : Seq(Def)]]
    BY HarnessAssumption, LenProperties
  <2> QED
    BY <2>1
<1>8. CASE ScenarioReports
  <2>1. PICK status \in {"pass", "fail", "skipped"} :
          Report(Results(Scenarios[scen].reports, status), "scenarios")
    BY <1>8 DEF ScenarioReports
  <2>2. /\ pending = <<>> /\ rows' = rows /\ scen' = scen + 1 /\ erred' = erred
        /\ scen \in DOMAIN Scenarios
    BY <1>6, <1>8 DEF ScenarioReports, At
  <2> DEFINE defs == Scenarios[scen].reports
             new  == Results(defs, status)
  <2>3. new \in Seq(Row)
    <3>1. Len(defs) \in Nat /\ DOMAIN defs = 1 .. Len(defs) /\ \A k \in DOMAIN defs : defs[k] \in Def
      BY <1>7, <2>2, LenProperties
    <3> HIDE DEF defs
    <3>2. new = [k \in 1 .. Len(defs) |-> Result(defs[k], status)]
      BY <3>1 DEF Results
    <3>3. \A k \in 1 .. Len(defs) : Result(defs[k], status) \in Row
      BY <3>1 DEF Result, Row, Def, Statuses
    <3> HIDE DEF new
    <3> QED
      BY <3>1, <3>2, <3>3
  <2>4. IdsOf(new) \subseteq IdsOf(defs)
    BY DEF IdsOf, Results, Result
  <2>5. \A n \in erred : n < scen' /\ ErrorStands(n)'
    <3> TAKE n \in erred
    <3>1. \A id \in IdsOf(new) : id \in {Scenarios[scen].id} \cup IdsOf(Scenarios[scen].reports)
      BY <2>4
    <3>2. Report(new, "scenarios")
      BY <2>1
    <3> HIDE DEF new, defs
    <3> QED
      BY <2>2, <2>3, <3>1, <3>2, ReportKeepsErrors
  <2>6. stage' = "scenarios"
    BY <2>1 DEF Report
  <2> QED
    BY <2>2, <2>5, <2>6 DEF ErrorsInv
<1>9. CASE ScenarioErrs
  <2> DEFINE row == Result(Scenarios[scen], "fail")
             new == <<row>>
  <2>1. /\ pending = <<>> /\ rows' = rows /\ scen' = scen + 1 /\ erred' = erred \cup {scen}
        /\ scen \in DOMAIN Scenarios /\ Report(new, "scenarios")
    BY <1>6, <1>9 DEF ScenarioErrs, At
  <2>2. row \in Row /\ row.id = Scenarios[scen].id /\ row.status = "fail"
    BY <1>7, <2>1 DEF Result, Row, Statuses
  <2> HIDE DEF row
  <2>3. new \in Seq(Row) /\ IdsOf(new) = {row.id} /\ LastOf(new, row.id) = 1 /\ new[1] = row
    <3>1. new \in Seq(Row) /\ DistinctIds(new) /\ DOMAIN new = {1} /\ new[1] = row
      BY <2>2, OneRow
    <3>2. IdsOf(new) = {row.id}
      BY <3>1 DEF IdsOf
    <3> HIDE DEF new
    <3>3. LastOf(new, row.id) \in DOMAIN new
      BY <3>1, <3>2, LastOfIsItsRow
    <3> QED
      BY <3>1, <3>2, <3>3
  <2> HIDE DEF new
  <2>4. /\ pending' = new /\ stage' = "scenarios"
        /\ latest' = [id \in DOMAIN latest \cup IdsOf(new) |->
                        IF id \in IdsOf(new) THEN new[LastOf(new, id)].status ELSE latest[id]]
    BY <2>1 DEF Report
  <2>5. \A n \in erred : n < scen' /\ ErrorStands(n)'
    BY <2>1, <2>2, <2>3, ReportKeepsErrors
  <2>6. scen < scen'
    BY <1>6, <2>1
  <2>7. latest'[row.id] = "fail"
    BY <2>2, <2>3, <2>4
  <2>8. \A n : n = scen => ErrorStands(n)'
    BY <2>2, <2>3, <2>4, <2>7 DEF ErrorStands
  <2> QED
    BY <2>1, <2>4, <2>5, <2>6, <2>8 DEF ErrorsInv
<1> QED
  BY <1>2, <1>3, <1>4, <1>5, <1>8, <1>9 DEF Next

\* An error is in the report under the name of its scenario, whatever the other
\* scenarios report, unless a later one reports under that name.
THEOREM ShownErrors == Spec => []ErrorsAreShown
<1>1. Init => ErrorsInv
  BY DEF Init, ErrorsInv
<1>2. IInv /\ ErrorsInv /\ [Next]_vars => ErrorsInv'
  BY ErrorsStep
<1>3. IInv /\ ErrorsInv => ErrorsAreShown
  <2> SUFFICES ASSUME IInv, ErrorsInv, stage = "done", NEW n \in erred
               PROVE  \/ \E k \in DOMAIN rows : rows[k].id = Scenarios[n].id /\ rows[k].status = "fail"
                      \/ \E m \in n + 1 .. Len(Scenarios) :
                           Scenarios[n].id \in {Scenarios[m].id} \cup IdsOf(Scenarios[m].reports)
    BY DEF ErrorsAreShown
  <2>1. pending = <<>> /\ scen \in 1 .. Len(Scenarios) + 1 /\ ErrorStands(n)
        /\ n \in Nat /\ Len(Scenarios) \in Nat
    <3>1. Len(Scenarios) \in Nat /\ DOMAIN Scenarios = 1 .. Len(Scenarios)
      BY HarnessAssumption, LenProperties
    <3> QED
      BY <3>1 DEF IInv, ColorInv, TypeOK, ErrorsInv
  <2>2. IdsOf(pending) = {}
    BY <2>1 DEF IdsOf
  <2>3. CASE Scenarios[n].id \in IdsOf(rows) /\ latest[Scenarios[n].id] = "fail"
    <3>1. PICK k \in DOMAIN rows : rows[k].id = Scenarios[n].id
      BY <2>3 DEF IdsOf
    <3>2. rows[k].status = latest[rows[k].id]
      BY <2>2 DEF IInv, LatestInv
    <3> QED
      BY <2>3, <3>1, <3>2
  <2>4. CASE \E m \in n + 1 .. scen - 1 :
               Scenarios[n].id \in {Scenarios[m].id} \cup IdsOf(Scenarios[m].reports)
    BY <2>1, <2>4
  <2> QED
    BY <2>1, <2>2, <2>3, <2>4 DEF ErrorStands
<1> QED
  BY <1>1, <1>2, <1>3, Invariance, PTL DEF Spec
=============================================================================
