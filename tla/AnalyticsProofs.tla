--------------------------- MODULE AnalyticsProofs ---------------------------
(***************************************************************************)
(* Proofs about Listing and Analytics, for any table, any page size and    *)
(* any categories: pages, walks through them, and the sums of a report.    *)
(***************************************************************************)
EXTENDS Analytics, SequenceTheorems, FiniteSetTheorems, WellFoundedInduction, TLAPS

(* The rows that a listing in the order of ids has before a row. *)
Before(table, id) == {j \in Matching(table) : Precedes(table, j, id)}

(* The page the reader asks for next does not begin behind the row. *)
NotSkipped(table, id) == Cardinality(Before(table, id)) >= (page - 1) * size

(* What a walk in the order of ids has not seen yet is still ahead of it:  *)
(* insertions only move a row back.                                        *)
WalkSound ==
    query.by = "id" /\ ~shrank =>
        /\ start \subseteq Matching(rows)
        /\ step = "count" => \A id \in start \ seen : NotSkipped(rows, id)
        /\ step = "select" =>
              /\ start \subseteq Matching(snapshot)
              /\ Matching(snapshot) \subseteq Matching(rows)
              /\ \A id \in start \ seen : NotSkipped(snapshot, id)
        /\ step = "walked" => start \subseteq seen

(* A report under way is about the snapshot of its transaction. *)
ReportSound ==
    /\ report = [summary |-> report.summary, categories |-> report.categories,
                 trend |-> report.trend]
    /\ step \in {"summary", "categories", "trend"} =>
          query.list = "export" /\ answer.total = Cardinality(Matching(snapshot))
    /\ step \in {"categories", "trend"} => report.summary = Aggregate(Matching(snapshot))
    /\ step = "trend" =>
          report.categories = Grouped({id \in DOMAIN snapshot : snapshot[id].match},
                                      [id \in DOMAIN snapshot |-> snapshot[id].category])

ListingSound ==
    /\ TypeOK
    /\ PageAgrees
    /\ WalkSound
    /\ ReportSound
    /\ ReportAgrees
-------------------------------------------------------------------------------
(* Sums.  SumFunction() is a fold in an order that is chosen; a function   *)
(* of sets that grows by the weight of each element is its value.          *)

Additive(G, S, weight) ==
    /\ G \in [SUBSET S -> Nat]
    /\ G[{}] = 0
    /\ \A T \in SUBSET S : \A x \in T : G[T] = weight[x] + G[T \ {x}]

(* What the library's fold is defined by. *)
Folded(F, S, weight) ==
    F = [T \in SUBSET S |->
            IF T = {} THEN 0
            ELSE weight[CHOOSE x \in T : TRUE] + F[T \ {CHOOSE x \in T : TRUE}]]

LEMMA LeastOf ==
    ASSUME NEW S \in SUBSET Nat, S # {}
    PROVE  \E i \in S : \A j \in S : i <= j
<1>1. PICK i \in S : \A j \in S : <<j, i>> \notin OpToRel(<, Nat)
  BY WFMin, NatLessThanWellFounded, Zenon
<1>2. \A j \in S : ~(j < i)
  BY <1>1, Zenon DEF OpToRel
<1>3. QED  BY <1>2

LEMMA AdditiveIsFolded ==
    ASSUME NEW S, NEW weight, NEW G, Additive(G, S, weight)
    PROVE  Folded(G, S, weight)
<1>1. ASSUME NEW T \in SUBSET S
      PROVE  G[T] = IF T = {} THEN 0
                    ELSE weight[CHOOSE x \in T : TRUE] + G[T \ {CHOOSE x \in T : TRUE}]
  BY <1>1 DEF Additive
<1>2. G = [T \in SUBSET S |-> G[T]]
  BY DEF Additive
<1>3. QED  BY <1>1, <1>2 DEF Folded

(* A least set where the two differ cannot exist. *)
LEMMA FoldedIsAdditive ==
    ASSUME NEW S, IsFiniteSet(S), NEW weight, NEW G, Additive(G, S, weight),
           NEW F, Folded(F, S, weight)
    PROVE  F = G
<1> DEFINE bad   == {T \in SUBSET S : F[T] # G[T]}
           sizes == {Cardinality(T) : T \in bad}
<1>1. \A T \in SUBSET S : IsFiniteSet(T) /\ Cardinality(T) \in Nat
  BY FS_Subset, FS_CardinalityType
<1>2. F = [T \in SUBSET S |-> F[T]]
  BY Zenon DEF Folded
<1>3. bad = {}
  <2>1. SUFFICES ASSUME bad # {} PROVE FALSE
    OBVIOUS
  <2>2. sizes \in SUBSET Nat /\ sizes # {}
    BY <1>1, <2>1
  <2>3. PICK n \in sizes : \A m \in sizes : n <= m
    BY <2>2, LeastOf
  <2>4. PICK T \in bad : \A U \in bad : Cardinality(T) <= Cardinality(U)
    BY <2>3
  <2>5. F[T] = IF T = {} THEN 0
               ELSE weight[CHOOSE x \in T : TRUE] + F[T \ {CHOOSE x \in T : TRUE}]
    BY <2>4, Zenon DEF Folded
  <2>6. CASE T = {}
    BY <2>4, <2>5, <2>6 DEF Additive
  <2>7. CASE T # {}
    <3> DEFINE x == CHOOSE x \in T : TRUE
    <3>1. x \in T
      BY <2>7
    <3>2. Cardinality(T \ {x}) = Cardinality(T) - 1 /\ T \ {x} \in SUBSET S
      BY <1>1, <2>4, <3>1, FS_RemoveElement
    <3>3. F[T \ {x}] = G[T \ {x}]
      BY <1>1, <2>4, <3>2
    <3>4. F[T] = weight[x] + F[T \ {x}]
      BY <2>5, <2>7
    <3> HIDE DEF x
    <3>5. G[T] = weight[x] + G[T \ {x}]
      BY <2>4, <3>1 DEF Additive
    <3>6. QED  BY <2>4, <3>3, <3>4, <3>5
  <2>8. QED  BY <2>6, <2>7
<1>4. G = [T \in SUBSET S |-> G[T]]
  BY DEF Additive
<1>5. QED  BY <1>2, <1>3, <1>4

LEMMA SumIs ==
    ASSUME NEW S, IsFiniteSet(S), NEW weight, DOMAIN weight = S,
           NEW G, Additive(G, S, weight)
    PROVE  SumFunction(weight) = G[S]
<1> DEFINE F == CHOOSE F : Folded(F, S, weight)
<1>1. Folded(F, S, weight)
  BY AdditiveIsFolded, Zenon
<1>2. F = G
  BY <1>1, FoldedIsAdditive
<1>3. SumFunction(weight) = F[S]
  BY Zenon DEF SumFunction, SumFunctionOnSet, FoldFunctionOnSet, MapThenFoldSet, Folded
<1>4. QED  BY <1>2, <1>3
-------------------------------------------------------------------------------
(* The sums of a report. *)

LEMMA IdsFinite ==
    /\ IsFiniteSet(Ids) /\ Ids \subseteq Nat
    /\ \A T \in SUBSET Ids : IsFiniteSet(T) /\ Cardinality(T) \in Nat
<1>1. IsFiniteSet(Ids) /\ Ids \subseteq Nat
  BY FS_Interval, ListingAssumption DEF Ids
<1>2. ASSUME NEW T \in SUBSET Ids
      PROVE  IsFiniteSet(T) /\ Cardinality(T) \in Nat
  BY <1>1, FS_Subset, FS_CardinalityType
<1>3. QED  BY <1>1, <1>2

LEMMA DisjointUnion ==
    ASSUME NEW S, IsFiniteSet(S), NEW T, IsFiniteSet(T), S \cap T = {}
    PROVE  Cardinality(S \cup T) = Cardinality(S) + Cardinality(T)
<1>1. Cardinality(S \cup T) = Cardinality(S) + Cardinality(T) - Cardinality(S \cap T)
  BY FS_Union
<1>2. Cardinality(S \cap T) = 0 /\ Cardinality(S) \in Nat /\ Cardinality(T) \in Nat
  BY FS_EmptySet, FS_CardinalityType
<1>3. QED  BY <1>1, <1>2

(* The sum of some ids is the number of these pairs. *)
Units(ids) == {p \in ids \X Ids : p[2] <= p[1]}

LEMMA UnitsFinite ==
    ASSUME NEW T \in SUBSET Ids
    PROVE  IsFiniteSet(Units(T)) /\ Cardinality(Units(T)) \in Nat
<1>1. IsFiniteSet(T \X Ids) /\ Units(T) \in SUBSET (T \X Ids)
  BY IdsFinite, FS_Product DEF Units
<1>2. QED  BY <1>1, FS_Subset, FS_CardinalityType

LEMMA UnitsOfUnion ==
    ASSUME NEW S \in SUBSET Ids, NEW T \in SUBSET Ids, S \cap T = {}
    PROVE  Cardinality(Units(S \cup T)) = Cardinality(Units(S)) + Cardinality(Units(T))
<1>1. Units(S \cup T) = Units(S) \cup Units(T) /\ Units(S) \cap Units(T) = {}
  BY DEF Units
<1>2. IsFiniteSet(Units(S)) /\ IsFiniteSet(Units(T))
  BY UnitsFinite
<1>3. QED  BY <1>1, <1>2, DisjointUnion

LEMMA UnitsOfOne ==
    ASSUME NEW x \in Ids
    PROVE  Cardinality(Units({x})) = x
<1>1. x \in Nat /\ x >= 1
  BY ListingAssumption DEF Ids
<1>2. Units({x}) = {x} \X (1 .. x)
  BY <1>1, ListingAssumption DEF Units, Ids
<1>3. IsFiniteSet({x}) /\ Cardinality({x}) = 1
  BY FS_Singleton
<1>4. IsFiniteSet(1 .. x) /\ Cardinality(1 .. x) = x
  BY <1>1, FS_Interval
<1>5. Cardinality({x} \X (1 .. x)) = Cardinality({x}) * Cardinality(1 .. x)
  BY <1>3, <1>4, FS_Product
<1>6. Cardinality({x} \X (1 .. x)) = x
  BY <1>1, <1>3, <1>4, <1>5
<1>7. QED  BY <1>2, <1>6, Zenon

LEMMA SumOfIds ==
    ASSUME NEW T \in SUBSET Ids
    PROVE  SumFunction([id \in T |-> id]) = Cardinality(Units(T))
<1> DEFINE G == [U \in SUBSET T |-> Cardinality(Units(U))]
           weight == [id \in T |-> id]
<1>1. G \in [SUBSET T -> Nat]
  BY UnitsFinite
<1>2. G[{}] = 0
  BY FS_EmptySet DEF Units
<1>3. ASSUME NEW U \in SUBSET T, NEW x \in U
      PROVE  G[U] = weight[x] + G[U \ {x}]
  <2>1. U = {x} \cup (U \ {x}) /\ {x} \cap (U \ {x}) = {} /\ x \in Ids
        /\ {x} \in SUBSET Ids /\ U \ {x} \in SUBSET Ids
    OBVIOUS
  <2>2. Cardinality(Units(U)) = Cardinality(Units({x})) + Cardinality(Units(U \ {x}))
    BY <2>1, UnitsOfUnion
  <2>3. QED  BY <2>1, <2>2, UnitsOfOne
<1> HIDE DEF G
<1>4. Additive(G, T, weight)
  BY <1>1, <1>2, <1>3 DEF Additive
<1>5. DOMAIN weight = T /\ IsFiniteSet(T)
  BY IdsFinite
<1> HIDE DEF weight
<1>6. SumFunction(weight) = G[T]
  BY <1>4, <1>5, SumIs
<1>7. QED  BY <1>6 DEF G, weight

LEMMA AggregateType ==
    ASSUME NEW T \in SUBSET Ids
    PROVE  /\ Aggregate(T) = [count |-> Cardinality(T), total |-> Cardinality(Units(T))]
           /\ Aggregate(T) \in [count : Nat, total : Nat]
BY SumOfIds, UnitsFinite, IdsFinite DEF Aggregate

(* Whatever the rows are grouped by, the groups add up to the rows. *)
LEMMA GroupsAddUp ==
    ASSUME NEW ids \in SUBSET Ids, NEW attribute
    PROVE  Sum(Grouped(ids, attribute)) = Aggregate(ids)
<1> DEFINE V     == {attribute[id] : id \in ids}
           Of(T) == {id \in ids : attribute[id] \in T}
           sheet == Grouped(ids, attribute)
<1>1. IsFiniteSet(V)
  <2>1. [id \in ids |-> attribute[id]] \in Surjection(ids, V)
    BY DEF Surjection
  <2>2. QED  BY <2>1, IdsFinite, FS_Surjection
<1>2. /\ DOMAIN sheet = V
      /\ \A v \in V : sheet[v] = Aggregate(Of({v}))
  <2>1. \A v \in V : {id \in ids : attribute[id] = v} = Of({v})
    OBVIOUS
  <2>2. QED  BY <2>1 DEF Grouped
<1>3. \A T \in SUBSET V : Of(T) \in SUBSET Ids /\ Cardinality(Of(T)) \in Nat
                          /\ Cardinality(Units(Of(T))) \in Nat
  BY IdsFinite, UnitsFinite
<1>4. Of({}) = {} /\ Of(V) = ids /\ Units({}) = {}
  BY DEF Units
<1>5. ASSUME NEW T \in SUBSET V, NEW x \in T
      PROVE  /\ Cardinality(Of(T)) = sheet[x].count + Cardinality(Of(T \ {x}))
             /\ Cardinality(Units(Of(T))) = sheet[x].total + Cardinality(Units(Of(T \ {x})))
  <2>1. /\ Of(T) = Of({x}) \cup Of(T \ {x})
        /\ Of({x}) \cap Of(T \ {x}) = {}
        /\ Of({x}) \in SUBSET Ids /\ Of(T \ {x}) \in SUBSET Ids
    OBVIOUS
  <2>2. sheet[x] = Aggregate(Of({x}))
    BY <1>2
  <2> HIDE DEF Of, sheet
  <2>3. /\ sheet[x].count = Cardinality(Of({x}))
        /\ sheet[x].total = Cardinality(Units(Of({x})))
    <3>1. sheet[x] = [count |-> Cardinality(Of({x})), total |-> Cardinality(Units(Of({x})))]
      BY <2>1, <2>2, AggregateType
    <3>2. QED  BY <3>1
  <2>4. Cardinality(Of(T)) = Cardinality(Of({x})) + Cardinality(Of(T \ {x}))
    <3>1. IsFiniteSet(Of({x})) /\ IsFiniteSet(Of(T \ {x}))
      BY <2>1, IdsFinite
    <3>2. QED  BY <2>1, <3>1, DisjointUnion
  <2>5. Cardinality(Units(Of(T))) = Cardinality(Units(Of({x}))) + Cardinality(Units(Of(T \ {x})))
    BY <2>1, UnitsOfUnion
  <2>6. QED  BY <2>3, <2>4, <2>5
<1> HIDE DEF Of, sheet, V
<1>6. SumFunction([v \in V |-> sheet[v].count]) = Cardinality(ids)
  <2> DEFINE G == [T \in SUBSET V |-> Cardinality(Of(T))]
             weight == [v \in V |-> sheet[v].count]
  <2>1. G \in [SUBSET V -> Nat] /\ G[{}] = 0 /\ G[V] = Cardinality(ids)
    BY <1>3, <1>4, FS_EmptySet
  <2>2. \A T \in SUBSET V : \A x \in T : G[T] = weight[x] + G[T \ {x}]
    BY <1>5
  <2>3. DOMAIN weight = V
    OBVIOUS
  <2> HIDE DEF G, weight
  <2>4. Additive(G, V, weight)
    BY <2>1, <2>2 DEF Additive
  <2>5. SumFunction(weight) = Cardinality(ids)
    BY <1>1, <2>1, <2>3, <2>4, SumIs
  <2>6. QED  BY <2>5 DEF weight
<1>7. SumFunction([v \in V |-> sheet[v].total]) = Cardinality(Units(ids))
  <2> DEFINE G == [T \in SUBSET V |-> Cardinality(Units(Of(T)))]
             weight == [v \in V |-> sheet[v].total]
  <2>1. G \in [SUBSET V -> Nat] /\ G[{}] = 0 /\ G[V] = Cardinality(Units(ids))
    BY <1>3, <1>4, FS_EmptySet
  <2>2. \A T \in SUBSET V : \A x \in T : G[T] = weight[x] + G[T \ {x}]
    BY <1>5
  <2>3. DOMAIN weight = V
    OBVIOUS
  <2> HIDE DEF G, weight
  <2>4. Additive(G, V, weight)
    BY <2>1, <2>2 DEF Additive
  <2>5. SumFunction(weight) = Cardinality(Units(ids))
    BY <1>1, <2>1, <2>3, <2>4, SumIs
  <2>6. QED  BY <2>5 DEF weight
<1>8. Sum(sheet) = [count |-> Cardinality(ids), total |-> Cardinality(Units(ids))]
  BY <1>2, <1>6, <1>7 DEF Sum
<1>9. QED  BY <1>8, AggregateType DEF sheet
-------------------------------------------------------------------------------
(* Pages. *)

LEMMA TableIs ==
    ASSUME NEW t
    PROVE  t \in Tables <=> DOMAIN t \in SUBSET Ids /\ t \in [DOMAIN t -> Rows]
BY DEF Tables

LEMMA NoRowsIsTable == NoRows \in Tables
<1>1. NoRows \in [{} -> Rows]
  BY DEF NoRows
<1>2. [{} -> Rows] \subseteq Tables
  BY DEF Tables
<1>3. QED  BY <1>1, <1>2

LEMMA MatchingIs ==
    ASSUME NEW t \in Tables
    PROVE  /\ Matching(t) \in SUBSET Ids
           /\ IsFiniteSet(Matching(t)) /\ Cardinality(Matching(t)) \in Nat
<1>1. Matching(t) \in SUBSET Ids
  BY TableIs DEF Matching
<1>2. QED  BY <1>1, IdsFinite

(* A query returns each row that meets the conditions once. *)
LEMMA SortedIs ==
    ASSUME NEW t \in Tables, NEW s \in Sorted(t)
    PROVE  /\ s \in Seq(Ids) /\ Len(s) = Cardinality(Matching(t))
           /\ \A i \in 1 .. Len(s) : s[i] \in Matching(t)
           /\ \A i, j \in 1 .. Len(s) : i # j => s[i] # s[j]
           /\ \A id \in Matching(t) : \E i \in 1 .. Len(s) : s[i] = id
           /\ \A i, j \in 1 .. Len(s) : i < j => ~Precedes(t, s[j], s[i])
<1> DEFINE M == Matching(t)
           n == Cardinality(M)
<1>1. n \in Nat /\ IsFiniteSet(M) /\ M \in SUBSET Ids
  BY MatchingIs
<1>2. /\ s \in [1 .. n -> M]
      /\ \A i, j \in 1 .. n : i # j => s[i] # s[j]
      /\ \A i, j \in DOMAIN s : i < j => ~Precedes(t, s[j], s[i])
  BY DEF Sorted, SetToSeqs
<1> HIDE DEF M
<1>3. s \in Seq(Ids) /\ Len(s) = n /\ DOMAIN s = 1 .. n
  BY <1>1, <1>2
<1>4. \A id \in M : \E i \in 1 .. n : s[i] = id
  <2>1. s \in Injection(1 .. n, M)
    BY <1>2 DEF Injection, IsInjective
  <2>2. Cardinality(1 .. n) = n
    BY <1>1, FS_Interval
  <2>3. s \in Surjection(1 .. n, M)
    BY <1>1, <2>1, <2>2, FS_Injection
  <2>4. QED  BY <2>3 DEF Surjection
<1>5. QED  BY <1>2, <1>3, <1>4 DEF M

(* The rows of the pages before, and up to the end of this one. *)
Skipped == (page - 1) * size
Covered == page * size

LEMMA PageBounds ==
    ASSUME page \in Nat \ {0}
    PROVE  Skipped \in Nat /\ Covered \in Nat /\ Covered = Skipped + size
BY ListingAssumption DEF Skipped, Covered

LEMMA SliceIs ==
    ASSUME page \in Nat \ {0}, NEW t \in Tables, NEW s \in Sorted(t)
    PROVE  LET n    == Cardinality(Matching(t))
               last == IF Covered > n THEN n ELSE Covered
           IN  /\ Slice(s) \in Seq(Ids)
               /\ Len(Slice(s)) = IF last > Skipped THEN last - Skipped ELSE 0
               /\ Len(Slice(s)) <= size
               /\ \A i \in 1 .. Len(Slice(s)) : Slice(s)[i] = s[Skipped + i]
<1> DEFINE n    == Cardinality(Matching(t))
           last == IF Covered > n THEN n ELSE Covered
<1>1. n \in Nat /\ s \in Seq(Ids) /\ Len(s) = n /\ last \in Nat /\ last <= n
  BY SortedIs, MatchingIs, PageBounds
<1>2. Slice(s) = SubSeq(s, Skipped + 1, last)
  BY <1>1 DEF Slice, Skipped, Covered
<1>3. \A i \in Skipped + 1 .. last : s[i] \in Ids
  BY <1>1, PageBounds
<1>4. last <= Skipped + size
  BY <1>1, PageBounds
<1> HIDE DEF last, n
<1>5. /\ Slice(s) \in Seq(Ids)
      /\ Len(Slice(s)) = IF Skipped + 1 <= last THEN last - (Skipped + 1) + 1 ELSE 0
      /\ \A i \in 1 .. last - (Skipped + 1) + 1 : Slice(s)[i] = s[Skipped + 1 + i - 1]
  <2> DEFINE m == Skipped + 1
  <2>1. m \in Int /\ last \in Int
    BY <1>1, PageBounds
  <2>2. Slice(s) = SubSeq(s, m, last) /\ \A i \in m .. last : s[i] \in Ids
    BY <1>2, <1>3
  <2> HIDE DEF m
  <2>3. /\ SubSeq(s, m, last) \in Seq(Ids)
        /\ Len(SubSeq(s, m, last)) = IF m <= last THEN last - m + 1 ELSE 0
        /\ \A i \in 1 .. last - m + 1 : SubSeq(s, m, last)[i] = s[m + i - 1]
    BY <2>1, <2>2, SubSeqProperties
  <2>4. QED  BY <2>2, <2>3 DEF m
<1>6. Len(Slice(s)) = IF last > Skipped THEN last - Skipped ELSE 0
  BY <1>1, <1>5, PageBounds
<1>7. ASSUME NEW i \in 1 .. Len(Slice(s))
      PROVE  Slice(s)[i] = s[Skipped + i]
  <2>1. i \in 1 .. last - (Skipped + 1) + 1 /\ Skipped + 1 + i - 1 = Skipped + i
    BY <1>1, <1>6, PageBounds
  <2>2. Slice(s)[i] = s[Skipped + 1 + i - 1]
    BY <1>5, <2>1
  <2>3. QED  BY <2>1, <2>2
<1>8. Len(Slice(s)) <= size
  BY <1>1, <1>4, <1>6, PageBounds, ListingAssumption
<1>9. QED  BY <1>5, <1>6, <1>7, <1>8 DEF last, n

(* Page.create(): pages is the least number that holds total. *)
LEMMA PagesHold ==
    ASSUME NEW total \in Nat
    PROVE  LET pages == (total + size - 1) \div size
           IN  /\ pages \in Nat
               /\ pages * size >= total
               /\ pages = 0 \/ (pages - 1) * size < total
<1> DEFINE pages == (total + size - 1) \div size
           up    == total + size - 1
<1>1. up \in Nat /\ size \in Nat \ {0}
  BY ListingAssumption
<1> HIDE DEF up
<1>2. up \div size \in Nat /\ (up \div size) * size <= up /\ up < (up \div size) * size + size
  BY <1>1
<1>3. pages \in Nat /\ pages * size <= total + size - 1 /\ total + size - 1 < pages * size + size
  BY <1>2 DEF up
<1> HIDE DEF pages
<1>4. QED  BY <1>1, <1>3 DEF pages

LEMMA AnswerIsPage ==
    ASSUME page \in Nat \ {0}, NEW t \in Tables, NEW s \in Sorted(t),
           Answer(Slice(s), Cardinality(Matching(t)))
    PROVE  PageAgrees'
<1> DEFINE n     == Cardinality(Matching(t))
           items == Slice(s)
           last  == IF Covered > n THEN n ELSE Covered
<1>1. /\ answer'.items = items /\ answer'.total = n /\ answer'.page = page
      /\ answer'.pages = (n + size - 1) \div size
  BY DEF Answer, CreatePage
<1>2. n \in Nat /\ s \in Seq(Ids) /\ Len(s) = n
      /\ \A i, j \in 1 .. n : i # j => s[i] # s[j]
  BY SortedIs, MatchingIs
<1>3. /\ items \in Seq(Ids)
      /\ Len(items) = IF last > Skipped THEN last - Skipped ELSE 0
      /\ \A i \in 1 .. Len(items) : items[i] = s[Skipped + i]
  BY SliceIs
<1>4. Len(items) = IF (IF page * size < n THEN page * size ELSE n) > (page - 1) * size
                   THEN (IF page * size < n THEN page * size ELSE n) - (page - 1) * size ELSE 0
  BY <1>2, <1>3, PageBounds DEF Skipped, Covered
<1>5. Cardinality({items[i] : i \in DOMAIN items}) = Len(items)
  <2> DEFINE I == {items[i] : i \in DOMAIN items}
             m == Len(items)
  <2>1. m \in Nat /\ DOMAIN items = 1 .. m /\ \A i \in 1 .. m : Skipped + i \in 1 .. n
    BY <1>2, <1>3, PageBounds
  <2>2. items \in [1 .. m -> I]
    BY <1>3, <2>1
  <2>3. \A i, j \in 1 .. m : items[i] = items[j] => i = j
    BY <1>2, <1>3, <2>1, PageBounds
  <2>4. items \in Bijection(1 .. m, I)
    BY <2>1, <2>2, <2>3 DEF Bijection, Injection, Surjection, IsInjective
  <2>5. QED  BY <2>1, <2>4, FS_CountingElements DEF ExistsBijection
<1>6. /\ answer'.pages * size >= n
      /\ answer'.pages = 0 \/ (answer'.pages - 1) * size < n
  BY <1>1, <1>2, PagesHold
<1> HIDE DEF items, n
<1>7. QED  BY <1>1, <1>4, <1>5, <1>6 DEF PageAgrees
-------------------------------------------------------------------------------
(* Walks in the order of ids. *)

LEMMA BeforeIs ==
    ASSUME NEW t \in Tables, NEW id
    PROVE  /\ IsFiniteSet(Before(t, id)) /\ Cardinality(Before(t, id)) \in Nat
           /\ Before(t, id) \subseteq Matching(t)
BY MatchingIs, FS_Subset, FS_CardinalityType DEF Before

(* Insertions move a row back. *)
LEMMA BeforeGrows ==
    ASSUME NEW t \in Tables, NEW u \in Tables, Matching(t) \subseteq Matching(u),
           query.by = "id", NEW id
    PROVE  Cardinality(Before(t, id)) <= Cardinality(Before(u, id))
<1>1. Before(t, id) \in SUBSET Before(u, id)
  BY DEF Before, Precedes
<1>2. QED  BY <1>1, BeforeIs, FS_Subset

(* The place of a row in the answer is the number of rows before it. *)
LEMMA PlaceIs ==
    ASSUME NEW t \in Tables, NEW s \in Sorted(t), query.by = "id",
           NEW k \in 1 .. Len(s)
    PROVE  Cardinality(Before(t, s[k])) = k - 1
<1> DEFINE n == Len(s)
           B == Before(t, s[k])
<1>1. /\ n \in Nat
      /\ \A i \in 1 .. n : s[i] \in Matching(t) /\ s[i] \in Nat
      /\ \A i, j \in 1 .. n : i # j => s[i] # s[j]
      /\ \A id \in Matching(t) : \E i \in 1 .. n : s[i] = id
      /\ \A i, j \in 1 .. n : i < j => ~Precedes(t, s[j], s[i])
  BY SortedIs, MatchingIs, IdsFinite
<1>2. \A i, j \in 1 .. n : i < j => Precedes(t, s[i], s[j])
  BY <1>1 DEF Precedes
<1>3. \A i \in 1 .. n : s[i] \in B <=> i < k
  <2>1. SUFFICES ASSUME NEW i \in 1 .. n PROVE Precedes(t, s[i], s[k]) <=> i < k
    BY <1>1 DEF Before
  <2>2. CASE i < k
    BY <1>2, <2>2
  <2>3. CASE i > k
    BY <1>1, <2>3
  <2>4. CASE i = k
    BY <1>1, <2>4 DEF Precedes
  <2>5. QED  BY <1>1, <2>2, <2>3, <2>4
<1> DEFINE f == [i \in 1 .. k - 1 |-> s[i]]
<1>4. f \in Bijection(1 .. k - 1, B)
  <2>1. \A i \in 1 .. k - 1 : i \in 1 .. n /\ i < k
    BY <1>1
  <2>2. f \in [1 .. k - 1 -> B]
    BY <1>3, <2>1
  <2>3. \A i, j \in 1 .. k - 1 : f[i] = f[j] => i = j
    BY <1>1, <2>1
  <2>4. \A id \in B : \E i \in 1 .. k - 1 : f[i] = id
    <3>1. SUFFICES ASSUME NEW id \in B PROVE \E i \in 1 .. k - 1 : s[i] = id
      OBVIOUS
    <3>2. PICK i \in 1 .. n : s[i] = id
      BY <1>1 DEF Before
    <3>3. i \in 1 .. k - 1
      BY <1>1, <1>3, <3>2
    <3>4. QED  BY <3>2, <3>3
  <2> HIDE DEF f, B
  <2>5. QED  BY <2>2, <2>3, <2>4 DEF Bijection, Injection, Surjection, IsInjective
<1>5. k - 1 \in Nat
  BY <1>1
<1>6. QED  BY <1>4, <1>5, FS_CountingElements DEF ExistsBijection

(* A row that the page does not show although it is not before it lies     *)
(* behind it.                                                              *)
LEMMA NotShownIsAhead ==
    ASSUME page \in Nat \ {0}, NEW t \in Tables, NEW s \in Sorted(t), query.by = "id",
           NEW id \in Matching(t), NotSkipped(t, id),
           \A i \in DOMAIN Slice(s) : Slice(s)[i] # id
    PROVE  /\ Cardinality(Before(t, id)) >= page * size
           /\ Cardinality(Matching(t)) > page * size
<1> DEFINE n    == Cardinality(Matching(t))
           last == IF Covered > n THEN n ELSE Covered
<1>1. PICK k \in 1 .. Len(s) : s[k] = id
  BY SortedIs
<1>2. n \in Nat /\ Len(s) = n
  BY SortedIs, MatchingIs
<1>3. Cardinality(Before(t, id)) = k - 1 /\ k - 1 >= Skipped
  BY <1>1, PlaceIs DEF NotSkipped, Skipped
<1>4. k > Covered
  <2>1. SUFFICES ASSUME k <= Covered PROVE FALSE
    BY <1>2, PageBounds
  <2>2. /\ Slice(s) \in Seq(Ids)
        /\ Len(Slice(s)) = IF last > Skipped THEN last - Skipped ELSE 0
        /\ \A i \in 1 .. Len(Slice(s)) : Slice(s)[i] = s[Skipped + i]
    BY SliceIs
  <2>3. k - Skipped \in 1 .. Len(Slice(s)) /\ Skipped + (k - Skipped) = k
    BY <1>2, <1>3, <2>1, <2>2, PageBounds
  <2>4. Slice(s)[k - Skipped] = id
    BY <1>1, <2>2, <2>3
  <2>5. QED  BY <2>2, <2>3, <2>4
<1>5. k - 1 >= Covered /\ n > Covered
  BY <1>2, <1>4, PageBounds
<1>6. QED  BY <1>3, <1>5 DEF Covered
-------------------------------------------------------------------------------
(* The steps. *)

LEMMA SameQuery ==
    ASSUME query' = query
    PROVE  /\ Tables' = Tables
           /\ Matching(rows)' = Matching(rows')
           /\ Matching(snapshot)' = Matching(snapshot')
           /\ \A id : Before(rows, id)' = Before(rows', id)
           /\ \A id : Before(snapshot, id)' = Before(snapshot', id)
<1>1. Rows' = Rows
  BY DEF Rows
<1>2. Tables' = Tables
  BY <1>1 DEF Tables
<1>3. Matching(rows)' = Matching(rows') /\ Matching(snapshot)' = Matching(snapshot')
  BY DEF Matching
<1>4. ASSUME NEW id
      PROVE  /\ Before(rows, id)' = Before(rows', id)
             /\ Before(snapshot, id)' = Before(snapshot', id)
  BY DEF Before, Matching, Precedes
<1>5. QED  BY <1>2, <1>3, <1>4

LEMMA ListingInit == Init => ListingSound
<1> SUFFICES ASSUME Init PROVE ListingSound
  OBVIOUS
<1> USE DEF Init, ListInit
<1>1. TypeOK
  <2>1. NoRows \in Tables
    BY NoRowsIsTable
  <2>2. /\ NoAnswer.items = <<>> /\ NoReport.summary \in [count : Nat, total : Nat]
        /\ DOMAIN NoReport.categories = {} /\ DOMAIN NoReport.trend = {}
    BY DEF NoAnswer, NoReport
  <2>3. <<>> \in Seq(Ids) /\ Len(<<>>) <= size
    BY ListingAssumption
  <2>4. answer.items \in Seq(Ids) /\ Len(answer.items) <= size
    BY <2>2, <2>3
  <2>5. ListTypeOK
    <3>1. /\ query \in Queries /\ rows \in Tables /\ snapshot \in Tables
      BY <2>1
    <3>2. page \in Nat \ {0} /\ step = "count" /\ seen = {} /\ start = {} /\ shrank = FALSE
      OBVIOUS
    <3> HIDE DEF Init, ListInit
    <3>3. QED  BY <2>4, <3>1, <3>2 DEF ListTypeOK
  <2>6. QED  BY <2>2, <2>5 DEF TypeOK
<1>2. PageAgrees
  BY DEF PageAgrees, NoAnswer
<1>3. WalkSound
  BY DEF WalkSound
<1>4. ReportSound /\ ReportAgrees
  BY DEF ReportSound, ReportAgrees, NoReport
<1>5. QED  BY <1>1, <1>2, <1>3, <1>4 DEF ListingSound

LEMMA CountSound ==
    ASSUME ListingSound, Count, report' = NoReport
    PROVE  ListingSound'
<1>1. /\ step = "count" /\ step' = "select" /\ snapshot' = rows
      /\ UNCHANGED <<query, rows, page, answer>>
      /\ IF page = 1
         THEN start' = Matching(rows) /\ shrank' = FALSE /\ seen' = {}
         ELSE UNCHANGED <<start, shrank, seen>>
  BY DEF Count
<1>2. rows \in Tables /\ page \in Nat \ {0} /\ start \subseteq Ids /\ seen \subseteq Ids
      /\ shrank \in BOOLEAN
  BY DEF ListingSound, TypeOK, ListTypeOK
<1>3. TypeOK'
  <2>1. /\ NoReport.summary \in [count : Nat, total : Nat]
        /\ DOMAIN NoReport.categories = {} /\ DOMAIN NoReport.trend = {}
    BY DEF NoReport
  <2>2. start' \subseteq Ids /\ seen' \subseteq Ids /\ shrank' \in BOOLEAN
    BY <1>1, <1>2, MatchingIs
  <2>3. QED  BY <1>1, <1>2, <2>1, <2>2, SameQuery DEF ListingSound, TypeOK, ListTypeOK
<1>4. PageAgrees'
  BY <1>1 DEF ListingSound, PageAgrees
<1>5. WalkSound'
  <2>1. SUFFICES ASSUME query.by = "id", ~shrank'
                 PROVE  /\ start' \subseteq Matching(rows)
                        /\ \A id \in start' \ seen' :
                              Cardinality(Before(rows, id)) >= (page - 1) * size
    BY <1>1, SameQuery DEF WalkSound, NotSkipped
  <2>2. CASE page = 1
    <3>1. (page - 1) * size = 0
      BY <2>2, ListingAssumption
    <3>2. QED  BY <1>1, <1>2, <2>2, <3>1, BeforeIs
  <2>3. CASE page # 1
    BY <1>1, <2>1, <2>3 DEF ListingSound, WalkSound, NotSkipped
  <2>4. QED  BY <2>2, <2>3
<1>6. ReportSound' /\ ReportAgrees'
  BY <1>1 DEF ReportSound, ReportAgrees, NoReport
<1>7. QED  BY <1>3, <1>4, <1>5, <1>6 DEF ListingSound

LEMMA ExportByKey == query \in Queries /\ query.by = "id" => query.list # "export"
BY DEF Queries, UsersQuery, LogsQuery, MetricsQuery, RecordsQuery, ExportQuery

LEMMA SelectSound ==
    ASSUME ListingSound, Select, UNCHANGED report
    PROVE  ListingSound'
<1> DEFINE n == Cardinality(Matching(snapshot))
<1>1. PICK s \in Sorted(snapshot) : step = "select" /\ Answer(Slice(s), n)
  BY DEF Select
<1> DEFINE items == Slice(s)
<1>2. /\ query \in Queries /\ rows \in Tables /\ snapshot \in Tables /\ page \in Nat \ {0}
      /\ start \subseteq Ids /\ seen \subseteq Ids /\ shrank \in BOOLEAN
  BY DEF ListingSound, TypeOK, ListTypeOK
<1>3. /\ UNCHANGED <<query, rows, start, shrank, report>>
      /\ answer'.items = items /\ answer'.total = n
      /\ answer'.pages = (n + size - 1) \div size
      /\ seen' = seen \cup {items[i] : i \in DOMAIN items}
      /\ \/ query.list = "export" /\ step' = "summary" /\ UNCHANGED <<page, snapshot>>
         \/ /\ query.list # "export" /\ snapshot' = NoRows
            /\ \/ page < answer'.pages /\ step' = "count" /\ page' = page + 1
               \/ ~(page < answer'.pages) /\ step' = "walked" /\ page' = page
  BY <1>1 DEF Answer, CreatePage
<1>4. items \in Seq(Ids) /\ Len(items) <= size
  BY <1>2, SliceIs
<1>5. n \in Nat
  BY <1>2, MatchingIs
<1>6. PageAgrees'
  BY <1>1, <1>2, AnswerIsPage
<1> HIDE DEF items, n
<1>7. TypeOK'
  <2>1. seen' \subseteq Ids
    BY <1>2, <1>3, <1>4
  <2>2. page' \in Nat \ {0}
    BY <1>2, <1>3
  <2>3. snapshot' \in Tables /\ rows' \in Tables /\ query' \in Queries /\ Tables' = Tables
    BY <1>2, <1>3, NoRowsIsTable, SameQuery
  <2>4. step' \in {"count", "select", "summary", "categories", "trend", "walked"}
    BY <1>3
  <2>5. answer'.items \in Seq(Ids) /\ Len(answer'.items) <= size
    BY <1>3, <1>4
  <2>6. ListTypeOK'
    BY <1>2, <1>3, <2>1, <2>2, <2>3, <2>4, <2>5 DEF ListTypeOK
  <2>7. QED  BY <1>3, <2>6 DEF ListingSound, TypeOK
<1>8. WalkSound'
  <2>1. SUFFICES ASSUME query.by = "id", ~shrank
                 PROVE  /\ start \subseteq Matching(rows)
                        /\ step' = "count" =>
                              \A id \in start \ seen' :
                                  Cardinality(Before(rows, id)) >= (page' - 1) * size
                        /\ step' = "walked" => start \subseteq seen'
                        /\ step' # "select"
    BY <1>3, SameQuery DEF WalkSound, NotSkipped
  <2>2. /\ start \subseteq Matching(rows) /\ start \subseteq Matching(snapshot)
        /\ Matching(snapshot) \subseteq Matching(rows)
        /\ \A id \in start \ seen : NotSkipped(snapshot, id)
    BY <1>1, <2>1 DEF ListingSound, WalkSound
  <2>3. ASSUME NEW id \in start \ seen'
        PROVE  /\ Cardinality(Before(rows, id)) >= page * size
               /\ n > page * size
    <3>1. /\ id \in Matching(snapshot) /\ NotSkipped(snapshot, id)
          /\ \A i \in DOMAIN items : items[i] # id
      BY <1>3, <2>2, <2>3
    <3>2. Cardinality(Before(snapshot, id)) >= page * size /\ n > page * size
      BY <1>2, <2>1, <3>1, NotShownIsAhead DEF items, n
    <3>3. /\ Cardinality(Before(snapshot, id)) <= Cardinality(Before(rows, id))
          /\ Cardinality(Before(snapshot, id)) \in Nat /\ Cardinality(Before(rows, id)) \in Nat
      BY <1>2, <2>1, <2>2, BeforeGrows, BeforeIs
    <3>4. page * size \in Nat
      BY <1>2, ListingAssumption
    <3>5. QED  BY <3>2, <3>3, <3>4
  <2>4. CASE step' = "count"
    <3>1. page' - 1 = page
      BY <1>2, <1>3, <2>4
    <3>2. QED  BY <2>2, <2>3, <2>4, <3>1
  <2>5. CASE step' = "walked"
    <3>1. ~(page < answer'.pages)
      BY <1>3, <2>5
    <3>2. answer'.pages \in Nat /\ answer'.pages * size >= n
      BY <1>3, <1>5, PagesHold
    <3>3. page * size >= answer'.pages * size /\ page * size \in Nat /\ answer'.pages * size \in Nat
      BY <1>2, <3>1, <3>2, ListingAssumption
    <3>4. start \subseteq seen'
      BY <1>5, <2>3, <3>2, <3>3
    <3>5. QED  BY <2>2, <2>5, <3>4
  <2>6. QED  BY <1>2, <1>3, <2>1, <2>4, <2>5, ExportByKey
<1>9. ReportSound' /\ ReportAgrees'
  BY <1>3, SameQuery DEF ListingSound, ReportSound, ReportAgrees, n
<1>10. QED  BY <1>6, <1>7, <1>8, <1>9 DEF ListingSound

LEMMA NewWalkSound ==
    ASSUME ListingSound, NewWalk, UNCHANGED report
    PROVE  ListingSound'
<1>1. /\ step' = "count" /\ page' = 1 /\ answer' = NoAnswer
      /\ seen' = {} /\ start' = {} /\ shrank' = FALSE
      /\ UNCHANGED <<query, rows, snapshot, report>>
  BY DEF NewWalk
<1>2. query \in Queries /\ rows \in Tables /\ snapshot \in Tables
  BY DEF ListingSound, TypeOK, ListTypeOK
<1>3. answer'.items = <<>> /\ answer'.page = 0
  BY <1>1 DEF NoAnswer
<1>4. TypeOK'
  <2>1. answer'.items \in Seq(Ids) /\ Len(answer'.items) <= size
    BY <1>3, ListingAssumption
  <2>2. query' \in Queries /\ rows' \in Tables' /\ snapshot' \in Tables'
    BY <1>1, <1>2, SameQuery
  <2>3. NoAnswer = [items |-> <<>>, total |-> 0, page |-> 0, pages |-> 0]
    BY DEF NoAnswer
  <2>4. 1 \in Nat \ {0}
    OBVIOUS
  <2>5. page' \in Nat \ {0}
    BY <1>1, <2>4, Zenon
  <2>6. shrank' \in BOOLEAN
    BY <1>1, Zenon
  <2>7. seen' \subseteq Ids /\ start' \subseteq Ids
    BY <1>1
  <2>8. ListTypeOK'
    BY <1>1, <2>1, <2>2, <2>3, <2>5, <2>6, <2>7 DEF ListTypeOK
  <2>9. QED  BY <1>1, <2>8 DEF ListingSound, TypeOK
<1>5. PageAgrees'
  BY <1>3 DEF PageAgrees
<1>6. WalkSound'
  BY <1>1 DEF WalkSound
<1>7. ReportSound' /\ ReportAgrees'
  BY <1>1 DEF ListingSound, ReportSound, ReportAgrees
<1>8. QED  BY <1>4, <1>5, <1>6, <1>7 DEF ListingSound

LEMMA RoomIs == Room \subseteq Ids
BY ListingAssumption DEF Room, Ids

LEMMA InsertSound ==
    ASSUME ListingSound, Insert, UNCHANGED report
    PROVE  ListingSound'
<1>1. /\ step # "walked"
      /\ UNCHANGED <<query, snapshot, page, step, answer, seen, start, shrank, report>>
  BY DEF Insert
<1>2. PICK id \in Ids \ DOMAIN rows, r \in Rows :
          rows' = [i \in DOMAIN rows \cup {id} |-> IF i = id THEN r ELSE rows[i]]
  BY RoomIs DEF Insert
<1>3. query \in Queries /\ rows \in Tables /\ snapshot \in Tables
  BY DEF ListingSound, TypeOK, ListTypeOK
<1>4. DOMAIN rows \in SUBSET Ids /\ rows \in [DOMAIN rows -> Rows]
  BY <1>3, TableIs
<1>5. rows' \in Tables
  <2>1. DOMAIN rows' = DOMAIN rows \cup {id} /\ rows' \in [DOMAIN rows \cup {id} -> Rows]
    BY <1>2, <1>4
  <2>2. QED  BY <1>4, <2>1, TableIs
<1>6. Matching(rows) \subseteq Matching(rows')
  BY <1>2 DEF Matching
<1>7. TypeOK'
  <2>1. ListTypeOK'
    BY <1>1, <1>5, SameQuery DEF ListingSound, TypeOK, ListTypeOK
  <2>2. QED  BY <1>1, <2>1 DEF ListingSound, TypeOK
<1>8. PageAgrees'
  BY <1>1 DEF ListingSound, PageAgrees
<1>9. WalkSound'
  <2>1. SUFFICES ASSUME query.by = "id", ~shrank
                 PROVE  /\ start \subseteq Matching(rows')
                        /\ step = "count" =>
                              \A j \in start \ seen :
                                  Cardinality(Before(rows', j)) >= (page - 1) * size
                        /\ step = "select" =>
                              /\ start \subseteq Matching(snapshot)
                              /\ Matching(snapshot) \subseteq Matching(rows')
                              /\ \A j \in start \ seen :
                                    Cardinality(Before(snapshot, j)) >= (page - 1) * size
    BY <1>1, SameQuery DEF WalkSound, NotSkipped
  <2>2. WalkSound
    BY DEF ListingSound
  <2>3. ASSUME NEW j \in start \ seen, step = "count"
        PROVE  Cardinality(Before(rows', j)) >= (page - 1) * size
    <3>1. Cardinality(Before(rows, j)) >= (page - 1) * size
      BY <2>1, <2>2, <2>3 DEF WalkSound, NotSkipped
    <3>2. /\ Cardinality(Before(rows, j)) <= Cardinality(Before(rows', j))
          /\ Cardinality(Before(rows, j)) \in Nat /\ Cardinality(Before(rows', j)) \in Nat
      BY <1>3, <1>5, <1>6, <2>1, BeforeGrows, BeforeIs
    <3>3. (page - 1) * size \in Nat
      BY ListingAssumption DEF ListingSound, TypeOK, ListTypeOK
    <3>4. QED  BY <3>1, <3>2, <3>3
  <2>4. QED  BY <1>6, <2>1, <2>2, <2>3 DEF WalkSound, NotSkipped
<1>10. ReportSound' /\ ReportAgrees'
  BY <1>1, SameQuery DEF ListingSound, ReportSound, ReportAgrees
<1>11. QED  BY <1>7, <1>8, <1>9, <1>10 DEF ListingSound

LEMMA ChangeSound ==
    ASSUME ListingSound, Change, UNCHANGED report
    PROVE  ListingSound'
<1>1. /\ step # "walked" /\ shrank' = TRUE
      /\ UNCHANGED <<query, snapshot, page, step, answer, seen, start, report>>
  BY DEF Change
<1>2. DOMAIN rows \in SUBSET Ids /\ rows \in [DOMAIN rows -> Rows]
  BY TableIs DEF ListingSound, TypeOK, ListTypeOK
<1>3. rows' \in Tables
  <2>1. PICK id \in DOMAIN rows :
            \/ rows' = [i \in DOMAIN rows \ {id} |-> rows[i]]
            \/ \E r \in Rows \ {rows[id]} : rows' = [rows EXCEPT ![id] = r]
            \/ query.list = "logs" /\ rows' = [rows EXCEPT ![id].match = FALSE]
    BY DEF Change
  <2>a. query.list = "logs" => [rows[id] EXCEPT !.match = FALSE] \in Rows
    BY <1>2 DEF Rows
  <2>2. DOMAIN rows' \in SUBSET Ids /\ rows' \in [DOMAIN rows' -> Rows]
    BY <1>2, <2>1, <2>a
  <2>3. QED  BY <2>2, TableIs
<1>4. TypeOK'
  <2>1. ListTypeOK'
    BY <1>1, <1>3, SameQuery DEF ListingSound, TypeOK, ListTypeOK
  <2>2. QED  BY <1>1, <2>1 DEF ListingSound, TypeOK
<1>5. PageAgrees'
  BY <1>1 DEF ListingSound, PageAgrees
<1>6. WalkSound'
  BY <1>1 DEF WalkSound
<1>7. ReportSound' /\ ReportAgrees'
  BY <1>1, SameQuery DEF ListingSound, ReportSound, ReportAgrees
<1>8. QED  BY <1>4, <1>5, <1>6, <1>7 DEF ListingSound

(* A query of the report changes nothing that the walk is about. *)
LEMMA QueryKeeps ==
    ASSUME ListingSound, NEW place \in {"summary", "categories", "trend"}, NEW next,
           Query(place, next),
           next \in {"categories", "trend", "walked"}, snapshot' \in Tables
    PROVE  /\ ListTypeOK' /\ PageAgrees' /\ WalkSound'
           /\ query' = query /\ answer' = answer /\ query.list = "export"
           /\ answer.total = Cardinality(Matching(snapshot)) /\ snapshot \in Tables
           /\ step = place /\ step' = next
<1>1. /\ step = place /\ step' = next
      /\ UNCHANGED <<query, rows, page, answer, seen, start, shrank>>
  BY DEF Query
<1>2. query.list = "export" /\ answer.total = Cardinality(Matching(snapshot))
      /\ query \in Queries /\ snapshot \in Tables
  BY <1>1 DEF ListingSound, ReportSound, TypeOK, ListTypeOK
<1>3. ListTypeOK'
  BY <1>1, SameQuery DEF ListingSound, TypeOK, ListTypeOK
<1>4. PageAgrees'
  BY <1>1 DEF ListingSound, PageAgrees
<1>5. WalkSound'
  BY <1>1, <1>2, ExportByKey DEF WalkSound
<1>6. QED  BY <1>1, <1>2, <1>3, <1>4, <1>5

LEMMA SummarySound ==
    ASSUME ListingSound, Summary
    PROVE  ListingSound'
<1>1. /\ Query("summary", "categories") /\ snapshot' = snapshot
      /\ report' = [report EXCEPT !.summary = Aggregate(Matching(snapshot))]
  BY DEF Summary
<1>2. snapshot \in Tables
  BY DEF ListingSound, TypeOK, ListTypeOK
<1>3. /\ ListTypeOK' /\ PageAgrees' /\ WalkSound'
      /\ query' = query /\ answer' = answer /\ query.list = "export"
      /\ answer.total = Cardinality(Matching(snapshot))
      /\ step' = "categories"
  BY <1>1, <1>2, QueryKeeps
<1>4. /\ report' = [summary |-> report'.summary, categories |-> report'.categories,
                     trend |-> report'.trend]
      /\ report'.summary = Aggregate(Matching(snapshot))
      /\ report'.categories = report.categories /\ report'.trend = report.trend
  BY <1>1 DEF ListingSound, ReportSound
<1>5. TypeOK'
  <2>1. report'.summary \in [count : Nat, total : Nat]
    BY <1>2, <1>4, MatchingIs, AggregateType
  <2>2. QED  BY <1>3, <1>4, <2>1 DEF ListingSound, TypeOK
<1>6. ReportSound'
  <2>1. Matching(snapshot)' = Matching(snapshot)
    BY <1>1, <1>3, SameQuery
  <2>2. Aggregate(Matching(snapshot))' = Aggregate(Matching(snapshot))
    BY <2>1 DEF Aggregate
  <2>3. QED  BY <1>3, <1>4, <2>1, <2>2 DEF ReportSound
<1>7. ReportAgrees'
  BY <1>3 DEF ReportAgrees
<1>8. QED  BY <1>3, <1>5, <1>6, <1>7 DEF ListingSound

LEMMA CategoriesSound ==
    ASSUME ListingSound, AggregateByCategory
    PROVE  ListingSound'
<1> DEFINE good     == {id \in DOMAIN snapshot : snapshot[id].match}
           category == [id \in DOMAIN snapshot |-> snapshot[id].category]
<1>1. /\ Query("categories", "trend") /\ snapshot' = snapshot
      /\ report' = [report EXCEPT !.categories = Grouped(good, category)]
  BY DEF AggregateByCategory
<1>2. snapshot \in Tables
  BY DEF ListingSound, TypeOK, ListTypeOK
<1>3. /\ ListTypeOK' /\ PageAgrees' /\ WalkSound'
      /\ query' = query /\ answer' = answer /\ query.list = "export"
      /\ answer.total = Cardinality(Matching(snapshot))
      /\ step = "categories" /\ step' = "trend"
  BY <1>1, <1>2, QueryKeeps
<1>4. /\ report' = [summary |-> report'.summary, categories |-> report'.categories,
                     trend |-> report'.trend]
      /\ report'.categories = Grouped(good, category)
      /\ report'.summary = report.summary /\ report'.trend = report.trend
  BY <1>1 DEF ListingSound, ReportSound
<1>5. TypeOK'
  <2>1. \A id \in DOMAIN snapshot : snapshot[id].category \in Categories
    BY <1>2, <1>3, TableIs DEF Rows
  <2>2. DOMAIN Grouped(good, category) \subseteq Categories
    BY <2>1 DEF Grouped
  <2>3. QED  BY <1>3, <1>4, <2>2 DEF ListingSound, TypeOK
<1>6. ReportSound'
  <2>1. Matching(snapshot)' = Matching(snapshot)
    BY <1>1, <1>3, SameQuery
  <2>2. Aggregate(Matching(snapshot))' = Aggregate(Matching(snapshot))
    BY <2>1 DEF Aggregate
  <2>3. Grouped(good, category)' = Grouped(good, category)
    BY <1>1 DEF Grouped, Aggregate
  <2>4. report.summary = Aggregate(Matching(snapshot))
    BY <1>3 DEF ListingSound, ReportSound
  <2>5. QED  BY <1>3, <1>4, <2>1, <2>2, <2>3, <2>4 DEF ReportSound
<1>7. ReportAgrees'
  BY <1>3 DEF ReportAgrees
<1>8. QED  BY <1>3, <1>5, <1>6, <1>7 DEF ListingSound

LEMMA TrendSound ==
    ASSUME ListingSound, Trend
    PROVE  ListingSound'
<1> DEFINE M        == Matching(snapshot)
           good     == {id \in DOMAIN snapshot : snapshot[id].match}
           category == [id \in DOMAIN snapshot |-> snapshot[id].category]
<1>1. PICK granularity \in DOMAIN Span :
          report' = [report EXCEPT !.trend =
              Grouped(M, [id \in DOMAIN snapshot |-> snapshot[id].key \div Span[granularity]])]
  BY DEF Trend
<1> DEFINE bucket == [id \in DOMAIN snapshot |-> snapshot[id].key \div Span[granularity]]
<1>2. Query("trend", "walked") /\ snapshot' = NoRows /\ snapshot' \in Tables
  BY NoRowsIsTable DEF Trend
<1>3. /\ ListTypeOK' /\ PageAgrees' /\ WalkSound'
      /\ query' = query /\ answer' = answer /\ query.list = "export"
      /\ answer.total = Cardinality(M) /\ snapshot \in Tables
      /\ step = "trend" /\ step' = "walked"
  BY <1>2, QueryKeeps
<1>4. /\ report.summary = Aggregate(M)
      /\ report.categories = Grouped(good, category)
  BY <1>3 DEF ListingSound, ReportSound
<1> HIDE DEF bucket
<1>5. /\ report' = [summary |-> report'.summary, categories |-> report'.categories,
                     trend |-> report'.trend]
      /\ report'.trend = Grouped(M, bucket)
      /\ report'.summary = Aggregate(M)
      /\ report'.categories = Grouped(good, category)
  BY <1>1, <1>4 DEF ListingSound, ReportSound, bucket
<1>6. M \in SUBSET Ids /\ good \in SUBSET Ids
  BY <1>3, TableIs, MatchingIs
<1>7. TypeOK'
  <2>1. ASSUME NEW b \in DOMAIN Grouped(M, bucket)
        PROVE  Grouped(M, bucket)[b].count \in 1 .. MaxRows
    <3> DEFINE G == {id \in M : bucket[id] = b}
    <3>1. Grouped(M, bucket)[b].count = Cardinality(G) /\ G # {}
      BY <2>1 DEF Grouped, Aggregate
    <3>2. Cardinality(G) \in Nat /\ Cardinality(G) # 0
      BY <1>6, <3>1, IdsFinite, FS_EmptySet
    <3>3. Cardinality(G) <= Cardinality(Ids) /\ Cardinality(Ids) = MaxRows
      BY <1>6, IdsFinite, FS_Subset, FS_Interval, ListingAssumption DEF Ids
    <3>4. QED  BY <3>1, <3>2, <3>3, ListingAssumption
  <2>2. report'.summary \in [count : Nat, total : Nat]
    BY <1>5, <1>6, AggregateType
  <2>3. DOMAIN report'.categories \subseteq Categories
    BY <1>4, <1>5 DEF ListingSound, TypeOK
  <2>4. QED  BY <1>3, <1>5, <2>1, <2>2, <2>3 DEF TypeOK
<1>8. ReportSound'
  BY <1>3, <1>5 DEF ReportSound
<1>9. ReportAgrees'
  <2>1. Sum(report'.trend) = report'.summary
    BY <1>5, <1>6, GroupsAddUp
  <2>2. report'.summary.count = answer'.total
    BY <1>3, <1>5 DEF Aggregate
  <2>3. CASE query.category = "all"
    <3>1. M = good
      BY <2>3 DEF Matching
    <3>2. Sum(report'.categories) = report'.summary
      BY <1>5, <1>6, <3>1, GroupsAddUp
    <3>3. QED  BY <1>3, <2>1, <2>2, <2>3, <3>2 DEF ReportAgrees, Sum
  <2>4. CASE query.category # "all"
    <3>1. M = {id \in good : category[id] = query.category}
      BY <2>4 DEF Matching
    <3>2. report'.summary = IF query.category \in DOMAIN report'.categories
                            THEN report'.categories[query.category]
                            ELSE NoReport.summary
      <4>1. CASE query.category \in DOMAIN report'.categories
        <5>1. query.category \in {category[id] : id \in good}
          BY <1>5, <4>1 DEF Grouped
        <5>2. Grouped(good, category)[query.category] =
                  Aggregate({id \in good : category[id] = query.category})
          BY <5>1 DEF Grouped
        <5>3. QED  BY <1>5, <3>1, <4>1, <5>2
      <4>2. CASE query.category \notin DOMAIN report'.categories
        <5>1. M = {}
          BY <1>5, <3>1, <4>2 DEF Grouped
        <5>2. Cardinality({}) = 0 /\ Units({}) = {}
          BY FS_EmptySet DEF Units
        <5>3. report'.summary = [count |-> 0, total |-> 0]
          BY <1>5, <1>6, <5>1, <5>2, AggregateType
        <5>4. QED  BY <4>2, <5>3 DEF NoReport
      <4>3. QED  BY <4>1, <4>2
    <3>3. QED  BY <1>3, <2>1, <2>2, <2>4, <3>2 DEF ReportAgrees, Sum
  <2>5. QED  BY <2>3, <2>4
<1>10. QED  BY <1>3, <1>7, <1>8, <1>9 DEF ListingSound

LEMMA ListingStep == ListingSound /\ [Next]_vars => ListingSound'
<1> SUFFICES ASSUME ListingSound, [Next]_vars PROVE ListingSound'
  OBVIOUS
<1>1. CASE UNCHANGED vars
  <2>1. UNCHANGED <<query, rows, snapshot, page, step, answer, seen, start, shrank, report>>
    BY <1>1 DEF vars, listVars
  <2>2. TypeOK' /\ PageAgrees'
    BY <2>1, SameQuery DEF ListingSound, TypeOK, ListTypeOK, PageAgrees
  <2>3. WalkSound'
    BY <2>1, SameQuery DEF ListingSound, WalkSound, NotSkipped
  <2>4. ReportAgrees'
    BY <2>1 DEF ListingSound, ReportAgrees, Sum
  <2>5. Matching(snapshot)' = Matching(snapshot)
    BY <2>1, SameQuery
  <2>6. Aggregate(Matching(snapshot))' = Aggregate(Matching(snapshot))
    BY <2>5 DEF Aggregate
  <2>7. ReportSound'
    BY <2>1, <2>5, <2>6 DEF ListingSound, ReportSound
  <2>8. QED  BY <2>2, <2>3, <2>4, <2>7 DEF ListingSound
<1>2. QED
  BY <1>1, CountSound, SelectSound, NewWalkSound, InsertSound, ChangeSound,
     SummarySound, CategoriesSound, TrendSound DEF Next

(* A listing, the walk through it and a report under way agree with the    *)
(* snapshots they are read from, at any moment of the listings of the      *)
(* services and of export_report().                                        *)
THEOREM ListingInvariant == Spec => []ListingSound
<1>1. QED  BY ListingInit, ListingStep, PTL DEF Spec

(* What the listings and the aggregations return has its types. *)
THEOREM TypeCorrect == Spec => []TypeOK
<1>1. ListingSound => TypeOK
  BY DEF ListingSound
<1>2. QED  BY <1>1, ListingInvariant, PTL

(* A page agrees with its total, and the sheets of a report add up, for    *)
(* any table, page size, categories and bucket length.                     *)
THEOREM AnswersAgree == Spec => []AnswerAgrees
<1>1. ListingSound => AnswerAgrees
  BY DEF ListingSound, AnswerAgrees
<1>2. QED  BY <1>1, ListingInvariant, PTL

(* A walk in the order of the ids meets every row there was when it began, *)
(* unless one was deleted or changed.                                      *)
THEOREM NothingMissed == Spec => []WalkMissesNothing
<1>1. ListingSound => WalkMissesNothing
  BY DEF ListingSound, WalkSound, WalkMissesNothing
<1>2. QED  BY <1>1, ListingInvariant, PTL
===============================================================================
