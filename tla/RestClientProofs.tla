--------------------------- MODULE RestClientProofs ----------------------------
(***************************************************************************)
(* Theorems about a call of the REST client, for every set of items,       *)
(* statuses and labels: type correctness, the inductive invariant Inv of   *)
(* RestClient, and what a caller may rely on.  First the lemmas about the  *)
(* selectors in its requests, for labels of any strings: the order of      *)
(* strings is total, sortBy compares labels by a total order, and what a   *)
(* selector is turned into is the sorting of its labels.                   *)
(***************************************************************************)
EXTENDS RestClient, SequenceProofs, FunctionTheorems, FiniteSetTheorems

-----------------------------------------------------------------------------
(* The order of strings.                                                   *)

(* The first place at which s falls short of t.                            *)
LessAt(s, t, k) ==
  /\ k \in 1..Len(t)
  /\ \A j \in 1..k - 1 : j <= Len(s) /\ s[j] = t[j]
  /\ k = Len(s) + 1 \/ (k <= Len(s) /\ s[k] < t[k])

LEMMA SameStart ==
  ASSUME NEW s \in Seq(Nat), NEW t \in Seq(Nat),
         NEW i \in DOMAIN s \cap DOMAIN t
  PROVE  SubSeq(s, 1, i - 1) = SubSeq(t, 1, i - 1) <=>
           \A j \in 1..i - 1 : s[j] = t[j]
<1>1. /\ Len(s) \in Nat /\ Len(t) \in Nat /\ i \in Nat
      /\ 1 <= i /\ i <= Len(s) /\ i <= Len(t)
  OBVIOUS
<1> DEFINE a == SubSeq(s, 1, i - 1)
           b == SubSeq(t, 1, i - 1)
<1>2. /\ a \in Seq(Nat) /\ Len(a) = i - 1
      /\ \A j \in 1..i - 1 : a[j] = s[j]
  <2>1. \A j \in 1..i - 1 : s[j] \in Nat
    BY <1>1
  <2>2. 1 \in Int /\ i - 1 \in Int
    BY <1>1
  <2>3. /\ a \in Seq(Nat)
        /\ Len(a) = IF 1 <= i - 1 THEN i - 1 - 1 + 1 ELSE 0
        /\ \A j \in 1..i - 1 - 1 + 1 : a[j] = s[1 + j - 1]
    BY <2>1, <2>2, SubSeqProperties
  <2> HIDE DEF a
  <2>4. QED
    BY <1>1, <2>3
<1>3. /\ b \in Seq(Nat) /\ Len(b) = i - 1
      /\ \A j \in 1..i - 1 : b[j] = t[j]
  <2>1. \A j \in 1..i - 1 : t[j] \in Nat
    BY <1>1
  <2>2. 1 \in Int /\ i - 1 \in Int
    BY <1>1
  <2>3. /\ b \in Seq(Nat)
        /\ Len(b) = IF 1 <= i - 1 THEN i - 1 - 1 + 1 ELSE 0
        /\ \A j \in 1..i - 1 - 1 + 1 : b[j] = t[1 + j - 1]
    BY <2>1, <2>2, SubSeqProperties
  <2> HIDE DEF b
  <2>4. QED
    BY <1>1, <2>3
<1> HIDE DEF a, b
<1>4. (\A j \in 1..i - 1 : s[j] = t[j]) => a = b
  BY <1>2, <1>3, SeqEqual
<1>5. a = b => \A j \in 1..i - 1 : s[j] = t[j]
  BY <1>2, <1>3
<1>6. QED
  BY <1>4, <1>5 DEF a, b

LEMMA LessPointwise ==
  ASSUME NEW s \in Seq(Nat), NEW t \in Seq(Nat)
  PROVE  Less(s, t) <=> \E k \in Nat : LessAt(s, t, k)
<1>1. /\ Len(s) \in Nat /\ Len(t) \in Nat
      /\ DOMAIN s = 1..Len(s) /\ DOMAIN t = 1..Len(t)
  OBVIOUS
<1>2. IsStrictPrefix(s, t) => LessAt(s, t, Len(s) + 1)
  <2>1. SUFFICES ASSUME IsPrefix(s, t), s # t
                 PROVE  LessAt(s, t, Len(s) + 1)
    BY DEF IsStrictPrefix
  <2>2. Len(s) <= Len(t) /\ \A i \in 1..Len(s) : s[i] = t[i]
    BY <2>1, PrefixPointwise
  <2>3. Len(s) # Len(t)
    BY <2>1, <2>2, SeqEqual
  <2> DEFINE n == Len(s)
             m == Len(t)
  <2>4. n + 1 \in 1..m /\ n + 1 - 1 = n
    <3>1. n \in Nat /\ m \in Nat /\ n <= m /\ n # m
      BY <1>1, <2>2, <2>3
    <3> HIDE DEF n, m
    <3>2. QED
      BY <3>1
  <2>5. \A j \in 1..Len(s) + 1 - 1 : j <= Len(s) /\ s[j] = t[j]
    BY <1>1, <2>2, <2>4
  <2>6. QED
    BY <2>4, <2>5 DEF LessAt
<1>3. ASSUME NEW i \in DOMAIN s \cap DOMAIN t, s[i] < t[i],
             SubSeq(s, 1, i - 1) = SubSeq(t, 1, i - 1)
      PROVE  i \in Nat /\ LessAt(s, t, i)
  <2>1. \A j \in 1..i - 1 : s[j] = t[j]
    BY <1>3, SameStart
  <2>2. QED
    BY <1>1, <1>3, <2>1 DEF LessAt
<1>4. ASSUME NEW k \in Nat, LessAt(s, t, k), k = Len(s) + 1
      PROVE  IsStrictPrefix(s, t)
  <2>1. k \in 1..Len(t) /\ \A j \in 1..k - 1 : s[j] = t[j]
    BY <1>4 DEF LessAt
  <2>2. Len(s) < Len(t) /\ k - 1 = Len(s)
    BY <1>1, <1>4, <2>1
  <2>3. Len(s) < Len(t) /\ \A i \in 1..Len(s) : s[i] = t[i]
    BY <2>1, <2>2
  <2>4. Len(s) <= Len(t)
    BY <1>1, <2>3
  <2>5. IsPrefix(s, t)
    BY <2>3, <2>4, PrefixPointwise
  <2>6. s # t
    BY <1>1, <2>3
  <2>7. QED
    BY <2>5, <2>6 DEF IsStrictPrefix
<1>5. ASSUME NEW k \in Nat, LessAt(s, t, k), k # Len(s) + 1
      PROVE  /\ k \in DOMAIN s \cap DOMAIN t /\ s[k] < t[k]
             /\ SubSeq(s, 1, k - 1) = SubSeq(t, 1, k - 1)
  <2>1. k \in DOMAIN s \cap DOMAIN t /\ s[k] < t[k]
    BY <1>1, <1>5 DEF LessAt
  <2>2. \A j \in 1..k - 1 : s[j] = t[j]
    BY <1>5 DEF LessAt
  <2>3. QED
    BY <2>1, <2>2, SameStart
<1>6. Less(s, t) => \E k \in Nat : LessAt(s, t, k)
  BY <1>1, <1>2, <1>3 DEF Less
<1>7. (\E k \in Nat : LessAt(s, t, k)) => Less(s, t)
  BY <1>4, <1>5 DEF Less
<1>8. QED
  BY <1>6, <1>7

LEMMA LessIrreflexive == ASSUME NEW s \in Seq(Nat) PROVE ~Less(s, s)
<1>1. ASSUME NEW k \in Nat, LessAt(s, s, k) PROVE FALSE
  BY <1>1 DEF LessAt
<1>2. QED
  BY <1>1, LessPointwise

LEMMA LessTransitive ==
  ASSUME NEW s \in Seq(Nat), NEW t \in Seq(Nat), NEW u \in Seq(Nat),
         Less(s, t), Less(t, u)
  PROVE  Less(s, u)
<1>1. PICK k \in Nat : LessAt(s, t, k)
  BY LessPointwise
<1>2. PICK m \in Nat : LessAt(t, u, m)
  BY LessPointwise
<1>3. Len(s) \in Nat /\ Len(t) \in Nat /\ Len(u) \in Nat
  OBVIOUS
<1>4. CASE k < m
  <2>1. /\ k \in 1..Len(t) /\ \A j \in 1..k - 1 : j <= Len(s) /\ s[j] = t[j]
        /\ k = Len(s) + 1 \/ (k <= Len(s) /\ s[k] < t[k])
    BY <1>1 DEF LessAt
  <2>2. m \in 1..Len(u) /\ \A j \in 1..m - 1 : t[j] = u[j]
    BY <1>2 DEF LessAt
  <2>3. k \in 1..Len(u) /\ k \in 1..m - 1 /\ \A j \in 1..k - 1 : j \in 1..m - 1
    BY <1>3, <1>4, <2>1, <2>2
  <2>4. t[k] = u[k] /\ \A j \in 1..k - 1 : j <= Len(s) /\ s[j] = u[j]
    BY <2>1, <2>2, <2>3
  <2>5. LessAt(s, u, k)
    BY <2>1, <2>3, <2>4 DEF LessAt
  <2>6. QED
    BY <2>5, LessPointwise
<1>5. CASE k = m
  <2>1. k <= Len(t) /\ t[k] < u[k] /\ t[k] \in Nat /\ u[k] \in Nat
    BY <1>1, <1>2, <1>3, <1>5 DEF LessAt
  <2>2. k <= Len(s) => s[k] \in Nat
    BY <1>1, <1>3 DEF LessAt
  <2>3. /\ \A j \in 1..k - 1 : j <= Len(s) /\ s[j] = t[j]
        /\ k = Len(s) + 1 \/ (k <= Len(s) /\ s[k] < t[k])
    BY <1>1 DEF LessAt
  <2>4. k \in 1..Len(u) /\ \A j \in 1..k - 1 : t[j] = u[j]
    BY <1>2, <1>5 DEF LessAt
  <2>5. k <= Len(s) => s[k] < u[k]
    <3>1. k <= Len(s) => s[k] < t[k]
      BY <1>3, <2>3
    <3> DEFINE x == s[k]
               y == t[k]
               z == u[k]
    <3>2. k <= Len(s) => x \in Nat /\ x < y
      BY <2>2, <3>1
    <3>3. y \in Nat /\ z \in Nat /\ y < z
      BY <2>1
    <3> HIDE DEF x, y, z
    <3>4. k <= Len(s) => x < z
      BY <3>2, <3>3
    <3>5. QED
      BY <3>4 DEF x, z
  <2>6. LessAt(s, u, k)
    BY <2>3, <2>4, <2>5 DEF LessAt
  <2>7. QED
    BY <2>6, LessPointwise
<1>6. CASE m < k
  <2>1. /\ k \in 1..Len(t) /\ \A j \in 1..k - 1 : j <= Len(s) /\ s[j] = t[j]
    BY <1>1 DEF LessAt
  <2>2. /\ m \in 1..Len(u) /\ \A j \in 1..m - 1 : j <= Len(t) /\ t[j] = u[j]
        /\ m = Len(t) + 1 \/ (m <= Len(t) /\ t[m] < u[m])
    BY <1>2 DEF LessAt
  <2>3. m \in 1..k - 1 /\ \A j \in 1..m - 1 : j \in 1..k - 1
    BY <1>3, <1>6, <2>2
  <2>4. /\ m <= Len(s) /\ s[m] = t[m]
        /\ \A j \in 1..m - 1 : j <= Len(s) /\ s[j] = u[j]
    BY <2>1, <2>2, <2>3
  <2>5. m # Len(t) + 1
    BY <1>3, <1>6, <2>1
  <2>6. LessAt(s, u, m)
    BY <2>2, <2>4, <2>5 DEF LessAt
  <2>7. QED
    BY <2>6, LessPointwise
<1>7. QED
  BY <1>4, <1>5, <1>6

LEMMA LessTotal ==
  ASSUME NEW s \in Seq(Nat), NEW t \in Seq(Nat), s # t
  PROVE  Less(s, t) \/ Less(t, s)
<1> DEFINE D == {i \in Nat : i \in 1..Len(s) /\ i \in 1..Len(t) /\ s[i] # t[i]}
<1>1. Len(s) \in Nat /\ Len(t) \in Nat
  OBVIOUS
<1>2. CASE D = {}
  <2>1. \A i \in 1..Len(s) : i <= Len(t) => s[i] = t[i]
    <3>1. ASSUME NEW i \in 1..Len(s), i <= Len(t) PROVE s[i] = t[i]
      <4>1. i \in Nat /\ i \in 1..Len(t) /\ i \notin D
        BY <1>1, <1>2, <3>1
      <4>2. QED
        BY <4>1
    <3>2. QED
      BY <3>1
  <2>2. CASE Len(s) < Len(t)
    <3>1. LessAt(s, t, Len(s) + 1)
      <4> DEFINE n == Len(s)
                 k == n + 1
      <4>1. /\ k - 1 = n /\ k \in 1..Len(t)
            /\ \A j \in 1..n : j <= n /\ j <= Len(t)
        BY <1>1, <2>2
      <4>2. \A j \in 1..n : s[j] = t[j]
        BY <2>1, <4>1
      <4> HIDE DEF k
      <4>3. \A j \in 1..k - 1 : j <= n /\ s[j] = t[j]
        BY <4>1, <4>2
      <4>4. k = n + 1
        BY DEF k
      <4>5. LessAt(s, t, k)
        BY <4>1, <4>3, <4>4 DEF LessAt
      <4>6. QED
        BY <4>5 DEF k
    <3>2. QED
      BY <1>1, <3>1, LessPointwise
  <2>3. CASE Len(t) < Len(s)
    <3>1. LessAt(t, s, Len(t) + 1)
      BY <1>1, <2>1, <2>3 DEF LessAt
    <3>2. QED
      BY <1>1, <3>1, LessPointwise
  <2>4. CASE Len(s) = Len(t)
    BY <1>1, <2>1, <2>4, SeqEqual
  <2>5. QED
    BY <1>1, <2>2, <2>3, <2>4
<1>3. CASE D # {}
  <2>1. PICK i \in D : \A m \in D : i <= m
    BY <1>3, Least
  <2>2. \A j \in 1..i - 1 : j <= Len(s) /\ j <= Len(t) /\ s[j] = t[j]
    BY <1>1, <2>1
  <2>3. i \in Nat /\ i \in 1..Len(s) /\ i \in 1..Len(t) /\ s[i] # t[i]
    OBVIOUS
  <2>4. s[i] \in Nat /\ t[i] \in Nat
    BY <1>1, <2>3
  <2>5. s[i] < t[i] \/ t[i] < s[i]
    BY <2>3, <2>4
  <2>6. LessAt(s, t, i) \/ LessAt(t, s, i)
    BY <1>1, <2>2, <2>3, <2>5 DEF LessAt
  <2>7. QED
    BY <2>3, <2>6, LessPointwise
<1>4. QED
  BY <1>2, <1>3

-----------------------------------------------------------------------------
(* The order of labels.                                                    *)

Entry == [name : Seq(Nat), value : Seq(Nat)]

Below(a, b) ==
  Less(a.name, b.name) \/ (a.name = b.name /\ Less(a.value, b.value))

LEMMA EntryFields ==
  ASSUME NEW a \in Entry, NEW b \in Entry
  PROVE  /\ a.name \in Seq(Nat) /\ a.value \in Seq(Nat)
         /\ a["name"] = a.name /\ a["value"] = a.value
         /\ a.name = b.name /\ a.value = b.value => a = b
  BY DEF Entry

LEMMA BelowOrders ==
  ASSUME NEW a \in Entry, NEW b \in Entry, NEW c \in Entry
  PROVE  /\ ~Below(a, a)
         /\ Below(a, b) /\ Below(b, c) => Below(a, c)
         /\ a # b => Below(a, b) \/ Below(b, a)
<1>1. /\ a.name \in Seq(Nat) /\ a.value \in Seq(Nat)
      /\ b.name \in Seq(Nat) /\ b.value \in Seq(Nat)
      /\ c.name \in Seq(Nat) /\ c.value \in Seq(Nat)
  BY EntryFields
<1>2. ~Below(a, a)
  BY <1>1, LessIrreflexive DEF Below
<1>3. Below(a, b) /\ Below(b, c) => Below(a, c)
  BY <1>1, LessTransitive DEF Below
<1>4. a # b => Below(a, b) \/ Below(b, a)
  BY <1>1, EntryFields, LessTotal DEF Below
<1>5. QED
  BY <1>2, <1>3, <1>4

(* sortBy("name", "value") compares by this order.                         *)
LEMMA SortByCompares ==
  ASSUME NEW a \in Entry, NEW b \in Entry
  PROVE  /\ SortBy(<<"name", "value">>, a, b) < 0 <=> Below(a, b)
         /\ SortBy(<<"name", "value">>, a, b) = 0 <=> a = b
<1> DEFINE fields == <<"name", "value">>
           differ == {i \in DOMAIN fields : a[fields[i]] # b[fields[i]]}
           f == fields[Min(differ)]
<1>1. /\ DOMAIN fields = {1, 2}
      /\ fields[1] = "name" /\ fields[2] = "value"
  OBVIOUS
<1>2. /\ a.name \in Seq(Nat) /\ a.value \in Seq(Nat)
      /\ b.name \in Seq(Nat) /\ b.value \in Seq(Nat)
      /\ a["name"] = a.name /\ a["value"] = a.value
      /\ b["name"] = b.name /\ b["value"] = b.value
  BY EntryFields
<1>3. SortBy(fields, a, b) =
        IF differ = {} THEN 0 ELSE IF Less(b[f], a[f]) THEN 1 ELSE -1
  BY DEF SortBy
<1>4. /\ 1 \in differ <=> a.name # b.name
      /\ 2 \in differ <=> a.value # b.value
      /\ differ \subseteq {1, 2}
  <2> HIDE DEF fields
  <2>1. QED
    BY <1>1, <1>2
<1> HIDE DEF fields, differ
<1>5. CASE a.name # b.name
  <2>1. 1 \in differ /\ \A y \in differ : 1 <= y
    BY <1>4, <1>5
  <2>2. Min(differ) = 1
    <3>1. \A x \in differ : (\A y \in differ : x <= y) => x = 1
      BY <1>4, <2>1
    <3>2. QED
      BY <2>1, <3>1 DEF Min
  <2>3. a[f] = a.name /\ b[f] = b.name
    BY <1>1, <1>2, <2>2
  <2>4. Less(a.name, b.name) <=> ~Less(b.name, a.name)
    BY <1>2, <1>5, LessTotal, LessTransitive, LessIrreflexive
  <2>5. a # b
    BY <1>5
  <2>6. Below(a, b) <=> ~Less(b.name, a.name)
    BY <1>5, <2>4 DEF Below
  <2>7. SortBy(fields, a, b) = IF Less(b.name, a.name) THEN 1 ELSE -1
    BY <1>3, <2>1, <2>3
  <2>8. QED
    BY <2>5, <2>6, <2>7 DEF fields
<1>6. CASE a.name = b.name /\ a.value # b.value
  <2>1. differ = {2}
    BY <1>4, <1>6
  <2>2. Min(differ) = 2
    BY <2>1 DEF Min
  <2>3. a[f] = a.value /\ b[f] = b.value
    BY <1>1, <1>2, <2>2
  <2>4. Less(a.value, b.value) <=> ~Less(b.value, a.value)
    BY <1>2, <1>6, LessTotal, LessTransitive, LessIrreflexive
  <2>5. a # b
    BY <1>6
  <2>6. Below(a, b) <=> ~Less(b.value, a.value)
    BY <1>2, <1>6, <2>4, LessIrreflexive DEF Below
  <2>7. SortBy(fields, a, b) = IF Less(b.value, a.value) THEN 1 ELSE -1
    BY <1>3, <2>1, <2>3
  <2>8. QED
    BY <2>5, <2>6, <2>7 DEF fields
<1>7. CASE a.name = b.name /\ a.value = b.value
  <2>1. a = b
    BY <1>7, EntryFields
  <2>2. differ = {}
    BY <1>4, <1>7
  <2>3. SortBy(fields, a, b) = 0
    BY <1>3, <2>2
  <2>4. QED
    BY <2>1, <2>3, BelowOrders DEF fields
<1>8. QED
  BY <1>5, <1>6, <1>7

-----------------------------------------------------------------------------
(* Sorting.                                                                *)

(* A strict total order of 1..n lists it: every i stands at its rank, the  *)
(* number of those that are not after it.                                  *)
LEMMA OrderListed ==
  ASSUME NEW n \in Nat, NEW R,
         \A i \in 1..n : ~ (<<i, i>> \in R),
         \A i, j, k \in 1..n :
           <<i, j>> \in R /\ <<j, k>> \in R => <<i, k>> \in R,
         \A i, j \in 1..n : i # j => <<i, j>> \in R \/ <<j, i>> \in R
  PROVE  \E p \in Bijection(1..n, 1..n) :
           \A j, k \in 1..n : j < k => <<p[j], p[k]>> \in R
<1> DEFINE I == 1..n
           UpTo(i) == {j \in I : j = i \/ <<j, i>> \in R}
           rank == [i \in I |-> Cardinality(UpTo(i))]
<1>1. IsFiniteSet(I) /\ Cardinality(I) = n
  BY FS_Interval
<1>2. ASSUME NEW i \in I PROVE rank[i] \in I
  <2>1. UpTo(i) \subseteq I /\ i \in UpTo(i)
    OBVIOUS
  <2>2. IsFiniteSet(UpTo(i)) /\ Cardinality(UpTo(i)) <= n
    <3>1. UpTo(i) \in SUBSET I
      BY <2>1
    <3> HIDE DEF UpTo, I
    <3>2. QED
      BY <1>1, <3>1, FS_Subset
  <2>3. Cardinality(UpTo(i)) \in Nat /\ Cardinality(UpTo(i)) # 0
    BY <2>1, <2>2, FS_CardinalityType, FS_EmptySet
  <2>4. rank[i] = Cardinality(UpTo(i))
    OBVIOUS
  <2> HIDE DEF UpTo, rank
  <2>5. QED
    BY <2>2, <2>3, <2>4
<1>3. ASSUME NEW i \in I, NEW k \in I, <<i, k>> \in R
      PROVE  rank[i] < rank[k]
  <2>1. UpTo(i) \subseteq UpTo(k) /\ k \in UpTo(k) /\ ~ (k \in UpTo(i))
    BY <1>3
  <2>2. UpTo(k) \in SUBSET I
    OBVIOUS
  <2>3. IsFiniteSet(UpTo(k))
    <3> HIDE DEF UpTo, I
    <3>1. QED
      BY <1>1, <2>2, FS_Subset
  <2> DEFINE U == UpTo(i)
             V == UpTo(k)
  <2>4. /\ Cardinality(U) <= Cardinality(V)
        /\ Cardinality(V) = Cardinality(U) => V = U
    <3>1. U \in SUBSET V
      BY <2>1
    <3> HIDE DEF U
    <3>2. QED
      BY <2>3, <3>1, FS_Subset
  <2>5. rank[i] = Cardinality(U) /\ rank[k] = Cardinality(V)
    OBVIOUS
  <2>6. rank[i] \in I /\ rank[k] \in I /\ U # V
    BY <1>2, <2>1
  <2> HIDE DEF U, V, rank, UpTo
  <2>7. QED
    BY <2>4, <2>5, <2>6
<1>4. rank \in [I -> I]
  BY <1>2
<1> HIDE DEF rank, I
<1>5. \A i, k \in I : rank[i] = rank[k] => i = k
  <2>1. SUFFICES ASSUME NEW i \in I, NEW k \in I, rank[i] = rank[k], i # k
                 PROVE  FALSE
    OBVIOUS
  <2>2. <<i, k>> \in R \/ <<k, i>> \in R
    BY <2>1 DEF I
  <2>3. rank[i] < rank[k] \/ rank[k] < rank[i]
    BY <1>3, <2>2
  <2>4. rank[i] \in Nat /\ rank[k] \in Nat
    BY <1>2 DEF I
  <2>5. QED
    BY <2>1, <2>3, <2>4
<1>6. rank \in Bijection(I, I)
  <2>1. rank \in Injection(I, I)
    BY <1>4, <1>5, Fun_IsInj
  <2>2. rank \in Surjection(I, I)
    BY <1>1, <2>1, FS_Injection
  <2>3. QED
    BY <2>1, <2>2 DEF Bijection
<1> DEFINE p == Inverse(rank, I, I)
<1>7. /\ p \in Bijection(I, I)
      /\ \A i \in I : p[rank[i]] = i
  BY <1>6, Fun_BijInverse
<1>8. ASSUME NEW j \in I PROVE p[j] \in I /\ rank[p[j]] = j
  <2>1. PICK i \in I : rank[i] = j
    BY <1>6, Fun_BijectionProperties, Fun_SurjectionProperties
  <2>2. QED
    BY <1>7, <2>1
<1>9. ASSUME NEW j \in I, NEW k \in I, j < k
      PROVE  <<p[j], p[k]>> \in R
  <2>1. /\ p[j] \in I /\ p[k] \in I
        /\ rank[p[j]] = j /\ rank[p[k]] = k
    BY <1>8
  <2>2. j \in Nat /\ k \in Nat
    BY DEF I
  <2> HIDE DEF p
  <2>3. p[j] # p[k]
    BY <1>9, <2>1, <2>2
  <2>4. <<p[k], p[j]>> \in R => k < j
    BY <1>3, <2>1
  <2>5. <<p[j], p[k]>> \in R \/ <<p[k], p[j]>> \in R
    BY <2>1, <2>3 DEF I
  <2>6. QED
    BY <1>9, <2>2, <2>4, <2>5
<1>10. QED
  BY <1>7, <1>9 DEF I

(* What is moved around is still there, and no two places hold the same if *)
(* no two did.                                                             *)
LEMMA Moved ==
  ASSUME NEW I, NEW p \in Bijection(I, I),
         NEW f, DOMAIN f = I, NEW h, DOMAIN h = I, \A k \in I : h[k] = f[p[k]]
  PROVE  /\ ToSet(h) = ToSet(f)
         /\ IsInjective(f) => IsInjective(h)
<1>1. /\ p \in [I -> I]
      /\ \A a, b \in I : p[a] = p[b] => a = b
      /\ \A t \in I : \E a \in I : p[a] = t
  BY Fun_BijectionProperties
<1>2. ToSet(h) = ToSet(f)
  BY <1>1 DEF ToSet
<1>3. IsInjective(f) => IsInjective(h)
  BY <1>1 DEF IsInjective
<1>4. QED
  BY <1>2, <1>3

(* The labels of a selector, sorted: the same labels, in order.            *)
LEMMA LabelsSorted ==
  ASSUME NEW labels \in Seq(Entry)
  PROVE  LET asked == ToLabelSet(labels).labels IN
         /\ DOMAIN asked = DOMAIN labels
         /\ \A k \in DOMAIN asked : asked[k] \in Entry
         /\ \A j, k \in DOMAIN asked :
              j < k => Below(asked[j], asked[k]) \/ asked[j] = asked[k]
         /\ ToSet(asked) = ToSet(labels)
         /\ IsInjective(labels) => IsInjective(asked)
<1> DEFINE n == Len(labels)
           I == 1..n
           Compare(j, k) == SortBy(<<"name", "value">>, labels[j], labels[k])
           Sorts(p) == \A j, k \in I : j < k =>
                         \/ Compare(p[j], p[k]) < 0
                         \/ Compare(p[j], p[k]) = 0 /\ p[j] < p[k]
           R == {e \in I \X I :
                  \/ Below(labels[e[1]], labels[e[2]])
                  \/ labels[e[1]] = labels[e[2]] /\ e[1] < e[2]}
           q == SortOrder(labels)
<1>1. n \in Nat /\ DOMAIN labels = I /\ \A i \in I : labels[i] \in Entry
  OBVIOUS
<1>2. \A i, k \in I :
        <<i, k>> \in R <=>
          \/ Below(labels[i], labels[k])
          \/ labels[i] = labels[k] /\ i < k
  OBVIOUS
<1>3. \A i, k \in I : i \in Nat /\ k \in Nat
  BY <1>1
<1>4. \E p \in Bijection(I, I) :
        \A j, k \in I : j < k => <<p[j], p[k]>> \in R
  <2> HIDE DEF R, n
  <2>1. \A i \in I : ~ (<<i, i>> \in R)
    BY <1>1, <1>2, <1>3, BelowOrders
  <2>2. ASSUME NEW i \in I, NEW j \in I, NEW k \in I,
               <<i, j>> \in R, <<j, k>> \in R
        PROVE  <<i, k>> \in R
    <3>1. /\ labels[i] \in Entry /\ labels[j] \in Entry /\ labels[k] \in Entry
          /\ i \in Nat /\ j \in Nat /\ k \in Nat
      BY <1>1, <1>3
    <3>2. \/ Below(labels[i], labels[j])
          \/ labels[i] = labels[j] /\ i < j
      BY <1>2, <2>2
    <3>3. \/ Below(labels[j], labels[k])
          \/ labels[j] = labels[k] /\ j < k
      BY <1>2, <2>2
    <3>4. i < j /\ j < k => i < k
      BY <3>1
    <3> HIDE DEF I
    <3>5. \/ Below(labels[i], labels[k])
          \/ labels[i] = labels[k] /\ i < k
      BY <3>1, <3>2, <3>3, <3>4, BelowOrders
    <3>6. QED
      BY <1>2, <3>5
  <2>3. ASSUME NEW i \in I, NEW j \in I, i # j
        PROVE  <<i, j>> \in R \/ <<j, i>> \in R
    <3>1. labels[i] \in Entry /\ labels[j] \in Entry
      BY <1>1
    <3>2. i < j \/ j < i
      BY <1>3, <2>3
    <3> HIDE DEF I
    <3>3. \/ Below(labels[i], labels[j]) \/ Below(labels[j], labels[i])
          \/ labels[i] = labels[j] /\ (i < j \/ j < i)
      BY <3>1, <3>2, BelowOrders
    <3>4. QED
      BY <1>2, <3>3
  <2>4. QED
    BY <1>1, <2>1, <2>2, <2>3, OrderListed
<1>5. \A i, k \in I :
        /\ Compare(i, k) < 0 <=> Below(labels[i], labels[k])
        /\ Compare(i, k) = 0 <=> labels[i] = labels[k]
  BY <1>1, SortByCompares
<1>6. \A p \in Bijection(I, I) : p \in [I -> I]
  BY Fun_BijectionProperties
<1>7. PICK p \in Bijection(I, I) : Sorts(p)
  <2>1. PICK p \in Bijection(I, I) :
          \A j, k \in I : j < k => <<p[j], p[k]>> \in R
    BY <1>4
  <2> HIDE DEF R, I, Compare
  <2>2. ASSUME NEW j \in I, NEW k \in I, j < k
        PROVE  \/ Compare(p[j], p[k]) < 0
               \/ Compare(p[j], p[k]) = 0 /\ p[j] < p[k]
    <3>1. p[j] \in I /\ p[k] \in I
      BY <1>6
    <3>2. <<p[j], p[k]>> \in R
      BY <2>1, <2>2
    <3>3. QED
      BY <1>2, <1>5, <3>1, <3>2
  <2>3. QED
    BY <2>2
<1>8. q = CHOOSE p_1 \in Bijection(I, I) : Sorts(p_1)
  BY <1>1 DEF SortOrder
<1>9. q \in Bijection(I, I) /\ Sorts(q)
  <2> HIDE DEF q, Sorts, I
  <2>1. QED
    BY <1>7, <1>8
<1>10. ToLabelSet(labels).labels = [k \in I |-> labels[q[k]]]
  BY <1>1 DEF ToLabelSet, LabelSet
<1> HIDE DEF q, I, n, Compare, R
<1>11. \A k \in I : q[k] \in I /\ labels[q[k]] \in Entry
  BY <1>1, <1>6, <1>9
<1>12. \A j, k \in I : j < k =>
         Below(labels[q[j]], labels[q[k]]) \/ labels[q[j]] = labels[q[k]]
  BY <1>5, <1>9, <1>11
<1> DEFINE asked == ToLabelSet(labels).labels
<1>13. DOMAIN asked = I /\ \A k \in I : asked[k] = labels[q[k]]
  BY <1>10
<1> HIDE DEF asked, Sorts
<1>14. /\ ToSet(asked) = ToSet(labels)
       /\ IsInjective(labels) => IsInjective(asked)
  BY <1>1, <1>9, <1>13, Moved
<1>15. QED
  BY <1>1, <1>11, <1>12, <1>13, <1>14 DEF asked

USE DEF call, body, caller, Sides

-----------------------------------------------------------------------------
(* What fetch settles with.                                                *)

LEMMA ReplyCases ==
  ASSUME NEW m \in Methods, NEW r \in Replies(m), r # TypeError
  PROVE  \/ r \in Whole(m)
         \/ m \in Streamed /\ r \in Longer(m)
         \/ \E s \in Status :
              \/ r = Failure(s, RuntimeError(s, Says(s)), "unary")
              \/ m \in Streamed /\ r = Failure(s, StreamFailure(s), "stream")
              \/ r = Failure(s, NotJSON, "other")
BY DEF Replies

LEMMA FailureNotOk == \A s, line, shape : Failure(s, line, shape).ok = FALSE
BY DEF Failure, Response

LEMMA SuccessOk ==
  \A m \in Methods : \A r \in Whole(m) \cup Longer(m) : r.ok = TRUE
BY DEF Whole, Longer, Response

(* A success holds one message, or is a stream of another number of lines. *)
LEMMA Successes ==
  ASSUME NEW m \in Methods, NEW r \in Replies(m), r # TypeError, r.ok
  PROVE  \/ \E x \in SaidBy(m) :
              r = Response(TRUE, <<Line(m, x)>>, <<x>>, undefined, "unary")
         \/ m \in Streamed /\ r.kind = "response" /\ Len(r.lines) \in {0, 2}
<1>1. CASE r \in Whole(m)
  BY <1>1 DEF Whole
<1>2. CASE m \in Streamed /\ r \in Longer(m)
  BY <1>2 DEF Longer, Response
<1>3. \A s, line, shape : r # Failure(s, line, shape)
  BY FailureNotOk
<1>4. r \in Whole(m) \/ (m \in Streamed /\ r \in Longer(m))
  BY <1>3, ReplyCases
<1>5. QED
  BY <1>1, <1>2, <1>4

(* A failure is one line.                                                  *)
LEMMA Failures ==
  ASSUME NEW m \in Methods, NEW r \in Replies(m), r # TypeError, ~r.ok
  PROVE  \E s \in Status :
           \/ r = Failure(s, RuntimeError(s, Says(s)), "unary")
           \/ m \in Streamed /\ r = Failure(s, StreamFailure(s), "stream")
           \/ r = Failure(s, NotJSON, "other")
BY ReplyCases, SuccessOk

LEMMA ReplyTyped ==
  ASSUME NEW m \in Methods, NEW r \in Replies(m)
  PROVE  \/ r = TypeError /\ r.kind = "TypeError"
         \/ r # TypeError /\ r.kind = "response" /\ Len(r.lines) \in 0..2
<1>1. TypeError.kind = "TypeError"
  BY DEF TypeError
<1>2. CASE r # TypeError /\ r.ok
  BY <1>1, <1>2, Successes DEF Response
<1>3. CASE r # TypeError /\ ~r.ok
  BY <1>1, <1>3, Failures DEF Failure, Response
<1>4. QED
  BY <1>1, <1>2, <1>3

-----------------------------------------------------------------------------
(* Results.                                                                *)

LEMMA OkSides ==
  ASSUME NEW v
  PROVE  /\ DOMAIN Ok(v) = {"value", "error"} /\ ~IsErr(Ok(v))
         /\ Ok(v).value = v /\ (IsOk(Ok(v)) <=> v \notin Falsy)
BY RestAssumption DEF Ok, New, IsOk, IsErr

LEMMA ErrSides ==
  ASSUME NEW e
  PROVE  /\ DOMAIN Err(e) = {"value", "error"} /\ ~IsOk(Err(e))
         /\ Err(e).error = e /\ (IsErr(Err(e)) <=> e \notin Falsy)
BY RestAssumption DEF Err, New, IsOk, IsErr

(* What r.map and r.map_err leave of the side that r is on.                *)
LEMMA MapSides ==
  ASSUME NEW r, NEW x, ~(IsOk(r) /\ IsErr(r))
  PROVE  /\ DOMAIN Map(r, x) = {"value", "error"}
         /\ ~(IsOk(Map(r, x)) /\ IsErr(Map(r, x)))
         /\ IsOk(Map(r, x)) <=> IsOk(r) /\ x \notin Falsy
         /\ IsErr(Map(r, x)) <=> IsErr(r)
BY RestAssumption DEF Map, New, IsOk, IsErr

LEMMA MapErrSides ==
  ASSUME NEW r, NEW x, ~(IsOk(r) /\ IsErr(r))
  PROVE  /\ DOMAIN MapErr(r, x) = {"value", "error"}
         /\ ~(IsOk(MapErr(r, x)) /\ IsErr(MapErr(r, x)))
         /\ IsOk(MapErr(r, x)) <=> IsOk(r)
         /\ IsErr(MapErr(r, x)) <=> IsErr(r) /\ x \notin Falsy
BY RestAssumption DEF MapErr, New, IsOk, IsErr

(* doFetch resolves to Ok of a success, and to Err of anything else.       *)
LEMMA FetchSides ==
  ASSUME NEW r
  PROVE  /\ IsOk(DoFetch(r)) => r # TypeError /\ r.ok
         /\ IsErr(DoFetch(r)) =>
              DoFetch(r).error = r /\ (r = TypeError \/ ~r.ok)
BY OkSides, ErrSides DEF DoFetch

-----------------------------------------------------------------------------
(* The inductive invariant.                                                *)

LEMMA InvInit == Init => Inv
<1> SUFFICES ASSUME Init PROVE Inv
  OBVIOUS
<1>1. DOMAIN None = {"value", "error"} /\ ~IsOk(None)
  BY RestAssumption, OkSides DEF None, Ok
<1>2. <<>> \in Seq(Labels)
  OBVIOUS
<1>3. method \in Lists => argument \in [Sides -> Seq(Labels)]
  <2>1. method \in Lists => argument = [side \in Sides |-> <<>>]
    BY DEF Init, Arguments, NewSelector, Lists
  <2>2. QED
    BY <1>2, <2>1
<1>4. NoReply.kind = "none"
  BY DEF NoReply
<1>5. TypeOK
  <2>1. prefixes \in [Sides -> SUBSET Value]
    BY DEF Init
  <2>2. \A r \in {fetched, answer, result} :
          DOMAIN r = {"value", "error"} /\ ~(IsOk(r) /\ IsErr(r))
    BY <1>1 DEF Init
  <2>3. /\ method \in Methods /\ request = undefined /\ pc = "Build"
        /\ promise = "pending" /\ reply.kind = "none" /\ arrived \in 0..2
        /\ bodyEnd = "open"
    BY <1>4 DEF Init
  <2>4. lost \in BOOLEAN
    BY DEF Init
  <2>5. QED
    BY <1>3, <2>1, <2>2, <2>3, <2>4 DEF TypeOK
<1>6. Staged /\ Received /\ PrefixFirst
  BY <1>4 DEF Init, Staged, Received, PrefixFirst
<1>7. QED
  BY <1>5, <1>6
     DEF Init, Inv, OkIsWhole, ErrIsServed, RejectsUnreadable, SidesHold

(* Nothing is said of a call that has not settled.                         *)
LEMMA PendingHolds ==
  ASSUME promise' = "pending"
  PROVE  OkIsWhole' /\ ErrIsServed' /\ RejectsUnreadable' /\ SidesHold'
BY DEF OkIsWhole, ErrIsServed, RejectsUnreadable, SidesHold

LEMMA AppendKeeps ==
  ASSUME NEW s \in Seq(Labels), NEW l \in Labels
  PROVE  /\ Append(s, l) \in Seq(Labels) /\ Len(Append(s, l)) = Len(s) + 1
         /\ \A k \in 1..Len(s) : Append(s, l)[k] = s[k]
         /\ Append(s, l)[Len(s) + 1] = l
BY AppendProperties

LEMMA Prefixed ==
  ASSUME NEW v \in Seq(Nat)
  PROVE  /\ SelectPrefix(v) \in Seq(Labels) /\ Len(SelectPrefix(v)) = 1
         /\ SelectPrefix(v)[1].name = Prefix
         /\ SelectPrefix(v)[1].value =
              IF v # <<>> /\ Last(v) = Slash THEN v ELSE Append(v, Slash)
<1> DEFINE dir == IF v # <<>> /\ Last(v) = Slash THEN v ELSE Append(v, Slash)
<1>1. dir \in Seq(Nat)
  BY RestAssumption, AppendProperties
<1>2. Label(Prefix, dir) \in Labels
  BY <1>1 DEF Label, Labels
<1>3. <<>> \in Seq(Labels) /\ Len(<<>>) = 0
  OBVIOUS
<1>4. SelectPrefix(v) = Append(<<>>, Label(Prefix, dir))
  BY DEF SelectPrefix, Push, NewSelector
<1> HIDE DEF dir
<1>5. /\ SelectPrefix(v) \in Seq(Labels) /\ Len(SelectPrefix(v)) = 1
      /\ SelectPrefix(v)[1] = Label(Prefix, dir)
  BY <1>2, <1>3, <1>4, AppendKeeps
<1>6. Label(Prefix, dir).name = Prefix /\ Label(Prefix, dir).value = dir
  BY DEF Label
<1>7. QED
  BY <1>5, <1>6 DEF dir

LEMMA OneMore ==
  ASSUME NEW k \in 0..2, NEW n \in 0..2, k < n
  PROVE  k + 1 \in 0..2 /\ k + 1 <= n
OBVIOUS

(* The body of one message, or of one failure.                             *)
LEMMA OneLine ==
  ASSUME NEW line, reply.lines = <<line>>, line # NotJSON
  PROVE  /\ Len(reply.lines) = 1 /\ Json = line
         /\ JsonThrows <=> bodyEnd = "broken"
BY DEF JsonThrows, Json

LEMMA UnarySuccess ==
  ASSUME Inv, pc = "Await", IsOk(fetched), method \notin Streamed
  PROVE  /\ reply # TypeError /\ reply.kind = "response" /\ reply.ok
         /\ \E x \in SaidBy(method) :
              reply.lines = <<x>> /\ reply.said = <<x>>
                                     /\ x \notin Falsy /\ x # NotJSON
<1>1. /\ reply \in Replies(method) /\ reply # TypeError /\ reply.ok
      /\ method \in Methods
  BY FetchSides DEF Inv, Staged, TypeOK
<1>2. PICK x \in SaidBy(method) :
        reply = Response(TRUE, <<Line(method, x)>>, <<x>>, undefined, "unary")
  BY <1>1, Successes
<1>3. Line(method, x) = x /\ x \notin Falsy /\ x # NotJSON
  BY <1>1, ObjectAssumption DEF Line, Object
<1>4. QED
  BY <1>1, <1>2, <1>3 DEF Response

LEMMA SettlesOk ==
  ASSUME Inv, pc = "Await", NEW v, v \notin Falsy, Resolve(Ok(v)),
         reply.kind = "response", reply.ok,
         method # "journals.read" =>
           /\ bodyEnd = "ended" /\ arrived = 1
           /\ Len(reply.said) = 1 /\ v = Meant(reply.said[1])
  PROVE  Inv'
<1>1. /\ promise' = "resolved" /\ pc' = "Settled"
      /\ answer' = Ok(v) /\ result' = Ok(v)
      /\ UNCHANGED <<call, body, fetched, lost>>
  BY DEF Resolve
<1>2. /\ DOMAIN answer' = {"value", "error"} /\ answer'.value = v
      /\ IsOk(answer') /\ ~IsErr(answer') /\ answer' = result'
  BY <1>1, OkSides
<1>3. TypeOK' /\ Staged' /\ Received' /\ PrefixFirst'
  BY <1>1, <1>2 DEF Inv, TypeOK, Staged, Received, PrefixFirst
<1>4. \A x : Meant(x)' = Meant(x)
  BY <1>1 DEF Meant
<1>5. OkIsWhole' /\ ErrIsServed' /\ RejectsUnreadable' /\ SidesHold'
  BY <1>1, <1>2, <1>4
     DEF OkIsWhole, ErrIsServed, RejectsUnreadable, SidesHold
<1>6. QED
  BY <1>3, <1>5 DEF Inv

LEMMA SettlesErr ==
  ASSUME Inv, pc = "Await", NEW e, e \notin Falsy, Resolve(Err(e)),
         reply.kind = "response", ~reply.ok, bodyEnd = "ended",
         ~(method = "journals.list" /\ reply.shape = "stream") =>
           /\ e.status = reply.status
           /\ Property(e.body, "message") = Says(reply.status)
  PROVE  Inv'
<1>1. /\ promise' = "resolved" /\ pc' = "Settled"
      /\ answer' = Err(e) /\ result' = Err(e)
      /\ UNCHANGED <<call, body, fetched, lost>>
  BY DEF Resolve
<1>2. /\ DOMAIN answer' = {"value", "error"} /\ answer'.error = e
      /\ ~IsOk(answer') /\ IsErr(answer') /\ answer' = result'
  BY <1>1, ErrSides
<1>3. TypeOK' /\ Staged' /\ Received' /\ PrefixFirst'
  BY <1>1, <1>2 DEF Inv, TypeOK, Staged, Received, PrefixFirst
<1>4. OkIsWhole' /\ ErrIsServed' /\ RejectsUnreadable' /\ SidesHold'
  BY <1>1, <1>2 DEF OkIsWhole, ErrIsServed, RejectsUnreadable, SidesHold
<1>5. QED
  BY <1>3, <1>4 DEF Inv

LEMMA SettlesNot ==
  ASSUME Inv, pc = "Await", Reject,
         \/ reply = TypeError \/ bodyEnd = "broken" \/ reply.shape = "other"
         \/ method = "journals.list" /\ reply.ok
         \/ method = "journals.read" /\ ~reply.ok /\ reply.shape = "unary"
  PROVE  Inv'
<1>1. /\ promise' = "rejected" /\ pc' = "Settled"
      /\ UNCHANGED <<call, body, fetched, answer, result, lost>>
  BY DEF Reject
<1>2. TypeOK' /\ Staged' /\ Received' /\ PrefixFirst'
  BY <1>1 DEF Inv, TypeOK, Staged, Received, PrefixFirst
<1>3. OkIsWhole' /\ ErrIsServed' /\ RejectsUnreadable' /\ SidesHold'
  BY <1>1 DEF OkIsWhole, ErrIsServed, RejectsUnreadable, SidesHold
<1>4. QED
  BY <1>2, <1>3 DEF Inv

LEMMA InvNext == Inv /\ [Next]_vars => Inv'
<1> SUFFICES ASSUME Inv, [Next]_vars PROVE Inv'
  OBVIOUS
<1> USE DEF Inv
<1>1. ASSUME NEW side \in Sides, AddsLabel(side) PROVE Inv'
  <2>1. PICK name \in LabelNames(method), v \in Value :
          Build(side, Push(argument[side], name, v))
    BY <1>1 DEF AddsLabel
  <2>2. /\ pc = "Build" /\ method \in Lists /\ prefixes' = prefixes
    BY <1>1 DEF AddsLabel, CanBuild
  <2>3. name \in {<<1>>, <<2>>} /\ name # Prefix /\ v \in Seq(Nat)
    BY <2>1, RestAssumption
       DEF LabelNames, Collection, Name, TaskName, Id, Prefix
  <2>4. Label(name, v) \in Labels /\ Label(name, v).name = name
    BY <2>3 DEF Label, Labels, Collection, Name
  <2>5. argument \in [Sides -> Seq(Labels)]
    BY <2>2 DEF TypeOK
  <2> DEFINE more == Append(argument[side], Label(name, v))
  <2>6. argument' = [argument EXCEPT ![side] = more]
    BY <2>1 DEF Build, Push
  <2>7. /\ more \in Seq(Labels) /\ Len(more) = Len(argument[side]) + 1
        /\ \A k \in 1..Len(argument[side]) : more[k] = argument[side][k]
        /\ more[Len(argument[side]) + 1] = Label(name, v)
        /\ Len(argument[side]) \in Nat
    BY <2>4, <2>5, AppendKeeps
  <2> HIDE DEF more
  <2>8. argument' \in [Sides -> Seq(Labels)]
    BY <2>5, <2>6, <2>7
  <2>9. TypeOK' /\ Staged' /\ Received'
    BY <2>1, <2>2, <2>8 DEF Build, TypeOK, Staged, Received
  <2>10. PrefixFirst'
    <3> SUFFICES ASSUME NEW s \in Sides, NEW w \in prefixes[s]
                 PROVE  /\ method = "journals.list"
                        /\ Len(argument'[s]) >= 1
                        /\ argument'[s][1] = SelectPrefix(w)[1]
                        /\ \A k \in 2..Len(argument'[s]) :
                             argument'[s][k].name # Prefix
      BY <2>1, <2>2 DEF Build, PrefixFirst
    <3>1. /\ method = "journals.list" /\ Len(argument[s]) >= 1
          /\ argument[s][1] = SelectPrefix(w)[1]
          /\ \A k \in 2..Len(argument[s]) : argument[s][k].name # Prefix
      BY DEF PrefixFirst
    <3>2. CASE s # side
      BY <3>1, <3>2, <2>5, <2>6
    <3>3. CASE s = side
      <4>1. argument'[s] = more
        BY <3>3, <2>5, <2>6
      <4>2. ASSUME NEW k \in 2..Len(more) PROVE more[k].name # Prefix
        BY <3>1, <3>3, <2>3, <2>4, <2>7
      <4>3. QED
        BY <3>1, <3>3, <4>1, <4>2, <2>7
    <3>4. QED
      BY <3>2, <3>3
  <2>11. promise' = "pending"
    BY <2>1, <2>2 DEF Build, TypeOK
  <2>12. QED
    BY <2>9, <2>10, <2>11, PendingHolds
<1>2. ASSUME NEW side \in Sides, StartsWithPrefix(side) PROVE Inv'
  <2>1. PICK v \in Value :
          /\ Build(side, SelectPrefix(v))
          /\ prefixes' = [prefixes EXCEPT ![side] = {v}]
    BY <1>2 DEF StartsWithPrefix
  <2>2. pc = "Build" /\ method = "journals.list" /\ method \in Lists
    BY <1>2 DEF StartsWithPrefix, CanBuild
  <2>3. SelectPrefix(v) \in Seq(Labels) /\ Len(SelectPrefix(v)) = 1
    BY RestAssumption, Prefixed
  <2>4. /\ argument \in [Sides -> Seq(Labels)]
        /\ prefixes \in [Sides -> SUBSET Value]
    BY <2>2 DEF TypeOK
  <2>5. argument' = [argument EXCEPT ![side] = SelectPrefix(v)]
    BY <2>1 DEF Build
  <2>6. TypeOK' /\ Staged' /\ Received'
    BY <2>1, <2>2, <2>3, <2>4, <2>5 DEF Build, TypeOK, Staged, Received
  <2>7. PrefixFirst'
    <3> SUFFICES ASSUME NEW s \in Sides, NEW w \in prefixes'[s]
                 PROVE  /\ method = "journals.list"
                        /\ Len(argument'[s]) >= 1
                        /\ argument'[s][1] = SelectPrefix(w)[1]
                        /\ \A k \in 2..Len(argument'[s]) :
                             argument'[s][k].name # Prefix
      BY <2>1, <2>2 DEF Build, PrefixFirst
    <3>1. CASE s # side
      <4>1. prefixes'[s] = prefixes[s] /\ argument'[s] = argument[s]
        BY <3>1, <2>1, <2>4, <2>5
      <4>2. QED
        BY <4>1 DEF PrefixFirst
    <3>2. CASE s = side
      <4>1. w = v /\ argument'[s] = SelectPrefix(v)
        BY <3>2, <2>1, <2>4, <2>5
      <4>2. QED
        BY <4>1, <2>2, <2>3
    <3>3. QED
      BY <3>1, <3>2
  <2>8. promise' = "pending"
    BY <2>1, <2>2 DEF Build, TypeOK
  <2>9. QED
    BY <2>6, <2>7, <2>8, PendingHolds
<1>3. CASE Calls
  <2>1. promise' = "pending"
    BY <1>3 DEF Calls, TypeOK
  <2>2. TypeOK' /\ Staged' /\ Received' /\ PrefixFirst'
    BY <1>3 DEF Calls, TypeOK, Staged, Received, PrefixFirst
  <2>3. QED
    BY <2>1, <2>2, PendingHolds
<1>4. CASE FetchSettles
  <2>1. promise' = "pending" /\ arrived = 0 /\ bodyEnd = "open"
    BY <1>4 DEF FetchSettles, TypeOK, Received, NoReply
  <2>2. \/ reply' = TypeError /\ reply'.kind = "TypeError"
        \/ reply'.kind = "response" /\ Len(reply'.lines) \in 0..2
    BY <1>4, ReplyTyped DEF FetchSettles, TypeOK
  <2>3. TypeOK' /\ Staged' /\ Received' /\ PrefixFirst'
    BY <1>4, <2>1, <2>2 DEF FetchSettles, TypeOK, Staged, Received, PrefixFirst
  <2>4. QED
    BY <2>1, <2>3, PendingHolds
<1>5. CASE BodyArrives
  <2>1. /\ reply.kind = "response" /\ bodyEnd = "open" /\ arrived' = arrived + 1
        /\ arrived < Len(reply.lines) /\ UNCHANGED <<call, reply, bodyEnd, pc>>
        /\ UNCHANGED <<fetched, promise, answer, result, lost>>
    BY <1>5 DEF BodyArrives, BodyOpen
  <2>2. reply \in Replies(method) /\ Len(reply.lines) \in 0..2
    BY <2>1, ReplyTyped DEF Staged, TypeOK, NoReply, TypeError
  <2>3. arrived' \in 0..2 /\ arrived' <= Len(reply'.lines)
    <3>1. arrived \in 0..2 /\ reply' = reply
      BY <2>1 DEF TypeOK
    <3>2. arrived + 1 \in 0..2 /\ arrived + 1 <= Len(reply.lines)
      BY <2>1, <2>2, <3>1, OneMore
    <3>3. QED
      BY <2>1, <3>1, <3>2
  <2>6. TypeOK'
    BY <2>1, <2>3 DEF TypeOK
  <2>7. Staged'
    BY <2>1 DEF Staged
  <2>8. Received'
    BY <2>1, <2>3 DEF Received
  <2>9. PrefixFirst'
    BY <2>1 DEF PrefixFirst
  <2>4. OkIsWhole' /\ ErrIsServed' /\ RejectsUnreadable' /\ SidesHold'
    BY <2>1 DEF OkIsWhole, ErrIsServed, RejectsUnreadable, SidesHold
  <2>5. QED
    BY <2>4, <2>6, <2>7, <2>8, <2>9
<1>6. CASE BodyEnds \/ BodyBreaks
  <2>1. /\ reply.kind = "response" /\ bodyEnd = "open"
        /\ \/ bodyEnd' = "broken"
           \/ bodyEnd' = "ended" /\ arrived = Len(reply.lines)
        /\ UNCHANGED <<call, reply, arrived, pc, fetched, promise, answer>>
        /\ UNCHANGED <<result, lost>>
    BY <1>6 DEF BodyEnds, BodyBreaks, BodyOpen
  <2>2. TypeOK' /\ Staged' /\ Received' /\ PrefixFirst'
    BY <2>1 DEF TypeOK, Staged, Received, PrefixFirst
  <2>3. OkIsWhole' /\ ErrIsServed' /\ RejectsUnreadable' /\ SidesHold'
    BY <2>1 DEF OkIsWhole, ErrIsServed, RejectsUnreadable, SidesHold
  <2>4. QED
    BY <2>2, <2>3
<1>7. CASE Fetched
  <2>1. promise' = "pending" /\ fetched' = DoFetch(reply)
    BY <1>7 DEF Fetched, TypeOK
  <2>2. /\ DOMAIN fetched' = {"value", "error"}
        /\ ~(IsOk(fetched') /\ IsErr(fetched'))
    BY <2>1, OkSides, ErrSides DEF DoFetch
  <2>3. TypeOK'
    BY <1>7, <2>2 DEF Fetched, TypeOK
  <2>4. Staged' /\ Received' /\ PrefixFirst'
    BY <1>7 DEF Fetched, TypeOK, Staged, Received, PrefixFirst
  <2>5. QED
    BY <2>1, <2>3, <2>4, PendingHolds
<1>8. CASE ReadReturns
  <2> DEFINE v == [stream |-> "body"]
  <2>1. /\ pc = "Await" /\ method = "journals.read" /\ Resolve(Ok(v))
        /\ IsOk(fetched)
    BY <1>8 DEF ReadReturns
  <2>2. v \notin Falsy
    BY ObjectAssumption DEF Object
  <2> HIDE DEF v
  <2>3. reply \in Replies(method) /\ reply # TypeError /\ reply.ok
    BY <2>1, FetchSides DEF Staged
  <2>4. reply.kind = "response"
    BY <2>3, ReplyTyped DEF TypeOK
  <2>5. QED
    BY <2>1, <2>2, <2>3, <2>4, SettlesOk
<1>9. CASE StatReturns
  <2>1. /\ pc = "Await" /\ IsOk(fetched) /\ bodyEnd # "open"
        /\ method = "shards.stat" /\ method \notin Streamed
    BY <1>9 DEF StatReturns, Parsing, Streamed
  <2>2. PICK x \in SaidBy(method) : /\ reply.lines = <<x>> /\ reply.said = <<x>>
                                   /\ x \notin Falsy /\ x # NotJSON
    BY <2>1, UnarySuccess
  <2>3. CASE JsonThrows
    BY <1>9, <2>1, <2>2, <2>3, OneLine, SettlesNot DEF StatReturns
  <2>4. CASE ~JsonThrows
    <3>1. Json = x /\ bodyEnd = "ended" /\ arrived = 1
      BY <2>1, <2>2, <2>4, OneLine DEF TypeOK, Received
    <3>2. Meant(x) = x
      BY <2>1 DEF Meant
    <3>3. Resolve(Ok(x))
      BY <1>9, <2>4, <3>1 DEF StatReturns
    <3>4. Len(reply.said) = 1 /\ reply.said[1] = x
      BY <2>2
    <3>5. QED
      BY <2>1, <2>2, <3>1, <3>2, <3>3, <3>4, UnarySuccess, SettlesOk
  <2>5. QED
    BY <2>3, <2>4
<1>10. CASE JournalsReturn
  <2>1. /\ pc = "Await" /\ IsOk(fetched) /\ bodyEnd # "open"
        /\ method = "journals.list" /\ method \in Streamed
    BY <1>10 DEF JournalsReturn, Parsing, Streamed
  <2>2. reply \in Replies(method) /\ reply # TypeError /\ reply.ok
    BY <2>1, FetchSides DEF Staged
  <2>3. JsonThrows \/ Property(Json, "journals") = undefined
    <3>1. CASE Len(reply.lines) \in {0, 2}
      BY <3>1 DEF JsonThrows
    <3>2. ASSUME NEW x \in SaidBy(method), reply =
                   Response(TRUE, <<Line(method, x)>>, <<x>>, undefined,
                            "unary")
          PROVE  Property(Json, "journals") = undefined
      BY <2>1, <3>2 DEF Response, Line, Json, Property
    <3>3. QED
      BY <2>1, <2>2, <3>1, <3>2, Successes DEF TypeOK
  <2>4. QED
    BY <1>10, <2>1, <2>2, <2>3, SettlesNot DEF JournalsReturn
<1>11. CASE ShardsReturn
  <2>1. /\ pc = "Await" /\ IsOk(fetched) /\ bodyEnd # "open"
        /\ method = "shards.list" /\ method \notin Streamed
    BY <1>11 DEF ShardsReturn, Parsing, Streamed
  <2>2. PICK x \in SaidBy(method) : /\ reply.lines = <<x>> /\ reply.said = <<x>>
                                   /\ x \notin Falsy /\ x # NotJSON
    BY <2>1, UnarySuccess
  <2>3. CASE JsonThrows
    BY <1>11, <2>1, <2>2, <2>3, OneLine, SettlesNot DEF ShardsReturn
  <2>4. CASE ~JsonThrows
    <3>1. Json = x /\ bodyEnd = "ended" /\ arrived = 1
      BY <2>1, <2>2, <2>4, OneLine DEF TypeOK, Received
    <3>2. ShardsOf(x) = Meant(x)
      BY <2>1 DEF Meant, ShardsOf
    <3>3. ShardsOf(x) \notin Falsy /\ x.shards # undefined
      BY <2>1, RestAssumption, ObjectAssumption DEF Object
    <3>4. "shards" \in DOMAIN x
      BY <2>1 DEF SaidBy, Message, ListShardsResponse
    <3>5. Resolve(Ok(ShardsOf(x)))
      BY <1>11, <2>4, <3>1, <3>3, <3>4 DEF ShardsReturn, Property
    <3>6. Len(reply.said) = 1 /\ reply.said[1] = x
      BY <2>2
    <3>7. QED
      BY <2>1, <3>1, <3>2, <3>3, <3>5, <3>6, UnarySuccess, SettlesOk
  <2>5. QED
    BY <2>3, <2>4
<1>12. CASE ErrorReturns
  <2>1. pc = "Await" /\ IsErr(fetched)
    BY <1>12 DEF ErrorReturns
  <2>2. /\ method \in Methods /\ reply \in Replies(method)
        /\ fetched.error = reply /\ (reply = TypeError \/ ~reply.ok)
    BY <2>1, FetchSides DEF Staged, TypeOK
  <2>3. CASE reply = TypeError
    BY <1>12, <2>1, <2>2, <2>3, SettlesNot DEF ErrorReturns
  <2>4. CASE reply # TypeError
    <3>1. /\ bodyEnd # "open"
          /\ IF JsonThrows \/ ErrorOf(Json) = undefined THEN Reject
             ELSE Resolve(Err(ErrorOf(Json)))
      BY <1>12, <2>2, <2>4 DEF ErrorReturns
    <3>2. PICK s \in Status :
            \/ reply = Failure(s, RuntimeError(s, Says(s)), "unary")
            \/ /\ method \in Streamed
               /\ reply = Failure(s, StreamFailure(s), "stream")
            \/ reply = Failure(s, NotJSON, "other")
      BY <2>2, <2>4, Failures
    <3>3. /\ reply.kind = "response" /\ ~reply.ok /\ reply.status = s
          /\ bodyEnd # "broken" => bodyEnd = "ended"
      BY <3>1, <3>2 DEF Failure, Response, TypeOK
    <3>4. CASE reply = Failure(s, RuntimeError(s, Says(s)), "unary")
      <4>1. /\ reply.lines = <<RuntimeError(s, Says(s))>>
            /\ reply.shape = "unary"
            /\ RuntimeError(s, Says(s)) # NotJSON
        BY <3>4, ObjectAssumption DEF Failure, Response, Object
      <4>2. /\ Json = RuntimeError(s, Says(s))
            /\ JsonThrows <=> bodyEnd = "broken"
        BY <4>1, OneLine
      <4>3. CASE JsonThrows
        BY <2>1, <3>1, <4>2, <4>3, SettlesNot
      <4>4. CASE ~JsonThrows /\ method = "journals.read"
        <5>1. ErrorOf(Json) = undefined
          BY <4>2, <4>4
             DEF ErrorOf, FromStreamResponse, Property, RuntimeError
        <5>2. QED
          BY <2>1, <3>1, <3>3, <4>1, <4>4, <5>1, SettlesNot
      <4>5. CASE ~JsonThrows /\ method # "journals.read"
        <5> DEFINE e == FromResponse(RuntimeError(s, Says(s)))
        <5>1. /\ e \notin Falsy /\ e # undefined
              /\ e.status = s /\ Property(e.body, "message") = Says(s)
          <6>1. e \notin Falsy /\ e # undefined
            BY RestAssumption, ObjectAssumption DEF Object
          <6>2. e.status = s /\ Property(e.body, "message") = Says(s)
            BY DEF FromResponse, ResponseError, Property, RuntimeError
          <6>3. QED
            BY <6>1, <6>2
        <5>2. ErrorOf(Json) = e
          BY <4>2, <4>5 DEF ErrorOf
        <5> HIDE DEF e
        <5>3. Resolve(Err(e))
          BY <3>1, <4>5, <5>1, <5>2
        <5>4. QED
          BY <2>1, <3>3, <4>2, <4>5, <5>1, <5>3, SettlesErr
      <4>6. QED
        BY <4>3, <4>4, <4>5
    <3>5. CASE /\ method \in Streamed
               /\ reply = Failure(s, StreamFailure(s), "stream")
      <4>1. /\ reply.lines = <<StreamFailure(s)>> /\ reply.shape = "stream"
            /\ StreamFailure(s) # NotJSON
        BY <3>5, ObjectAssumption DEF Failure, Response, Object
      <4>2. /\ Json = StreamFailure(s) /\ (JsonThrows <=> bodyEnd = "broken")
            /\ method \in {"journals.list", "journals.read"}
        BY <3>5, <4>1, OneLine DEF Streamed
      <4>3. CASE JsonThrows
        BY <2>1, <3>1, <4>2, <4>3, SettlesNot
      <4>4. CASE ~JsonThrows /\ method = "journals.read"
        <5> DEFINE e == FromStreamResponse(StreamFailure(s))
        <5>1. e \notin Falsy /\ e # undefined
          BY RestAssumption, ObjectAssumption DEF Object
        <5>2. Property(StreamFailure(s), "error")
                = RuntimeStreamError(s, Says(s))
          BY DEF StreamFailure, Property
        <5>3. RuntimeStreamError(s, Says(s)) # undefined
          BY RestAssumption, ObjectAssumption DEF Object
        <5>4. e = ResponseError(RuntimeStreamError(s, Says(s)), s)
          BY <5>2, <5>3
             DEF FromStreamResponse, Property, RuntimeStreamError
        <5>5. e.status = s /\ Property(e.body, "message") = Says(s)
          BY <5>4 DEF ResponseError, Property, RuntimeStreamError
        <5>6. ErrorOf(Json) = e
          BY <4>2, <4>4 DEF ErrorOf
        <5> HIDE DEF e
        <5>7. Resolve(Err(e))
          BY <3>1, <4>4, <5>1, <5>6
        <5>8. QED
          BY <2>1, <3>3, <4>2, <4>4, <5>1, <5>5, <5>7, SettlesErr
      <4>5. CASE ~JsonThrows /\ method = "journals.list"
        <5> DEFINE e == FromResponse(StreamFailure(s))
        <5>1. e \notin Falsy /\ e # undefined
          BY RestAssumption, ObjectAssumption DEF Object
        <5>2. ErrorOf(Json) = e
          BY <4>2, <4>5 DEF ErrorOf
        <5> HIDE DEF e
        <5>3. Resolve(Err(e))
          BY <3>1, <4>5, <5>1, <5>2
        <5>4. QED
          BY <2>1, <3>3, <4>1, <4>2, <4>5, <5>1, <5>3, SettlesErr
      <4>6. QED
        BY <4>2, <4>3, <4>4, <4>5
    <3>6. CASE reply = Failure(s, NotJSON, "other")
      <4>1. JsonThrows /\ reply.shape = "other"
        BY <3>6 DEF Failure, Response, JsonThrows
      <4>2. QED
        BY <2>1, <3>1, <4>1, SettlesNot
    <3>7. QED
      BY <3>2, <3>4, <3>5, <3>6
  <2>5. QED
    BY <2>3, <2>4
<1>13. ASSUME NEW x, Maps(x) PROVE Inv'
  <2>1. /\ promise = "resolved"
        /\ UNCHANGED <<call, body, pc, fetched, promise, answer>>
        /\ \/ /\ result' = Map(result, x)
              /\ lost' = (lost \/ (IsOk(result) /\ x \in Falsy))
           \/ /\ result' = MapErr(result, x)
              /\ lost' = (lost \/ (IsErr(result) /\ x \in Falsy))
    BY <1>13 DEF Maps
  <2>2. /\ DOMAIN result' = {"value", "error"}
        /\ ~(IsOk(result') /\ IsErr(result'))
        /\ IsOk(result') => IsOk(result)
        /\ IsErr(result') => IsErr(result)
        /\ ~lost' => (IsOk(result) => IsOk(result'))
        /\ ~lost' => (IsErr(result) => IsErr(result'))
    <3>1. ~(IsOk(result) /\ IsErr(result))
      BY DEF TypeOK
    <3>2. CASE /\ result' = Map(result, x)
               /\ lost' = (lost \/ (IsOk(result) /\ x \in Falsy))
      <4>1. ~lost' /\ IsOk(result) => x \notin Falsy
        BY <3>2
      <4>2. QED
        BY <3>1, <3>2, <4>1, MapSides
    <3>3. CASE /\ result' = MapErr(result, x)
               /\ lost' = (lost \/ (IsErr(result) /\ x \in Falsy))
      <4>1. ~lost' /\ IsErr(result) => x \notin Falsy
        BY <3>3
      <4>2. QED
        BY <3>1, <3>3, <4>1, MapErrSides
    <3>4. QED
      BY <2>1, <3>2, <3>3
  <2>3. lost' \in BOOLEAN /\ (~lost' => ~lost)
    BY <2>1 DEF TypeOK
  <2>4. TypeOK'
    BY <2>1, <2>2, <2>3 DEF TypeOK
  <2>5. Staged' /\ Received' /\ PrefixFirst'
    BY <2>1 DEF Staged, Received, PrefixFirst
  <2>6. OkIsWhole' /\ ErrIsServed' /\ RejectsUnreadable'
    BY <2>1 DEF OkIsWhole, Meant, ErrIsServed, RejectsUnreadable
  <2>7. SidesHold'
    BY <2>1, <2>2, <2>3 DEF SidesHold
  <2>8. QED
    BY <2>4, <2>5, <2>6, <2>7
<1>14. CASE UNCHANGED vars
  <2>1. TypeOK' /\ Staged' /\ Received' /\ PrefixFirst'
    BY <1>14 DEF vars, TypeOK, Staged, Received, PrefixFirst
  <2>2. OkIsWhole' /\ ErrIsServed' /\ RejectsUnreadable' /\ SidesHold'
    BY <1>14
       DEF vars, OkIsWhole, Meant, ErrIsServed, RejectsUnreadable, SidesHold
  <2>3. QED
    BY <2>1, <2>2
<1>15. QED
  BY <1>1, <1>2, <1>3, <1>4, <1>5, <1>6, <1>7, <1>8, <1>9, <1>10, <1>11, <1>12,
     <1>13, <1>14 DEF Next, Settles, Over

(* What a method makes of an answer stays true of it                       *)
(* (util.ts:14-37, journal_client.ts:20-66, shard_client.ts:20-60).        *)
THEOREM InvCorrect == Spec => []Inv
<1>1. QED
  BY InvInit, InvNext, PTL DEF Spec

(* Every variable of a call keeps to its type: a Result has both fields,   *)
(* and is never on both sides (result.ts:13-27).                           *)
THEOREM TypeCorrect == Spec => []TypeOK
<1>1. Inv => TypeOK
  BY DEF Inv
<1>2. QED
  BY <1>1, InvCorrect, PTL

(* Result.Ok comes of a success only, and of the whole of it (util.ts:29,  *)
(* journal_client.ts:36, shard_client.ts:36).                              *)
THEOREM OkCorrect == Spec => []OkIsWhole
<1>1. Inv => OkIsWhole
  BY DEF Inv
<1>2. QED
  BY <1>1, InvCorrect, PTL

(* Result.Err comes of a failure that arrived whole, and says what failed  *)
(* (journal_client.ts:39, :62, shard_client.ts:41).                        *)
THEOREM ErrCorrect == Spec => []ErrIsServed
<1>1. Inv => ErrIsServed
  BY DEF Inv
<1>2. QED
  BY <1>1, InvCorrect, PTL

(* The promise rejects only when there was nothing to make a Result of, or *)
(* where two methods misread the answer (journal_client.ts:36, :62).       *)
THEOREM RejectsCorrect == Spec => []RejectsUnreadable
<1>1. Inv => RejectsUnreadable
  BY DEF Inv
<1>2. QED
  BY <1>1, InvCorrect, PTL

(* However often its caller maps it, and with whatever, a Result does not  *)
(* change sides (result.ts:48-62).                                         *)
THEOREM SidesCorrect == Spec => []SidesHold
<1>1. Inv => SidesHold
  BY DEF Inv
<1>2. QED
  BY <1>1, InvCorrect, PTL

-----------------------------------------------------------------------------
(* Prefixes.                                                               *)

LEMMA Directory ==
  ASSUME NEW v \in Seq(Nat), NEW journal \in Seq(Nat)
  PROVE  IsPrefix(SelectPrefix(v)[1].value, journal) <=>
           /\ IsPrefix(v, journal)
           /\ \/ v # <<>> /\ Last(v) = Slash
              \/ Len(journal) > Len(v) /\ journal[Len(v) + 1] = Slash
<1> DEFINE dir == IF v # <<>> /\ Last(v) = Slash THEN v ELSE Append(v, Slash)
<1>1. SelectPrefix(v)[1].value = dir
  BY Prefixed
<1>2. CASE v # <<>> /\ Last(v) = Slash
  BY <1>1, <1>2
<1>3. CASE ~(v # <<>> /\ Last(v) = Slash)
  <2> DEFINE d == Append(v, Slash)
  <2>1. dir = d
    BY <1>3
  <2>2. /\ d \in Seq(Nat) /\ Len(d) = Len(v) + 1 /\ d[Len(v) + 1] = Slash
        /\ \A i \in 1..Len(v) : d[i] = v[i]
        /\ Len(v) \in Nat /\ Len(journal) \in Nat
    BY RestAssumption, AppendProperties
  <2> HIDE DEF d, dir
  <2>3. IsPrefix(d, journal) <=>
          Len(d) <= Len(journal) /\ \A i \in 1..Len(d) : d[i] = journal[i]
    BY <2>2, PrefixPointwise
  <2>4. IsPrefix(v, journal) <=>
          Len(v) <= Len(journal) /\ \A i \in 1..Len(v) : v[i] = journal[i]
    BY PrefixPointwise
  <2>5. (\A i \in 1..Len(d) : d[i] = journal[i]) <=>
          /\ \A i \in 1..Len(v) : v[i] = journal[i]
          /\ journal[Len(v) + 1] = Slash
    <3>1. 1..Len(d) = (1..Len(v)) \cup {Len(v) + 1}
      BY <2>2
    <3>2. QED
      BY <2>2, <3>1
  <2>6. Len(d) <= Len(journal) <=> Len(journal) > Len(v)
    BY <2>2
  <2>7. Len(journal) > Len(v) => Len(v) <= Len(journal)
    BY <2>2
  <2>8. QED
    BY <1>1, <1>3, <2>1, <2>3, <2>4, <2>5, <2>6, <2>7
<1>4. QED
  BY <1>2, <1>3

(* A prefix selects the journals under a directory, whatever else its      *)
(* caller asks of them, and none next to it (selector.ts:30).              *)
THEOREM PrefixCorrect == Spec => []PrefixSelectsDirectory
<1>1. Inv => PrefixSelectsDirectory
  <2> SUFFICES ASSUME Inv, NEW side \in Sides, NEW v \in prefixes[side],
                      NEW journal \in Journal
               PROVE  (\A k \in DOMAIN argument[side] :
                         argument[side][k].name = Prefix
                           => IsPrefix(argument[side][k].value, journal))
                      <=> /\ IsPrefix(v, journal)
                          /\ \/ v # <<>> /\ Last(v) = Slash
                             \/ /\ Len(journal) > Len(v)
                                /\ journal[Len(v) + 1] = Slash
    BY DEF PrefixSelectsDirectory
  <2> DEFINE s == argument[side]
  <2>1. /\ method = "journals.list" /\ Len(s) >= 1
        /\ s[1] = SelectPrefix(v)[1]
        /\ \A k \in 2..Len(s) : s[k].name # Prefix
    BY DEF Inv, PrefixFirst
  <2>2. v \in Seq(Nat) /\ journal \in Seq(Nat) /\ s \in Seq(Labels)
    BY <2>1, RestAssumption DEF Inv, TypeOK, Lists
  <2> HIDE DEF s
  <2>3. s[1].name = Prefix
    BY <2>1, <2>2, Prefixed
  <2>4. DOMAIN s = 1..Len(s) /\ Len(s) \in Nat /\ 1 \in DOMAIN s
    BY <2>1, <2>2
  <2>5. \A k \in DOMAIN s : k = 1 \/ k \in 2..Len(s)
    BY <2>4
  <2>6. (\A k \in DOMAIN s :
           s[k].name = Prefix => IsPrefix(s[k].value, journal))
          <=> IsPrefix(SelectPrefix(v)[1].value, journal)
    BY <2>1, <2>3, <2>4, <2>5
  <2>7. QED
    BY <2>2, <2>6, Directory DEF s
<1>2. QED
  BY <1>1, InvCorrect, PTL

-----------------------------------------------------------------------------
(* Selections.                                                             *)

LEMMA SortedInOrder ==
  ASSUME NEW a \in Entry, NEW b \in Entry, Below(a, b) \/ a = b
  PROVE  InOrder(a, b)
<1>1. a.value \in Seq(Nat) /\ b.value \in Seq(Nat)
  BY EntryFields
<1>2. Less(a.value, b.value) \/ a.value = b.value => ~Less(b.value, a.value)
  BY <1>1, LessIrreflexive, LessTransitive
<1>3. QED
  BY <1>2 DEF InOrder, Below

LEMMA LabelsEntries == \A s \in Seq(Labels) : s \in Seq(Entry)
<1>1. <<1>> \in Seq(Nat) /\ <<2>> \in Seq(Nat) /\ <<3>> \in Seq(Nat)
  OBVIOUS
<1>2. Labels \subseteq Entry
  BY <1>1 DEF Labels, Entry, Collection, Name, Prefix, TaskName, Id
<1>3. QED
  BY <1>2

LEMMA Asked ==
  ASSUME Inv, pc # "Build", method \in Lists, NEW side \in Sides
  PROVE  /\ argument[side] \in Seq(Entry)
         /\ request.selector[side].labels = ToLabelSet(argument[side]).labels
<1>1. argument[side] \in Seq(Labels)
  BY DEF Inv, TypeOK
<1>2. request = Body(method, argument)
  BY DEF Inv, Staged
<1>3. request.selector = Selected(argument)
  BY <1>2 DEF Body, Lists, ListRequest, ListShardsRequest
<1>4. Selected(argument)[side] = ToLabelSet(argument[side])
  BY DEF Selected, LabelSelector
<1>5. QED
  BY <1>1, <1>3, <1>4, LabelsEntries

(* Whatever labels its caller added, in whatever order, the server is      *)
(* asked for all of them and no others, sorted, and for none twice that    *)
(* was not added twice (selector.ts:11, util.ts:68-87).                    *)
THEOREM AsksCorrect == Spec => []RequestAsksSelection
<1>1. Inv => RequestAsksSelection
  <2>1. SUFFICES ASSUME Inv, pc # "Build", method \in Lists, NEW side \in Sides
        PROVE  LET asked == request.selector[side].labels IN
               /\ ToSet(asked) = ToSet(argument[side]) /\ Sorted(asked)
               /\ IsInjective(argument[side]) => IsInjective(asked)
    BY DEF RequestAsksSelection
  <2> DEFINE asked == request.selector[side].labels
             labels == argument[side]
  <2>2. labels \in Seq(Entry) /\ asked = ToLabelSet(labels).labels
    BY <2>1, Asked
  <2> HIDE DEF asked, labels
  <2>3. /\ \A k \in DOMAIN asked : asked[k] \in Entry
        /\ \A j, k \in DOMAIN asked :
             j < k => Below(asked[j], asked[k]) \/ asked[j] = asked[k]
        /\ ToSet(asked) = ToSet(labels)
        /\ IsInjective(labels) => IsInjective(asked)
    BY <2>2, LabelsSorted
  <2>4. Sorted(asked)
    BY <2>3, SortedInOrder DEF Sorted
  <2>5. QED
    BY <2>3, <2>4 DEF asked, labels
<1>2. QED
  BY <1>1, InvCorrect, PTL
================================================================================
