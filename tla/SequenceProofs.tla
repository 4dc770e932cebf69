----------------------------- MODULE SequenceProofs ----------------------------
(***************************************************************************)
(* Lemmas about sequences that the proofs of several modules rest on:      *)
(* induction over the numbers and over sequences, stated for sets, what    *)
(* FlattenSeq makes of sequences, and what begins or ends with what.       *)
(***************************************************************************)
EXTENDS SequencesExt, SequenceTheorems, WellFoundedInduction, TLAPS

-----------------------------------------------------------------------------
(* Induction.                                                              *)

LEMMA Least ==
  ASSUME NEW T \in SUBSET Nat, T # {}
  PROVE  \E n \in T : \A m \in T : n <= m
<1> DEFINE R == {ss \in Nat \X Nat : ss[1] < ss[2]}
<1>1. IsWellFoundedOn(R, Nat)
  BY NatLessThanWellFounded DEF OpToRel
<1>2. PICK x \in T : \A y \in T : ~ (<<y, x>> \in R)
  BY <1>1, WFMin
<1>3. ASSUME NEW y \in T PROVE x <= y
  <2>1. x \in Nat /\ y \in Nat
    OBVIOUS
  <2>2. y < x => <<y, x>> \in R
    BY <2>1
  <2> HIDE DEF R
  <2>3. ~ (y < x)
    BY <1>2, <2>2
  <2>4. QED
    BY <2>1, <2>3
<1>4. QED
  BY <1>3

(* A set that holds 0 and with every number the next one holds them all.   *)
LEMMA NumberInduction ==
  ASSUME NEW T \in SUBSET Nat, 0 \in T, \A n \in T : n + 1 \in T
  PROVE  \A n \in Nat : n \in T
<1> DEFINE U == Nat \ T
<1>1. SUFFICES ASSUME U # {} PROVE FALSE
  OBVIOUS
<1>2. PICK n \in U : \A m \in U : n <= m
  BY <1>1, Least
<1>3. n # 0 /\ n - 1 \in Nat /\ n - 1 \in T
  BY <1>2
<1>4. QED
  BY <1>2, <1>3

(* A set of sequences that holds the empty one, and with every sequence    *)
(* those that have one element more, holds them all.                       *)
LEMMA SequenceInduction ==
  ASSUME NEW S, NEW T \in SUBSET Seq(S), <<>> \in T,
         \A s \in T, x \in S : Append(s, x) \in T
  PROVE  \A s \in Seq(S) : s \in T
<1> DEFINE L == {n \in Nat : \A s \in Seq(S) : Len(s) = n => s \in T}
<1>1. 0 \in L
  <2>1. \A s \in Seq(S) : Len(s) = 0 => s = <<>>
    BY EmptySeq
  <2>2. QED
    BY <2>1
<1>2. ASSUME NEW n \in L PROVE n + 1 \in L
  <2>1. ASSUME NEW s \in Seq(S), Len(s) = n + 1 PROVE s \in T
    <3>1. s # <<>>
      BY <2>1
    <3>2. PICK t \in Seq(S), x \in S : s = Append(t, x)
      BY <3>1, SequenceEmptyOrAppend
    <3>3. Len(t) = n
      BY <2>1, <3>2, AppendProperties
    <3>4. t \in T
      BY <3>3
    <3>5. QED
      BY <3>2, <3>4
  <2>2. QED
    BY <2>1
<1>3. \A n \in Nat : n \in L
  <2> HIDE DEF L
  <2>1. L \in SUBSET Nat
    BY DEF L
  <2>2. QED
    BY <1>1, <1>2, <2>1, NumberInduction
<1>4. QED
  BY <1>3

(* Two sequences that agree with a third one agree.                        *)
LEMMA PrefixPointwise ==
  ASSUME NEW S, NEW s \in Seq(S), NEW t \in Seq(S)
  PROVE  IsPrefix(s, t) <=>
           Len(s) <= Len(t) /\ \A i \in 1..Len(s) : s[i] = t[i]
<1>1. Len(s) \in Nat /\ Len(t) \in Nat
  OBVIOUS
<1>2. ASSUME Len(s) <= Len(t)
      PROVE  /\ SubSeq(t, 1, Len(s)) \in Seq(S)
             /\ Len(SubSeq(t, 1, Len(s))) = Len(s)
             /\ \A i \in 1..Len(s) : SubSeq(t, 1, Len(s))[i] = t[i]
  <2>1. \A i \in 1..Len(s) : t[i] \in S
    BY <1>1, <1>2
  <2>2. /\ SubSeq(t, 1, Len(s)) \in Seq(S)
        /\ Len(SubSeq(t, 1, Len(s))) = IF 1 <= Len(s) THEN Len(s) - 1 + 1 ELSE 0
        /\ \A i \in 1..Len(s) - 1 + 1 : SubSeq(t, 1, Len(s))[i] = t[1 + i - 1]
    BY <1>1, <2>1, SubSeqProperties
  <2>3. QED
    BY <1>1, <2>2
<1>3. SubSeq(s, 1, Len(s)) = s
  BY SubSeqFull
<1>4. CASE Len(s) <= Len(t)
  <2>1. (\A i \in 1..Len(s) : s[i] = t[i]) => s = SubSeq(t, 1, Len(s))
    BY <1>2, <1>4, SeqEqual
  <2>2. s = SubSeq(t, 1, Len(s)) => \A i \in 1..Len(s) : s[i] = t[i]
    BY <1>2, <1>4
  <2>3. QED
    BY <1>3, <1>4, <2>1, <2>2 DEF IsPrefix
<1>5. CASE ~(Len(s) <= Len(t))
  BY <1>5 DEF IsPrefix
<1>6. QED
  BY <1>4, <1>5

-----------------------------------------------------------------------------
(* What begins with what.                                                  *)

Begins(s, t, S) == \E rest \in Seq(S) : t = s \o rest

LEMMA BeginsSelf ==
  ASSUME NEW S, NEW s \in Seq(S)
  PROVE  Begins(s, s, S) /\ Begins(<<>>, s, S)
<1>1. <<>> \in Seq(S) /\ s \o <<>> = s /\ <<>> \o s = s
  BY ConcatEmptySeq, EmptySeq
<1>2. QED
  BY <1>1 DEF Begins

LEMMA BeginsConcat ==
  ASSUME NEW S, NEW s \in Seq(S), NEW t \in Seq(S)
  PROVE  Begins(s, s \o t, S)
BY DEF Begins

LEMMA BeginsTransitive ==
  ASSUME NEW S, NEW s \in Seq(S), NEW t, NEW u,
         Begins(s, t, S), Begins(t, u, S)
  PROVE  Begins(s, u, S)
<1>1. PICK a \in Seq(S) : t = s \o a
  BY DEF Begins
<1>2. PICK b \in Seq(S) : u = t \o b
  BY DEF Begins
<1>3. u = s \o (a \o b) /\ a \o b \in Seq(S)
  BY <1>1, <1>2, ConcatAssociative, ConcatProperties
<1>4. QED
  BY <1>3 DEF Begins

LEMMA BeginsPointwise ==
  ASSUME NEW S, NEW s \in Seq(S), NEW t \in Seq(S), Begins(s, t, S)
  PROVE  /\ Len(s) <= Len(t) /\ \A i \in 1..Len(s) : s[i] = t[i]
         /\ IsPrefix(s, t)
<1>1. PICK rest \in Seq(S) : t = s \o rest
  BY DEF Begins
<1>2. /\ Len(t) = Len(s) + Len(rest) /\ Len(s) \in Nat /\ Len(rest) \in Nat
      /\ \A i \in 1..Len(s) + Len(rest) :
           t[i] = IF i <= Len(s) THEN s[i] ELSE rest[i - Len(s)]
  BY <1>1, ConcatProperties
<1>3. Len(s) <= Len(t) /\ \A i \in 1..Len(s) : s[i] = t[i]
  BY <1>2
<1>4. QED
  BY <1>3, PrefixPointwise

(* What agrees with the first elements of a sequence begins it.            *)
LEMMA PointwiseBegins ==
  ASSUME NEW S, NEW s \in Seq(S), NEW t \in Seq(S), Len(s) <= Len(t),
         \A i \in 1..Len(s) : s[i] = t[i]
  PROVE  Begins(s, t, S)
<1> DEFINE m == Len(s)
           n == Len(t)
           rest == SubSeq(t, m + 1, n)
<1>1. m \in Nat /\ n \in Nat /\ m <= n /\ \A i \in m + 1..n : t[i] \in S
  BY ElementOfSeq
<1>2. /\ rest \in Seq(S) /\ Len(rest) = n - m
      /\ \A i \in 1..n - m : rest[i] = t[m + i]
  <2> HIDE DEF m, n
  <2>1. m + 1 \in Int /\ n \in Int
    BY <1>1
  <2>2. /\ rest \in Seq(S)
        /\ Len(rest) = IF m + 1 <= n THEN n - (m + 1) + 1 ELSE 0
        /\ \A i \in 1..n - (m + 1) + 1 : rest[i] = t[m + 1 + i - 1]
    BY <1>1, <2>1, SubSeqProperties
  <2> HIDE DEF rest
  <2>3. \A i \in 1..n - m : i \in 1..n - (m + 1) + 1 /\ m + 1 + i - 1 = m + i
    BY <1>1
  <2>4. n - m = IF m + 1 <= n THEN n - (m + 1) + 1 ELSE 0
    BY <1>1
  <2>5. QED
    BY <2>2, <2>3, <2>4
<1> HIDE DEF rest
<1>3. /\ s \o rest \in Seq(S) /\ Len(s \o rest) = n
      /\ \A i \in 1..n :
           (s \o rest)[i] = IF i <= m THEN s[i] ELSE rest[i - m]
  <2>1. Len(s) + Len(rest) = n
    BY <1>1, <1>2
  <2>2. QED
    BY <1>2, <2>1, ConcatProperties
<1>4. ASSUME NEW i \in 1..n PROVE (s \o rest)[i] = t[i]
  <2>1. CASE i <= m
    BY <1>1, <1>3, <2>1
  <2>2. CASE ~(i <= m)
    <3>1. i - m \in 1..n - m /\ m + (i - m) = i
      BY <1>1, <2>2
    <3>2. QED
      BY <1>2, <1>3, <2>2, <3>1
  <2>3. QED
    BY <2>1, <2>2
<1>5. s \o rest = t
  BY <1>3, <1>4, SeqEqual
<1>6. QED
  BY <1>2, <1>5 DEF Begins

-----------------------------------------------------------------------------
(* FlattenSeq is defined with a recursive function: there is one, what it  *)
(* is depends on the sequences it goes through, and so it can be unfolded. *)

FlattensTo(f, ss, n) ==
  f = [i \in 1..n |-> IF i = 1 THEN ss[i] ELSE f[i - 1] \o ss[i]]

LEMMA FlattensToSomething ==
  ASSUME NEW ss
  PROVE  \A n \in Nat : \E f : FlattensTo(f, ss, n)
<1> DEFINE T == {n \in Nat : \E f : FlattensTo(f, ss, n)}
<1>1. 0 \in T
  <2>1. FlattensTo(<<>>, ss, 0)
    BY DEF FlattensTo
  <2>2. QED
    BY <2>1
<1>2. ASSUME NEW n \in T PROVE n + 1 \in T
  <2>1. PICK f : FlattensTo(f, ss, n)
    OBVIOUS
  <2> DEFINE e(i) == IF i = 1 THEN ss[i] ELSE f[i - 1] \o ss[i]
             g == [i \in 1..n + 1 |-> IF i <= n THEN f[i] ELSE e(i)]
  <2>2. n \in Nat /\ \A i \in 1..n : f[i] = e(i)
    BY <2>1 DEF FlattensTo
  <2>3. \A i \in 1..n + 1 : g[i] = e(i)
    BY <2>2
  <2>4. \A i \in 1..n + 1 : i # 1 => g[i - 1] = f[i - 1]
    BY <2>2
  <2>5. g = [i \in 1..n + 1 |->
               IF i = 1 THEN ss[i] ELSE g[i - 1] \o ss[i]]
    BY <2>3, <2>4
  <2>6. FlattensTo(g, ss, n + 1)
    BY <2>5 DEF FlattensTo
  <2>7. QED
    BY <2>2, <2>6
<1>3. T \in SUBSET Nat
  OBVIOUS
<1> HIDE DEF T
<1>4. \A n \in Nat : n \in T
  BY <1>1, <1>2, <1>3, NumberInduction
<1>5. QED
  BY <1>4 DEF T

LEMMA FlattensToAt ==
  ASSUME NEW f, NEW ss, NEW n \in Nat, FlattensTo(f, ss, n), NEW i \in 1..n
  PROVE  f[i] = IF i = 1 THEN ss[i] ELSE f[i - 1] \o ss[i]
<1> DEFINE e(j) == IF j = 1 THEN ss[j] ELSE f[j - 1] \o ss[j]
<1>1. f = [j \in 1..n |-> e(j)]
  BY DEF FlattensTo
<1> HIDE DEF e
<1>2. f[i] = e(i)
  BY <1>1
<1>3. QED
  BY <1>2 DEF e

LEMMA FlattensToOne ==
  ASSUME NEW f, NEW ss, NEW m \in Nat, FlattensTo(f, ss, m),
         NEW g, NEW tt, NEW n \in Nat, FlattensTo(g, tt, n),
         m <= n, \A i \in 1..m : ss[i] = tt[i]
  PROVE  \A i \in 1..m : f[i] = g[i]
<1> DEFINE T == {i \in Nat : i \in 1..m => f[i] = g[i]}
<1>1. 0 \in T
  OBVIOUS
<1>2. ASSUME NEW i \in T PROVE i + 1 \in T
  <2>1. SUFFICES ASSUME i + 1 \in 1..m PROVE f[i + 1] = g[i + 1]
    OBVIOUS
  <2>2. i + 1 \in 1..m /\ i + 1 \in 1..n /\ i + 1 - 1 = i
    BY <2>1
  <2>3. f[i + 1] = IF i + 1 = 1 THEN ss[i + 1] ELSE f[i + 1 - 1] \o ss[i + 1]
    BY <2>2, FlattensToAt
  <2>4. g[i + 1] = IF i + 1 = 1 THEN tt[i + 1] ELSE g[i + 1 - 1] \o tt[i + 1]
    BY <2>2, FlattensToAt
  <2>5. i + 1 # 1 => f[i] = g[i]
    BY <2>1
  <2>6. QED
    BY <2>1, <2>2, <2>3, <2>4, <2>5
<1>3. T \in SUBSET Nat
  OBVIOUS
<1> HIDE DEF T
<1>4. \A i \in Nat : i \in T
  BY <1>1, <1>2, <1>3, NumberInduction
<1>5. QED
  BY <1>4 DEF T

LEMMA FlattenUnfolds ==
  ASSUME NEW ss, Len(ss) \in Nat, Len(ss) # 0
  PROVE  \E f : FlattensTo(f, ss, Len(ss)) /\ FlattenSeq(ss) = f[Len(ss)]
<1> DEFINE f == CHOOSE f : FlattensTo(f, ss, Len(ss))
<1>1. FlattensTo(f, ss, Len(ss))
  BY FlattensToSomething
<1>2. FlattenSeq(ss) = f[Len(ss)]
  BY DEF FlattenSeq, FlattensTo
<1> HIDE DEF f
<1>3. QED
  BY <1>1, <1>2

LEMMA FlattenEmpty == FlattenSeq(<<>>) = <<>>
BY DEF FlattenSeq

(* All that is flattened, and then one sequence more.                      *)
LEMMA FlattenSingle ==
  ASSUME NEW S, NEW s \in Seq(S)
  PROVE  FlattenSeq(<<s>>) = s
<1>1. Len(<<s>>) = 1 /\ <<s>>[1] = s
  OBVIOUS
<1> DEFINE ss == <<s>>
<1>2. Len(ss) = 1 /\ 1 \in Nat /\ 1 # 0
  BY <1>1
<1> HIDE DEF ss
<1>3. PICK f : FlattensTo(f, ss, Len(ss)) /\ FlattenSeq(ss) = f[Len(ss)]
  BY <1>2, FlattenUnfolds
<1>4. f[1] = ss[1]
  BY <1>2, <1>3, FlattensToAt
<1>5. QED
  BY <1>1, <1>2, <1>3, <1>4 DEF ss

LEMMA FlattenLonger ==
  ASSUME NEW S, NEW ss \in Seq(Seq(S)), NEW s \in Seq(S), ss # <<>>
  PROVE  FlattenSeq(Append(ss, s)) = FlattenSeq(ss) \o s
<1> DEFINE n == Len(ss)
           tt == Append(ss, s)
<1>1. /\ n \in Nat /\ n # 0 /\ Len(tt) = n + 1 /\ tt[n + 1] = s
      /\ \A i \in 1..n : ss[i] = tt[i]
  BY AppendProperties, EmptySeq
<1> DEFINE m == n + 1
<1> HIDE DEF n, tt
<1>2. m \in Nat /\ m # 0 /\ m # 1 /\ m - 1 = n /\ m \in 1..m /\ n \in 1..n
  BY <1>1
<1>3. Len(tt) = m /\ tt[m] = s /\ n <= m
  BY <1>1
<1> HIDE DEF m
<1>4. PICK f : FlattensTo(f, ss, n) /\ FlattenSeq(ss) = f[n]
  BY <1>1, FlattenUnfolds DEF n
<1>5. PICK g : FlattensTo(g, tt, m) /\ FlattenSeq(tt) = g[m]
  BY <1>2, <1>3, FlattenUnfolds
<1>6. f[n] = g[n]
  <2>1. n \in Nat /\ m \in Nat /\ n <= m
    BY <1>1, <1>2, <1>3
  <2>2. \A i \in 1..n : ss[i] = tt[i]
    BY <1>1
  <2>3. FlattensTo(f, ss, n) /\ FlattensTo(g, tt, m)
    BY <1>4, <1>5
  <2>4. \A i \in 1..n : f[i] = g[i]
    BY <2>1, <2>2, <2>3, FlattensToOne
  <2>5. QED
    BY <1>2, <2>4
<1>7. g[m] = IF m = 1 THEN tt[m] ELSE g[m - 1] \o tt[m]
  BY <1>2, <1>5, FlattensToAt
<1>8. QED
  BY <1>2, <1>3, <1>4, <1>5, <1>6, <1>7 DEF tt

LEMMA FlattenAppend ==
  ASSUME NEW S, NEW ss \in Seq(Seq(S)), NEW s \in Seq(S)
  PROVE  FlattenSeq(Append(ss, s)) = FlattenSeq(ss) \o s
<1>1. CASE ss = <<>>
  <2>1. Append(ss, s) = <<s>>
    BY <1>1
  <2>2. <<>> \o s = s
    BY ConcatEmptySeq
  <2>3. QED
    BY <1>1, <2>1, <2>2, FlattenEmpty, FlattenSingle
<1>2. QED
  BY <1>1, FlattenLonger

LEMMA FlattenType ==
  ASSUME NEW S
  PROVE  \A ss \in Seq(Seq(S)) : FlattenSeq(ss) \in Seq(S)
<1> DEFINE T == {ss \in Seq(Seq(S)) : FlattenSeq(ss) \in Seq(S)}
<1>1. <<>> \in T
  <2>1. <<>> \in Seq(S) /\ <<>> \in Seq(Seq(S))
    BY EmptySeq
  <2>2. QED
    BY <2>1, FlattenEmpty
<1>2. ASSUME NEW ss \in T, NEW s \in Seq(S) PROVE Append(ss, s) \in T
  <2>1. Append(ss, s) \in Seq(Seq(S))
    BY AppendProperties
  <2>2. FlattenSeq(ss) \o s \in Seq(S)
    BY ConcatProperties
  <2>3. QED
    BY <2>1, <2>2, FlattenAppend
<1>3. T \in SUBSET Seq(Seq(S))
  OBVIOUS
<1> HIDE DEF T
<1>4. \A ss \in Seq(Seq(S)) : ss \in T
  BY <1>1, <1>2, <1>3, SequenceInduction
<1>5. QED
  BY <1>4 DEF T

LEMMA ConcatAppend ==
  ASSUME NEW S, NEW s \in Seq(S), NEW t \in Seq(S), NEW x \in S
  PROVE  s \o Append(t, x) = Append(s \o t, x)
<1>1. Append(t, x) = t \o <<x>> /\ <<x>> \in Seq(S) /\ s \o t \in Seq(S)
  BY AppendIsConcat, ConcatProperties
<1>2. Append(s \o t, x) = (s \o t) \o <<x>>
  BY <1>1, AppendIsConcat
<1>3. QED
  BY <1>1, <1>2, ConcatAssociative

LEMMA FlattenConcat ==
  ASSUME NEW S, NEW ss \in Seq(Seq(S))
  PROVE  \A tt \in Seq(Seq(S)) :
           FlattenSeq(ss \o tt) = FlattenSeq(ss) \o FlattenSeq(tt)
<1> DEFINE T == {tt \in Seq(Seq(S)) :
                   FlattenSeq(ss \o tt) = FlattenSeq(ss) \o FlattenSeq(tt)}
<1>1. <<>> \in T
  <2>1. /\ <<>> \in Seq(Seq(S)) /\ ss \o <<>> = ss
        /\ FlattenSeq(ss) \o <<>> = FlattenSeq(ss)
    BY FlattenType, ConcatEmptySeq, EmptySeq
  <2>2. QED
    BY <2>1, FlattenEmpty
<1>2. ASSUME NEW tt \in T, NEW t \in Seq(S) PROVE Append(tt, t) \in T
  <2>1. Append(tt, t) \in Seq(Seq(S)) /\ ss \o tt \in Seq(Seq(S))
    BY AppendProperties, ConcatProperties
  <2>2. /\ FlattenSeq(ss) \in Seq(S) /\ FlattenSeq(tt) \in Seq(S)
    BY FlattenType
  <2>3. ss \o Append(tt, t) = Append(ss \o tt, t)
    BY ConcatAppend
  <2>4. FlattenSeq(Append(ss \o tt, t)) = FlattenSeq(ss \o tt) \o t
    BY <2>1, FlattenAppend
  <2>5. FlattenSeq(Append(tt, t)) = FlattenSeq(tt) \o t
    BY FlattenAppend
  <2>6. (FlattenSeq(ss) \o FlattenSeq(tt)) \o t
          = FlattenSeq(ss) \o (FlattenSeq(tt) \o t)
    <3> DEFINE a == FlattenSeq(ss)
               b == FlattenSeq(tt)
    <3> HIDE DEF a, b, T
    <3>1. a \in Seq(S) /\ b \in Seq(S)
      BY <2>2 DEF a, b
    <3>2. (a \o b) \o t = a \o (b \o t)
      BY <3>1, ConcatAssociative
    <3>3. QED
      BY <3>2 DEF a, b
  <2>7. FlattenSeq(ss \o tt) = FlattenSeq(ss) \o FlattenSeq(tt)
    OBVIOUS
  <2> HIDE DEF T
  <2>8. FlattenSeq(ss \o Append(tt, t))
          = FlattenSeq(ss) \o FlattenSeq(Append(tt, t))
    BY <2>3, <2>4, <2>5, <2>6, <2>7
  <2>9. QED
    BY <2>1, <2>8 DEF T
<1>3. T \in SUBSET Seq(Seq(S))
  OBVIOUS
<1> HIDE DEF T
<1>4. \A tt \in Seq(Seq(S)) : tt \in T
  BY <1>1, <1>2, <1>3, SequenceInduction
<1>5. QED
  BY <1>4 DEF T

(* What begins a sequence of sequences, flattened, begins it flattened.    *)
LEMMA FlattenBegins ==
  ASSUME NEW S, NEW ss \in Seq(Seq(S)), NEW tt, Begins(ss, tt, Seq(S))
  PROVE  Begins(FlattenSeq(ss), FlattenSeq(tt), S)
<1>1. PICK rest \in Seq(Seq(S)) : tt = ss \o rest
  BY DEF Begins
<1>2. FlattenSeq(tt) = FlattenSeq(ss) \o FlattenSeq(rest)
  BY <1>1, FlattenConcat
<1>3. FlattenSeq(rest) \in Seq(S)
  BY FlattenType
<1>4. QED
  BY <1>2, <1>3 DEF Begins

(* Sequences of one element each, flattened, are these elements.           *)
LEMMA FlattenSingles ==
  ASSUME NEW S
  PROVE  \A ss \in Seq(Seq(S)) :
           (\A i \in 1..Len(ss) : Len(ss[i]) = 1) =>
             /\ Len(FlattenSeq(ss)) = Len(ss)
             /\ \A i \in 1..Len(ss) : FlattenSeq(ss)[i] = ss[i][1]
<1> DEFINE Good(ss) == \A i \in 1..Len(ss) : Len(ss[i]) = 1
           Same(ss) == /\ Len(FlattenSeq(ss)) = Len(ss)
                       /\ \A i \in 1..Len(ss) : FlattenSeq(ss)[i] = ss[i][1]
           T == {ss \in Seq(Seq(S)) : Good(ss) => Same(ss)}
<1>1. <<>> \in T
  <2>1. <<>> \in Seq(Seq(S)) /\ Len(<<>>) = 0
    BY EmptySeq
  <2>2. FlattenSeq(<<>>) = <<>>
    BY FlattenEmpty
  <2>3. QED
    BY <2>1, <2>2
<1>2. ASSUME NEW ss \in T, NEW s \in Seq(S) PROVE Append(ss, s) \in T
  <2> DEFINE tt == Append(ss, s)
             n == Len(ss)
  <2>1. /\ tt \in Seq(Seq(S)) /\ Len(tt) = n + 1 /\ n \in Nat
        /\ \A i \in 1..n : tt[i] = ss[i]
        /\ tt[n + 1] = s
    BY AppendProperties
  <2> HIDE DEF tt
  <2>2. SUFFICES ASSUME Good(tt) PROVE Same(tt)
    BY <2>1 DEF tt
  <2>3. Len(s) = 1
    <3>1. n + 1 \in 1..Len(tt)
      BY <2>1
    <3>2. QED
      BY <2>1, <2>2, <3>1
  <2>4. Good(ss)
    <3>1. \A i \in 1..n : i \in 1..Len(tt)
      BY <2>1
    <3>2. QED
      BY <2>1, <2>2, <3>1
  <2>5. Same(ss)
    BY <2>4
  <2> DEFINE f == FlattenSeq(ss)
             g == FlattenSeq(tt)
  <2>6. f \in Seq(S) /\ g = f \o s
    BY FlattenType, FlattenAppend DEF tt
  <2> HIDE DEF f, g
  <2>7. /\ Len(g) = n + 1
        /\ \A i \in 1..n + 1 : g[i] = IF i <= n THEN f[i] ELSE s[i - n]
    <3>1. Len(f) = n
      BY <2>5 DEF f
    <3>2. /\ Len(g) = Len(f) + Len(s)
          /\ \A i \in 1..Len(f) + Len(s) :
               g[i] = IF i <= Len(f) THEN f[i] ELSE s[i - Len(f)]
      BY <2>6, ConcatProperties
    <3>3. QED
      BY <2>3, <3>1, <3>2
  <2>8. ASSUME NEW i \in 1..n + 1 PROVE g[i] = tt[i][1]
    <3>1. CASE i <= n
      <4>1. i \in 1..n
        BY <2>1, <3>1
      <4>2. f[i] = ss[i][1]
        BY <2>5, <4>1 DEF f
      <4>3. QED
        BY <2>1, <2>7, <3>1, <4>1, <4>2
    <3>2. CASE i = n + 1
      <4>1. i - n = 1 /\ ~(i <= n)
        BY <2>1, <3>2
      <4>2. g[i] = s[1]
        BY <2>7, <4>1
      <4>3. QED
        BY <2>1, <3>2, <4>2
    <3>3. QED
      BY <2>1, <3>1, <3>2
  <2>9. QED
    BY <2>1, <2>7, <2>8 DEF g
<1>3. T \in SUBSET Seq(Seq(S))
  OBVIOUS
<1>4. \A ss \in Seq(Seq(S)) : ss \in T
  <2> HIDE DEF T
  <2>1. QED
    BY <1>1, <1>2, <1>3, SequenceInduction
<1>5. QED
  BY <1>4

-----------------------------------------------------------------------------
(* Parts of a concatenation.                                               *)

LEMMA SubSeqFront ==
  ASSUME NEW S, NEW u \in Seq(S), NEW s \in Seq(S)
  PROVE  SubSeq(u \o s, 1, Len(u)) = u
<1> DEFINE t == u \o s
           k == Len(u)
           n == Len(s)
           v == SubSeq(t, 1, k)
<1>1. /\ k \in Nat /\ n \in Nat /\ t \in Seq(S) /\ Len(t) = k + n
      /\ \A i \in 1..k + n : t[i] = IF i <= k THEN u[i] ELSE s[i - k]
  BY ConcatProperties
<1> HIDE DEF t
<1>2. \A i \in 1..k : t[i] \in S /\ t[i] = u[i]
  <2>1. \A i \in 1..k : u[i] \in S
    BY ElementOfSeq
  <2> HIDE DEF k, n
  <2>2. QED
    BY <1>1, <2>1
<1> HIDE DEF k, n
<1>3. /\ v \in Seq(S) /\ Len(v) = IF 1 <= k THEN k - 1 + 1 ELSE 0
      /\ \A i \in 1..k - 1 + 1 : v[i] = t[1 + i - 1]
  <2>1. 1 \in Int /\ k \in Int
    BY <1>1
  <2>2. QED
    BY <1>2, <2>1, SubSeqProperties
<1> HIDE DEF v
<1>4. Len(v) = k /\ \A i \in 1..k : v[i] = u[i]
  BY <1>1, <1>2, <1>3
<1>5. v = u
  BY <1>3, <1>4, SeqEqual DEF k
<1>6. QED
  BY <1>5 DEF v, t, k

LEMMA PairIs ==
  ASSUME NEW l, NEW b
  PROVE  Append(<<l>>, b) = <<l, b>>
<1> DEFINE B == {l, b}
           x == <<l>>
           p == Append(x, b)
           q == <<l, b>>
<1>1. x \in Seq(B) /\ Len(x) = 1 /\ x[1] = l /\ b \in B
  OBVIOUS
<1>2. q \in Seq(B) /\ Len(q) = 2 /\ q[1] = l /\ q[2] = b
  OBVIOUS
<1> HIDE DEF x, q, B
<1>3. /\ p \in Seq(B) /\ Len(p) = Len(x) + 1 /\ p[Len(x) + 1] = b
      /\ \A i \in 1..Len(x) : p[i] = x[i]
  <2>1. x \in Seq(B) /\ b \in B
    BY <1>1
  <2>2. p \in Seq(B) /\ Len(p) = Len(x) + 1
    BY <2>1, AppendProperties
  <2>3. p[Len(x) + 1] = b /\ \A i \in 1..Len(x) : p[i] = x[i]
    BY <2>1, AppendProperties
  <2>4. QED
    BY <2>2, <2>3
<1> HIDE DEF p
<1>4. 1 \in 1..Len(x) /\ Len(x) + 1 = 2
  BY <1>1
<1>5. Len(p) = 2 /\ \A i \in 1..2 : p[i] = q[i]
  BY <1>1, <1>2, <1>3, <1>4
<1>6. p = q
  BY <1>2, <1>3, <1>5, SeqEqual
<1>7. QED
  BY <1>6 DEF p, q, x

LEMMA SubSeqBack ==
  ASSUME NEW S, NEW u \in Seq(S), NEW v \in Seq(S)
  PROVE  SubSeq(u \o v, Len(u) + 1, Len(u \o v)) = v
<1> DEFINE t == u \o v
           k == Len(u)
           n == Len(v)
           m == Len(t)
           w == SubSeq(t, k + 1, m)
<1>1. /\ k \in Nat /\ n \in Nat /\ t \in Seq(S) /\ m = k + n
      /\ \A i \in 1..k + n : t[i] = IF i <= k THEN u[i] ELSE v[i - k]
  BY ConcatProperties
<1>2. \A i \in 1..m : t[i] \in S
  BY <1>1, ElementOfSeq
<1> HIDE DEF t, k, n, m
<1>3. \A i \in 1..n : t[k + i] = v[i]
  <2>1. \A i \in 1..n : k + i \in 1..k + n /\ ~(k + i <= k) /\ (k + i) - k = i
    BY <1>1
  <2>2. QED
    BY <1>1, <2>1
<1>4. /\ w \in Seq(S) /\ Len(w) = IF k + 1 <= m THEN m - (k + 1) + 1 ELSE 0
      /\ \A i \in 1..m - (k + 1) + 1 : w[i] = t[k + 1 + i - 1]
  <2>1. k + 1 \in Int /\ m \in Int /\ \A i \in k + 1..m : t[i] \in S
    BY <1>1, <1>2
  <2> DEFINE k1 == k + 1
  <2> HIDE DEF k1
  <2>2. /\ SubSeq(t, k1, m) \in Seq(S)
        /\ Len(SubSeq(t, k1, m)) = IF k1 <= m THEN m - k1 + 1 ELSE 0
        /\ \A i \in 1..m - k1 + 1 : SubSeq(t, k1, m)[i] = t[k1 + i - 1]
    <3>1. k1 \in Int /\ m \in Int /\ \A i \in k1..m : t[i] \in S
      BY <2>1 DEF k1
    <3>2. QED
      BY <3>1, SubSeqProperties
  <2>3. QED
    BY <2>2 DEF k1
<1> HIDE DEF w
<1>5. Len(w) = n /\ \A i \in 1..n : w[i] = v[i]
  <2>1. m - (k + 1) + 1 = n /\ \A i \in 1..n : k + 1 + i - 1 = k + i
    BY <1>1
  <2>2. QED
    BY <1>1, <1>3, <1>4, <2>1
<1>6. w = v
  BY <1>4, <1>5, SeqEqual DEF n
<1>7. QED
  BY <1>6 DEF w, t, k, m

Regroups(a, b, c) == (a \o b) \o c = a \o (b \o c)

LEMMA Associative ==
  ASSUME NEW S
  PROVE  \A a, b, c \in Seq(S) : Regroups(a, b, c)
<1>1. ASSUME NEW a \in Seq(S), NEW b \in Seq(S), NEW c \in Seq(S)
      PROVE  (a \o b) \o c = a \o (b \o c)
  BY ConcatAssociative
<1>2. QED
  BY <1>1 DEF Regroups

-----------------------------------------------------------------------------
(* What a sequence ends with.                                              *)

LEMMA ReverseIs ==
  ASSUME NEW S, NEW s \in Seq(S)
  PROVE  /\ Reverse(s) \in Seq(S) /\ Len(Reverse(s)) = Len(s)
         /\ \A i \in 1..Len(s) : Reverse(s)[i] = s[Len(s) - i + 1]
<1> DEFINE n == Len(s)
<1>1. n \in Nat /\ Reverse(s) = [i \in 1..n |-> s[n - i + 1]]
  BY DEF Reverse
<1>2. \A i \in 1..n : n - i + 1 \in 1..n
  BY <1>1
<1>3. \A i \in 1..n : s[n - i + 1] \in S
  BY <1>2, ElementOfSeq
<1> HIDE DEF n
<1>4. Reverse(s) \in [1..n -> S]
  BY <1>1, <1>3
<1>5. Reverse(s) \in Seq(S) /\ Len(Reverse(s)) = n
  BY <1>1, <1>4
<1>6. QED
  BY <1>1, <1>5 DEF n

LEMMA SuffixPointwise ==
  ASSUME NEW S, NEW s \in Seq(S), NEW t \in Seq(S)
  PROVE  IsSuffix(s, t) <=>
           /\ Len(s) <= Len(t)
           /\ \A i \in 1..Len(s) : s[i] = t[Len(t) - Len(s) + i]
<1> DEFINE m == Len(s)
           n == Len(t)
<1>1. m \in Nat /\ n \in Nat
  OBVIOUS
<1>2. IsSuffix(s, t) <=>
        m <= n /\ \A i \in 1..m : Reverse(s)[i] = Reverse(t)[i]
  <2> DEFINE r == Reverse(s)
             q == Reverse(t)
  <2>1. r \in Seq(S) /\ q \in Seq(S) /\ Len(r) = m /\ Len(q) = n
    BY ReverseIs
  <2> HIDE DEF r, q, m, n
  <2>2. IsPrefix(r, q) <=> m <= n /\ \A i \in 1..m : r[i] = q[i]
    <3>1. \A a, b \in Seq(S) :
            IsPrefix(a, b) <=>
              Len(a) <= Len(b) /\ \A i \in 1..Len(a) : a[i] = b[i]
      BY PrefixPointwise
    <3>2. IsPrefix(r, q) <=>
            Len(r) <= Len(q) /\ \A i \in 1..Len(r) : r[i] = q[i]
      BY <2>1, <3>1
    <3>3. QED
      BY <2>1, <3>2
  <2>3. QED
    BY <2>2 DEF r, q, IsSuffix
<1>3. ASSUME m <= n
      PROVE  (\A i \in 1..m : Reverse(s)[i] = Reverse(t)[i])
               <=> \A i \in 1..m : s[i] = t[n - m + i]
  <2>1. \A i \in 1..m : i \in 1..n
    BY <1>1, <1>3
  <2>2. \A i \in 1..m : /\ Reverse(s)[i] = s[m - i + 1]
                        /\ Reverse(t)[i] = t[n - i + 1]
    BY <2>1, ReverseIs
  <2> HIDE DEF m, n
  <2>3. \A i \in 1..m : /\ m - i + 1 \in 1..m
                        /\ m - (m - i + 1) + 1 = i
                        /\ n - m + (m - i + 1) = n - i + 1
                        /\ n - (m - i + 1) + 1 = n - m + i
    BY <1>1, <1>3
  <2>4. ASSUME \A i \in 1..m : Reverse(s)[i] = Reverse(t)[i], NEW i \in 1..m
        PROVE  s[i] = t[n - m + i]
    <3> DEFINE j == m - i + 1
    <3>1. j \in 1..m /\ m - j + 1 = i /\ n - j + 1 = n - m + i
      BY <2>3
    <3> HIDE DEF j
    <3>2. QED
      BY <2>2, <2>4, <3>1
  <2>5. ASSUME \A i \in 1..m : s[i] = t[n - m + i], NEW i \in 1..m
        PROVE  Reverse(s)[i] = Reverse(t)[i]
    <3> DEFINE j == m - i + 1
    <3>1. j \in 1..m /\ n - m + j = n - i + 1
      BY <2>3
    <3>2. s[j] = t[n - m + j]
      <4> HIDE DEF j
      <4>1. QED
        BY <2>5, <3>1
    <3>3. QED
      BY <2>2, <3>1, <3>2
  <2>6. QED
    BY <2>4, <2>5
<1>4. QED
  BY <1>2, <1>3

LEMMA SuffixConcat ==
  ASSUME NEW S, NEW s \in Seq(S), NEW t \in Seq(S)
  PROVE  IsSuffix(s, t) <=> \E u \in Seq(S) : t = u \o s
<1> DEFINE m == Len(s)
           n == Len(t)
           k == n - m
<1>1. m \in Nat /\ n \in Nat
  OBVIOUS
<1>2. ASSUME NEW u \in Seq(S), t = u \o s PROVE IsSuffix(s, t)
  <2>1. /\ Len(u) \in Nat /\ n = Len(u) + m
        /\ \A i \in 1..Len(u) + m :
             t[i] = IF i <= Len(u) THEN u[i] ELSE s[i - Len(u)]
    BY <1>2, ConcatProperties
  <2> DEFINE l == Len(u)
  <2> HIDE DEF l, m, n
  <2>2. l \in Nat /\ n = l + m /\ n - m = l /\ m <= n
    BY <1>1, <2>1 DEF l
  <2>3. \A i \in 1..m : l + i \in 1..l + m /\ ~(l + i <= l) /\ (l + i) - l = i
    BY <1>1, <2>2
  <2>4. \A i \in 1..l + m : t[i] = IF i <= l THEN u[i] ELSE s[i - l]
    BY <2>1 DEF l
  <2>5. \A i \in 1..m : t[l + i] = s[i]
    BY <2>3, <2>4
  <2>6. QED
    BY <2>2, <2>5, SuffixPointwise DEF m, n
<1>3. ASSUME IsSuffix(s, t) PROVE \E u \in Seq(S) : t = u \o s
  <2>1. m <= n /\ \A i \in 1..m : s[i] = t[k + i]
    BY <1>3, SuffixPointwise
  <2> DEFINE u == SubSeq(t, 1, k)
             v == u \o s
  <2>2. k \in Nat /\ k <= n /\ k + m = n
    BY <1>1, <2>1
  <2>3. \A i \in 1..n : t[i] \in S
    BY ElementOfSeq
  <2> HIDE DEF m, n, k
  <2>4. /\ u \in Seq(S) /\ Len(u) = k /\ \A i \in 1..k : u[i] = t[i]
    <3>1. /\ 1 \in Int /\ k \in Int /\ \A i \in 1..k : t[i] \in S
          /\ k - 1 + 1 = k
      BY <1>1, <2>2, <2>3
    <3>2. /\ u \in Seq(S) /\ Len(u) = IF 1 <= k THEN k - 1 + 1 ELSE 0
          /\ \A i \in 1..k - 1 + 1 : u[i] = t[1 + i - 1]
      BY <3>1, SubSeqProperties
    <3> HIDE DEF u
    <3>3. \A i \in 1..k : 1 + i - 1 = i
      BY <2>2
    <3>4. QED
      BY <2>2, <3>1, <3>2, <3>3
  <2> HIDE DEF u
  <2>5. /\ v \in Seq(S) /\ Len(v) = k + m
        /\ \A i \in 1..k + m : v[i] = IF i <= k THEN u[i] ELSE s[i - k]
    BY <2>4, ConcatProperties DEF m
  <2> HIDE DEF v
  <2>6. \A i \in 1..n : v[i] = t[i]
    <3>1. ASSUME NEW i \in 1..n PROVE v[i] = t[i]
      <4>1. CASE i <= k
        <5>1. i \in 1..k
          BY <1>1, <2>2, <4>1
        <5>2. QED
          BY <2>2, <2>4, <2>5, <4>1, <5>1
      <4>2. CASE ~(i <= k)
        <5> DEFINE j == i - k
        <5>1. j \in 1..m /\ k + j = i
          BY <1>1, <2>2, <4>2
        <5>2. v[i] = s[j]
          BY <2>2, <2>5, <4>2
        <5> HIDE DEF j
        <5>3. QED
          BY <2>1, <5>1, <5>2
      <4>3. QED
        BY <4>1, <4>2
    <3>2. QED
      BY <3>1
  <2>7. v = t
    BY <2>2, <2>5, <2>6, SeqEqual DEF n
  <2>8. QED
    BY <2>4, <2>7 DEF v
<1>4. QED
  BY <1>2, <1>3

LEMMA SuffixLast ==
  ASSUME NEW S, NEW s \in Seq(S), NEW t \in Seq(S), NEW x \in S, NEW y \in S
  PROVE  IsSuffix(Append(s, x), Append(t, y)) <=> x = y /\ IsSuffix(s, t)
<1> DEFINE sx == Append(s, x)
           ty == Append(t, y)
<1>1. sx \in Seq(S) /\ ty \in Seq(S)
  BY AppendProperties
<1>2. \A u \in Seq(S) : u \o sx = Append(u \o s, x) /\ u \o s \in Seq(S)
  BY ConcatAppend, ConcatProperties
<1>3. \A u \in Seq(S) : ty = Append(u \o s, x) <=> t = u \o s /\ y = x
  <2>1. \A v \in Seq(S) : Append(t, y) = Append(v, x) <=> t = v /\ y = x
    BY AppendInjective
  <2>2. QED
    BY <1>2, <2>1
<1> HIDE DEF sx, ty
<1>4. IsSuffix(sx, ty) <=> \E u \in Seq(S) : ty = u \o sx
  BY <1>1, SuffixConcat
<1>5. IsSuffix(s, t) <=> \E u \in Seq(S) : t = u \o s
  BY SuffixConcat
<1>6. IsSuffix(sx, ty) <=> x = y /\ IsSuffix(s, t)
  BY <1>2, <1>3, <1>4, <1>5
<1>7. QED
  BY <1>6 DEF sx, ty

LEMMA SuffixEmpty ==
  ASSUME NEW S, NEW s \in Seq(S)
  PROVE  IsSuffix(<<>>, s) /\ (IsSuffix(s, <<>>) => s = <<>>)
<1>1. <<>> \in Seq(S) /\ s \o <<>> = s
  BY EmptySeq, ConcatEmptySeq
<1>2. IsSuffix(<<>>, s)
  BY <1>1, SuffixConcat
<1>3. ASSUME IsSuffix(s, <<>>) PROVE s = <<>>
  <2> DEFINE e == <<>>
             n == Len(s)
  <2>1. e \in Seq(S) /\ IsSuffix(s, e) /\ Len(e) = 0
    BY <1>1, <1>3
  <2> HIDE DEF e
  <2>2. PICK u \in Seq(S) : e = u \o s
    BY <2>1, SuffixConcat
  <2>3. Len(u \o s) = Len(u) + n /\ Len(u) \in Nat /\ n \in Nat
    BY ConcatProperties
  <2>4. Len(s) = 0
    BY <2>1, <2>2, <2>3
  <2>5. s # <<>> => Len(s) # 0
    BY EmptySeq
  <2>6. QED
    BY <2>4, <2>5
<1>4. QED
  BY <1>2, <1>3
================================================================================
