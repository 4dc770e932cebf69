--------------------------- MODULE JournalTextProofs ---------------------------
(***************************************************************************)
(* Theorems about JournalText: what decodeContent and splitStream make of  *)
(* the bytes of a journal, for every separator and every cut.              *)
(***************************************************************************)
EXTENDS JournalText, SequenceProofs

-----------------------------------------------------------------------------
(* A text is read one element after the other.                             *)

Unread == [lines |-> <<>>, rest |-> <<>>]

ReadsTo(sep, f, string, n) ==
  f = [i \in 0..n |-> IF i = 0 THEN Unread
                      ELSE LineStep(sep, f[i - 1], string[i])]

LEMMA ReadsToAt ==
  ASSUME NEW sep, NEW f, NEW string, NEW n \in Nat,
         ReadsTo(sep, f, string, n), NEW i \in 0..n
  PROVE  f[i] = IF i = 0 THEN Unread ELSE LineStep(sep, f[i - 1], string[i])
<1> DEFINE e(j) == IF j = 0 THEN Unread ELSE LineStep(sep, f[j - 1], string[j])
<1>1. f = [j \in 0..n |-> e(j)]
  BY DEF ReadsTo
<1> HIDE DEF e
<1>2. f[i] = e(i)
  BY <1>1
<1>3. QED
  BY <1>2 DEF e

LEMMA ReadsToSomething ==
  ASSUME NEW sep, NEW string
  PROVE  \A n \in Nat : \E f : ReadsTo(sep, f, string, n)
<1> DEFINE T == {n \in Nat : \E f : ReadsTo(sep, f, string, n)}
<1>1. 0 \in T
  <2> DEFINE f == [i \in 0..0 |-> Unread]
  <2>1. f = [i \in 0..0 |-> IF i = 0 THEN Unread
                            ELSE LineStep(sep, f[i - 1], string[i])]
    OBVIOUS
  <2>2. ReadsTo(sep, f, string, 0)
    BY <2>1 DEF ReadsTo
  <2>3. QED
    BY <2>2
<1>2. ASSUME NEW n \in T PROVE n + 1 \in T
  <2>1. PICK f : ReadsTo(sep, f, string, n)
    OBVIOUS
  <2> DEFINE e(i) == IF i = 0 THEN Unread
                              ELSE LineStep(sep, f[i - 1], string[i])
             g == [i \in 0..n + 1 |-> IF i <= n THEN f[i] ELSE e(i)]
  <2>2. n \in Nat /\ \A i \in 0..n : f[i] = e(i)
    BY <2>1, ReadsToAt
  <2>3. \A i \in 0..n + 1 : g[i] = e(i)
    <3> HIDE DEF e
    <3>1. QED
      BY <2>2
  <2>4. \A i \in 0..n + 1 : i # 0 => g[i - 1] = f[i - 1]
    <3> HIDE DEF e
    <3>1. QED
      BY <2>2
  <2>5. \A i \in 0..n + 1 :
          g[i] = IF i = 0 THEN Unread ELSE LineStep(sep, g[i - 1], string[i])
    <3> HIDE DEF g
    <3>1. QED
      BY <2>3, <2>4
  <2>6. g = [i \in 0..n + 1 |-> g[i]]
    OBVIOUS
  <2> HIDE DEF g, e
  <2>7. ReadsTo(sep, g, string, n + 1)
    BY <2>5, <2>6 DEF ReadsTo
  <2>8. QED
    BY <2>2, <2>7
<1>3. T \in SUBSET Nat
  OBVIOUS
<1> HIDE DEF T
<1>4. \A n \in Nat : n \in T
  BY <1>1, <1>2, <1>3, NumberInduction
<1>5. QED
  BY <1>4 DEF T

LEMMA ReadsToOne ==
  ASSUME NEW sep, NEW f, NEW s, NEW m \in Nat, ReadsTo(sep, f, s, m),
         NEW g, NEW t, NEW n \in Nat, ReadsTo(sep, g, t, n),
         m <= n, \A i \in 1..m : s[i] = t[i]
  PROVE  \A i \in 0..m : f[i] = g[i]
<1> DEFINE T == {i \in Nat : i \in 0..m => f[i] = g[i]}
<1>1. 0 \in T
  <2>1. 0 \in 0..m /\ 0 \in 0..n
    OBVIOUS
  <2>2. f[0] = Unread /\ g[0] = Unread
    BY <2>1, ReadsToAt
  <2>3. QED
    BY <2>2
<1>2. ASSUME NEW i \in T PROVE i + 1 \in T
  <2> DEFINE j == i + 1
  <2>1. SUFFICES ASSUME j \in 0..m PROVE f[j] = g[j]
    OBVIOUS
  <2>2. /\ j \in 0..m /\ j \in 0..n /\ j - 1 = i /\ j # 0 /\ j \in 1..m
        /\ i \in 0..m
    BY <2>1
  <2>3. f[i] = g[i]
    BY <2>2
  <2> HIDE DEF j
  <2>4. f[j] = IF j = 0 THEN Unread ELSE LineStep(sep, f[j - 1], s[j])
    BY <2>2, ReadsToAt
  <2>5. g[j] = IF j = 0 THEN Unread ELSE LineStep(sep, g[j - 1], t[j])
    BY <2>2, ReadsToAt
  <2>6. QED
    BY <2>2, <2>3, <2>4, <2>5
<1>3. T \in SUBSET Nat
  OBVIOUS
<1> HIDE DEF T
<1>4. \A i \in Nat : i \in T
  BY <1>1, <1>2, <1>3, NumberInduction
<1>5. QED
  BY <1>4 DEF T

LEMMA ReadingUnfolds ==
  ASSUME NEW sep, NEW string, Len(string) \in Nat
  PROVE  \E f : /\ ReadsTo(sep, f, string, Len(string))
               /\ Reading(string, sep) = f[Len(string)]
<1> DEFINE f == CHOOSE f : ReadsTo(sep, f, string, Len(string))
<1>1. ReadsTo(sep, f, string, Len(string))
  BY ReadsToSomething
<1>2. Reading(string, sep) = f[Len(string)]
  BY DEF Reading, ReadsTo, Unread
<1> HIDE DEF f
<1>3. QED
  BY <1>1, <1>2

LEMMA ReadingEmpty ==
  ASSUME NEW sep
  PROVE  Reading(<<>>, sep) = Unread
<1> DEFINE e == <<>>
<1>1. Len(e) = 0 /\ 0 \in Nat /\ 0 \in 0..0
  OBVIOUS
<1> HIDE DEF e
<1>2. PICK f : ReadsTo(sep, f, e, Len(e)) /\ Reading(e, sep) = f[Len(e)]
  BY <1>1, ReadingUnfolds
<1>3. f[0] = Unread
  BY <1>1, <1>2, ReadsToAt
<1>4. QED
  BY <1>1, <1>2, <1>3 DEF e

LEMMA ReadingAppend ==
  ASSUME NEW sep, NEW S, NEW string \in Seq(S), NEW c \in S
  PROVE  Reading(Append(string, c), sep)
           = LineStep(sep, Reading(string, sep), c)
<1> DEFINE n == Len(string)
           m == n + 1
           t == Append(string, c)
<1>1. /\ n \in Nat /\ Len(t) = m /\ t[m] = c
      /\ \A i \in 1..n : string[i] = t[i]
  BY AppendProperties
<1> HIDE DEF n, t
<1>2. /\ m \in Nat /\ m # 0 /\ m - 1 = n /\ m \in 0..m /\ n \in 0..n
      /\ n <= m
  BY <1>1
<1> HIDE DEF m
<1>3. PICK f : ReadsTo(sep, f, string, n) /\ Reading(string, sep) = f[n]
  BY <1>1, ReadingUnfolds DEF n
<1>4. PICK g : ReadsTo(sep, g, t, m) /\ Reading(t, sep) = g[m]
  BY <1>1, <1>2, ReadingUnfolds
<1>5. f[n] = g[n]
  <2>1. \A i \in 0..n : f[i] = g[i]
    BY <1>1, <1>2, <1>3, <1>4, ReadsToOne
  <2>2. QED
    BY <1>2, <2>1
<1>6. g[m] = IF m = 0 THEN Unread ELSE LineStep(sep, g[m - 1], t[m])
  BY <1>2, <1>4, ReadsToAt
<1>7. QED
  BY <1>1, <1>2, <1>3, <1>4, <1>5, <1>6 DEF t

Readings(S) == [lines : Seq(Seq(S)), rest : Seq(S)]

(* A step ends a line, or it does not.                                     *)
LEMMA StepEnds ==
  ASSUME NEW S, NEW sep \in Seq(S), NEW state \in Readings(S), NEW c \in S,
         NEW u \in Seq(S), Append(state.rest, c) = u \o sep
  PROVE  LineStep(sep, state, c)
           = [lines |-> Append(state.lines, u), rest |-> <<>>]
<1> DEFINE line == Append(state.rest, c)
           n == Len(line) - Len(sep)
<1>1. line \in Seq(S)
  BY AppendProperties DEF Readings
<1>2. IsSuffix(sep, line)
  BY <1>1, SuffixConcat
<1>3. n = Len(u)
  <2>1. Len(line) = Len(u) + Len(sep) /\ Len(u) \in Nat /\ Len(sep) \in Nat
    BY ConcatProperties
  <2>2. QED
    BY <2>1
<1>4. SubSeq(line, 1, n) = u
  BY <1>3, SubSeqFront
<1>5. QED
  BY <1>2, <1>4 DEF LineStep

LEMMA StepGoesOn ==
  ASSUME NEW S, NEW sep \in Seq(S), NEW state \in Readings(S), NEW c \in S,
         ~IsSuffix(sep, Append(state.rest, c))
  PROVE  LineStep(sep, state, c)
           = [lines |-> state.lines, rest |-> Append(state.rest, c)]
BY DEF LineStep

LEMMA StepType ==
  ASSUME NEW S, NEW sep \in Seq(S), NEW state \in Readings(S), NEW c \in S
  PROVE  LineStep(sep, state, c) \in Readings(S)
<1>1. /\ Append(state.rest, c) \in Seq(S) /\ <<>> \in Seq(S)
      /\ state.lines \in Seq(Seq(S))
  BY AppendProperties, EmptySeq DEF Readings
<1>2. CASE IsSuffix(sep, Append(state.rest, c))
  <2>1. PICK u \in Seq(S) : Append(state.rest, c) = u \o sep
    BY <1>1, <1>2, SuffixConcat
  <2>2. Append(state.lines, u) \in Seq(Seq(S))
    BY <1>1, AppendProperties
  <2>3. LineStep(sep, state, c)
          = [lines |-> Append(state.lines, u), rest |-> <<>>]
    BY <2>1, StepEnds
  <2>4. QED
    BY <1>1, <2>2, <2>3 DEF Readings
<1>3. CASE ~IsSuffix(sep, Append(state.rest, c))
  <2>1. LineStep(sep, state, c)
          = [lines |-> state.lines, rest |-> Append(state.rest, c)]
    BY <1>3, StepGoesOn
  <2>2. QED
    BY <1>1, <2>1 DEF Readings
<1>4. QED
  BY <1>2, <1>3

LEMMA ReadingType ==
  ASSUME NEW S, NEW sep \in Seq(S)
  PROVE  \A string \in Seq(S) : Reading(string, sep) \in Readings(S)
<1> DEFINE T == {string \in Seq(S) : Reading(string, sep) \in Readings(S)}
<1>1. <<>> \in T
  <2>1. <<>> \in Seq(S) /\ <<>> \in Seq(Seq(S))
    BY EmptySeq
  <2>2. Unread \in Readings(S)
    BY <2>1 DEF Unread, Readings
  <2>3. QED
    BY <2>1, <2>2, ReadingEmpty
<1>2. ASSUME NEW string \in T, NEW c \in S PROVE Append(string, c) \in T
  <2>1. Append(string, c) \in Seq(S)
    BY AppendProperties
  <2>2. Reading(Append(string, c), sep)
          = LineStep(sep, Reading(string, sep), c)
    BY ReadingAppend
  <2>3. QED
    BY <2>1, <2>2, StepType
<1>3. T \in SUBSET Seq(S)
  OBVIOUS
<1> HIDE DEF T
<1>4. \A string \in Seq(S) : string \in T
  BY <1>1, <1>2, <1>3, SequenceInduction
<1>5. QED
  BY <1>4 DEF T

LEMMA ReadingParts ==
  ASSUME NEW S, NEW sep \in Seq(S), NEW string \in Seq(S)
  PROVE  /\ Reading(string, sep).lines \in Seq(Seq(S))
         /\ Reading(string, sep).rest \in Seq(S)
         /\ Reading(string, sep)
              = [lines |-> Reading(string, sep).lines,
                 rest |-> Reading(string, sep).rest]
<1>1. Reading(string, sep) \in Readings(S)
  BY ReadingType
<1>2. QED
  BY <1>1 DEF Readings

(* What has been read does not matter for what is, but for the rest.       *)
After(l, a, b) == a.lines = l \o b.lines /\ a.rest = b.rest

LEMMA StepBehind ==
  ASSUME NEW S, NEW sep \in Seq(S), NEW l \in Seq(Seq(S)),
         NEW a \in Readings(S), NEW b \in Readings(S),
         After(l, a, b), NEW c \in S
  PROVE  After(l, LineStep(sep, a, c), LineStep(sep, b, c))
<1>1. b.lines \in Seq(Seq(S)) /\ Append(b.rest, c) \in Seq(S)
  BY AppendProperties DEF Readings
<1>2. CASE IsSuffix(sep, Append(b.rest, c))
  <2>1. PICK u \in Seq(S) : Append(b.rest, c) = u \o sep
    <3> DEFINE t == Append(b.rest, c)
    <3>1. t \in Seq(S) /\ IsSuffix(sep, t)
      BY <1>1, <1>2
    <3> HIDE DEF t
    <3>2. \E u \in Seq(S) : t = u \o sep
      BY <3>1, SuffixConcat
    <3>3. QED
      BY <3>2 DEF t
  <2>2. Append(a.rest, c) = u \o sep
    BY <2>1 DEF After
  <2>3. LineStep(sep, a, c) = [lines |-> Append(a.lines, u), rest |-> <<>>]
    BY <2>2, StepEnds
  <2>4. LineStep(sep, b, c) = [lines |-> Append(b.lines, u), rest |-> <<>>]
    BY <2>1, StepEnds
  <2>5. l \o Append(b.lines, u) = Append(l \o b.lines, u)
    <3> DEFINE k == b.lines
               Q == Seq(S)
    <3>1. k \in Seq(Q) /\ l \in Seq(Q) /\ u \in Q
      BY <1>1
    <3> HIDE DEF k, Q
    <3>2. l \o Append(k, u) = Append(l \o k, u)
      BY <3>1, ConcatAppend
    <3>3. QED
      BY <3>2 DEF k
  <2>6. LineStep(sep, a, c).lines = Append(l \o b.lines, u)
    BY <2>3 DEF After
  <2>7. LineStep(sep, b, c).lines = Append(b.lines, u)
    BY <2>4
  <2>8. LineStep(sep, a, c).rest = <<>> /\ LineStep(sep, b, c).rest = <<>>
    BY <2>3, <2>4
  <2>9. QED
    BY <2>5, <2>6, <2>7, <2>8 DEF After
<1>3. CASE ~IsSuffix(sep, Append(b.rest, c))
  <2>1. LineStep(sep, b, c)
          = [lines |-> b.lines, rest |-> Append(b.rest, c)]
    BY <1>3, StepGoesOn
  <2>2. ~IsSuffix(sep, Append(a.rest, c))
    BY <1>3 DEF After
  <2>3. LineStep(sep, a, c)
          = [lines |-> a.lines, rest |-> Append(a.rest, c)]
    BY <2>2, StepGoesOn
  <2>4. QED
    BY <2>1, <2>3 DEF After
<1>4. QED
  BY <1>2, <1>3

(* No line is in the rest.                                                 *)
LEMMA ReadingRest ==
  ASSUME NEW S, NEW sep \in Seq(S)
  PROVE  \A string \in Seq(S) :
           Reading(Reading(string, sep).rest, sep)
             = [lines |-> <<>>, rest |-> Reading(string, sep).rest]
<1> DEFINE Good(s) == Reading(s, sep) = [lines |-> <<>>, rest |-> s]
           T == {string \in Seq(S) : Good(Reading(string, sep).rest)}
<1>0. Good(<<>>)
  BY ReadingEmpty DEF Unread
<1>1. <<>> \in T
  <2>1. <<>> \in Seq(S)
    BY EmptySeq
  <2>2. Reading(<<>>, sep).rest = <<>>
    BY ReadingEmpty DEF Unread
  <2>3. QED
    BY <1>0, <2>1, <2>2
<1>2. ASSUME NEW string \in T, NEW c \in S PROVE Append(string, c) \in T
  <2> DEFINE r == Reading(string, sep).rest
             q == Reading(Append(string, c), sep).rest
  <2>1. Append(string, c) \in Seq(S) /\ Good(r) /\ string \in Seq(S)
    BY AppendProperties
  <2>2. /\ Reading(string, sep) \in Readings(S) /\ r \in Seq(S)
        /\ Append(r, c) \in Seq(S)
    BY <2>1, ReadingType, ReadingParts, AppendProperties
  <2>3. Reading(Append(string, c), sep)
          = LineStep(sep, Reading(string, sep), c)
    BY <2>1, ReadingAppend
  <2>4. CASE IsSuffix(sep, Append(r, c))
    <3>1. PICK u \in Seq(S) : Append(r, c) = u \o sep
      BY <2>2, <2>4, SuffixConcat
    <3> DEFINE state == Reading(string, sep)
    <3>2. q = <<>>
      <4>1. state \in Readings(S) /\ Append(state.rest, c) = u \o sep
        BY <2>2, <3>1
      <4> HIDE DEF state
      <4>2. LineStep(sep, state, c)
              = [lines |-> Append(state.lines, u), rest |-> <<>>]
        BY <4>1, StepEnds
      <4>3. LineStep(sep, state, c).rest = <<>>
        BY <4>2
      <4>4. QED
        BY <2>3, <4>3 DEF state
    <3>3. QED
      BY <1>0, <2>1, <3>2
  <2>5. CASE ~IsSuffix(sep, Append(r, c))
    <3>1. q = Append(r, c)
      BY <2>2, <2>3, <2>5, StepGoesOn
    <3>2. Reading(Append(r, c), sep) = LineStep(sep, Reading(r, sep), c)
      BY <2>2, ReadingAppend
    <3>3. Reading(r, sep) \in Readings(S) /\ Reading(r, sep).rest = r
      BY <2>1, <2>2, ReadingType
    <3>4. LineStep(sep, Reading(r, sep), c)
            = [lines |-> Reading(r, sep).lines, rest |-> Append(r, c)]
      <4> DEFINE rd == Reading(r, sep)
      <4>1. rd \in Readings(S) /\ rd.rest = r
        BY <3>3
      <4> HIDE DEF rd
      <4>2. ~IsSuffix(sep, Append(rd.rest, c))
        BY <2>5, <4>1
      <4>3. LineStep(sep, rd, c)
              = [lines |-> rd.lines, rest |-> Append(rd.rest, c)]
        BY <4>1, <4>2, StepGoesOn
      <4>4. QED
        BY <4>1, <4>3 DEF rd
    <3>5. Good(Append(r, c))
      BY <2>1, <3>2, <3>4
    <3>6. QED
      BY <2>1, <3>1, <3>5
  <2>6. QED
    BY <2>4, <2>5
<1>3. T \in SUBSET Seq(S)
  OBVIOUS
<1> HIDE DEF T
<1>4. \A string \in Seq(S) : string \in T
  BY <1>1, <1>2, <1>3, SequenceInduction
<1>5. QED
  BY <1>4 DEF T

(* Wherever a text is divided: the lines of the first part, and the lines  *)
(* of what is left of it with the second part behind it.                   *)
LEMMA ReadingConcat ==
  ASSUME NEW S, NEW sep \in Seq(S), NEW s \in Seq(S)
  PROVE  \A t \in Seq(S) :
           /\ Reading(s \o t, sep).lines
                = Reading(s, sep).lines
                    \o Reading(Reading(s, sep).rest \o t, sep).lines
           /\ Reading(s \o t, sep).rest
                = Reading(Reading(s, sep).rest \o t, sep).rest
<1> DEFINE r == Reading(s, sep).rest
           l == Reading(s, sep).lines
           Good(t) == /\ Reading(s \o t, sep).lines
                           = l \o Reading(r \o t, sep).lines
                      /\ Reading(s \o t, sep).rest = Reading(r \o t, sep).rest
           T == {t \in Seq(S) : Good(t)}
<1>1. r \in Seq(S) /\ l \in Seq(Seq(S))
  BY ReadingParts
<1>2. <<>> \in T
  <2>1. <<>> \in Seq(S) /\ s \o <<>> = s /\ r \o <<>> = r
    BY <1>1, ConcatEmptySeq, EmptySeq
  <2>2. Reading(r, sep) = [lines |-> <<>>, rest |-> r]
    BY ReadingRest
  <2>3. l \o <<>> = l
    BY <1>1, ConcatEmptySeq
  <2>4. Reading(s \o <<>>, sep) = Reading(s, sep)
        /\ Reading(r \o <<>>, sep) = Reading(r, sep)
    BY <2>1
  <2>5. Good(<<>>)
    <3>1. Reading(s \o <<>>, sep).lines = l /\ Reading(s \o <<>>, sep).rest = r
      BY <2>4
    <3>2. /\ Reading(r \o <<>>, sep).lines = <<>>
          /\ Reading(r \o <<>>, sep).rest = r
      BY <2>2, <2>4
    <3> HIDE DEF l, r
    <3>3. QED
      BY <2>3, <3>1, <3>2
  <2>6. QED
    BY <2>1, <2>5
<1> HIDE DEF r, l
<1>3. ASSUME NEW t \in T, NEW c \in S PROVE Append(t, c) \in T
  <2>1. /\ s \o t \in Seq(S) /\ r \o t \in Seq(S) /\ Append(t, c) \in Seq(S)
        /\ s \o Append(t, c) = Append(s \o t, c)
        /\ r \o Append(t, c) = Append(r \o t, c)
    <3>1. t \in Seq(S)
      OBVIOUS
    <3> HIDE DEF T
    <3>2. s \o t \in Seq(S) /\ r \o t \in Seq(S) /\ Append(t, c) \in Seq(S)
      BY <1>1, <3>1, ConcatProperties, AppendProperties
    <3>3. s \o Append(t, c) = Append(s \o t, c)
      BY <3>1, ConcatAppend
    <3>4. r \o Append(t, c) = Append(r \o t, c)
      BY <1>1, <3>1, ConcatAppend
    <3>5. QED
      BY <3>2, <3>3, <3>4
  <2> DEFINE a == Reading(s \o t, sep)
             b == Reading(r \o t, sep)
  <2>2. a \in Readings(S) /\ b \in Readings(S)
    BY <2>1, ReadingType
  <2>3. After(l, a, b)
    BY DEF After
  <2>4. /\ Reading(Append(s \o t, c), sep) = LineStep(sep, a, c)
        /\ Reading(Append(r \o t, c), sep) = LineStep(sep, b, c)
    BY <2>1, ReadingAppend
  <2> HIDE DEF a, b
  <2>5. After(l, LineStep(sep, a, c), LineStep(sep, b, c))
    BY <1>1, <2>2, <2>3, StepBehind
  <2>6. Good(Append(t, c))
    BY <2>1, <2>4, <2>5 DEF After
  <2>7. QED
    BY <2>1, <2>6
<1>4. T \in SUBSET Seq(S)
  OBVIOUS
<1> HIDE DEF T
<1>5. \A t \in Seq(S) : t \in T
  BY <1>2, <1>3, <1>4, SequenceInduction
<1>6. QED
  BY <1>5 DEF T, r, l

-----------------------------------------------------------------------------
(* Where a separator occurs.                                               *)

LEMMA Occurs ==
  ASSUME NEW s, NEW sep
  PROVE  Split!Occurrences(s, sep)
           = {i \in 1..Len(s) : IsPrefix(sep, SubSeq(s, i, Len(s)))}
BY DEF Split!Occurrences, Split!IsPrefix, IsPrefix

LEMMA OccurrenceIs ==
  ASSUME NEW S, NEW s \in Seq(S), NEW sep \in Seq(S), sep # <<>>,
         NEW u \in Seq(S), NEW v \in Seq(S), s = (u \o sep) \o v
  PROVE  /\ Len(u) + 1 \in Split!Occurrences(s, sep)
         /\ SubSeq(s, 1, Len(u)) = u
         /\ SubSeq(s, Len(u) + 1 + Len(sep), Len(s)) = v
         /\ Len(v) < Len(s)
<1>1. s = u \o (sep \o v) /\ sep \o v \in Seq(S) /\ u \o sep \in Seq(S)
  BY ConcatAssociative, ConcatProperties
<1>2. /\ Len(s) = Len(u) + (Len(sep) + Len(v)) /\ Len(sep) # 0
      /\ Len(u \o sep) = Len(u) + Len(sep)
      /\ Len(u) \in Nat /\ Len(sep) \in Nat /\ Len(v) \in Nat
  BY <1>1, ConcatProperties, EmptySeq
<1> DEFINE k == Len(u)
           l == Len(sep)
           n == Len(s)
<1>3. /\ k + 1 \in 1..n /\ k + l + 1 = k + 1 + l /\ Len(v) < n
  BY <1>2
<1>4. SubSeq(s, k + 1, n) = sep \o v
  <2> DEFINE w == sep \o v
  <2>1. w \in Seq(S) /\ s = u \o w
    BY <1>1
  <2> HIDE DEF w
  <2>2. SubSeq(u \o w, Len(u) + 1, Len(u \o w)) = w
    BY <2>1, SubSeqBack
  <2>3. QED
    BY <2>1, <2>2 DEF w
<1>5. IsPrefix(sep, sep \o v)
  BY <1>1, BeginsConcat, BeginsPointwise
<1>6. k + 1 \in Split!Occurrences(s, sep)
  <2> HIDE DEF k, n
  <2>1. IsPrefix(sep, SubSeq(s, k + 1, n))
    BY <1>4, <1>5
  <2>2. k + 1 \in {i \in 1..n : IsPrefix(sep, SubSeq(s, i, n))}
    BY <1>3, <2>1
  <2>3. QED
    BY <2>2, Occurs DEF n
<1>7. SubSeq(s, 1, k) = u
  <2> DEFINE w == sep \o v
  <2>1. w \in Seq(S) /\ s = u \o w
    BY <1>1
  <2> HIDE DEF w
  <2>2. QED
    BY <2>1, SubSeqFront
<1>8. SubSeq(s, k + 1 + l, n) = v
  <2> DEFINE w == u \o sep
  <2>1. w \in Seq(S) /\ s = w \o v /\ Len(w) + 1 = k + 1 + l
    BY <1>1, <1>2, <1>3
  <2> HIDE DEF w, k, l, n
  <2>2. SubSeq(w \o v, Len(w) + 1, Len(w \o v)) = v
    BY <2>1, SubSeqBack
  <2>3. QED
    BY <2>1, <2>2 DEF n
<1>9. QED
  BY <1>3, <1>6, <1>7, <1>8

LEMMA OccurrenceDivides ==
  ASSUME NEW S, NEW s \in Seq(S), NEW sep \in Seq(S),
         NEW i \in Split!Occurrences(s, sep)
  PROVE  \E u \in Seq(S), v \in Seq(S) :
           s = (u \o sep) \o v /\ Len(u) = i - 1
<1> DEFINE n == Len(s)
           u == SubSeq(s, 1, i - 1)
           w == SubSeq(s, i, n)
<1>1. i \in 1..n /\ IsPrefix(sep, w) /\ n \in Nat
  <2>1. i \in {j \in 1..n : IsPrefix(sep, SubSeq(s, j, n))}
    BY Occurs
  <2>2. QED
    BY <2>1
<1>2. \A j \in 1..n : s[j] \in S
  BY ElementOfSeq
<1> HIDE DEF n, w
<1>3. w \in Seq(S)
  <2>1. i \in Int /\ n \in Int /\ \A j \in i..n : s[j] \in S
    BY <1>1, <1>2
  <2>2. QED
    BY <2>1, SubSeqProperties DEF w
<1>4. u \in Seq(S) /\ Len(u) = i - 1
  <2> DEFINE h == i - 1
  <2>1. 1 \in Int /\ h \in Int /\ \A j \in 1..h : s[j] \in S
    BY <1>1, <1>2
  <2>2. h \in Nat
    BY <1>1
  <2> HIDE DEF h
  <2>3. /\ SubSeq(s, 1, h) \in Seq(S)
        /\ Len(SubSeq(s, 1, h)) = IF 1 <= h THEN h - 1 + 1 ELSE 0
    BY <2>1, SubSeqProperties
  <2>4. SubSeq(s, 1, h) \in Seq(S) /\ Len(SubSeq(s, 1, h)) = h
    BY <2>2, <2>3
  <2>5. QED
    BY <2>4 DEF h
<1>5. u \o w = s
  <2> DEFINE h == i - 1
  <2>1. /\ 1 \in 1..n + 1 /\ h \in 1 - 1..n /\ n \in h..n /\ h + 1 = i
    BY <1>1
  <2>2. /\ 1 \in 1..Len(s) + 1 /\ h \in 1 - 1..Len(s) /\ n \in h..Len(s)
    BY <2>1 DEF n
  <2> HIDE DEF h
  <2>3. SubSeq(s, 1, h) \o SubSeq(s, h + 1, n) = SubSeq(s, 1, n)
    BY <2>2, ConcatAdjacentSubSeq
  <2>4. SubSeq(s, 1, n) = s
    BY SubSeqFull DEF n
  <2>5. QED
    BY <2>1, <2>3, <2>4 DEF w, h
<1> HIDE DEF u
<1>6. PICK v \in Seq(S) : w = sep \o v
  <2>1. Len(sep) <= Len(w) /\ \A j \in 1..Len(sep) : sep[j] = w[j]
    <3>1. \A a, b \in Seq(S) :
            IsPrefix(a, b) =>
              Len(a) <= Len(b) /\ \A j \in 1..Len(a) : a[j] = b[j]
      BY PrefixPointwise
    <3>2. QED
      BY <1>1, <1>3, <3>1
  <2>2. Begins(sep, w, S)
    BY <1>3, <2>1, PointwiseBegins
  <2>3. QED
    BY <2>2 DEF Begins
<1>7. s = (u \o sep) \o v
  <2>1. (u \o sep) \o v = u \o (sep \o v)
    <3>1. Regroups(u, sep, v)
      BY <1>4, Associative
    <3>2. QED
      BY <3>1 DEF Regroups
  <2>2. QED
    BY <1>5, <1>6, <2>1
<1>8. QED
  BY <1>4, <1>7

(* The leftmost occurrence divides a text in two.                          *)
LEMMA LeftmostDivides ==
  ASSUME NEW S, NEW s \in Seq(S), NEW sep \in Seq(S), sep # <<>>,
         Split!Occurrences(s, sep) # {}
  PROVE  LET i == Split!Leftmost(Split!Occurrences(s, sep))
             u == SubSeq(s, 1, i - 1)
             v == SubSeq(s, i + Len(sep), Len(s))
         IN  /\ i \in Split!Occurrences(s, sep)
             /\ \A j \in Split!Occurrences(s, sep) : i <= j
             /\ u \in Seq(S) /\ v \in Seq(S) /\ Len(u) = i - 1
             /\ s = (u \o sep) \o v
             /\ Len(v) < Len(s)
<1> DEFINE O == Split!Occurrences(s, sep)
           i == Split!Leftmost(O)
<1>1. O \in SUBSET Nat
  BY Occurs
<1>2. i \in O /\ \A j \in O : i <= j
  BY <1>1, Least DEF Split!Leftmost
<1> HIDE DEF i
<1>3. PICK u \in Seq(S), v \in Seq(S) : s = (u \o sep) \o v /\ Len(u) = i - 1
  <2>1. \A j \in O : \E u \in Seq(S), v \in Seq(S) :
                       s = (u \o sep) \o v /\ Len(u) = j - 1
    BY OccurrenceDivides
  <2> HIDE DEF O
  <2>2. QED
    BY <1>2, <2>1
<1>4. /\ SubSeq(s, 1, Len(u)) = u
      /\ SubSeq(s, Len(u) + 1 + Len(sep), Len(s)) = v
      /\ Len(v) < Len(s)
  BY <1>3, OccurrenceIs
<1>5. Len(u) + 1 = i /\ Len(u) \in Nat
  BY <1>1, <1>2, <1>3
<1>6. QED
  BY <1>2, <1>3, <1>4, <1>5 DEF i

-----------------------------------------------------------------------------
(* String.prototype.split is what it says it is, on texts of every length. *)

Cuts(s, sep) == Split!Leftmost(Split!Occurrences(s, sep))
Before(s, sep) == SubSeq(s, 1, Cuts(s, sep) - 1)
Behind(s, sep) == SubSeq(s, Cuts(s, sep) + Len(sep), Len(s))

SplitStep(f, s, sep) ==
  IF Split!Occurrences(s, sep) = {} THEN <<s>>
  ELSE <<Before(s, sep)>> \o f[Behind(s, sep)]

Short(n) == {s \in Seq(Character) : Len(s) <= n}

SplitsTo(f, sep, n) == f = [s \in Short(n) |-> SplitStep(f, s, sep)]

LEMMA SplitsToAt ==
  ASSUME NEW f, NEW sep, NEW n \in Nat, SplitsTo(f, sep, n), NEW s \in Short(n)
  PROVE  f[s] = SplitStep(f, s, sep)
<1> DEFINE e(t) == SplitStep(f, t, sep)
<1>1. f = [t \in Short(n) |-> e(t)]
  BY DEF SplitsTo
<1> HIDE DEF e
<1>2. f[s] = e(s)
  BY <1>1
<1>3. QED
  BY <1>2 DEF e

LEMMA BehindShorter ==
  ASSUME NEW s \in Seq(Character), NEW sep \in Seq(Character), sep # <<>>,
         Split!Occurrences(s, sep) # {}
  PROVE  Behind(s, sep) \in Seq(Character) /\ Len(Behind(s, sep)) < Len(s)
BY LeftmostDivides DEF Behind, Cuts

LEMMA SplitsToSomething ==
  ASSUME NEW sep \in Seq(Character), sep # <<>>
  PROVE  \A n \in Nat : \E f : SplitsTo(f, sep, n)
<1> DEFINE T == {n \in Nat : \E f : SplitsTo(f, sep, n)}
<1>1. 0 \in T
  <2> DEFINE f == [s \in Short(0) |-> <<s>>]
  <2>1. ASSUME NEW s \in Short(0) PROVE SplitStep(f, s, sep) = <<s>>
    <3>1. s \in Seq(Character) /\ Len(s) \in Nat /\ Len(s) <= 0
      BY DEF Short
    <3>2. 1..Len(s) = {}
      BY <3>1
    <3>3. Split!Occurrences(s, sep) = {}
      BY <3>2, Occurs
    <3> HIDE DEF f
    <3>4. QED
      BY <3>3 DEF SplitStep
  <2>2. f = [s \in Short(0) |-> SplitStep(f, s, sep)]
    <3> DEFINE e(s) == SplitStep(f, s, sep)
    <3>1. \A s \in Short(0) : <<s>> = e(s)
      BY <2>1
    <3> HIDE DEF e
    <3>2. f = [s \in Short(0) |-> e(s)]
      BY <3>1
    <3>3. QED
      BY <3>2 DEF e
  <2> HIDE DEF f
  <2>3. SplitsTo(f, sep, 0)
    BY <2>2 DEF SplitsTo
  <2>4. QED
    BY <2>3
<1>2. ASSUME NEW n \in T PROVE n + 1 \in T
  <2>1. PICK f : SplitsTo(f, sep, n)
    OBVIOUS
  <2> DEFINE k == n + 1
             e(s) == SplitStep(f, s, sep)
             g == [s \in Short(k) |-> e(s)]
  <2>2. n \in Nat /\ k \in Nat
    OBVIOUS
  <2>3. ASSUME NEW s \in Short(k) PROVE e(s) = SplitStep(g, s, sep)
    <3>1. s \in Seq(Character) /\ Len(s) \in Nat /\ Len(s) <= k
      BY DEF Short
    <3>2. CASE Split!Occurrences(s, sep) = {}
      <4> HIDE DEF g
      <4>1. QED
        BY <3>2 DEF SplitStep
    <3>3. CASE Split!Occurrences(s, sep) # {}
      <4> DEFINE t == Behind(s, sep)
      <4>1. t \in Seq(Character) /\ Len(t) < Len(s)
        BY <3>1, <3>3, BehindShorter
      <4> HIDE DEF t
      <4>2. Len(t) \in Nat /\ Len(t) <= n /\ Len(t) <= k
        BY <2>2, <3>1, <4>1
      <4>3. t \in Short(n) /\ t \in Short(k)
        BY <4>1, <4>2 DEF Short
      <4>4. f[t] = e(t)
        BY <2>1, <2>2, <4>3, SplitsToAt
      <4>5. g[t] = e(t)
        <5> HIDE DEF e
        <5>1. QED
          BY <4>3
      <4> HIDE DEF g
      <4>6. /\ e(s) = <<Before(s, sep)>> \o f[t]
            /\ SplitStep(g, s, sep) = <<Before(s, sep)>> \o g[t]
        BY <3>3 DEF SplitStep, t
      <4> HIDE DEF e
      <4>7. QED
        BY <4>4, <4>5, <4>6
    <3>4. QED
      BY <3>2, <3>3
  <2>4. SplitsTo(g, sep, k)
    <3> DEFINE h(s) == SplitStep(g, s, sep)
    <3>1. \A s \in Short(k) : e(s) = h(s)
      BY <2>3
    <3> HIDE DEF e, h
    <3>2. g = [s \in Short(k) |-> h(s)]
      BY <3>1
    <3> HIDE DEF g
    <3>3. QED
      BY <3>2 DEF h, SplitsTo
  <2> HIDE DEF g
  <2>5. QED
    BY <2>2, <2>4
<1>3. T \in SUBSET Nat
  OBVIOUS
<1> HIDE DEF T
<1>4. \A n \in Nat : n \in T
  BY <1>1, <1>2, <1>3, NumberInduction
<1>5. QED
  BY <1>4 DEF T

LEMMA SplitsToOne ==
  ASSUME NEW sep \in Seq(Character), sep # <<>>,
         NEW f, NEW m \in Nat, SplitsTo(f, sep, m),
         NEW g, NEW n \in Nat, SplitsTo(g, sep, n), m <= n
  PROVE  \A s \in Short(m) : f[s] = g[s]
<1> DEFINE T == {k \in Nat : \A s \in Short(m) : Len(s) < k => f[s] = g[s]}
<1>0. \A s \in Short(m) : s \in Seq(Character) /\ Len(s) \in Nat
                          /\ Len(s) <= m /\ s \in Short(n)
  BY DEF Short
<1>1. 0 \in T
  BY <1>0
<1>2. ASSUME NEW k \in T PROVE k + 1 \in T
  <2>1. k \in Nat /\ \A s \in Short(m) : Len(s) < k => f[s] = g[s]
    OBVIOUS
  <2>2. ASSUME NEW s \in Short(m), Len(s) < k + 1 PROVE f[s] = g[s]
    <3>1. f[s] = SplitStep(f, s, sep) /\ g[s] = SplitStep(g, s, sep)
      BY <1>0, SplitsToAt
    <3>2. CASE Split!Occurrences(s, sep) = {}
      BY <3>1, <3>2 DEF SplitStep
    <3>3. CASE Split!Occurrences(s, sep) # {}
      <4> DEFINE t == Behind(s, sep)
      <4>1. t \in Seq(Character) /\ Len(t) < Len(s)
        BY <1>0, <3>3, BehindShorter
      <4>2. /\ f[s] = <<Before(s, sep)>> \o f[t]
            /\ g[s] = <<Before(s, sep)>> \o g[t]
        BY <3>1, <3>3 DEF SplitStep
      <4> HIDE DEF t
      <4>3. Len(t) \in Nat /\ Len(t) < k /\ Len(t) <= m
        BY <1>0, <2>1, <2>2, <4>1
      <4>4. t \in Short(m)
        BY <4>1, <4>3 DEF Short
      <4>5. QED
        BY <2>1, <4>2, <4>3, <4>4
    <3>4. QED
      BY <3>2, <3>3
  <2>3. k + 1 \in Nat
    BY <2>1
  <2>4. QED
    BY <2>2, <2>3
<1>3. T \in SUBSET Nat
  OBVIOUS
<1> HIDE DEF T
<1>4. \A k \in Nat : k \in T
  BY <1>1, <1>2, <1>3, NumberInduction
<1>5. ASSUME NEW s \in Short(m) PROVE f[s] = g[s]
  <2>1. Len(s) + 1 \in Nat /\ Len(s) < Len(s) + 1
    BY <1>0
  <2>2. Len(s) + 1 \in T
    BY <1>4, <2>1
  <2>3. QED
    BY <2>1, <2>2 DEF T
<1>6. QED
  BY <1>5

LEMMA SplitUnfolds ==
  ASSUME NEW sep \in Seq(Character), sep # <<>>
  PROVE  \E f : /\ \A s \in Seq(Character) : f[s] = SplitStep(f, s, sep)
                /\ \A s : Split!Split(s, sep) = f[s]
<1> DEFINE G(n) == CHOOSE f : SplitsTo(f, sep, n)
           e(s) == G(Len(s))[s]
           F == [s \in Seq(Character) |-> e(s)]
<1>1. \A n \in Nat : SplitsTo(G(n), sep, n)
  BY SplitsToSomething
<1>2. \A s \in Seq(Character) : Len(s) \in Nat /\ s \in Short(Len(s))
  BY DEF Short
<1> HIDE DEF G
<1>3. ASSUME NEW s \in Seq(Character) PROVE e(s) = SplitStep(F, s, sep)
  <2>1. e(s) = SplitStep(G(Len(s)), s, sep)
    BY <1>1, <1>2, SplitsToAt
  <2>2. CASE Split!Occurrences(s, sep) = {}
    <3> HIDE DEF F, e
    <3>1. QED
      BY <2>1, <2>2 DEF SplitStep
  <2>3. CASE Split!Occurrences(s, sep) # {}
    <3> DEFINE t == Behind(s, sep)
               g == G(Len(s))
               h == G(Len(t))
               m == Len(t)
               n == Len(s)
    <3>1. t \in Seq(Character) /\ Len(t) < Len(s)
      BY <2>3, BehindShorter
    <3>2. e(s) = <<Before(s, sep)>> \o g[t]
      BY <2>1, <2>3 DEF SplitStep
    <3>3. SplitStep(F, s, sep) = <<Before(s, sep)>> \o F[t]
      <4> HIDE DEF F
      <4>1. QED
        BY <2>3 DEF SplitStep
    <3>4. F[t] = e(t)
      <4> HIDE DEF e, t
      <4>1. QED
        BY <3>1
    <3>5. e(t) = h[t]
      OBVIOUS
    <3>6. SplitsTo(h, sep, m) /\ SplitsTo(g, sep, n)
      <4>1. t \in Seq(Character)
        BY <3>1
      <4> HIDE DEF t
      <4>2. QED
        BY <1>1, <1>2, <4>1
    <3>7. m \in Nat /\ n \in Nat /\ m <= n /\ t \in Short(m)
      <4>1. t \in Seq(Character) /\ m < n
        BY <3>1
      <4> HIDE DEF t
      <4>2. m \in Nat /\ n \in Nat /\ t \in Short(m)
        BY <1>2, <4>1
      <4>3. m <= n
        BY <4>1, <4>2
      <4>4. QED
        BY <4>2, <4>3
    <3> HIDE DEF F, e, t, g, h, m, n
    <3>8. h[t] = g[t]
      BY <3>6, <3>7, SplitsToOne
    <3>9. QED
      BY <3>2, <3>3, <3>4, <3>5, <3>8
  <2>4. QED
    BY <2>2, <2>3
<1> DEFINE Solves(f) == f = [s \in Seq(Character) |-> SplitStep(f, s, sep)]
           f == CHOOSE f : Solves(f)
<1>4. Solves(F)
  <2> DEFINE h(s) == SplitStep(F, s, sep)
  <2>1. \A s \in Seq(Character) : e(s) = h(s)
    BY <1>3
  <2> HIDE DEF e, h
  <2>2. F = [s \in Seq(Character) |-> h(s)]
    BY <2>1
  <2> HIDE DEF F
  <2>3. QED
    BY <2>2 DEF h
<1> HIDE DEF F
<1>5. Solves(f)
  <2> HIDE DEF Solves
  <2>1. QED
    BY <1>4
<1>6. \A s : Split!Split(s, sep) = f[s]
  BY DEF Split!Split, SplitStep, Before, Behind, Cuts
<1> HIDE DEF f
<1>7. \A s \in Seq(Character) : f[s] = SplitStep(f, s, sep)
  <2> DEFINE h(s) == SplitStep(f, s, sep)
  <2>1. f = [s \in Seq(Character) |-> h(s)]
    BY <1>5
  <2> HIDE DEF h, Solves
  <2>2. \A s \in Seq(Character) : f[s] = h(s)
    BY <2>1
  <2>3. QED
    BY <2>2 DEF h
<1>8. QED
  BY <1>6, <1>7

LEMMA SplitIs ==
  ASSUME NEW sep \in Seq(Character), sep # <<>>, NEW s \in Seq(Character)
  PROVE  Split!Split(s, sep)
           = IF Split!Occurrences(s, sep) = {} THEN <<s>>
             ELSE <<Before(s, sep)>> \o Split!Split(Behind(s, sep), sep)
<1>1. PICK f : /\ \A t \in Seq(Character) : f[t] = SplitStep(f, t, sep)
               /\ \A t : Split!Split(t, sep) = f[t]
  BY SplitUnfolds
<1>2. Split!Split(s, sep) = SplitStep(f, s, sep)
  BY <1>1
<1>3. Split!Split(Behind(s, sep), sep) = f[Behind(s, sep)]
  BY <1>1
<1>4. QED
  BY <1>2, <1>3 DEF SplitStep

-----------------------------------------------------------------------------
(* What split cuts are the lines that are read.                            *)

Has(s, sep, S) == \E u \in Seq(S), v \in Seq(S) : s = (u \o sep) \o v

LEMMA ReadingNothing ==
  ASSUME NEW S, NEW sep \in Seq(S)
  PROVE  \A s \in Seq(S) :
           ~Has(s, sep, S) => Reading(s, sep) = [lines |-> <<>>, rest |-> s]
<1> DEFINE Good(s) == ~Has(s, sep, S) =>
                        Reading(s, sep) = [lines |-> <<>>, rest |-> s]
           T == {s \in Seq(S) : Good(s)}
<1>1. <<>> \in T
  <2>1. <<>> \in Seq(S)
    BY EmptySeq
  <2>2. QED
    BY <2>1, ReadingEmpty DEF Unread
<1>2. ASSUME NEW s \in T, NEW c \in S PROVE Append(s, c) \in T
  <2>0. s \in Seq(S) /\ Good(s)
    OBVIOUS
  <2>1. Append(s, c) \in Seq(S)
    BY <2>0, AppendProperties
  <2>2. ASSUME ~Has(Append(s, c), sep, S)
        PROVE  Reading(Append(s, c), sep)
                 = [lines |-> <<>>, rest |-> Append(s, c)]
    <3>1. ~Has(s, sep, S)
      <4>1. SUFFICES ASSUME NEW u \in Seq(S), NEW v \in Seq(S),
                            s = (u \o sep) \o v
                     PROVE  FALSE
        BY DEF Has
      <4>2. u \o sep \in Seq(S) /\ Append(v, c) \in Seq(S)
        BY ConcatProperties, AppendProperties
      <4>3. (u \o sep) \o Append(v, c) = Append(s, c)
        BY <4>1, <4>2, ConcatAppend
      <4>4. QED
        BY <2>2, <4>2, <4>3 DEF Has
    <3>2. Reading(s, sep) = [lines |-> <<>>, rest |-> s]
      BY <2>0, <3>1
    <3>3. ~IsSuffix(sep, Append(s, c))
      <4>1. SUFFICES ASSUME NEW u \in Seq(S), Append(s, c) = u \o sep
                     PROVE  FALSE
        BY <2>1, SuffixConcat
      <4>2. u \o sep \in Seq(S) /\ <<>> \in Seq(S)
        BY ConcatProperties, EmptySeq
      <4>3. (u \o sep) \o <<>> = Append(s, c)
        BY <4>1, <4>2, ConcatEmptySeq
      <4>4. QED
        BY <2>2, <4>2, <4>3 DEF Has
    <3> DEFINE state == Reading(s, sep)
    <3>4. state \in Readings(S) /\ state.rest = s /\ state.lines = <<>>
      BY <2>0, <3>2, ReadingType
    <3>5. Reading(Append(s, c), sep) = LineStep(sep, state, c)
      BY <2>0, ReadingAppend
    <3> HIDE DEF state
    <3>6. LineStep(sep, state, c)
            = [lines |-> state.lines, rest |-> Append(state.rest, c)]
      BY <3>3, <3>4, StepGoesOn
    <3>7. QED
      BY <3>4, <3>5, <3>6
  <2>3. QED
    BY <2>1, <2>2
<1>3. T \in SUBSET Seq(S)
  OBVIOUS
<1> HIDE DEF T
<1>4. \A s \in Seq(S) : s \in T
  BY <1>1, <1>2, <1>3, SequenceInduction
<1>5. QED
  BY <1>4 DEF T

Divided(s, u, sep, v) == s = (u \o sep) \o v

(* As far as the first separator, a text is one line.                      *)
LEMMA ReadingFirst ==
  ASSUME NEW S, NEW s \in Seq(S), NEW sep \in Seq(S), sep # <<>>,
         NEW u \in Seq(S), NEW v \in Seq(S), Divided(s, u, sep, v),
         \A j \in Split!Occurrences(s, sep) : Len(u) + 1 <= j
  PROVE  Reading(u \o sep, sep) = [lines |-> <<u>>, rest |-> <<>>]
<1>0. \A a, b, c \in Seq(S) : Regroups(a, b, c)
  BY Associative
<1>1. PICK p \in Seq(S), x \in S : sep = Append(p, x)
  BY SequenceEmptyOrAppend
<1> DEFINE w == u \o p
<1>2. w \in Seq(S) /\ u \o sep = Append(w, x) /\ u \o sep \in Seq(S)
  <2>1. u \o Append(p, x) = Append(u \o p, x)
    BY ConcatAppend
  <2>2. u \o p \in Seq(S) /\ u \o sep \in Seq(S)
    BY ConcatProperties
  <2>3. QED
    BY <1>1, <2>1, <2>2
<1>3. /\ Len(w) = Len(u) + Len(p) /\ Len(sep) = Len(p) + 1
      /\ Len(u) \in Nat /\ Len(p) \in Nat
  BY <1>1, ConcatProperties, AppendProperties
<1>4. s = w \o (<<x>> \o v) /\ <<x>> \o v \in Seq(S)
  <2>1. <<x>> \in Seq(S) /\ Append(w, x) = w \o <<x>>
    BY <1>2, AppendIsConcat
  <2>2. (w \o <<x>>) \o v = w \o (<<x>> \o v)
    <3> DEFINE e == <<x>>
    <3>1. w \in Seq(S) /\ e \in Seq(S)
      BY <1>2, <2>1
    <3> HIDE DEF w, e
    <3>2. Regroups(w, e, v)
      BY <1>0, <3>1
    <3>3. QED
      BY <3>2 DEF e, Regroups
  <2>3. <<x>> \o v \in Seq(S)
    BY <2>1, ConcatProperties
  <2>4. QED
    BY <1>2, <2>1, <2>2, <2>3 DEF Divided
<1> HIDE DEF w
<1>5. ~Has(w, sep, S)
  <2>1. SUFFICES ASSUME NEW a \in Seq(S), NEW b \in Seq(S),
                        w = (a \o sep) \o b
                 PROVE  FALSE
    BY DEF Has
  <2> DEFINE d == <<x>> \o v
             as == a \o sep
  <2>2. d \in Seq(S) /\ as \in Seq(S) /\ s = w \o d /\ w = as \o b
    BY <1>4, <2>1, ConcatProperties
  <2>3. /\ Len(as) = Len(a) + Len(sep) /\ Len(a) \in Nat
    BY ConcatProperties
  <2> HIDE DEF d, as
  <2>4. (as \o b) \o d = as \o (b \o d) /\ b \o d \in Seq(S)
    <3>1. as \in Seq(S) /\ d \in Seq(S)
      BY <2>2
    <3>2. Regroups(as, b, d)
      BY <1>0, <3>1
    <3>3. b \o d \in Seq(S)
      BY <3>1, ConcatProperties
    <3>4. QED
      BY <3>2, <3>3 DEF Regroups
  <2>5. s = (a \o sep) \o (b \o d)
    BY <2>2, <2>4 DEF as
  <2>6. Len(a) + 1 \in Split!Occurrences(s, sep)
    BY <2>4, <2>5, OccurrenceIs
  <2>7. Len(u) <= Len(a)
    <3>1. Len(u) + 1 <= Len(a) + 1
      BY <2>6
    <3>2. QED
      BY <1>3, <2>3, <3>1
  <2>8. Len(w) = Len(as) + Len(b) /\ Len(b) \in Nat
    BY <2>2, ConcatProperties
  <2>9. QED
    BY <1>3, <2>3, <2>7, <2>8
<1>6. Reading(w, sep) = [lines |-> <<>>, rest |-> w]
  BY <1>2, <1>5, ReadingNothing
<1> DEFINE state == Reading(w, sep)
<1>7. state \in Readings(S) /\ state.rest = w /\ state.lines = <<>>
  BY <1>2, <1>6, ReadingType
<1>8. Reading(u \o sep, sep) = LineStep(sep, state, x)
  BY <1>2, ReadingAppend
<1> HIDE DEF state
<1>9. LineStep(sep, state, x)
        = [lines |-> Append(state.lines, u), rest |-> <<>>]
  <2>1. Append(state.rest, x) = u \o sep
    BY <1>2, <1>7
  <2>2. QED
    BY <1>7, <2>1, StepEnds
<1>10. Append(<<>>, u) = <<u>>
  OBVIOUS
<1>11. QED
  BY <1>7, <1>8, <1>9, <1>10

LEMMA SplitReads ==
  ASSUME NEW sep \in Seq(Character), sep # <<>>
  PROVE  \A s \in Seq(Character) :
           Split!Split(s, sep)
             = Append(Reading(s, sep).lines, Reading(s, sep).rest)
<1> DEFINE C == Character
           Good(s) == Split!Split(s, sep)
                        = Append(Reading(s, sep).lines, Reading(s, sep).rest)
           T == {n \in Nat : \A s \in Seq(C) : Len(s) < n => Good(s)}
<1>0. \A s \in Seq(C) : Len(s) \in Nat
  OBVIOUS
<1>1. 0 \in T
  BY <1>0
<1>2. ASSUME NEW n \in T PROVE n + 1 \in T
  <2>1. n \in Nat /\ \A s \in Seq(C) : Len(s) < n => Good(s)
    OBVIOUS
  <2>2. ASSUME NEW s \in Seq(C), Len(s) < n + 1 PROVE Good(s)
    <3>1. CASE Split!Occurrences(s, sep) = {}
      <4>1. ~Has(s, sep, C)
        BY <3>1, OccurrenceIs DEF Has
      <4>2. Reading(s, sep) = [lines |-> <<>>, rest |-> s]
        BY <4>1, ReadingNothing
      <4>3. Split!Split(s, sep) = <<s>>
        BY <3>1, SplitIs
      <4>4. Append(<<>>, s) = <<s>>
        OBVIOUS
      <4>5. QED
        BY <4>2, <4>3, <4>4
    <3>2. CASE Split!Occurrences(s, sep) # {}
      <4> DEFINE u == Before(s, sep)
                 v == Behind(s, sep)
                 i == Cuts(s, sep)
      <4>1. /\ u \in Seq(C) /\ v \in Seq(C) /\ Len(u) = i - 1
            /\ s = (u \o sep) \o v /\ Len(v) < Len(s)
            /\ i \in Split!Occurrences(s, sep)
            /\ \A j \in Split!Occurrences(s, sep) : i <= j
        BY <3>2, LeftmostDivides DEF Before, Behind, Cuts
      <4>2. Split!Split(s, sep) = <<u>> \o Split!Split(v, sep)
        BY <3>2, SplitIs
      <4> HIDE DEF u, v, i
      <4>3. i \in Nat
        BY <4>1, Occurs
      <4>4. \A j \in Split!Occurrences(s, sep) : Len(u) + 1 <= j
        <5>1. Len(u) + 1 = i
          BY <4>1, <4>3
        <5>2. QED
          BY <4>1, <5>1
      <4>5. Reading(u \o sep, sep) = [lines |-> <<u>>, rest |-> <<>>]
        BY <4>1, <4>4, ReadingFirst DEF Divided
      <4> DEFINE l == Reading(v, sep).lines
                 r == Reading(v, sep).rest
                 us == u \o sep
      <4>6. Reading(s, sep).lines = <<u>> \o l /\ Reading(s, sep).rest = r
        <5>1. us \in Seq(C) /\ s = us \o v /\ <<>> \o v = v
          BY <4>1, ConcatProperties, ConcatEmptySeq
        <5>2. Reading(us, sep).lines = <<u>> /\ Reading(us, sep).rest = <<>>
          BY <4>5
        <5> HIDE DEF us
        <5>3. /\ Reading(us \o v, sep).lines
                   = Reading(us, sep).lines
                       \o Reading(Reading(us, sep).rest \o v, sep).lines
              /\ Reading(us \o v, sep).rest
                   = Reading(Reading(us, sep).rest \o v, sep).rest
          <6>1. \A x \in Seq(C) :
                  /\ Reading(us \o x, sep).lines
                       = Reading(us, sep).lines
                           \o Reading(Reading(us, sep).rest \o x, sep).lines
                  /\ Reading(us \o x, sep).rest
                       = Reading(Reading(us, sep).rest \o x, sep).rest
            BY <5>1, ReadingConcat
          <6>2. QED
            BY <4>1, <6>1
        <5>4. QED
          BY <5>1, <5>2, <5>3
      <4>7. Good(v)
        <5>1. Len(v) < n
          BY <1>0, <2>1, <2>2, <4>1
        <5>2. QED
          BY <2>1, <4>1, <5>1
      <4>8. <<u>> \in Seq(Seq(C)) /\ l \in Seq(Seq(C)) /\ r \in Seq(C)
        BY <4>1, ReadingParts
      <4>9. <<u>> \o Append(l, r) = Append(<<u>> \o l, r)
        <5> DEFINE Q == Seq(C)
                   k == <<u>>
        <5>1. k \in Seq(Q) /\ l \in Seq(Q) /\ r \in Q
          BY <4>8
        <5> HIDE DEF l, r, Q, k
        <5>2. k \o Append(l, r) = Append(k \o l, r)
          BY <5>1, ConcatAppend
        <5>3. QED
          BY <5>2 DEF k
      <4>10. Split!Split(v, sep) = Append(l, r)
        BY <4>7
      <4> HIDE DEF l, r
      <4>11. QED
        BY <4>2, <4>6, <4>9, <4>10
    <3>3. QED
      BY <3>1, <3>2
  <2>3. n + 1 \in Nat
    BY <2>1
  <2>4. QED
    BY <2>2, <2>3
<1>3. T \in SUBSET Nat
  OBVIOUS
<1> HIDE DEF T
<1>4. \A n \in Nat : n \in T
  BY <1>1, <1>2, <1>3, NumberInduction
<1>5. ASSUME NEW s \in Seq(C) PROVE Good(s)
  <2>1. Len(s) + 1 \in Nat /\ Len(s) < Len(s) + 1
    BY <1>0
  <2>2. Len(s) + 1 \in T
    BY <1>4, <2>1
  <2>3. QED
    BY <2>1, <2>2 DEF T
<1>6. QED
  BY <1>5

LEMMA FrontLast ==
  ASSUME NEW S, NEW s \in Seq(S), NEW x \in S
  PROVE  /\ Front(Append(s, x)) = s /\ Split!Front(Append(s, x)) = s
         /\ Last(Append(s, x)) = x /\ Split!Last(Append(s, x)) = x
<1> DEFINE t == Append(s, x)
           n == Len(s)
<1>1. /\ n \in Nat /\ Len(t) = n + 1 /\ t[n + 1] = x
  BY AppendProperties
<1>2. SubSeq(t, 1, n) = s
  <2>1. t = s \o <<x>> /\ <<x>> \in Seq(S)
    BY AppendIsConcat
  <2>2. SubSeq(s \o <<x>>, 1, Len(s)) = s
    BY <2>1, SubSeqFront
  <2>3. QED
    BY <2>1, <2>2
<1> HIDE DEF t, n
<1>3. Len(t) - 1 = n /\ t[Len(t)] = x
  BY <1>1
<1>4. QED
  BY <1>2, <1>3 DEF t, Front, Last, Split!Front, Split!Last

(* Split of what was left and a chunk more: the lines that are new, and    *)
(* what is left now.                                                       *)
LEMMA QueueReads ==
  ASSUME NEW sep \in Seq(Character), sep # <<>>,
         NEW s \in Seq(Character), NEW t \in Seq(Character)
  PROVE  LET split == Split!Split(Reading(s, sep).rest \o t, sep)
         IN  /\ Reading(s, sep).lines \o Split!Front(split)
                  = Reading(s \o t, sep).lines
             /\ Split!Last(split) = Reading(s \o t, sep).rest
<1> DEFINE C == Character
           q == Reading(s, sep).rest \o t
           k == Reading(s, sep).lines
           l == Reading(q, sep).lines
           r == Reading(q, sep).rest
<1>1. q \in Seq(C) /\ k \in Seq(Seq(C))
  BY ReadingParts, ConcatProperties
<1>2. Reading(s \o t, sep).lines = k \o l /\ Reading(s \o t, sep).rest = r
  BY ReadingConcat
<1> HIDE DEF q
<1>3. l \in Seq(Seq(C)) /\ r \in Seq(C)
  BY <1>1, ReadingParts
<1>4. Split!Split(q, sep) = Append(l, r)
  BY <1>1, SplitReads
<1> HIDE DEF l, r, k
<1>5. Split!Front(Append(l, r)) = l /\ Split!Last(Append(l, r)) = r
  BY <1>3, FrontLast
<1>6. QED
  BY <1>2, <1>4, <1>5 DEF q, k

-----------------------------------------------------------------------------
(* Texts of which some characters are damaged.                             *)

Marks == {m \in [char : Seq(Byte), cut : BOOLEAN] :
            m.char # <<>> /\ (~m.cut => m.char \in Character)}

Shown(m) == IF m.cut THEN [b \in DOMAIN m.char |-> Replacement]
                     ELSE <<m.char>>

LEMMA ShownIs ==
  ASSUME NEW m \in Marks
  PROVE  /\ Shown(m) \in Seq(Character) /\ Shown(m) # <<>>
         /\ m.cut => Shown(m) \in Seq({Replacement})
         /\ ~m.cut => Shown(m) = <<m.char>> /\ m.char \in Character
<1>1. m.char \in Seq(Byte) /\ m.char # <<>> /\ m.cut \in BOOLEAN
  BY DEF Marks
<1>2. Replacement \in Character
  BY DEF Character
<1>3. CASE m.cut
  <2> DEFINE n == Len(m.char)
  <2>1. n \in Nat /\ DOMAIN m.char = 1..n /\ n # 0
    BY <1>1, EmptySeq
  <2> HIDE DEF n
  <2>2. Shown(m) = [b \in 1..n |-> Replacement]
    BY <1>3, <2>1 DEF Shown
  <2>3. Shown(m) \in [1..n -> {Replacement}]
    BY <2>2
  <2>4. Shown(m) \in Seq({Replacement}) /\ Len(Shown(m)) = n
    BY <2>1, <2>3
  <2>5. {Replacement} \subseteq Character
    BY <1>2
  <2>6. Shown(m) \in Seq(Character)
    BY <2>4, <2>5, SeqMonotonic
  <2>7. Shown(m) # <<>>
    BY <2>1, <2>4
  <2>8. QED
    BY <1>3, <2>4, <2>6, <2>7
<1>4. CASE ~m.cut
  <2>1. m.char \in Character /\ Shown(m) = <<m.char>>
    BY <1>4 DEF Marks, Shown
  <2> DEFINE c == m.char
  <2> HIDE DEF c
  <2>2. <<c>> \in Seq(Character) /\ <<c>> # <<>>
    BY <2>1 DEF c
  <2>3. QED
    BY <1>4, <2>1, <2>2 DEF c
<1>5. QED
  BY <1>3, <1>4

ShownAll(line) == [i \in DOMAIN line |-> Shown(line[i])]

LEMMA LegibleIs ==
  ASSUME NEW line
  PROVE  Legible(line) = FlattenSeq(ShownAll(line))
BY DEF Legible, ShownAll, Shown

LEMMA ShownAllType ==
  ASSUME NEW line \in Seq(Marks)
  PROVE  ShownAll(line) \in Seq(Seq(Character))
<1> DEFINE n == Len(line)
<1>1. n \in Nat /\ DOMAIN line = 1..n
  OBVIOUS
<1>2. \A i \in 1..n : Shown(line[i]) \in Seq(Character)
  <2>1. \A i \in 1..n : line[i] \in Marks
    BY ElementOfSeq
  <2>2. QED
    BY <2>1, ShownIs
<1> HIDE DEF n
<1>3. ShownAll(line) = [i \in 1..n |-> Shown(line[i])]
  BY <1>1 DEF ShownAll
<1> DEFINE e(i) == Shown(line[i])
           Q == Seq(Character)
<1>4. \A i \in 1..n : e(i) \in Q
  BY <1>2
<1> HIDE DEF e, Q
<1>5. [i \in 1..n |-> e(i)] \in Seq(Q)
  BY <1>1, <1>4
<1>6. QED
  BY <1>3, <1>5 DEF e, Q

LEMMA ShownAllAppend ==
  ASSUME NEW line \in Seq(Marks), NEW m \in Marks
  PROVE  ShownAll(Append(line, m)) = Append(ShownAll(line), Shown(m))
<1> DEFINE n == Len(line)
           t == Append(line, m)
           a == ShownAll(t)
           b == ShownAll(line)
           d == Append(b, Shown(m))
           Q == Seq(Character)
<1>1. /\ n \in Nat /\ t \in Seq(Marks) /\ Len(t) = n + 1 /\ t[n + 1] = m
      /\ \A i \in 1..n : t[i] = line[i]
      /\ DOMAIN t = 1..n + 1 /\ DOMAIN line = 1..n
  BY AppendProperties
<1>2. a \in Seq(Q) /\ b \in Seq(Q) /\ Shown(m) \in Q
  BY <1>1, ShownAllType, ShownIs
<1> HIDE DEF t, n, Q
<1>3. /\ \A i \in 1..n + 1 : a[i] = Shown(t[i])
      /\ \A i \in 1..n : b[i] = Shown(line[i])
      /\ DOMAIN a = 1..n + 1 /\ DOMAIN b = 1..n
  BY <1>1 DEF ShownAll
<1> HIDE DEF a, b
<1>4. Len(a) = n + 1 /\ Len(b) = n
  BY <1>1, <1>2, <1>3
<1>5. /\ d \in Seq(Q) /\ Len(d) = Len(b) + 1 /\ d[Len(b) + 1] = Shown(m)
      /\ \A i \in 1..Len(b) : d[i] = b[i]
  BY <1>2, AppendProperties
<1> HIDE DEF d
<1>6. \A i \in 1..n + 1 : a[i] = d[i]
  <2>1. ASSUME NEW i \in 1..n + 1 PROVE a[i] = d[i]
    <3>1. CASE i = n + 1
      BY <1>1, <1>3, <1>4, <1>5, <3>1
    <3>2. CASE i \in 1..n
      BY <1>1, <1>3, <1>4, <1>5, <3>2
    <3>3. QED
      BY <1>1, <3>1, <3>2
  <2>2. QED
    BY <2>1
<1>7. a = d
  BY <1>2, <1>4, <1>5, <1>6, SeqEqual
<1>8. QED
  BY <1>7 DEF a, d, b, t

LEMMA LegibleEmpty == Legible(<<>>) = <<>>
<1>1. ShownAll(<<>>) = <<>>
  BY DEF ShownAll
<1>2. QED
  BY <1>1, LegibleIs, FlattenEmpty

LEMMA LegibleType ==
  ASSUME NEW line \in Seq(Marks)
  PROVE  Legible(line) \in Seq(Character)
BY LegibleIs, ShownAllType, FlattenType

LEMMA LegibleAppend ==
  ASSUME NEW line \in Seq(Marks), NEW m \in Marks
  PROVE  Legible(Append(line, m)) = Legible(line) \o Shown(m)
<1> DEFINE b == ShownAll(line)
           c == Shown(m)
<1>1. b \in Seq(Seq(Character)) /\ c \in Seq(Character)
  BY ShownAllType, ShownIs
<1>2. ShownAll(Append(line, m)) = Append(b, c)
  BY ShownAllAppend
<1> HIDE DEF b, c
<1>3. FlattenSeq(Append(b, c)) = FlattenSeq(b) \o c
  BY <1>1, FlattenAppend
<1>4. QED
  BY <1>2, <1>3, LegibleIs DEF b, c

LEMMA LegibleConcat ==
  ASSUME NEW s \in Seq(Marks)
  PROVE  \A t \in Seq(Marks) : Legible(s \o t) = Legible(s) \o Legible(t)
<1> DEFINE Good(t) == Legible(s \o t) = Legible(s) \o Legible(t)
           T == {t \in Seq(Marks) : Good(t)}
           a == Legible(s)
<1>0. a \in Seq(Character)
  BY LegibleType
<1>1. <<>> \in T
  <2>1. <<>> \in Seq(Marks) /\ s \o <<>> = s
    BY EmptySeq, ConcatEmptySeq
  <2>2. a \o <<>> = a
    BY <1>0, ConcatEmptySeq
  <2>3. QED
    BY <2>1, <2>2, LegibleEmpty
<1>2. ASSUME NEW t \in T, NEW m \in Marks PROVE Append(t, m) \in T
  <2>1. t \in Seq(Marks) /\ Good(t)
    OBVIOUS
  <2>2. /\ s \o Append(t, m) = Append(s \o t, m)
        /\ s \o t \in Seq(Marks) /\ Append(t, m) \in Seq(Marks)
    BY <2>1, ConcatAppend, ConcatProperties, AppendProperties
  <2> DEFINE b == Legible(t)
             c == Shown(m)
  <2>3. b \in Seq(Character) /\ c \in Seq(Character)
    BY <2>1, LegibleType, ShownIs
  <2>4. Legible(Append(s \o t, m)) = (a \o b) \o c
    BY <2>1, <2>2, LegibleAppend
  <2>5. Legible(Append(t, m)) = b \o c
    BY <2>1, LegibleAppend
  <2> HIDE DEF a, b, c
  <2>6. Regroups(a, b, c)
    BY <1>0, <2>3, Associative
  <2>7. Good(Append(t, m))
    BY <2>2, <2>4, <2>5, <2>6 DEF Regroups, a
  <2>8. QED
    BY <2>2, <2>7
<1>3. T \in SUBSET Seq(Marks)
  OBVIOUS
<1> HIDE DEF T
<1>4. \A t \in Seq(Marks) : t \in T
  BY <1>1, <1>2, <1>3, SequenceInduction
<1>5. QED
  BY <1>4 DEF T

-----------------------------------------------------------------------------
(* A separator is seen in a text if it is there, and undamaged.            *)

Plain == {<<b>> : b \in Ascii}
Mark(c) == [char |-> c, cut |-> FALSE]

LEMMA PlainIs == Plain \subseteq Character /\ Replacement \notin Plain
BY TextAssumption DEF Plain, Character

LEMMA MarkIs ==
  ASSUME NEW c \in Plain
  PROVE  Mark(c) \in Marks /\ Shown(Mark(c)) = <<c>>
<1>1. PICK b \in Ascii : c = <<b>>
  BY DEF Plain
<1>2. b \in Byte
  BY DEF Byte
<1>3. c \in Seq(Byte) /\ c # <<>>
  BY <1>1, <1>2
<1>4. c \in Character
  BY PlainIs
<1>5. QED
  BY <1>3, <1>4 DEF Mark, Marks, Shown

LEMMA UnmarkedType ==
  ASSUME NEW sep \in Seq(Plain)
  PROVE  Unmarked(sep) \in Seq(Marks)
<1> DEFINE n == Len(sep)
           e(i) == Mark(sep[i])
<1>1. n \in Nat /\ DOMAIN sep = 1..n /\ \A i \in 1..n : sep[i] \in Plain
  BY ElementOfSeq
<1> HIDE DEF n
<1>2. \A i \in 1..n : e(i) \in Marks
  BY <1>1, MarkIs
<1>3. Unmarked(sep) = [i \in 1..n |-> e(i)]
  BY <1>1 DEF Unmarked, Mark
<1> HIDE DEF e
<1>4. [i \in 1..n |-> e(i)] \in Seq(Marks)
  BY <1>1, <1>2
<1>5. QED
  BY <1>3, <1>4

LEMMA UnmarkedEmpty == Unmarked(<<>>) = <<>>
BY DEF Unmarked

LEMMA UnmarkedAppend ==
  ASSUME NEW sep \in Seq(Plain), NEW x \in Plain
  PROVE  Unmarked(Append(sep, x)) = Append(Unmarked(sep), Mark(x))
<1> DEFINE n == Len(sep)
           t == Append(sep, x)
           a == Unmarked(t)
           b == Unmarked(sep)
           d == Append(b, Mark(x))
<1>1. /\ n \in Nat /\ t \in Seq(Plain) /\ Len(t) = n + 1 /\ t[n + 1] = x
      /\ \A i \in 1..n : t[i] = sep[i]
      /\ DOMAIN t = 1..n + 1 /\ DOMAIN sep = 1..n
  BY AppendProperties
<1>2. a \in Seq(Marks) /\ b \in Seq(Marks) /\ Mark(x) \in Marks
  BY <1>1, UnmarkedType, MarkIs
<1> HIDE DEF t, n
<1>3. /\ \A i \in 1..n + 1 : a[i] = Mark(t[i])
      /\ \A i \in 1..n : b[i] = Mark(sep[i])
      /\ DOMAIN a = 1..n + 1 /\ DOMAIN b = 1..n
  BY <1>1 DEF Unmarked, Mark
<1> HIDE DEF a, b
<1>4. Len(a) = n + 1 /\ Len(b) = n
  BY <1>1, <1>2, <1>3
<1>5. /\ d \in Seq(Marks) /\ Len(d) = Len(b) + 1 /\ d[Len(b) + 1] = Mark(x)
      /\ \A i \in 1..Len(b) : d[i] = b[i]
  BY <1>2, AppendProperties
<1> HIDE DEF d
<1>6. \A i \in 1..n + 1 : a[i] = d[i]
  <2>1. ASSUME NEW i \in 1..n + 1 PROVE a[i] = d[i]
    <3>1. CASE i = n + 1
      BY <1>1, <1>3, <1>4, <1>5, <3>1
    <3>2. CASE i \in 1..n
      BY <1>1, <1>3, <1>4, <1>5, <3>2
    <3>3. QED
      BY <1>1, <3>1, <3>2
  <2>2. QED
    BY <2>1
<1>7. a = d
  BY <1>2, <1>4, <1>5, <1>6, SeqEqual
<1>8. QED
  BY <1>7 DEF a, d, b, t

LEMMA UnmarkedShown ==
  \A sep \in Seq(Plain) : Legible(Unmarked(sep)) = sep
<1> DEFINE T == {sep \in Seq(Plain) : Legible(Unmarked(sep)) = sep}
<1>1. <<>> \in T
  <2>1. <<>> \in Seq(Plain)
    BY EmptySeq
  <2>2. QED
    BY <2>1, UnmarkedEmpty, LegibleEmpty
<1>2. ASSUME NEW sep \in T, NEW x \in Plain PROVE Append(sep, x) \in T
  <2>1. sep \in Seq(Plain) /\ Legible(Unmarked(sep)) = sep
    OBVIOUS
  <2>2. Append(sep, x) \in Seq(Plain) /\ Append(sep, x) = sep \o <<x>>
    BY <2>1, AppendProperties, AppendIsConcat
  <2>3. Legible(Append(Unmarked(sep), Mark(x))) = sep \o <<x>>
    BY <2>1, UnmarkedType, MarkIs, LegibleAppend
  <2>4. QED
    BY <2>1, <2>2, <2>3, UnmarkedAppend
<1>3. T \in SUBSET Seq(Plain)
  OBVIOUS
<1> HIDE DEF T
<1>4. \A sep \in Seq(Plain) : sep \in T
  BY <1>1, <1>2, <1>3, SequenceInduction
<1>5. QED
  BY <1>4 DEF T

(* A damaged character ends in a replacement.                              *)
LEMMA ShownEnds ==
  ASSUME NEW m \in Marks, m.cut
  PROVE  \E f \in Seq(Character) : Shown(m) = Append(f, Replacement)
<1>1. Shown(m) \in Seq({Replacement}) /\ Shown(m) # <<>>
  BY ShownIs
<1>2. PICK f \in Seq({Replacement}), r \in {Replacement} :
        Shown(m) = Append(f, r)
  BY <1>1, SequenceEmptyOrAppend
<1>3. {Replacement} \subseteq Character
  BY DEF Character
<1>4. f \in Seq(Character)
  BY <1>3, SeqMonotonic
<1>5. QED
  BY <1>2, <1>4

LEMMA SuffixSurvives ==
  \A sep \in Seq(Plain) : \A line \in Seq(Marks) :
    IsSuffix(Unmarked(sep), line) <=> IsSuffix(sep, Legible(line))
<1> DEFINE Good(sep) == \A line \in Seq(Marks) :
             IsSuffix(Unmarked(sep), line) <=> IsSuffix(sep, Legible(line))
           T == {sep \in Seq(Plain) : Good(sep)}
<1>1. <<>> \in T
  <2>1. <<>> \in Seq(Plain)
    BY EmptySeq
  <2>2. ASSUME NEW line \in Seq(Marks)
        PROVE  IsSuffix(<<>>, line) /\ IsSuffix(<<>>, Legible(line))
    BY LegibleType, SuffixEmpty
  <2>3. QED
    BY <2>1, <2>2, UnmarkedEmpty
<1>2. ASSUME NEW sep \in T, NEW x \in Plain PROVE Append(sep, x) \in T
  <2>1. sep \in Seq(Plain) /\ Good(sep)
    OBVIOUS
  <2> HIDE DEF T
  <2> DEFINE um == Unmarked(sep)
             ux == Mark(x)
             sx == Append(sep, x)
  <2>2. /\ sx \in Seq(Plain) /\ sx # <<>> /\ um \in Seq(Marks)
        /\ ux \in Marks /\ Unmarked(sx) = Append(um, ux)
    BY <2>1, AppendProperties, UnmarkedType, MarkIs, UnmarkedAppend
  <2>3. sep \in Seq(Character) /\ sx \in Seq(Character) /\ x \in Character
    BY <2>1, <2>2, PlainIs, SeqMonotonic
  <2>4. ASSUME NEW line \in Seq(Marks)
        PROVE  IsSuffix(Append(um, ux), line) <=> IsSuffix(sx, Legible(line))
    <3>1. CASE line = <<>>
      <4>1. Append(um, ux) \in Seq(Marks) /\ Append(um, ux) # <<>>
        BY <2>2, AppendProperties
      <4>2. ~IsSuffix(Append(um, ux), <<>>)
        BY <4>1, SuffixEmpty
      <4>3. ~IsSuffix(sx, <<>>)
        BY <2>2, <2>3, SuffixEmpty
      <4>4. QED
        BY <3>1, <4>2, <4>3, LegibleEmpty
    <3>2. CASE line # <<>>
      <4>1. PICK l \in Seq(Marks), m \in Marks : line = Append(l, m)
        BY <3>2, SequenceEmptyOrAppend
      <4> DEFINE s == Legible(l)
      <4>2. s \in Seq(Character) /\ Legible(line) = s \o Shown(m)
        BY <4>1, LegibleType, LegibleAppend
      <4>3. IsSuffix(um, l) <=> IsSuffix(sep, s)
        BY <2>1
      <4> HIDE DEF s, um, ux
      <4>4. IsSuffix(Append(um, ux), line) <=> ux = m /\ IsSuffix(um, l)
        BY <2>2, <4>1, SuffixLast
      <4>5. CASE m.cut
        <5>1. ux # m
          BY <4>5 DEF ux, Mark
        <5>2. PICK f \in Seq(Character) : Shown(m) = Append(f, Replacement)
          BY <4>5, ShownEnds
        <5> DEFINE sf == s \o f
        <5>3. /\ s \o Append(f, Replacement) = Append(sf, Replacement)
              /\ sf \in Seq(Character) /\ Replacement \in Character
          <6>1. Replacement \in Character
            BY DEF Character
          <6>2. QED
            BY <4>2, <6>1, ConcatAppend, ConcatProperties
        <5>4. Legible(line) = Append(sf, Replacement)
          BY <4>2, <5>2, <5>3
        <5> HIDE DEF sf, sx
        <5>5. IsSuffix(Append(sep, x), Append(sf, Replacement))
                => x = Replacement
          BY <2>3, <5>3, SuffixLast
        <5>6. x # Replacement
          BY PlainIs
        <5>7. QED
          BY <4>4, <5>1, <5>4, <5>5, <5>6 DEF sx
      <4>6. CASE ~m.cut
        <5> DEFINE c == m.char
        <5>1. Shown(m) = <<c>> /\ c \in Character
          BY <4>6, ShownIs
        <5>2. ux = m <=> x = c
          <6>1. m = [char |-> c, cut |-> FALSE]
            BY <4>6 DEF Marks
          <6>2. QED
            BY <6>1 DEF ux, Mark
        <5> HIDE DEF c, sx
        <5>3. s \o <<c>> = Append(s, c)
          BY <4>2, <5>1, AppendIsConcat
        <5>4. Legible(line) = Append(s, c)
          BY <4>2, <5>1, <5>3
        <5>5. IsSuffix(Append(sep, x), Append(s, c))
                <=> x = c /\ IsSuffix(sep, s)
          BY <2>3, <4>2, <5>1, SuffixLast
        <5>6. QED
          BY <4>3, <4>4, <5>2, <5>4, <5>5 DEF sx
      <4>7. QED
        BY <4>5, <4>6
    <3>3. QED
      BY <3>1, <3>2
  <2>5. Good(sx)
    BY <2>2, <2>4
  <2>6. QED
    BY <2>2, <2>5 DEF T
<1>3. T \in SUBSET Seq(Plain)
  OBVIOUS
<1> HIDE DEF T
<1>4. \A sep \in Seq(Plain) : sep \in T
  BY <1>1, <1>2, <1>3, SequenceInduction
<1>5. QED
  BY <1>4 DEF T

-----------------------------------------------------------------------------
(* Damage changes nothing about how a text is cut into lines.              *)

LegibleAll(lines) == [k \in DOMAIN lines |-> Legible(lines[k])]

LEMMA LegibleAllType ==
  ASSUME NEW lines \in Seq(Seq(Marks))
  PROVE  LegibleAll(lines) \in Seq(Seq(Character))
<1> DEFINE n == Len(lines)
           e(k) == Legible(lines[k])
           Q == Seq(Character)
<1>1. n \in Nat /\ DOMAIN lines = 1..n
  OBVIOUS
<1>2. \A k \in 1..n : lines[k] \in Seq(Marks)
  BY ElementOfSeq
<1>3. \A k \in 1..n : e(k) \in Q
  BY <1>2, LegibleType
<1> HIDE DEF n
<1>4. LegibleAll(lines) = [k \in 1..n |-> e(k)]
  BY <1>1 DEF LegibleAll
<1> HIDE DEF e, Q
<1>5. [k \in 1..n |-> e(k)] \in Seq(Q)
  BY <1>1, <1>3
<1>6. QED
  BY <1>4, <1>5 DEF Q

LEMMA LegibleAllAppend ==
  ASSUME NEW lines \in Seq(Seq(Marks)), NEW u \in Seq(Marks)
  PROVE  LegibleAll(Append(lines, u)) = Append(LegibleAll(lines), Legible(u))
<1> DEFINE n == Len(lines)
           t == Append(lines, u)
           a == LegibleAll(t)
           b == LegibleAll(lines)
           c == Legible(u)
           d == Append(b, c)
           Q == Seq(Character)
           R == Seq(Marks)
<1>0. lines \in Seq(R) /\ u \in R
  OBVIOUS
<1> HIDE DEF R
<1>1. /\ n \in Nat /\ t \in Seq(R) /\ Len(t) = n + 1 /\ t[n + 1] = u
      /\ \A i \in 1..n : t[i] = lines[i]
      /\ DOMAIN t = 1..n + 1 /\ DOMAIN lines = 1..n
  BY <1>0, AppendProperties
<1>2. a \in Seq(Q) /\ b \in Seq(Q) /\ c \in Q
  <2>1. t \in Seq(Seq(Marks))
    BY <1>1 DEF R
  <2> HIDE DEF t
  <2>2. QED
    BY <2>1, LegibleAllType, LegibleType
<1> HIDE DEF t, n, Q
<1>3. /\ \A i \in 1..n + 1 : a[i] = Legible(t[i])
      /\ \A i \in 1..n : b[i] = Legible(lines[i])
      /\ DOMAIN a = 1..n + 1 /\ DOMAIN b = 1..n
  BY <1>1 DEF LegibleAll
<1>4. c = Legible(u)
  OBVIOUS
<1> HIDE DEF a, b, c
<1>5. Len(a) = n + 1 /\ Len(b) = n
  BY <1>1, <1>2, <1>3
<1>6. /\ d \in Seq(Q) /\ Len(d) = Len(b) + 1 /\ d[Len(b) + 1] = c
      /\ \A i \in 1..Len(b) : d[i] = b[i]
  BY <1>2, AppendProperties
<1> HIDE DEF d
<1>7. \A i \in 1..n + 1 : a[i] = d[i]
  <2>1. ASSUME NEW i \in 1..n + 1 PROVE a[i] = d[i]
    <3>1. CASE i = n + 1
      BY <1>1, <1>3, <1>4, <1>5, <1>6, <3>1
    <3>2. CASE i \in 1..n
      BY <1>1, <1>3, <1>5, <1>6, <3>2
    <3>3. QED
      BY <1>1, <3>1, <3>2
  <2>2. QED
    BY <2>1
<1>8. a = d
  BY <1>2, <1>5, <1>6, <1>7, SeqEqual
<1>9. QED
  BY <1>8 DEF a, b, c, d, t

LegibleReading(rd) ==
  [lines |-> LegibleAll(rd.lines), rest |-> Legible(rd.rest)]

LEMMA LegibleReadingType ==
  ASSUME NEW rd \in Readings(Marks)
  PROVE  LegibleReading(rd) \in Readings(Character)
<1>1. rd.lines \in Seq(Seq(Marks)) /\ rd.rest \in Seq(Marks)
  BY DEF Readings
<1>2. /\ LegibleAll(rd.lines) \in Seq(Seq(Character))
      /\ Legible(rd.rest) \in Seq(Character)
  BY <1>1, LegibleAllType, LegibleType
<1>3. QED
  BY <1>2 DEF LegibleReading, Readings

(* A replacement ends no line.                                             *)
LEMMA ReplacementStays ==
  ASSUME NEW sep \in Seq(Plain), sep # <<>>, NEW s \in Seq(Character)
  PROVE  \A t \in Seq({Replacement}) :
           Reading(s \o t, sep) = [lines |-> Reading(s, sep).lines,
                                   rest  |-> Reading(s, sep).rest \o t]
<1> DEFINE R == {Replacement}
           C == Character
           l == Reading(s, sep).lines
           r == Reading(s, sep).rest
           Good(t) == Reading(s \o t, sep) = [lines |-> l, rest |-> r \o t]
           T == {t \in Seq(R) : Good(t)}
<1>0. /\ sep \in Seq(C) /\ R \subseteq C /\ Replacement \in C
  <2>1. Replacement \in C
    BY DEF Character
  <2>2. sep \in Seq(C)
    BY PlainIs, SeqMonotonic
  <2>3. QED
    BY <2>1, <2>2
<1>1. l \in Seq(Seq(C)) /\ r \in Seq(C)
      /\ Reading(s, sep) = [lines |-> l, rest |-> r]
  BY <1>0, ReadingParts
<1>2. <<>> \in T
  <2>1. <<>> \in Seq(R) /\ s \o <<>> = s
    BY EmptySeq, ConcatEmptySeq
  <2>2. r \o <<>> = r
    BY <1>1, ConcatEmptySeq
  <2> HIDE DEF l, r
  <2>3. QED
    BY <1>1, <2>1, <2>2
<1> HIDE DEF l, r
<1>3. ASSUME NEW t \in T, NEW x \in R PROVE Append(t, x) \in T
  <2>1. t \in Seq(R) /\ Good(t) /\ x = Replacement
    OBVIOUS
  <2> HIDE DEF T
  <2>2. t \in Seq(C)
    BY <1>0, <2>1, SeqMonotonic
  <2> HIDE DEF R
  <2>3. Append(t, x) \in Seq(R)
    BY <2>1, AppendProperties
  <2>4. s \o t \in Seq(C) /\ r \o t \in Seq(C) /\ x \in C
    BY <1>0, <1>1, <2>1, <2>2, ConcatProperties
  <2>5. s \o Append(t, x) = Append(s \o t, x)
    BY <2>2, <2>4, ConcatAppend
  <2>6. r \o Append(t, x) = Append(r \o t, x)
    BY <1>1, <2>2, <2>4, ConcatAppend
  <2> DEFINE st == s \o t
             rt == r \o t
             state == Reading(st, sep)
  <2>7. state.lines = l /\ state.rest = rt
    BY <2>1
  <2> HIDE DEF st, rt
  <2>8. st \in Seq(C) /\ rt \in Seq(C)
    BY <2>4 DEF st, rt
  <2>9. state \in Readings(C)
    BY <1>0, <2>8, ReadingType
  <2>10. Reading(Append(st, x), sep) = LineStep(sep, state, x)
    BY <1>0, <2>4, <2>8, ReadingAppend
  <2> HIDE DEF state
  <2>11. ~IsSuffix(sep, Append(rt, x))
    <3>1. PICK p \in Seq(Plain), y \in Plain : sep = Append(p, y)
      BY SequenceEmptyOrAppend
    <3>2. p \in Seq(C) /\ y \in C /\ y # Replacement
      BY PlainIs, SeqMonotonic
    <3>3. IsSuffix(Append(p, y), Append(rt, x)) => y = x
      BY <2>4, <2>8, <3>2, SuffixLast
    <3>4. QED
      BY <2>1, <3>1, <3>2, <3>3
  <2>12. LineStep(sep, state, x)
           = [lines |-> state.lines, rest |-> Append(state.rest, x)]
    <3>1. ~IsSuffix(sep, Append(state.rest, x))
      BY <2>7, <2>11
    <3>2. QED
      BY <1>0, <2>4, <2>9, <3>1, StepGoesOn
  <2>13. Good(Append(t, x))
    BY <2>5, <2>6, <2>7, <2>10, <2>12 DEF st, rt
  <2>14. QED
    BY <2>3, <2>13 DEF T
<1>4. T \in SUBSET Seq(R)
  OBVIOUS
<1> HIDE DEF T
<1>5. \A t \in Seq(R) : t \in T
  BY <1>2, <1>3, <1>4, SequenceInduction
<1>6. QED
  BY <1>5 DEF T, l, r

(* One character more, damaged or not, read before it is made legible or   *)
(* after.                                                                  *)
LEMMA LegibleStep ==
  ASSUME NEW sep \in Seq(Plain), sep # <<>>, NEW m \in Marks, ~m.cut,
         NEW rd \in Readings(Marks)
  PROVE  LineStep(sep, LegibleReading(rd), m.char)
           = LegibleReading(LineStep(Unmarked(sep), rd, m))
<1> DEFINE um == Unmarked(sep)
           c == m.char
           ll == LegibleAll(rd.lines)
           lr == Legible(rd.rest)
           line == Append(rd.rest, m)
           state == LegibleReading(rd)
<1>1. /\ um \in Seq(Marks) /\ sep \in Seq(Character) /\ Legible(um) = sep
      /\ c \in Character /\ Shown(m) = <<c>>
  BY UnmarkedType, PlainIs, SeqMonotonic, UnmarkedShown, ShownIs
<1>2. /\ rd.lines \in Seq(Seq(Marks)) /\ rd.rest \in Seq(Marks)
      /\ line \in Seq(Marks) /\ lr \in Seq(Character)
  BY AppendProperties, LegibleType DEF Readings
<1>3. Legible(line) = Append(lr, c)
  <2>1. Legible(line) = lr \o <<c>>
    BY <1>1, <1>2, LegibleAppend
  <2> HIDE DEF lr, c, line
  <2>2. Append(lr, c) = lr \o <<c>>
    BY <1>1, <1>2, AppendIsConcat
  <2>3. QED
    BY <2>1, <2>2
<1>4. state \in Readings(Character) /\ state.lines = ll /\ state.rest = lr
  BY LegibleReadingType DEF LegibleReading
<1>5. IsSuffix(um, line) <=> IsSuffix(sep, Legible(line))
  BY <1>2, SuffixSurvives
<1> HIDE DEF state, um, c, lr, ll
<1>6. CASE IsSuffix(um, line)
  <2>1. PICK u \in Seq(Marks) : line = u \o um
    BY <1>1, <1>2, <1>6, SuffixConcat
  <2>2. LineStep(um, rd, m) = [lines |-> Append(rd.lines, u), rest |-> <<>>]
    BY <1>1, <2>1, StepEnds
  <2>3. LegibleReading(LineStep(um, rd, m))
          = [lines |-> Append(ll, Legible(u)), rest |-> <<>>]
    <3> DEFINE after == LineStep(um, rd, m)
    <3>1. after.lines = Append(rd.lines, u) /\ after.rest = <<>>
      BY <2>2
    <3> HIDE DEF after
    <3>2. LegibleAll(Append(rd.lines, u)) = Append(ll, Legible(u))
      BY <1>2, LegibleAllAppend DEF ll
    <3>3. LegibleAll(after.lines) = Append(ll, Legible(u))
      BY <3>1, <3>2
    <3>4. Legible(after.rest) = <<>>
      BY <3>1, LegibleEmpty
    <3>5. QED
      BY <3>3, <3>4 DEF LegibleReading, after
  <2>4. Legible(line) = Legible(u) \o sep /\ Legible(u) \in Seq(Character)
    BY <1>1, <2>1, LegibleConcat, LegibleType
  <2>5. Append(state.rest, c) = Legible(u) \o sep
    BY <1>3, <1>4, <2>4
  <2>6. LineStep(sep, state, c)
          = [lines |-> Append(state.lines, Legible(u)), rest |-> <<>>]
    BY <1>1, <1>4, <2>4, <2>5, StepEnds
  <2>7. QED
    BY <1>4, <2>3, <2>6 DEF state, um, c
<1>7. CASE ~IsSuffix(um, line)
  <2>1. LineStep(um, rd, m) = [lines |-> rd.lines, rest |-> line]
    BY <1>1, <1>7, StepGoesOn
  <2>2. LegibleReading(LineStep(um, rd, m))
          = [lines |-> ll, rest |-> Legible(line)]
    BY <2>1 DEF LegibleReading, ll
  <2>3. ~IsSuffix(sep, Append(state.rest, c))
    BY <1>3, <1>4, <1>5, <1>7
  <2>4. LineStep(sep, state, c)
          = [lines |-> state.lines, rest |-> Append(state.rest, c)]
    BY <1>1, <1>4, <2>3, StepGoesOn
  <2>5. QED
    BY <1>3, <1>4, <2>2, <2>4 DEF state, um, c
<1>8. QED
  BY <1>6, <1>7

LEMMA DamagedStep ==
  ASSUME NEW sep \in Seq(Plain), sep # <<>>, NEW m \in Marks, m.cut,
         NEW rd \in Readings(Marks)
  PROVE  LegibleReading(LineStep(Unmarked(sep), rd, m))
           = [lines |-> LegibleReading(rd).lines,
              rest  |-> LegibleReading(rd).rest \o Shown(m)]
<1> DEFINE um == Unmarked(sep)
           line == Append(rd.rest, m)
<1>1. um \in Seq(Marks) /\ rd.rest \in Seq(Marks)
  BY UnmarkedType DEF Readings
<1>2. ~IsSuffix(um, line)
  <2>1. PICK p \in Seq(Plain), x \in Plain : sep = Append(p, x)
    BY SequenceEmptyOrAppend
  <2> DEFINE up == Unmarked(p)
             ux == Mark(x)
  <2>2. um = Append(up, ux) /\ up \in Seq(Marks) /\ ux \in Marks
    BY <2>1, UnmarkedAppend, UnmarkedType, MarkIs
  <2>3. ux # m
    BY DEF Mark
  <2> HIDE DEF um, up, ux
  <2>4. IsSuffix(Append(up, ux), Append(rd.rest, m)) => ux = m
    BY <1>1, <2>2, SuffixLast
  <2>5. QED
    BY <2>2, <2>3, <2>4
<1> HIDE DEF um
<1>3. LineStep(um, rd, m) = [lines |-> rd.lines, rest |-> line]
  BY <1>1, <1>2, StepGoesOn
<1>4. Legible(line) = Legible(rd.rest) \o Shown(m)
  BY <1>1, LegibleAppend
<1> DEFINE after == LineStep(um, rd, m)
<1>5. after.lines = rd.lines /\ after.rest = line
  BY <1>3
<1> HIDE DEF after, line
<1>6. LegibleReading(after) = [lines |-> LegibleAll(rd.lines),
                               rest  |-> Legible(rd.rest) \o Shown(m)]
  BY <1>4, <1>5 DEF LegibleReading
<1>7. QED
  BY <1>6 DEF LegibleReading, after, um

LEMMA ReadingLegible ==
  ASSUME NEW sep \in Seq(Plain), sep # <<>>
  PROVE  \A s \in Seq(Marks) :
           Reading(Legible(s), sep) = LegibleReading(Reading(s, Unmarked(sep)))
<1> DEFINE um == Unmarked(sep)
           Good(s) == Reading(Legible(s), sep) = LegibleReading(Reading(s, um))
           T == {s \in Seq(Marks) : Good(s)}
<1>0. um \in Seq(Marks) /\ sep \in Seq(Character)
  BY UnmarkedType, PlainIs, SeqMonotonic
<1> HIDE DEF um
<1>1. <<>> \in T
  <2>1. <<>> \in Seq(Marks)
    BY EmptySeq
  <2>2. LegibleAll(<<>>) = <<>>
    BY DEF LegibleAll
  <2>3. Reading(<<>>, sep) = Unread /\ Reading(<<>>, um) = Unread
    BY ReadingEmpty
  <2>4. LegibleReading(Unread) = Unread
    BY <2>2, LegibleEmpty DEF LegibleReading, Unread
  <2>5. QED
    BY <2>1, <2>3, <2>4, LegibleEmpty
<1>2. ASSUME NEW s \in T, NEW m \in Marks PROVE Append(s, m) \in T
  <2>1. s \in Seq(Marks) /\ Good(s)
    OBVIOUS
  <2> HIDE DEF T
  <2> DEFINE rd == Reading(s, um)
             ls == Legible(s)
  <2>2. rd \in Readings(Marks) /\ ls \in Seq(Character)
    BY <1>0, <2>1, ReadingType, LegibleType
  <2>3. Reading(Append(s, m), um) = LineStep(um, rd, m)
    BY <1>0, <2>1, ReadingAppend
  <2>4. Legible(Append(s, m)) = ls \o Shown(m)
    BY <2>1, LegibleAppend
  <2>5. Reading(ls, sep) = LegibleReading(rd)
    BY <2>1
  <2> HIDE DEF rd, ls
  <2>6. ASSUME ~m.cut PROVE Good(Append(s, m))
    <3> DEFINE c == m.char
    <3>1. Shown(m) = <<c>> /\ c \in Character
      BY <2>6, ShownIs
    <3>2. LineStep(sep, LegibleReading(rd), c)
            = LegibleReading(LineStep(um, rd, m))
      BY <2>2, <2>6, LegibleStep DEF um
    <3> HIDE DEF c
    <3>3. ls \o <<c>> = Append(ls, c)
      BY <2>2, <3>1, AppendIsConcat
    <3>4. Reading(Append(ls, c), sep) = LineStep(sep, Reading(ls, sep), c)
      BY <1>0, <2>2, <3>1, ReadingAppend
    <3>5. QED
      BY <2>3, <2>4, <2>5, <3>1, <3>2, <3>3, <3>4
  <2>7. ASSUME m.cut PROVE Good(Append(s, m))
    <3>1. Shown(m) \in Seq({Replacement})
      BY <2>7, ShownIs
    <3>2. Reading(ls \o Shown(m), sep)
            = [lines |-> Reading(ls, sep).lines,
               rest  |-> Reading(ls, sep).rest \o Shown(m)]
      BY <2>2, <3>1, ReplacementStays
    <3>3. LegibleReading(LineStep(um, rd, m))
            = [lines |-> LegibleReading(rd).lines,
               rest  |-> LegibleReading(rd).rest \o Shown(m)]
      BY <2>2, <2>7, DamagedStep DEF um
    <3>4. QED
      BY <2>3, <2>4, <2>5, <3>2, <3>3
  <2>8. Good(Append(s, m))
    BY <2>6, <2>7
  <2>9. Append(s, m) \in Seq(Marks)
    BY <2>1, AppendProperties
  <2>10. QED
    BY <2>8, <2>9 DEF T
<1>3. T \in SUBSET Seq(Marks)
  OBVIOUS
<1> HIDE DEF T
<1>4. \A s \in Seq(Marks) : s \in T
  BY <1>1, <1>2, <1>3, SequenceInduction
<1>5. QED
  BY <1>4 DEF T, um

-----------------------------------------------------------------------------
(* The characters of a text grow byte by byte.                             *)

CharsTo(f, bytes, n) ==
  f = [i \in 0..n |-> IF i = 0 THEN <<>> ELSE CharStep(f[i - 1], bytes[i])]

LEMMA CharsToAt ==
  ASSUME NEW f, NEW bytes, NEW n \in Nat, CharsTo(f, bytes, n), NEW i \in 0..n
  PROVE  f[i] = IF i = 0 THEN <<>> ELSE CharStep(f[i - 1], bytes[i])
<1> DEFINE e(j) == IF j = 0 THEN <<>> ELSE CharStep(f[j - 1], bytes[j])
<1>1. f = [j \in 0..n |-> e(j)]
  BY DEF CharsTo
<1> HIDE DEF e
<1>2. f[i] = e(i)
  BY <1>1
<1>3. QED
  BY <1>2 DEF e

LEMMA CharsToSomething ==
  ASSUME NEW bytes
  PROVE  \A n \in Nat : \E f : CharsTo(f, bytes, n)
<1> DEFINE T == {n \in Nat : \E f : CharsTo(f, bytes, n)}
<1>1. 0 \in T
  <2> DEFINE f == [i \in 0..0 |-> <<>>]
  <2>1. f = [i \in 0..0 |-> IF i = 0 THEN <<>>
                            ELSE CharStep(f[i - 1], bytes[i])]
    OBVIOUS
  <2>2. CharsTo(f, bytes, 0)
    BY <2>1 DEF CharsTo
  <2>3. QED
    BY <2>2
<1>2. ASSUME NEW n \in T PROVE n + 1 \in T
  <2>1. PICK f : CharsTo(f, bytes, n)
    OBVIOUS
  <2> DEFINE e(i) == IF i = 0 THEN <<>> ELSE CharStep(f[i - 1], bytes[i])
             g == [i \in 0..n + 1 |-> IF i <= n THEN f[i] ELSE e(i)]
  <2>2. n \in Nat /\ \A i \in 0..n : f[i] = e(i)
    BY <2>1, CharsToAt
  <2>3. \A i \in 0..n + 1 : g[i] = e(i)
    <3> HIDE DEF e
    <3>1. QED
      BY <2>2
  <2>4. \A i \in 0..n + 1 : i # 0 => g[i - 1] = f[i - 1]
    <3> HIDE DEF e
    <3>1. QED
      BY <2>2
  <2>5. \A i \in 0..n + 1 :
          g[i] = IF i = 0 THEN <<>> ELSE CharStep(g[i - 1], bytes[i])
    <3> HIDE DEF g
    <3>1. QED
      BY <2>3, <2>4
  <2>6. g = [i \in 0..n + 1 |-> g[i]]
    OBVIOUS
  <2> HIDE DEF g, e
  <2>7. CharsTo(g, bytes, n + 1)
    BY <2>5, <2>6 DEF CharsTo
  <2>8. QED
    BY <2>2, <2>7
<1>3. T \in SUBSET Nat
  OBVIOUS
<1> HIDE DEF T
<1>4. \A n \in Nat : n \in T
  BY <1>1, <1>2, <1>3, NumberInduction
<1>5. QED
  BY <1>4 DEF T

LEMMA CharsToOne ==
  ASSUME NEW f, NEW s, NEW m \in Nat, CharsTo(f, s, m),
         NEW g, NEW t, NEW n \in Nat, CharsTo(g, t, n),
         m <= n, \A i \in 1..m : s[i] = t[i]
  PROVE  \A i \in 0..m : f[i] = g[i]
<1> DEFINE T == {i \in Nat : i \in 0..m => f[i] = g[i]}
<1>1. 0 \in T
  <2>1. 0 \in 0..m /\ 0 \in 0..n
    OBVIOUS
  <2>2. f[0] = <<>> /\ g[0] = <<>>
    BY <2>1, CharsToAt
  <2>3. QED
    BY <2>2
<1>2. ASSUME NEW i \in T PROVE i + 1 \in T
  <2> DEFINE j == i + 1
  <2>1. SUFFICES ASSUME j \in 0..m PROVE f[j] = g[j]
    OBVIOUS
  <2>2. /\ j \in 0..m /\ j \in 0..n /\ j - 1 = i /\ j # 0 /\ j \in 1..m
        /\ i \in 0..m
    BY <2>1
  <2>3. f[i] = g[i]
    BY <2>2
  <2> HIDE DEF j
  <2>4. f[j] = IF j = 0 THEN <<>> ELSE CharStep(f[j - 1], s[j])
    BY <2>2, CharsToAt
  <2>5. g[j] = IF j = 0 THEN <<>> ELSE CharStep(g[j - 1], t[j])
    BY <2>2, CharsToAt
  <2>6. QED
    BY <2>2, <2>3, <2>4, <2>5
<1>3. T \in SUBSET Nat
  OBVIOUS
<1> HIDE DEF T
<1>4. \A i \in Nat : i \in T
  BY <1>1, <1>2, <1>3, NumberInduction
<1>5. QED
  BY <1>4 DEF T

LEMMA CharactersUnfold ==
  ASSUME NEW bytes, Len(bytes) \in Nat
  PROVE  \E f : /\ CharsTo(f, bytes, Len(bytes))
               /\ Characters(bytes) = f[Len(bytes)]
<1> DEFINE f == CHOOSE f : CharsTo(f, bytes, Len(bytes))
<1>1. CharsTo(f, bytes, Len(bytes))
  BY CharsToSomething
<1>2. Characters(bytes) = f[Len(bytes)]
  BY DEF Characters, CharsTo
<1> HIDE DEF f
<1>3. QED
  BY <1>1, <1>2

LEMMA CharactersEmpty == Characters(<<>>) = <<>>
<1> DEFINE e == <<>>
<1>1. Len(e) = 0 /\ 0 \in Nat /\ 0 \in 0..0
  OBVIOUS
<1> HIDE DEF e
<1>2. PICK f : CharsTo(f, e, Len(e)) /\ Characters(e) = f[Len(e)]
  BY <1>1, CharactersUnfold
<1>3. f[0] = <<>>
  BY <1>1, <1>2, CharsToAt
<1>4. QED
  BY <1>1, <1>2, <1>3 DEF e

LEMMA CharactersAppend ==
  ASSUME NEW S, NEW bytes \in Seq(S), NEW b \in S
  PROVE  Characters(Append(bytes, b)) = CharStep(Characters(bytes), b)
<1> DEFINE n == Len(bytes)
           m == n + 1
           t == Append(bytes, b)
<1>1. /\ n \in Nat /\ Len(t) = m /\ t[m] = b
      /\ \A i \in 1..n : bytes[i] = t[i]
  BY AppendProperties
<1> HIDE DEF n, t
<1>2. /\ m \in Nat /\ m # 0 /\ m - 1 = n /\ m \in 0..m /\ n \in 0..n
      /\ n <= m
  BY <1>1
<1> HIDE DEF m
<1>3. PICK f : CharsTo(f, bytes, n) /\ Characters(bytes) = f[n]
  BY <1>1, CharactersUnfold DEF n
<1>4. PICK g : CharsTo(g, t, m) /\ Characters(t) = g[m]
  BY <1>1, <1>2, CharactersUnfold
<1>5. f[n] = g[n]
  <2>1. \A i \in 0..n : f[i] = g[i]
    BY <1>1, <1>2, <1>3, <1>4, CharsToOne
  <2>2. QED
    BY <1>2, <2>1
<1>6. g[m] = IF m = 0 THEN <<>> ELSE CharStep(g[m - 1], t[m])
  BY <1>2, <1>4, CharsToAt
<1>7. QED
  BY <1>1, <1>2, <1>3, <1>4, <1>5, <1>6 DEF t

(* A text one byte longer.                                                 *)
LEMMA LastAppend ==
  ASSUME NEW s \in Seq(Byte), NEW b \in Byte
  PROVE  InCharacter(Append(s, b)) <=> b \in Lead
<1>1. Last(Append(s, b)) = b /\ Append(s, b) # <<>>
  BY FrontLast, AppendProperties
<1>2. QED
  BY <1>1 DEF InCharacter

LEMMA UTF8Empty == UTF8(<<>>) /\ ~InCharacter(<<>>)
BY DEF UTF8, InCharacter

LEMMA UTF8Append ==
  ASSUME NEW s \in Seq(Byte), NEW b \in Byte
  PROVE  UTF8(Append(s, b)) <=> UTF8(s) /\ (b \in Trail <=> InCharacter(s))
<1> DEFINE n == Len(s)
           t == Append(s, b)
           Right(u, i) == u[i] \in Trail <=> i > 1 /\ u[i - 1] \in Lead
<1>1. /\ n \in Nat /\ DOMAIN s = 1..n /\ DOMAIN t = 1..n + 1
      /\ t[n + 1] = b /\ \A i \in 1..n : t[i] = s[i]
  BY AppendProperties
<1>2. InCharacter(s) <=> n + 1 > 1 /\ s[n] \in Lead
  <2>1. s # <<>> <=> n # 0
    BY EmptySeq
  <2>2. QED
    BY <1>1, <2>1 DEF InCharacter, Last
<1> HIDE DEF n, t
<1>3. \A i \in 1..n : Right(t, i) <=> Right(s, i)
  BY <1>1
<1>4. Right(t, n + 1) <=> (b \in Trail <=> InCharacter(s))
  <2>1. n + 1 - 1 = n /\ (n + 1 > 1 => n \in 1..n)
    BY <1>1
  <2>2. n + 1 > 1 => t[n] = s[n]
    BY <1>1, <2>1
  <2>3. QED
    BY <1>1, <1>2, <2>1, <2>2
<1>5. UTF8(t) <=> \A i \in 1..n + 1 : Right(t, i)
  BY <1>1 DEF UTF8
<1>6. UTF8(s) <=> \A i \in 1..n : Right(s, i)
  BY <1>1 DEF UTF8
<1> HIDE DEF Right
<1>7. (\A i \in 1..n + 1 : Right(t, i))
        <=> (\A i \in 1..n : Right(t, i)) /\ Right(t, n + 1)
  BY <1>1
<1>8. QED
  BY <1>3, <1>4, <1>5, <1>6, <1>7 DEF t

(* Of UTF-8 text, all characters are whole but the last, of which one byte *)
(* may be there so far.                                                    *)
Whole == Plain \cup {<<l, t>> : l \in Lead, t \in Trail}

LEMMA WholeIs ==
  ASSUME NEW w \in Whole
  PROVE  w \in Seq(Byte) /\ w # <<>> /\ w \in Character
<1>1. CASE w \in Plain
  <2>1. PICK b \in Ascii : w = <<b>>
    BY <1>1 DEF Plain
  <2>2. b \in Byte
    BY DEF Byte
  <2>3. QED
    BY <1>1, <2>1, <2>2, PlainIs
<1>2. CASE w \in {<<l, t>> : l \in Lead, t \in Trail}
  <2>1. PICK l \in Lead, t \in Trail : w = <<l, t>>
    BY <1>2
  <2>2. l \in Byte /\ t \in Byte
    BY DEF Byte
  <2>3. QED
    BY <1>2, <2>1, <2>2 DEF Character
<1>3. QED
  BY <1>1, <1>2 DEF Whole

LEMMA CharStepIs ==
  ASSUME NEW S, NEW cs \in Seq(S), NEW b
  PROVE  /\ b \notin Trail => CharStep(cs, b) = Append(cs, <<b>>)
         /\ \A l : <<l>> \in S /\ b \in Trail =>
              CharStep(Append(cs, <<l>>), b) = Append(cs, <<l, b>>)
<1>1. ASSUME NEW l, <<l>> \in S, b \in Trail
      PROVE  CharStep(Append(cs, <<l>>), b) = Append(cs, <<l, b>>)
  <2> DEFINE x == <<l>>
             chars == Append(cs, x)
  <2>1. Front(chars) = cs /\ Last(chars) = x
    BY <1>1, FrontLast
  <2>2. Append(x, b) = <<l, b>>
    BY PairIs
  <2> HIDE DEF chars, x
  <2>3. CharStep(chars, b) = Append(cs, Append(x, b))
    BY <1>1, <2>1 DEF CharStep
  <2>4. QED
    BY <2>2, <2>3 DEF chars, x
<1>2. b \notin Trail => CharStep(cs, b) = Append(cs, <<b>>)
  BY DEF CharStep
<1>3. QED
  BY <1>1, <1>2

Halves == {<<l>> : l \in Lead}
Shaped(chars, half) ==
  IF half THEN \E cs \in Seq(Whole), h \in Halves : chars = Append(cs, h)
          ELSE chars \in Seq(Whole)

LEMMA HalfStep ==
  ASSUME NEW cs \in Seq(Whole), NEW l \in Lead, NEW b
  PROVE  /\ b \in Trail =>
              /\ <<l, b>> \in Whole
              /\ CharStep(Append(cs, <<l>>), b) = Append(cs, <<l, b>>)
<1> DEFINE S == Whole \cup Halves
<1>1. <<l>> \in S /\ cs \in Seq(S)
  <2>1. Whole \subseteq S /\ <<l>> \in Halves
    BY DEF Halves
  <2>2. QED
    BY <2>1, SeqMonotonic
<1> HIDE DEF S
<1>2. b \in Trail => CharStep(Append(cs, <<l>>), b) = Append(cs, <<l, b>>)
  BY <1>1, CharStepIs
<1>3. b \in Trail => <<l, b>> \in Whole
  BY DEF Whole
<1>4. QED
  BY <1>2, <1>3

LEMMA CharactersShaped ==
  \A s \in Seq(Byte) :
    UTF8(s) => Shaped(Characters(s), InCharacter(s))
<1> DEFINE Good(s) == UTF8(s) => Shaped(Characters(s), InCharacter(s))
           T == {s \in Seq(Byte) : Good(s)}
<1>1. <<>> \in T
  <2>1. <<>> \in Seq(Byte) /\ <<>> \in Seq(Whole)
    BY EmptySeq
  <2>2. QED
    BY <2>1, CharactersEmpty, UTF8Empty DEF Shaped
<1>2. ASSUME NEW s \in T, NEW b \in Byte PROVE Append(s, b) \in T
  <2>1. s \in Seq(Byte) /\ Good(s)
    OBVIOUS
  <2> HIDE DEF T
  <2> DEFINE t == Append(s, b)
  <2>2. t \in Seq(Byte) /\ Characters(t) = CharStep(Characters(s), b)
    BY <2>1, AppendProperties, CharactersAppend
  <2>3. InCharacter(t) <=> b \in Lead
    BY <2>1, LastAppend
  <2>4. UTF8(t) => UTF8(s) /\ (b \in Trail <=> InCharacter(s))
    BY <2>1, UTF8Append
  <2> HIDE DEF t
  <2>5. ASSUME UTF8(t) PROVE Shaped(Characters(t), InCharacter(t))
    <3>1. Shaped(Characters(s), InCharacter(s))
      BY <2>1, <2>4, <2>5
    <3> DEFINE chars == Characters(s)
    <3> HIDE DEF chars
    <3>2. CASE b \in Trail
      <4>1. PICK cs \in Seq(Whole), h \in Halves : chars = Append(cs, h)
        BY <2>4, <2>5, <3>1, <3>2 DEF Shaped, chars
      <4>2. PICK l \in Lead : h = <<l>>
        BY DEF Halves
      <4>3. <<l, b>> \in Whole /\ CharStep(chars, b) = Append(cs, <<l, b>>)
        BY <3>2, <4>1, <4>2, HalfStep
      <4>4. ~InCharacter(t)
        BY <2>3, <3>2, TextAssumption
      <4> DEFINE w == <<l, b>>
      <4> HIDE DEF w
      <4>5. Append(cs, w) \in Seq(Whole)
        BY <4>3, AppendProperties DEF w
      <4>6. QED
        BY <2>2, <4>3, <4>4, <4>5 DEF Shaped, w, chars
    <3>3. CASE b \notin Trail
      <4>1. chars \in Seq(Whole)
        BY <2>4, <2>5, <3>1, <3>3 DEF Shaped, chars
      <4>2. CharStep(chars, b) = Append(chars, <<b>>)
        BY <3>3, <4>1, CharStepIs
      <4>3. CASE b \in Lead
        <5>1. <<b>> \in Halves
          BY <4>3 DEF Halves
        <5>2. QED
          BY <2>2, <2>3, <4>1, <4>2, <4>3, <5>1 DEF Shaped, chars
      <4>4. CASE b \notin Lead
        <5> DEFINE w == <<b>>
        <5>1. w \in Whole
          BY <3>3, <4>4 DEF Byte, Whole, Plain
        <5> HIDE DEF w
        <5>2. Append(chars, w) \in Seq(Whole)
          BY <4>1, <5>1, AppendProperties
        <5>3. QED
          BY <2>2, <2>3, <4>2, <4>4, <5>2 DEF Shaped, w, chars
      <4>5. QED
        BY <4>3, <4>4
    <3>4. QED
      BY <3>2, <3>3
  <2>6. QED
    BY <2>2, <2>5 DEF T, t
<1>3. T \in SUBSET Seq(Byte)
  OBVIOUS
<1> HIDE DEF T
<1>4. \A s \in Seq(Byte) : s \in T
  BY <1>1, <1>2, <1>3, SequenceInduction
<1>5. QED
  BY <1>4 DEF T

LEMMA ShapedLength ==
  ASSUME NEW s \in Seq(Byte), UTF8(s)
  PROVE  /\ Len(Characters(s)) \in Nat
         /\ InCharacter(s) => Len(Characters(s)) > 0
<1>1. Shaped(Characters(s), InCharacter(s))
  BY CharactersShaped
<1>2. CASE InCharacter(s)
  <2>1. PICK cs \in Seq(Whole), h \in Halves : Characters(s) = Append(cs, h)
    BY <1>1, <1>2 DEF Shaped
  <2> DEFINE S == Whole \cup Halves
  <2>2. cs \in Seq(S) /\ h \in S
    BY SeqMonotonic
  <2> HIDE DEF S
  <2>3. Len(Append(cs, h)) = Len(cs) + 1 /\ Len(cs) \in Nat
    BY <2>2, AppendProperties
  <2>4. QED
    BY <2>1, <2>3
<1>3. CASE ~InCharacter(s)
  <2>1. Characters(s) \in Seq(Whole)
    BY <1>1, <1>3 DEF Shaped
  <2>2. QED
    BY <1>3, <2>1, EmptySeq
<1>4. QED
  BY <1>2, <1>3

(* More bytes, no fewer characters.                                        *)
LEMMA CharactersGrow ==
  ASSUME NEW j \in Seq(Byte)
  PROVE  \A c \in Seq(Byte) :
           UTF8(j \o c) =>
             UTF8(j) /\ Len(Characters(j)) <= Len(Characters(j \o c))
<1> DEFINE n(s) == Len(Characters(s))
           Good(c) == UTF8(j \o c) => UTF8(j) /\ n(j) <= n(j \o c)
           T == {c \in Seq(Byte) : Good(c)}
<1>1. <<>> \in T
  <2>1. <<>> \in Seq(Byte) /\ j \o <<>> = j
    BY EmptySeq, ConcatEmptySeq
  <2>2. UTF8(j) => n(j) \in Nat
    BY ShapedLength
  <2> HIDE DEF n
  <2>3. UTF8(j) => n(j) <= n(j)
    BY <2>2
  <2>4. QED
    BY <2>1, <2>3
<1>2. ASSUME NEW c \in T, NEW b \in Byte PROVE Append(c, b) \in T
  <2>1. c \in Seq(Byte) /\ Good(c)
    OBVIOUS
  <2> HIDE DEF T
  <2>2. Append(c, b) \in Seq(Byte) /\ j \o c \in Seq(Byte)
    BY <2>1, AppendProperties, ConcatProperties
  <2>3. j \o Append(c, b) = Append(j \o c, b)
    BY <2>1, ConcatAppend
  <2> DEFINE s == j \o c
             t == Append(s, b)
  <2>4. /\ UTF8(t) => UTF8(s) /\ (b \in Trail <=> InCharacter(s))
        /\ Characters(t) = CharStep(Characters(s), b)
    BY <2>2, UTF8Append, CharactersAppend
  <2>5. UTF8(s) => UTF8(j) /\ n(j) <= n(s)
    BY <2>1
  <2> HIDE DEF s
  <2>6. ASSUME UTF8(t) PROVE UTF8(j) /\ n(j) <= n(t)
    <3> HIDE DEF t
    <3>1. /\ UTF8(s) /\ UTF8(j) /\ n(j) <= n(s)
      BY <2>4, <2>5, <2>6
    <3>2. n(j) \in Nat /\ n(s) \in Nat
      BY <2>2, <3>1, ShapedLength DEF s
    <3>3. n(s) <= n(t)
      <4>1. Shaped(Characters(s), InCharacter(s))
        BY <2>2, <3>1, CharactersShaped DEF s
      <4>2. CASE b \in Trail
        <5>1. PICK cs \in Seq(Whole), h \in Halves :
                Characters(s) = Append(cs, h)
          BY <2>4, <2>6, <4>1, <4>2 DEF Shaped
        <5>2. PICK l \in Lead : h = <<l>>
          BY DEF Halves
        <5> DEFINE w == <<l, b>>
                   S == Whole \cup Halves
        <5>3. w \in S /\ h \in S /\ Characters(t) = Append(cs, w)
          BY <2>4, <4>2, <5>1, <5>2, HalfStep
        <5>4. cs \in Seq(S)
          BY SeqMonotonic
        <5> HIDE DEF w, S
        <5>5. /\ Len(Append(cs, w)) = Len(cs) + 1 /\ Len(cs) \in Nat
              /\ Len(Append(cs, h)) = Len(cs) + 1
          BY <5>3, <5>4, AppendProperties
        <5>6. QED
          BY <5>1, <5>3, <5>5
      <4>3. CASE b \notin Trail
        <5> DEFINE chars == Characters(s)
                   w == <<b>>
                   S == Whole \cup {w}
        <5>1. chars \in Seq(Whole)
          BY <2>4, <2>6, <4>1, <4>3 DEF Shaped
        <5>2. Characters(t) = Append(chars, w)
          BY <2>4, <4>3, <5>1, CharStepIs
        <5>3. w \in S
          OBVIOUS
        <5> HIDE DEF chars, w
        <5>4. chars \in Seq(S)
          BY <5>1, SeqMonotonic
        <5> HIDE DEF S
        <5>5. Len(Append(chars, w)) = Len(chars) + 1 /\ Len(chars) \in Nat
          BY <5>3, <5>4, AppendProperties
        <5>6. QED
          BY <5>2, <5>5 DEF chars
      <4>4. QED
        BY <4>2, <4>3
    <3> DEFINE x == n(j)
               y == n(s)
               z == n(t)
    <3>4. z \in Nat
      <4>1. t \in Seq(Byte)
        BY <2>2, AppendProperties DEF s, t
      <4>2. QED
        BY <2>6, <4>1, ShapedLength DEF t
    <3> HIDE DEF n, x, y, z
    <3>5. x \in Nat /\ y \in Nat /\ z \in Nat /\ x <= y /\ y <= z
      BY <3>1, <3>2, <3>3, <3>4 DEF x, y, z
    <3>6. x <= z
      BY <3>5
    <3>7. QED
      BY <3>1, <3>6 DEF x, z
  <2>7. QED
    BY <2>2, <2>3, <2>6 DEF T, s
<1>3. T \in SUBSET Seq(Byte)
  OBVIOUS
<1> HIDE DEF T
<1>4. \A c \in Seq(Byte) : c \in T
  BY <1>1, <1>2, <1>3, SequenceInduction
<1>5. QED
  BY <1>4 DEF T

-----------------------------------------------------------------------------
(* What a decoder of its own makes of a content.                           *)

PairAt(bytes, i) ==
  i \in 1..(Len(bytes) - 1) /\ bytes[i] \in Lead /\ bytes[i + 1] \in Trail
DecodedAt(bytes, i) ==
  IF bytes[i] \in Ascii THEN <<bytes[i]>>
  ELSE IF PairAt(bytes, i) THEN <<bytes[i], bytes[i + 1]>> ELSE Replacement
DecodedFrom(bytes, i) ==
  IF PairAt(bytes, i - 1) THEN <<>> ELSE <<DecodedAt(bytes, i)>>
DecodedAll(bytes) == [i \in DOMAIN bytes |-> DecodedFrom(bytes, i)]

LEMMA DecodeIs ==
  ASSUME NEW bytes
  PROVE  Decode(bytes) = FlattenSeq(DecodedAll(bytes))
BY DEF Decode, DecodedAll, DecodedFrom, DecodedAt, PairAt

LEMMA DecodedType ==
  ASSUME NEW bytes \in Seq(Byte)
  PROVE  /\ DecodedAll(bytes) \in Seq(Seq(Character))
         /\ Len(DecodedAll(bytes)) = Len(bytes)
         /\ \A i \in 1..Len(bytes) :
              DecodedAll(bytes)[i] = DecodedFrom(bytes, i)
<1> DEFINE n == Len(bytes)
           e(i) == DecodedFrom(bytes, i)
           Q == Seq(Character)
<1>1. n \in Nat /\ DOMAIN bytes = 1..n
  OBVIOUS
<1>2. \A i \in 1..n : e(i) \in Q
  <2>1. ASSUME NEW i \in 1..n PROVE e(i) \in Q
    <3> DEFINE c == DecodedAt(bytes, i)
    <3>1. c \in Character
      <4>1. ASSUME PairAt(bytes, i)
            PROVE  <<bytes[i], bytes[i + 1]>> \in Character
        BY <4>1 DEF PairAt, Character
      <4>2. bytes[i] \in Ascii => <<bytes[i]>> \in Character
        BY DEF Character
      <4>3. Replacement \in Character
        BY DEF Character
      <4>4. QED
        BY <4>1, <4>2, <4>3 DEF DecodedAt
    <3> HIDE DEF c
    <3>2. <<c>> \in Q /\ <<>> \in Q
      BY <3>1, EmptySeq
    <3>3. QED
      BY <3>2 DEF DecodedFrom, c
  <2>2. QED
    BY <2>1
<1> HIDE DEF n
<1>3. DecodedAll(bytes) = [i \in 1..n |-> e(i)]
  BY <1>1 DEF DecodedAll
<1> HIDE DEF e, Q
<1>4. [i \in 1..n |-> e(i)] \in Seq(Q)
  BY <1>1, <1>2
<1>5. Len([i \in 1..n |-> e(i)]) = n
  BY <1>1
<1>6. QED
  BY <1>3, <1>4, <1>5 DEF n, e, Q

LEMMA DecodeType ==
  ASSUME NEW bytes \in Seq(Byte)
  PROVE  Decode(bytes) \in Seq(Character)
BY DecodeIs, DecodedType, FlattenType

LEMMA DecodeEmpty == Decode(<<>>) = <<>>
<1>1. DecodedAll(<<>>) = <<>>
  BY DEF DecodedAll
<1>2. QED
  BY <1>1, DecodeIs, FlattenEmpty

(* What follows the bytes of a content changes nothing about them, unless  *)
(* it completes the last.                                                  *)
LEMMA DecodedFront ==
  ASSUME NEW c \in Seq(Byte), NEW t \in Seq(Byte), Len(c) < Len(t),
         \A i \in 1..Len(c) : t[i] = c[i], ~PairAt(t, Len(c))
  PROVE  \A i \in 1..Len(c) : DecodedFrom(t, i) = DecodedFrom(c, i)
<1> DEFINE n == Len(c)
           m == Len(t)
<1>1. n \in Nat /\ m \in Nat /\ n < m
  OBVIOUS
<1>2. \A i \in 1..n : t[i] = c[i]
  OBVIOUS
<1> HIDE DEF n, m
<1>3. \A i \in 0..n : PairAt(t, i) <=> PairAt(c, i)
  <2>1. ASSUME NEW i \in 0..n PROVE PairAt(t, i) <=> PairAt(c, i)
    <3>1. PairAt(t, i) <=> /\ i \in 1..m - 1
                           /\ t[i] \in Lead /\ t[i + 1] \in Trail
      BY DEF PairAt, m
    <3>2. PairAt(c, i) <=> /\ i \in 1..n - 1
                           /\ c[i] \in Lead /\ c[i + 1] \in Trail
      BY DEF PairAt, n
    <3>3. CASE i \in 1..n - 1
      <4>1. i \in 1..n /\ i + 1 \in 1..n /\ i \in 1..m - 1
        BY <1>1, <3>3
      <4>2. t[i] = c[i] /\ t[i + 1] = c[i + 1]
        BY <1>2, <4>1
      <4>3. QED
        BY <3>1, <3>2, <3>3, <4>1, <4>2
    <3>4. CASE i = n
      <4>1. ~(i \in 1..n - 1)
        BY <1>1, <3>4
      <4>2. QED
        BY <3>2, <3>4, <4>1 DEF n
    <3>5. CASE i = 0
      <4>1. ~(i \in 1..n - 1) /\ ~(i \in 1..m - 1)
        BY <1>1, <3>5
      <4>2. QED
        BY <3>1, <3>2, <4>1
    <3>6. i \in 1..n - 1 \/ i = n \/ i = 0
      BY <1>1
    <3>7. QED
      BY <3>3, <3>4, <3>5, <3>6
  <2>2. QED
    BY <2>1
<1>4. ASSUME NEW i \in 1..n PROVE DecodedFrom(t, i) = DecodedFrom(c, i)
  <2>1. i \in 0..n /\ i - 1 \in 0..n
    BY <1>1
  <2>2. /\ PairAt(t, i) <=> PairAt(c, i)
        /\ PairAt(t, i - 1) <=> PairAt(c, i - 1)
    BY <1>3, <2>1
  <2>3. t[i] = c[i]
    BY <1>2
  <2>4. PairAt(t, i) => t[i + 1] = c[i + 1]
    <3>1. PairAt(t, i) => i \in 1..n - 1
      BY <2>2 DEF PairAt, n
    <3>2. i \in 1..n - 1 => i + 1 \in 1..n
      BY <1>1
    <3>3. QED
      BY <1>2, <3>1, <3>2
  <2>5. DecodedAt(t, i) = DecodedAt(c, i)
    BY <2>2, <2>3, <2>4 DEF DecodedAt
  <2>6. QED
    BY <2>2, <2>5 DEF DecodedFrom
<1>5. QED
  BY <1>4 DEF n

(* One byte more, that completes nothing.                                  *)
LEMMA DecodeAppend ==
  ASSUME NEW c \in Seq(Byte), NEW b \in Byte,
         c # <<>> => ~(Last(c) \in Lead /\ b \in Trail)
  PROVE  Decode(Append(c, b))
           = Append(Decode(c), IF b \in Ascii THEN <<b>> ELSE Replacement)
<1> DEFINE n == Len(c)
           t == Append(c, b)
           x == IF b \in Ascii THEN <<b>> ELSE Replacement
           dc == DecodedAll(c)
           dt == DecodedAll(t)
           d == Append(dc, <<x>>)
           Q == Seq(Character)
<1>1. /\ n \in Nat /\ t \in Seq(Byte) /\ Len(t) = n + 1 /\ t[n + 1] = b
      /\ \A i \in 1..n : t[i] = c[i]
  BY AppendProperties
<1>2. n # 0 => Last(c) = c[n] /\ c # <<>>
  BY EmptySeq DEF Last
<1>3. n + 1 - 1 = n /\ n < n + 1 /\ (n # 0 => n \in 1..n)
  BY <1>1
<1>4. x \in Character
  BY DEF Character
<1> HIDE DEF n, t
<1>5. ~PairAt(t, n)
  <2>1. PairAt(t, n) => n # 0 /\ t[n] \in Lead /\ t[n + 1] \in Trail
    BY <1>1 DEF PairAt
  <2>2. QED
    BY <1>1, <1>2, <1>3, <2>1
<1>6. ~PairAt(t, n + 1)
  <2>1. ~(n + 1 \in 1..(n + 1 - 1))
    BY <1>1
  <2>2. QED
    BY <1>1, <2>1 DEF PairAt
<1>7. DecodedFrom(t, n + 1) = <<x>>
  BY <1>1, <1>3, <1>5, <1>6 DEF DecodedFrom, DecodedAt
<1>8. \A i \in 1..n : DecodedFrom(t, i) = DecodedFrom(c, i)
  BY <1>1, <1>3, <1>5, DecodedFront DEF n
<1> HIDE DEF x
<1>9. /\ dc \in Seq(Q) /\ Len(dc) = n
      /\ \A i \in 1..n : dc[i] = DecodedFrom(c, i)
  BY DecodedType DEF n
<1>10. /\ dt \in Seq(Q) /\ Len(dt) = n + 1
       /\ \A i \in 1..n + 1 : dt[i] = DecodedFrom(t, i)
  BY <1>1, DecodedType
<1>11. <<x>> \in Q
  BY <1>4
<1> HIDE DEF dc, dt, Q
<1> DEFINE y == <<x>>
<1>12. y \in Q /\ DecodedFrom(t, n + 1) = y
  BY <1>7, <1>11
<1> HIDE DEF y
<1>13. /\ Append(dc, y) \in Seq(Q) /\ Len(Append(dc, y)) = n + 1
       /\ Append(dc, y)[n + 1] = y
       /\ \A i \in 1..n : Append(dc, y)[i] = dc[i]
  BY <1>9, <1>12, AppendProperties
<1>14. dt = Append(dc, y)
  <2>1. \A i \in 1..n + 1 : i \in 1..n \/ i = n + 1
    BY <1>1
  <2>2. \A i \in 1..n : dt[i] = Append(dc, y)[i]
    <3>1. \A i \in 1..n : i \in 1..n + 1
      BY <1>1
    <3>2. QED
      BY <1>8, <1>9, <1>10, <1>13, <3>1
  <2>3. dt[n + 1] = Append(dc, y)[n + 1]
    <3>1. n + 1 \in 1..n + 1
      BY <1>1
    <3>2. QED
      BY <1>10, <1>12, <1>13, <3>1
  <2> DEFINE e == Append(dc, y)
  <2>4. e \in Seq(Q) /\ Len(e) = n + 1
    BY <1>13
  <2>5. \A i \in 1..n + 1 : dt[i] = e[i]
    BY <2>1, <2>2, <2>3
  <2> HIDE DEF e
  <2>6. dt = e
    BY <1>10, <2>4, <2>5, SeqEqual
  <2>7. QED
    BY <2>6 DEF e
<1>15. FlattenSeq(Append(dc, y)) = FlattenSeq(dc) \o y
  BY <1>9, <1>12, FlattenAppend DEF Q
<1>16. FlattenSeq(dc) \o y = Append(FlattenSeq(dc), x)
  <2> DEFINE f == FlattenSeq(dc)
  <2>1. f \in Seq(Character)
    BY <1>9, FlattenType DEF Q
  <2> HIDE DEF f
  <2>2. Append(f, x) = f \o <<x>>
    BY <1>4, <2>1, AppendIsConcat
  <2>3. QED
    BY <2>2 DEF f, y
<1>17. Decode(t) = FlattenSeq(dt) /\ Decode(c) = FlattenSeq(dc)
  BY DecodeIs DEF dt, dc
<1>18. QED
  BY <1>14, <1>15, <1>16, <1>17 DEF t, x

(* The second byte of a character of which the content has the first.      *)
LEMMA DecodePair ==
  ASSUME NEW d \in Seq(Byte), NEW l \in Lead, NEW b \in Trail
  PROVE  Decode(Append(Append(d, l), b)) = Append(Decode(d), <<l, b>>)
<1> DEFINE k == Len(d)
           s == Append(d, l)
           t == Append(s, b)
           x == <<l, b>>
           y == <<x>>
           dd == DecodedAll(d)
           dt == DecodedAll(t)
           Q == Seq(Character)
<1>0. l \in Byte /\ b \in Byte /\ l \notin Trail /\ l \notin Ascii
  BY TextAssumption DEF Byte
<1>1. /\ k \in Nat /\ s \in Seq(Byte) /\ Len(s) = k + 1 /\ s[k + 1] = l
      /\ \A i \in 1..k : s[i] = d[i]
  BY <1>0, AppendProperties
<1> HIDE DEF k, s
<1>2. /\ t \in Seq(Byte) /\ Len(t) = k + 2 /\ t[k + 2] = b
      /\ \A i \in 1..k + 1 : t[i] = s[i]
  <2>1. /\ t \in Seq(Byte) /\ Len(t) = Len(s) + 1 /\ t[Len(s) + 1] = b
        /\ \A i \in 1..Len(s) : t[i] = s[i]
    BY <1>0, <1>1, AppendProperties
  <2> HIDE DEF t
  <2>2. Len(s) = k + 1 /\ k + 1 + 1 = k + 2
    BY <1>1
  <2>3. QED
    BY <2>1, <2>2
<1> HIDE DEF t
<1>3. t[k + 1] = l /\ \A i \in 1..k : t[i] = d[i]
  <2>1. k + 1 \in 1..k + 1 /\ \A i \in 1..k : i \in 1..k + 1
    BY <1>1
  <2>2. QED
    BY <1>1, <1>2, <2>1
<1>4. ~PairAt(t, k)
  BY <1>0, <1>3 DEF PairAt
<1>5. PairAt(t, k + 1)
  <2>1. k + 1 \in 1..(k + 2 - 1) /\ k + 1 + 1 = k + 2
    BY <1>1
  <2>2. QED
    BY <1>2, <1>3, <2>1 DEF PairAt
<1>6. DecodedFrom(t, k + 1) = y
  <2>1. k + 1 - 1 = k /\ k + 1 + 1 = k + 2
    BY <1>1
  <2>2. DecodedAt(t, k + 1) = <<t[k + 1], t[k + 1 + 1]>>
    BY <1>0, <1>3, <1>5 DEF DecodedAt
  <2>3. DecodedAt(t, k + 1) = x
    BY <1>2, <1>3, <2>1, <2>2
  <2> DEFINE j == k + 1
  <2> HIDE DEF x
  <2>4. j - 1 = k
    BY <1>1
  <2>5. DecodedAt(t, j) = x
    BY <2>3
  <2> HIDE DEF j
  <2>6. ~PairAt(t, j - 1)
    BY <1>4, <2>4
  <2>7. DecodedFrom(t, j) = <<x>>
    BY <2>5, <2>6 DEF DecodedFrom
  <2>8. QED
    BY <2>7 DEF j
<1>7. DecodedFrom(t, k + 2) = <<>>
  <2> DEFINE j == k + 2
  <2>1. j - 1 = k + 1
    BY <1>1
  <2> HIDE DEF j
  <2>2. PairAt(t, j - 1)
    BY <1>5, <2>1
  <2>3. DecodedFrom(t, j) = <<>>
    BY <2>2 DEF DecodedFrom
  <2>4. QED
    BY <2>3 DEF j
<1>8. \A i \in 1..k : DecodedFrom(t, i) = DecodedFrom(d, i)
  <2>1. k < k + 2
    BY <1>1
  <2>2. QED
    BY <1>2, <1>3, <1>4, <2>1, DecodedFront DEF k
<1>9. /\ dd \in Seq(Q) /\ Len(dd) = k
      /\ \A i \in 1..k : dd[i] = DecodedFrom(d, i)
  BY DecodedType DEF k
<1>10. /\ dt \in Seq(Q) /\ Len(dt) = k + 2
       /\ \A i \in 1..k + 2 : dt[i] = DecodedFrom(t, i)
  BY <1>2, DecodedType
<1>11. x \in Character
  BY DEF Character
<1> HIDE DEF x
<1>12. y \in Q /\ <<>> \in Q
  BY <1>11, EmptySeq
<1> DEFINE o == <<>>
           e == Append(dd, y)
           f == Append(e, o)
<1> HIDE DEF dd, dt, y, Q, o
<1>13. o \in Q /\ DecodedFrom(t, k + 2) = o
  BY <1>7, <1>12 DEF o
<1>14. /\ e \in Seq(Q) /\ Len(e) = k + 1 /\ e[k + 1] = y
       /\ \A i \in 1..k : e[i] = dd[i]
  BY <1>9, <1>12, AppendProperties
<1> HIDE DEF e
<1>15. /\ f \in Seq(Q) /\ Len(f) = Len(e) + 1 /\ f[Len(e) + 1] = o
       /\ \A i \in 1..Len(e) : f[i] = e[i]
  BY <1>13, <1>14, AppendProperties
<1> HIDE DEF f
<1>16. /\ Len(f) = k + 2 /\ f[k + 2] = o /\ f[k + 1] = y
       /\ \A i \in 1..k : f[i] = dd[i]
  <2>1. /\ k + 1 + 1 = k + 2 /\ k + 1 \in 1..k + 1
        /\ \A i \in 1..k : i \in 1..k + 1
    BY <1>1
  <2>2. QED
    BY <1>14, <1>15, <2>1
<1>17. \A i \in 1..k + 2 : dt[i] = f[i]
  <2>1. ASSUME NEW i \in 1..k + 2 PROVE dt[i] = f[i]
    <3>1. i \in 1..k \/ i = k + 1 \/ i = k + 2
      BY <1>1
    <3>2. QED
      BY <1>6, <1>8, <1>9, <1>10, <1>13, <1>16, <3>1
  <2>2. QED
    BY <2>1
<1>18. dt = f
  BY <1>10, <1>15, <1>16, <1>17, SeqEqual
<1>19. FlattenSeq(f) = FlattenSeq(e) \o o /\ FlattenSeq(e) = FlattenSeq(dd) \o y
  BY <1>9, <1>12, <1>13, <1>14, FlattenAppend DEF Q, f, e
<1> DEFINE g == FlattenSeq(dd)
<1>20. g \in Seq(Character)
  BY <1>9, FlattenType DEF Q
<1> HIDE DEF g
<1>21. g \o y = Append(g, x)
  BY <1>11, <1>20, AppendIsConcat DEF y
<1>22. Append(g, x) \in Seq(Character)
  BY <1>11, <1>20, AppendProperties
<1>23. Append(g, x) \o <<>> = Append(g, x)
  BY <1>22, ConcatEmptySeq
<1>24. Decode(t) = FlattenSeq(dt) /\ Decode(d) = g
  BY DecodeIs DEF dt, dd, g
<1>25. FlattenSeq(f) = Append(g, x)
  BY <1>19, <1>21, <1>23 DEF g, o
<1>26. QED
  BY <1>18, <1>24, <1>25 DEF t, s, x

-----------------------------------------------------------------------------
(* The text of a journal grows by what each content decodes to.            *)

MarksOn(chars, cut) ==
  [i \in DOMAIN chars |-> [char |-> chars[i], cut |-> i \in cut]]

LEMMA MarksOnType ==
  ASSUME NEW S, NEW chars \in Seq(S), NEW cut
  PROVE  /\ MarksOn(chars, cut) \in Seq([char : S, cut : BOOLEAN])
         /\ Len(MarksOn(chars, cut)) = Len(chars)
         /\ \A i \in 1..Len(chars) :
              MarksOn(chars, cut)[i] = [char |-> chars[i], cut |-> i \in cut]
<1> DEFINE n == Len(chars)
           Q == [char : S, cut : BOOLEAN]
           e(i) == [char |-> chars[i], cut |-> i \in cut]
<1>1. n \in Nat /\ DOMAIN chars = 1..n /\ \A i \in 1..n : chars[i] \in S
  BY ElementOfSeq
<1>2. \A i \in 1..n : e(i) \in Q
  BY <1>1
<1> HIDE DEF n
<1>3. MarksOn(chars, cut) = [i \in 1..n |-> e(i)]
  BY <1>1 DEF MarksOn
<1> HIDE DEF e, Q
<1>4. [i \in 1..n |-> e(i)] \in Seq(Q) /\ Len([i \in 1..n |-> e(i)]) = n
  BY <1>1, <1>2
<1>5. QED
  BY <1>3, <1>4 DEF n, e, Q

LEMMA MarksOnWhole ==
  ASSUME NEW chars \in Seq(Whole), NEW cut
  PROVE  MarksOn(chars, cut) \in Seq(Marks)
<1> DEFINE Q == [char : Whole, cut : BOOLEAN]
<1>1. Q \subseteq Marks
  BY WholeIs DEF Marks
<1>2. MarksOn(chars, cut) \in Seq(Q)
  BY MarksOnType
<1> HIDE DEF Q
<1>3. QED
  BY <1>1, <1>2, SeqMonotonic

LEMMA MarksOnAppend ==
  ASSUME NEW S, NEW chars \in Seq(S), NEW x \in S, NEW cut, NEW more,
         \A i \in 1..Len(chars) : i \in cut <=> i \in more
  PROVE  MarksOn(Append(chars, x), more)
           = Append(MarksOn(chars, cut),
                    [char |-> x, cut |-> Len(chars) + 1 \in more])
<1> DEFINE n == Len(chars)
           t == Append(chars, x)
           m == [char |-> x, cut |-> n + 1 \in more]
           a == MarksOn(t, more)
           b == MarksOn(chars, cut)
           c == Append(b, m)
           Q == [char : S, cut : BOOLEAN]
<1>1. /\ n \in Nat /\ t \in Seq(S) /\ Len(t) = n + 1 /\ t[n + 1] = x
      /\ \A i \in 1..n : t[i] = chars[i]
  BY AppendProperties
<1>2. m \in Q
  OBVIOUS
<1>3. \A i \in 1..n : i \in cut <=> i \in more
  OBVIOUS
<1>4. /\ b \in Seq(Q) /\ Len(b) = n
      /\ \A i \in 1..n : b[i] = [char |-> chars[i], cut |-> i \in cut]
  BY MarksOnType
<1> HIDE DEF n, t
<1>5. /\ a \in Seq(Q) /\ Len(a) = n + 1
      /\ \A i \in 1..n + 1 : a[i] = [char |-> t[i], cut |-> i \in more]
  BY <1>1, MarksOnType
<1>6. a[n + 1] = m
  <2>1. n + 1 \in 1..n + 1
    BY <1>1
  <2>2. QED
    BY <1>1, <1>5, <2>1
<1>7. \A i \in 1..n : a[i] = b[i]
  <2>1. ASSUME NEW i \in 1..n PROVE a[i] = b[i]
    <3>1. i \in 1..n + 1
      BY <1>1
    <3>2. a[i] = [char |-> chars[i], cut |-> i \in more]
      BY <1>1, <1>5, <3>1
    <3>3. b[i] = [char |-> chars[i], cut |-> i \in cut]
      BY <1>4
    <3>4. (i \in cut) = (i \in more)
      BY <1>3
    <3>5. QED
      BY <3>2, <3>3, <3>4
  <2>2. QED
    BY <2>1
<1> HIDE DEF a, b, m, Q
<1>8. /\ c \in Seq(Q) /\ Len(c) = n + 1 /\ c[n + 1] = m
      /\ \A i \in 1..n : c[i] = b[i]
  <2>1. /\ c \in Seq(Q) /\ Len(c) = Len(b) + 1 /\ c[Len(b) + 1] = m
        /\ \A i \in 1..Len(b) : c[i] = b[i]
    BY <1>2, <1>4, AppendProperties
  <2> HIDE DEF c
  <2>2. QED
    BY <1>4, <2>1
<1> HIDE DEF c
<1>9. \A i \in 1..n + 1 : a[i] = c[i]
  <2>1. \A i \in 1..n + 1 : i \in 1..n \/ i = n + 1
    BY <1>1
  <2>2. QED
    BY <1>6, <1>7, <1>8, <2>1
<1>10. a = c
  BY <1>5, <1>8, <1>9, SeqEqual
<1>11. QED
  BY <1>10 DEF a, b, c, m, n, t

(* One character more: whole, half, and half no longer.                    *)
LEMMA OneMore ==
  ASSUME NEW chars \in Seq(Whole), NEW x \in Whole \cup Halves,
         NEW cut, NEW more,
         \A i \in 1..Len(chars) : i \in cut <=> i \in more,
         Len(chars) + 1 \in more \/ x \in Whole
  PROVE  LET m == [char |-> x, cut |-> Len(chars) + 1 \in more]
         IN  /\ m \in Marks
             /\ MarksOn(Append(chars, x), more)
                  = Append(MarksOn(chars, cut), m)
             /\ Legible(MarksOn(Append(chars, x), more))
                  = Legible(MarksOn(chars, cut)) \o Shown(m)
<1> DEFINE k == Len(chars) + 1 \in more
           m == [char |-> x, cut |-> k]
           S == Whole \cup Halves
<1>0. k \in BOOLEAN /\ (k \/ x \in Whole)
  OBVIOUS
<1>1. m \in Marks
  <2>1. x \in Halves => x \in Seq(Byte) /\ x # <<>>
    <3>1. ASSUME x \in Halves PROVE x \in Seq(Byte) /\ x # <<>>
      <4>1. PICK l \in Lead : x = <<l>>
        BY <3>1 DEF Halves
      <4>2. l \in Byte
        BY DEF Byte
      <4>3. QED
        BY <4>1, <4>2
    <3>2. QED
      BY <3>1
  <2>2. x \in Whole => x \in Seq(Byte) /\ x # <<>> /\ x \in Character
    BY WholeIs
  <2> HIDE DEF k
  <2>3. m.char = x /\ m.cut = k
    OBVIOUS
  <2>4. m \in [char : Seq(Byte), cut : BOOLEAN]
    BY <1>0, <2>1, <2>2
  <2>5. m.char # <<>> /\ (~m.cut => m.char \in Character)
    BY <1>0, <2>1, <2>2, <2>3
  <2>6. QED
    BY <2>4, <2>5 DEF Marks
<1>2. chars \in Seq(S) /\ x \in S
  BY SeqMonotonic
<1> HIDE DEF S
<1>3. MarksOn(Append(chars, x), more) = Append(MarksOn(chars, cut), m)
  BY <1>2, MarksOnAppend
<1>4. MarksOn(chars, cut) \in Seq(Marks)
  BY MarksOnWhole
<1> HIDE DEF m
<1>5. Legible(Append(MarksOn(chars, cut), m))
        = Legible(MarksOn(chars, cut)) \o Shown(m)
  BY <1>1, <1>4, LegibleAppend
<1>6. QED
  BY <1>1, <1>3, <1>5 DEF m, k

LEMMA OneMoreWhole ==
  ASSUME NEW chars \in Seq(Whole), NEW w \in Whole,
         NEW cut, Len(chars) + 1 \notin cut
  PROVE  Legible(MarksOn(Append(chars, w), cut))
           = Append(Legible(MarksOn(chars, cut)), w)
<1> DEFINE m == [char |-> w, cut |-> Len(chars) + 1 \in cut]
           l == Legible(MarksOn(chars, cut))
<1>1. Legible(MarksOn(Append(chars, w), cut)) = l \o Shown(m)
  BY OneMore
<1>2. Shown(m) = <<w>>
  BY DEF Shown
<1>3. l \in Seq(Character) /\ w \in Character
  BY MarksOnWhole, LegibleType, WholeIs
<1> HIDE DEF l, m
<1>4. Append(l, w) = l \o <<w>>
  BY <1>3, AppendIsConcat
<1>5. QED
  BY <1>1, <1>2, <1>4 DEF l

LEMMA OneMoreHalf ==
  ASSUME NEW chars \in Seq(Whole), NEW h \in Halves,
         NEW cut, NEW more, Len(chars) + 1 \in more,
         \A i \in 1..Len(chars) : i \in cut <=> i \in more
  PROVE  Legible(MarksOn(Append(chars, h), more))
           = Append(Legible(MarksOn(chars, cut)), Replacement)
<1> DEFINE m == [char |-> h, cut |-> Len(chars) + 1 \in more]
           l == Legible(MarksOn(chars, cut))
<1>1. Legible(MarksOn(Append(chars, h), more)) = l \o Shown(m)
  BY OneMore
<1>2. Shown(m) = <<Replacement>>
  <2>1. PICK b \in Lead : h = <<b>>
    BY DEF Halves
  <2>2. DOMAIN h = {1}
    BY <2>1
  <2>3. Shown(m) = [i \in {1} |-> Replacement]
    BY <2>2 DEF Shown
  <2> DEFINE r == Replacement
  <2> HIDE DEF r
  <2>4. [i \in {1} |-> r] = <<r>>
    OBVIOUS
  <2>5. QED
    BY <2>3, <2>4 DEF r
<1>3. l \in Seq(Character) /\ Replacement \in Character
  BY MarksOnWhole, LegibleType DEF Character
<1> HIDE DEF l, m
<1>4. Append(l, Replacement) = l \o <<Replacement>>
  BY <1>3, AppendIsConcat
<1>5. QED
  BY <1>1, <1>2, <1>4 DEF l

LEMMA NoLongerHalf ==
  ASSUME NEW chars \in Seq(Whole), NEW b \in Lead, NEW t \in Trail,
         NEW cut, Len(chars) + 1 \in cut
  PROVE  Legible(MarksOn(Append(chars, <<b, t>>), cut))
           = Append(Legible(MarksOn(Append(chars, <<b>>), cut)), Replacement)
<1> DEFINE w == <<b, t>>
           h == <<b>>
           m == [char |-> w, cut |-> Len(chars) + 1 \in cut]
           l == Legible(MarksOn(chars, cut))
           r == Replacement
<1>1. w \in Whole /\ h \in Halves
  BY DEF Whole, Halves
<1> HIDE DEF w
<1>2. Legible(MarksOn(Append(chars, w), cut)) = l \o Shown(m)
  <2>1. w \in Whole \cup Halves
    BY <1>1
  <2>2. \A i \in 1..Len(chars) : i \in cut <=> i \in cut
    OBVIOUS
  <2> HIDE DEF h, r
  <2>3. QED
    BY <1>1, <2>1, <2>2, OneMore
<1>3. Legible(MarksOn(Append(chars, h), cut)) = Append(l, r)
  BY <1>1, OneMoreHalf
<1>4. Shown(m) = <<r, r>>
  <2>1. DOMAIN w = 1..2
    BY DEF w
  <2>2. Shown(m) = [i \in 1..2 |-> r]
    BY <2>1 DEF Shown
  <2> HIDE DEF r
  <2>3. [i \in 1..2 |-> r] = <<r, r>>
    OBVIOUS
  <2>4. QED
    BY <2>2, <2>3
<1>5. l \in Seq(Character) /\ r \in Character
  BY MarksOnWhole, LegibleType DEF Character
<1> HIDE DEF l, m, r, h
<1>6. /\ Append(l, r) = l \o <<r>> /\ <<r>> \in Seq(Character)
      /\ Append(l, r) \in Seq(Character)
  BY <1>5, AppendIsConcat, AppendProperties
<1>7. Append(<<r>>, r) = <<r, r>>
  BY PairIs
<1>8. l \o Append(<<r>>, r) = Append(l \o <<r>>, r)
  BY <1>5, <1>6, ConcatAppend
<1>9. QED
  BY <1>2, <1>3, <1>4, <1>6, <1>7, <1>8 DEF l, r, w, h

(* What a journal cut as it is will have decoded to, by the end of bytes.  *)
CutBy(cut, bytes) ==
  IF InCharacter(bytes) THEN cut \cup {Len(Characters(bytes))} ELSE cut
TextOf(cut, bytes) == Legible(MarksOn(Characters(bytes), CutBy(cut, bytes)))

LEMMA TextOfType ==
  ASSUME NEW s \in Seq(Byte), UTF8(s), NEW cut
  PROVE  /\ MarksOn(Characters(s), CutBy(cut, s)) \in Seq(Marks)
         /\ TextOf(cut, s) \in Seq(Character)
<1> DEFINE chars == Characters(s)
           marks == MarksOn(chars, CutBy(cut, s))
<1>1. Shaped(chars, InCharacter(s))
  BY CharactersShaped
<1>2. marks \in Seq(Marks)
  <2>1. CASE InCharacter(s)
    <3>1. PICK cs \in Seq(Whole), h \in Halves : chars = Append(cs, h)
      BY <1>1, <2>1 DEF Shaped
    <3> DEFINE more == CutBy(cut, s)
               m == [char |-> h, cut |-> Len(cs) + 1 \in more]
               S == Whole \cup Halves
    <3>2. h \in S /\ cs \in Seq(S)
      BY SeqMonotonic
    <3>3. Len(chars) = Len(cs) + 1
      <4> HIDE DEF chars, S
      <4>1. Len(Append(cs, h)) = Len(cs) + 1
        BY <3>2, AppendProperties
      <4>2. QED
        BY <3>1, <4>1
    <3>4. Len(cs) + 1 \in more
      BY <2>1, <3>3 DEF CutBy
    <3> HIDE DEF more
    <3>5. m \in Marks /\ MarksOn(Append(cs, h), more)
                           = Append(MarksOn(cs, more), m)
      BY <3>2, <3>4, OneMore
    <3>6. MarksOn(cs, more) \in Seq(Marks)
      BY MarksOnWhole
    <3> HIDE DEF m
    <3>7. Append(MarksOn(cs, more), m) \in Seq(Marks)
      BY <3>5, <3>6, AppendProperties
    <3>8. QED
      BY <3>1, <3>5, <3>7 DEF more
  <2>2. CASE ~InCharacter(s)
    <3>1. chars \in Seq(Whole)
      BY <1>1, <2>2 DEF Shaped
    <3>2. QED
      BY <3>1, MarksOnWhole
  <2>3. QED
    BY <2>1, <2>2
<1>3. QED
  BY <1>2, LegibleType DEF TextOf

LEMMA GrowsWhole ==
  ASSUME NEW s \in Seq(Byte), UTF8(s), ~InCharacter(s), NEW b \in Ascii,
         NEW cut, Len(Characters(s)) + 1 \notin cut
  PROVE  TextOf(cut, Append(s, b)) = Append(TextOf(cut, s), <<b>>)
<1> DEFINE chars == Characters(s)
           t == Append(s, b)
           w == <<b>>
<1>1. b \in Byte /\ b \notin Trail /\ b \notin Lead /\ w \in Whole
  BY TextAssumption DEF Byte, Whole, Plain
<1>2. chars \in Seq(Whole)
  BY CharactersShaped DEF Shaped
<1>3. ~InCharacter(t)
  BY <1>1, LastAppend
<1>4. Characters(t) = Append(chars, w)
  <2>1. Characters(t) = CharStep(chars, b)
    BY <1>1, CharactersAppend
  <2> HIDE DEF chars
  <2>2. CharStep(chars, b) = Append(chars, w)
    BY <1>1, <1>2, CharStepIs
  <2>3. QED
    BY <2>1, <2>2
<1> HIDE DEF w
<1>5. Legible(MarksOn(Append(chars, w), cut))
        = Append(Legible(MarksOn(chars, cut)), w)
  BY <1>1, <1>2, OneMoreWhole
<1>6. QED
  BY <1>3, <1>4, <1>5 DEF TextOf, CutBy, w

LEMMA GrowsHalf ==
  ASSUME NEW s \in Seq(Byte), UTF8(s), ~InCharacter(s), NEW b \in Lead, NEW cut
  PROVE  TextOf(cut, Append(s, b)) = Append(TextOf(cut, s), Replacement)
<1> DEFINE chars == Characters(s)
           n == Len(chars)
           t == Append(s, b)
           h == <<b>>
           more == cut \cup {n + 1}
<1>1. b \in Byte /\ b \notin Trail /\ h \in Halves
  BY TextAssumption DEF Byte, Halves
<1>2. chars \in Seq(Whole)
  BY CharactersShaped DEF Shaped
<1>3. InCharacter(t)
  BY <1>1, LastAppend
<1>4. Characters(t) = Append(chars, h)
  <2>1. Characters(t) = CharStep(chars, b)
    BY <1>1, CharactersAppend
  <2> HIDE DEF chars
  <2>2. CharStep(chars, b) = Append(chars, h)
    BY <1>1, <1>2, CharStepIs
  <2>3. QED
    BY <2>1, <2>2
<1>5. n \in Nat /\ Len(Append(chars, h)) = n + 1
  <2> DEFINE S == Whole \cup Halves
  <2>1. chars \in Seq(S) /\ h \in S
    BY <1>1, <1>2, SeqMonotonic
  <2> HIDE DEF S, chars, h
  <2>2. QED
    BY <2>1, AppendProperties
<1>6. n + 1 \in more /\ \A i \in 1..n : i \in cut <=> i \in more
  BY <1>5
<1>7. CutBy(cut, t) = more
  BY <1>3, <1>4, <1>5 DEF CutBy
<1> HIDE DEF more, h
<1>8. Legible(MarksOn(Append(chars, h), more))
        = Append(Legible(MarksOn(chars, cut)), Replacement)
  BY <1>1, <1>2, <1>6, OneMoreHalf
<1>9. TextOf(cut, s) = Legible(MarksOn(chars, cut))
  BY DEF TextOf, CutBy
<1>10. QED
  BY <1>4, <1>7, <1>8, <1>9 DEF TextOf

LEMMA GrowsPair ==
  ASSUME NEW s \in Seq(Byte), UTF8(s), ~InCharacter(s),
         NEW b \in Lead, NEW c \in Trail,
         NEW cut, Len(Characters(s)) + 1 \notin cut
  PROVE  TextOf(cut, Append(Append(s, b), c))
           = Append(TextOf(cut, s), <<b, c>>)
<1> DEFINE chars == Characters(s)
           u == Append(s, b)
           t == Append(u, c)
           w == <<b, c>>
<1>1. b \in Byte /\ c \in Byte /\ b \notin Trail /\ c \notin Lead
  BY TextAssumption DEF Byte
<1>2. chars \in Seq(Whole)
  BY CharactersShaped DEF Shaped
<1>3. u \in Seq(Byte) /\ Characters(u) = Append(chars, <<b>>)
  <2>1. u \in Seq(Byte) /\ Characters(u) = CharStep(chars, b)
    BY <1>1, AppendProperties, CharactersAppend
  <2> HIDE DEF chars
  <2>2. CharStep(chars, b) = Append(chars, <<b>>)
    BY <1>1, <1>2, CharStepIs
  <2>3. QED
    BY <2>1, <2>2
<1> HIDE DEF u
<1>4. ~InCharacter(t)
  BY <1>1, <1>3, LastAppend
<1>5. Characters(t) = CharStep(Characters(u), c)
  BY <1>1, <1>3, CharactersAppend
<1> HIDE DEF chars
<1>6. w \in Whole /\ CharStep(Append(chars, <<b>>), c) = Append(chars, w)
  BY <1>2, HalfStep
<1>7. Characters(t) = Append(chars, w)
  BY <1>3, <1>5, <1>6
<1> HIDE DEF w
<1>8. Legible(MarksOn(Append(chars, w), cut))
        = Append(Legible(MarksOn(chars, cut)), w)
  BY <1>2, <1>6, OneMoreWhole DEF chars
<1>9. TextOf(cut, s) = Legible(MarksOn(chars, cut))
  BY DEF TextOf, CutBy, chars
<1>10. TextOf(cut, t) = Legible(MarksOn(Characters(t), cut))
  BY <1>4 DEF TextOf, CutBy
<1>11. QED
  BY <1>7, <1>8, <1>9, <1>10 DEF t, u, w

LEMMA GrowsDamaged ==
  ASSUME NEW s \in Seq(Byte), UTF8(s), InCharacter(s), NEW c \in Trail,
         NEW cut, Len(Characters(s)) \in cut
  PROVE  TextOf(cut, Append(s, c)) = Append(TextOf(cut, s), Replacement)
<1> DEFINE t == Append(s, c)
<1>1. c \in Byte /\ c \notin Lead
  BY TextAssumption DEF Byte
<1>2. PICK cs \in Seq(Whole), h \in Halves : Characters(s) = Append(cs, h)
  BY CharactersShaped DEF Shaped
<1>3. PICK b \in Lead : h = <<b>>
  BY DEF Halves
<1>4. Characters(t) = Append(cs, <<b, c>>)
  <2>1. Characters(t) = CharStep(Characters(s), c)
    BY <1>1, CharactersAppend
  <2>2. CharStep(Append(cs, <<b>>), c) = Append(cs, <<b, c>>)
    BY HalfStep
  <2>3. QED
    BY <1>2, <1>3, <2>1, <2>2
<1>5. Len(cs) + 1 \in cut
  <2> DEFINE S == Whole \cup Halves
  <2>1. cs \in Seq(S) /\ h \in S
    BY SeqMonotonic
  <2> HIDE DEF S
  <2>2. Len(Append(cs, h)) = Len(cs) + 1
    BY <2>1, AppendProperties
  <2>3. QED
    BY <1>2, <2>2
<1>6. Legible(MarksOn(Append(cs, <<b, c>>), cut))
        = Append(Legible(MarksOn(Append(cs, <<b>>), cut)), Replacement)
  BY <1>5, NoLongerHalf
<1>7. CutBy(cut, t) = cut /\ CutBy(cut, s) = cut
  BY <1>1, LastAppend DEF CutBy
<1>8. QED
  BY <1>2, <1>3, <1>4, <1>6, <1>7 DEF TextOf

LEMMA TextGrows ==
  ASSUME NEW j \in Seq(Byte), UTF8(j),
         NEW cut, cut \subseteq 1..Len(Characters(j)),
         InCharacter(j) => Len(Characters(j)) \in cut
  PROVE  \A content \in Seq(Byte) :
           UTF8(j \o content) =>
             TextOf(cut, j \o content) = TextOf(cut, j) \o Decode(content)
<1> DEFINE l == TextOf(cut, j)
           n(s) == Len(Characters(s))
           Good(c) == UTF8(j \o c) => TextOf(cut, j \o c) = l \o Decode(c)
           T == {c \in Seq(Byte) : Good(c)}
<1>0. l \in Seq(Character)
  BY TextOfType
<1>1. <<>> \in T
  <2>1. <<>> \in Seq(Byte) /\ j \o <<>> = j /\ l \o <<>> = l
    BY <1>0, EmptySeq, ConcatEmptySeq
  <2>2. QED
    BY <2>1, DecodeEmpty
<1> HIDE DEF l
<1>2. ASSUME NEW s \in Seq(Byte), UTF8(j \o s)
      PROVE  n(j \o s) + 1 \notin cut
  <2>1. n(j) <= n(j \o s) /\ n(j) \in Nat /\ n(j \o s) \in Nat
    BY <1>2, CharactersGrow, ShapedLength, ConcatProperties
  <2> DEFINE x == n(j)
             y == n(j \o s)
  <2>2. cut \subseteq 1..x
    OBVIOUS
  <2> HIDE DEF x, y
  <2>3. x <= y /\ x \in Nat /\ y \in Nat
    BY <2>1 DEF x, y
  <2>4. y + 1 \notin cut
    BY <2>2, <2>3
  <2>5. QED
    BY <2>4 DEF y
<1>3. ASSUME NEW c \in T, NEW b \in Byte PROVE Append(c, b) \in T
  <2>1. c \in Seq(Byte) /\ Good(c)
    OBVIOUS
  <2> HIDE DEF T
  <2> DEFINE s == j \o c
             cb == Append(c, b)
             t == Append(s, b)
  <2>2. cb \in Seq(Byte) /\ s \in Seq(Byte) /\ j \o cb = t
    BY <2>1, AppendProperties, ConcatProperties, ConcatAppend
  <2> HIDE DEF cb, t
  <2>3. SUFFICES ASSUME UTF8(t) PROVE TextOf(cut, t) = l \o Decode(cb)
    BY <2>2 DEF T, cb
  <2>4. UTF8(s) /\ (b \in Trail <=> InCharacter(s))
    BY <2>2, <2>3, UTF8Append DEF t
  <2>5. TextOf(cut, s) = l \o Decode(c)
    BY <2>1, <2>4
  <2>6. n(s) + 1 \notin cut
    BY <1>2, <2>1, <2>4
  <2>7. Decode(c) \in Seq(Character)
    BY <2>1, DecodeType
  <2> HIDE DEF s
  <2>8. CASE b \in Ascii
    <3>1. b \notin Trail
      BY <2>8, TextAssumption
    <3> DEFINE x == <<b>>
    <3>2. TextOf(cut, t) = Append(TextOf(cut, s), x)
      BY <2>2, <2>4, <2>6, <2>8, <3>1, GrowsWhole DEF t
    <3>3. Decode(cb) = Append(Decode(c), x)
      BY <2>1, <2>8, <3>1, DecodeAppend DEF cb
    <3>4. x \in Character
      BY <2>8 DEF Character
    <3> HIDE DEF x
    <3>5. l \o Append(Decode(c), x) = Append(l \o Decode(c), x)
      BY <1>0, <2>7, <3>4, ConcatAppend
    <3>6. QED
      BY <2>5, <3>2, <3>3, <3>5
  <2>9. CASE b \in Lead
    <3>1. b \notin Trail /\ b \notin Ascii
      BY <2>9, TextAssumption
    <3>2. TextOf(cut, t) = Append(TextOf(cut, s), Replacement)
      BY <2>2, <2>4, <2>9, <3>1, GrowsHalf DEF t
    <3>3. Decode(cb) = Append(Decode(c), Replacement)
      BY <2>1, <3>1, DecodeAppend DEF cb
    <3>4. Replacement \in Character
      BY DEF Character
    <3>5. l \o Append(Decode(c), Replacement)
            = Append(l \o Decode(c), Replacement)
      BY <1>0, <2>7, <3>4, ConcatAppend
    <3>6. QED
      BY <2>5, <3>2, <3>3, <3>5
  <2>10. CASE b \in Trail /\ c = <<>>
    <3>1. b \notin Ascii /\ s = j
      BY <2>10, ConcatEmptySeq, TextAssumption DEF s
    <3>2. TextOf(cut, t) = Append(TextOf(cut, s), Replacement)
      BY <2>4, <2>10, <3>1, GrowsDamaged DEF t
    <3>3. Decode(cb) = Append(Decode(c), Replacement)
      BY <2>1, <2>10, <3>1, DecodeAppend DEF cb
    <3>4. Replacement \in Character
      BY DEF Character
    <3>5. l \o Append(Decode(c), Replacement)
            = Append(l \o Decode(c), Replacement)
      BY <1>0, <2>7, <3>4, ConcatAppend
    <3>6. QED
      BY <2>5, <3>2, <3>3, <3>5
  <2>11. CASE b \in Trail /\ c # <<>>
    <3>1. PICK d \in Seq(Byte), a \in Byte : c = Append(d, a)
      BY <2>1, <2>11, SequenceEmptyOrAppend
    <3> DEFINE r == j \o d
    <3>2. r \in Seq(Byte) /\ s = Append(r, a)
      BY <3>1, ConcatProperties, ConcatAppend DEF s
    <3>3. n(r) + 1 \notin cut \/ ~UTF8(r)
      BY <1>2
    <3> HIDE DEF r
    <3>4. a \in Lead /\ a \notin Trail /\ a \notin Ascii
      BY <2>4, <2>11, <3>2, LastAppend, TextAssumption
    <3>5. UTF8(r) /\ ~InCharacter(r)
      BY <2>4, <3>2, <3>4, UTF8Append
    <3> DEFINE dd == Decode(d)
               tr == TextOf(cut, r)
    <3>6. dd \in Seq(Character) /\ tr \in Seq(Character)
      BY <3>2, <3>5, DecodeType, TextOfType
    <3>7. TextOf(cut, s) = Append(tr, Replacement)
      BY <3>2, <3>4, <3>5, GrowsHalf
    <3>8. Decode(c) = Append(dd, Replacement)
      BY <3>1, <3>4, DecodeAppend
    <3>9. TextOf(cut, t) = Append(tr, <<a, b>>)
      BY <2>11, <3>2, <3>3, <3>4, <3>5, GrowsPair DEF t
    <3>10. Decode(cb) = Append(dd, <<a, b>>)
      BY <2>11, <3>1, <3>4, DecodePair DEF cb
    <3> DEFINE x == <<a, b>>
    <3>11. x \in Character /\ Replacement \in Character
      BY <2>11, <3>4 DEF Character
    <3> HIDE DEF dd, tr, x
    <3>12. /\ l \o Append(dd, Replacement) = Append(l \o dd, Replacement)
           /\ l \o Append(dd, x) = Append(l \o dd, x)
           /\ l \o dd \in Seq(Character)
      <4> DEFINE y == Replacement
      <4> HIDE DEF y
      <4>1. \A z \in Character : l \o Append(dd, z) = Append(l \o dd, z)
        BY <1>0, <3>6, ConcatAppend
      <4>2. x \in Character /\ y \in Character
        BY <3>11 DEF y
      <4>3. l \o Append(dd, y) = Append(l \o dd, y)
        BY <4>1, <4>2
      <4>4. l \o Append(dd, x) = Append(l \o dd, x)
        BY <4>1, <4>2
      <4>5. l \o dd \in Seq(Character)
        BY <1>0, <3>6, ConcatProperties
      <4>6. QED
        BY <4>3, <4>4, <4>5 DEF y
    <3>13. Append(tr, Replacement) = Append(l \o dd, Replacement)
      BY <2>5, <3>7, <3>8, <3>12
    <3>14. tr = l \o dd
      <4> DEFINE e == l \o dd
                 y == Replacement
      <4>1. /\ e \in Seq(Character) /\ y \in Character
            /\ Append(tr, y) = Append(e, y)
        BY <3>11, <3>12, <3>13
      <4> HIDE DEF e, y
      <4>2. Append(tr, y) = Append(e, y) <=> tr = e /\ y = y
        BY <3>6, <4>1, AppendInjective
      <4>3. QED
        BY <4>1, <4>2 DEF e
    <3>15. QED
      BY <3>9, <3>10, <3>12, <3>14 DEF x
  <2>12. QED
    BY <2>8, <2>9, <2>10, <2>11 DEF Byte
<1>4. T \in SUBSET Seq(Byte)
  OBVIOUS
<1> HIDE DEF T
<1>5. \A c \in Seq(Byte) : c \in T
  BY <1>1, <1>3, <1>4, SequenceInduction
<1>6. QED
  BY <1>5 DEF T, l

-----------------------------------------------------------------------------
(* What is kept.                                                           *)

LEMMA SeparatorIs ==
  ASSUME TypeOK
  PROVE  splitOn \in Seq(Plain) /\ splitOn # <<>> /\ splitOn \in Seq(Character)
<1>1. splitOn \in Seq(Plain) /\ splitOn # <<>>
  BY TextAssumption DEF TypeOK, Plain
<1>2. QED
  BY <1>1, PlainIs, SeqMonotonic

LEMMA CutAsItIs ==
  ASSUME TextOfJournal
  PROVE  CutBy(damaged, journal) = damaged
BY DEF TextOfJournal, CutBy

LEMMA MarkedIs == Marked = MarksOn(Characters(journal), damaged)
BY DEF Marked, MarksOn

LEMMA InvInit ==
  ASSUME Init
  PROVE  Inv
<1>1. /\ journal = <<>> /\ damaged = {} /\ splitOn \in Separators
      /\ buffer = <<>> /\ parts = <<>> /\ closed = FALSE /\ text = <<>>
  BY DEF Init, Split!Init
<1>2. /\ <<>> \in Seq(Byte) /\ <<>> \in Seq(Character)
      /\ <<>> \in Seq(Seq(Character))
  BY EmptySeq
<1>3. TypeOK
  BY <1>1, <1>2 DEF TypeOK
<1>4. TextOfJournal
  <2>1. MarksOn(<<>>, damaged) = <<>>
    BY DEF MarksOn
  <2>2. Legible(Marked) = <<>>
    BY <1>1, <2>1, MarkedIs, CharactersEmpty, LegibleEmpty
  <2>3. QED
    BY <1>1, <2>2, UTF8Empty DEF TextOfJournal
<1>5. LinesOfText
  <2>1. Reading(text, splitOn) = Unread
    BY <1>1, ReadingEmpty
  <2>2. Unread.lines = <<>> /\ Unread.rest = <<>>
    BY DEF Unread
  <2>3. QED
    BY <1>1, <2>1, <2>2 DEF LinesOfText
<1>6. QED
  BY <1>3, <1>4, <1>5 DEF Inv

(* Both times that queueLines runs.                                        *)
LEMMA QueueStep ==
  ASSUME Inv, NEW chunk \in Seq(Character),
         Split!QueueLines(buffer \o chunk)
  PROVE  /\ parts' = Reading(text \o chunk, splitOn).lines
         /\ buffer' = Reading(text \o chunk, splitOn).rest
<1>1. splitOn \in Seq(Character) /\ splitOn # <<>> /\ text \in Seq(Character)
  BY SeparatorIs DEF Inv, TypeOK
<1>2. /\ parts = Reading(text, splitOn).lines
      /\ buffer = Reading(text, splitOn).rest
  BY DEF Inv, LinesOfText
<1> DEFINE split == Split!Split(buffer \o chunk, splitOn)
<1>3. parts' = parts \o Split!Front(split) /\ buffer' = Split!Last(split)
  BY DEF Split!QueueLines
<1>4. /\ parts \o Split!Front(split) = Reading(text \o chunk, splitOn).lines
      /\ Split!Last(split) = Reading(text \o chunk, splitOn).rest
  BY <1>1, <1>2, QueueReads
<1>5. QED
  BY <1>3, <1>4

LEMMA InvReceive ==
  ASSUME Inv, NEW content \in Seq(Byte), Receive(content)
  PROVE  Inv'
<1> DEFINE chunk == Decode(content)
           n == Len(Characters(journal))
           m == Len(Characters(journal'))
<1>1. TypeOK /\ TextOfJournal /\ LinesOfText
  BY DEF Inv
<1>2. /\ UTF8(journal') /\ journal' = journal \o content
      /\ damaged' = CutBy(damaged, journal')
  BY DEF Receive, CutBy
<1>3. /\ journal \in Seq(Byte) /\ UTF8(journal) /\ damaged \subseteq 1..n
      /\ InCharacter(journal) => n \in damaged
      /\ text \in Seq(Character) /\ buffer \in Seq(Character)
      /\ parts \in Seq(Seq(Character)) /\ closed \in BOOLEAN
      /\ splitOn \in Separators
  BY <1>1 DEF TypeOK, TextOfJournal
<1>4. journal' \in Seq(Byte) /\ chunk \in Seq(Character)
  BY <1>2, <1>3, ConcatProperties, DecodeType
<1>5. /\ text' = text \o chunk /\ splitOn' = splitOn /\ closed' = closed
      /\ parts' = Reading(text \o chunk, splitOn).lines
      /\ buffer' = Reading(text \o chunk, splitOn).rest
  <2>1. CASE content = <<>>
    <3>1. UNCHANGED splitVars
      BY <2>1 DEF Receive, Transform
    <3>2. text \o chunk = text
      BY <1>3, <2>1, DecodeEmpty, ConcatEmptySeq
    <3>3. QED
      BY <1>1, <3>1, <3>2 DEF splitVars, LinesOfText
  <2>2. CASE content # <<>>
    <3>1. Transform(content) = <<chunk>>
      BY <2>2 DEF Transform
    <3> HIDE DEF chunk
    <3>2. Transform(content) # <<>> /\ Transform(content)[1] = chunk
      BY <3>1
    <3>3. Split!Transform(chunk)
      BY <3>2 DEF Receive
    <3>4. /\ text' = text \o chunk /\ splitOn' = splitOn /\ closed' = closed
          /\ Split!QueueLines(buffer \o chunk)
      BY <3>3 DEF Split!Transform
    <3>5. QED
      BY <1>4, <3>4, QueueStep DEF chunk
  <2>3. QED
    BY <2>1, <2>2
<1> HIDE DEF chunk
<1>6. n <= m /\ n \in Nat /\ m \in Nat /\ (InCharacter(journal') => m > 0)
  <2>1. n <= Len(Characters(journal \o content))
    BY <1>2, <1>3, CharactersGrow
  <2>2. QED
    BY <1>2, <1>3, <1>4, <2>1, ShapedLength
<1>7. damaged' \subseteq 1..m /\ (InCharacter(journal') => m \in damaged')
  <2>1. damaged' = IF InCharacter(journal') THEN damaged \cup {m} ELSE damaged
    BY <1>2 DEF CutBy
  <2> HIDE DEF n, m
  <2>2. damaged \subseteq 1..m
    BY <1>3, <1>6
  <2>3. QED
    BY <1>6, <2>1, <2>2
<1>8. text' = Legible(Marked)'
  <2>1. text = TextOf(damaged, journal)
    BY <1>1, CutAsItIs, MarkedIs DEF TextOfJournal, TextOf
  <2>2. TextOf(damaged, journal \o content)
          = TextOf(damaged, journal) \o chunk
    BY <1>2, <1>3, TextGrows DEF chunk
  <2>3. text' = TextOf(damaged, journal')
    BY <1>2, <1>5, <2>1, <2>2
  <2>4. TextOf(damaged, journal')
          = Legible(MarksOn(Characters(journal'), damaged'))
    BY <1>2 DEF TextOf
  <2>5. Marked' = MarksOn(Characters(journal'), damaged')
    BY DEF Marked, MarksOn
  <2>6. QED
    BY <2>3, <2>4, <2>5
<1>9. TypeOK'
  <2>1. splitOn \in Seq(Character) /\ text \o chunk \in Seq(Character)
    BY <1>1, <1>3, <1>4, SeparatorIs, ConcatProperties
  <2>2. /\ Reading(text \o chunk, splitOn).lines \in Seq(Seq(Character))
        /\ Reading(text \o chunk, splitOn).rest \in Seq(Character)
    BY <2>1, ReadingParts
  <2>3. QED
    BY <1>3, <1>4, <1>5, <1>7, <2>1, <2>2 DEF TypeOK
<1>10. TextOfJournal'
  BY <1>2, <1>7, <1>8 DEF TextOfJournal
<1>11. LinesOfText'
  BY <1>5 DEF LinesOfText
<1>12. QED
  BY <1>9, <1>10, <1>11 DEF Inv

LEMMA InvEnd ==
  ASSUME Inv, End
  PROVE  Inv'
<1>1. TypeOK /\ TextOfJournal /\ LinesOfText
  BY DEF Inv
<1>2. /\ journal' = journal /\ damaged' = damaged /\ splitOn' = splitOn
      /\ text' = text /\ closed' = TRUE
  BY DEF End, Split!Flush
<1>3. /\ parts' = Reading(text, splitOn).lines
      /\ buffer' = Reading(text, splitOn).rest
  <2>1. CASE buffer # <<>>
    <3>1. /\ text \in Seq(Character) /\ buffer \in Seq(Character)
          /\ <<>> \in Seq(Character)
      BY <1>1, EmptySeq DEF TypeOK
    <3>2. text \o <<>> = text /\ buffer \o <<>> = buffer
      BY <3>1, ConcatEmptySeq
    <3>3. Split!QueueLines(buffer \o <<>>)
      BY <2>1, <3>2 DEF End, Split!Flush
    <3> DEFINE e == <<>>
    <3> HIDE DEF e
    <3>4. e \in Seq(Character) /\ Split!QueueLines(buffer \o e)
      BY <3>1, <3>3 DEF e
    <3>5. /\ parts' = Reading(text \o e, splitOn).lines
          /\ buffer' = Reading(text \o e, splitOn).rest
      BY <3>4, QueueStep
    <3>6. QED
      BY <3>2, <3>5 DEF e
  <2>2. CASE buffer = <<>>
    <3>1. parts' = parts /\ buffer' = buffer
      BY <2>2 DEF End, Split!Flush
    <3>2. QED
      BY <1>1, <3>1 DEF LinesOfText
  <2>3. QED
    BY <2>1, <2>2
<1>4. TypeOK'
  <2>1. /\ splitOn \in Seq(Character) /\ text \in Seq(Character)
        /\ journal \in Seq(Byte) /\ splitOn \in Separators
        /\ damaged \subseteq 1..Len(Characters(journal))
    BY <1>1, SeparatorIs DEF TypeOK
  <2>2. /\ Reading(text, splitOn).lines \in Seq(Seq(Character))
        /\ Reading(text, splitOn).rest \in Seq(Character)
    BY <2>1, ReadingParts
  <2>3. QED
    BY <1>2, <1>3, <2>1, <2>2 DEF TypeOK
<1>5. TextOfJournal'
  <2>1. Marked' = Marked
    BY <1>2 DEF Marked
  <2>2. QED
    BY <1>1, <1>2, <2>1 DEF TextOfJournal
<1>6. LinesOfText'
  BY <1>2, <1>3 DEF LinesOfText
<1>7. QED
  BY <1>4, <1>5, <1>6 DEF Inv

LEMMA InvNext ==
  ASSUME Inv, [Next]_vars
  PROVE  Inv'
<1>1. ASSUME NEW content \in BoundedSeq(Byte, MaxContent), Receive(content)
      PROVE  Inv'
  <2>1. content \in Seq(Byte)
    <3>1. PICK n \in 0..MaxContent : content \in [1..n -> Byte]
      BY DEF BoundedSeq, SeqOf
    <3>2. n \in Nat
      BY TextAssumption
    <3>3. QED
      BY <3>1, <3>2
  <2>2. QED
    BY <1>1, <2>1, InvReceive
<1>2. ASSUME UNCHANGED vars PROVE Inv'
  <2>1. /\ journal' = journal /\ damaged' = damaged /\ splitOn' = splitOn
        /\ buffer' = buffer /\ parts' = parts /\ closed' = closed
        /\ text' = text
    BY <1>2 DEF vars, splitVars
  <2>2. TypeOK' /\ LinesOfText'
    BY <2>1 DEF Inv, TypeOK, LinesOfText
  <2>3. Marked' = Marked
    BY <2>1 DEF Marked
  <2>4. TextOfJournal'
    BY <2>1, <2>3 DEF Inv, TextOfJournal
  <2>5. QED
    BY <2>2, <2>4 DEF Inv
<1>3. QED
  BY <1>1, <1>2, InvEnd DEF Next

(* What goes into splitStream is the text of the journal, with replacement *)
(* characters in place of those that a cut damaged, and nothing besides;   *)
(* and however it is chunked, the stream has handed out exactly the lines  *)
(* of that text and keeps exactly its rest, before and after the flush     *)
(* (decodeContent, queueLines, transform and flush of streams.ts).         *)
THEOREM InvCorrect == Spec => []Inv
<1>1. Init => Inv
  BY InvInit
<1>2. Inv /\ [Next]_vars => Inv'
  BY InvNext
<1>3. QED
  BY <1>1, <1>2, PTL DEF Spec

(* For every separator and every cut of the bytes into contents, the lines *)
(* that come out are the lines of the journal, and nothing of them is      *)
(* damaged but the characters that two contents share                      *)
(* (parseJournalDocuments, journal_client.ts:72-75).                       *)
THEOREM LinesCorrect == Spec => []LinesSurviveCuts
<1>1. Inv => LinesSurviveCuts
  <2>1. SUFFICES ASSUME Inv PROVE LinesSurviveCuts
    OBVIOUS
  <2> DEFINE um == Unmarked(splitOn)
             rd == Reading(Marked, um)
  <2>2. splitOn \in Seq(Plain) /\ splitOn # <<>>
    BY <2>1, SeparatorIs DEF Inv
  <2>3. Marked \in Seq(Marks)
    BY <2>1, CutAsItIs, MarkedIs, TextOfType DEF Inv, TypeOK, TextOfJournal
  <2>4. Reading(Legible(Marked), splitOn) = LegibleReading(rd)
    BY <2>2, <2>3, ReadingLegible
  <2>5. parts = Reading(Legible(Marked), splitOn).lines
    BY <2>1 DEF Inv, TextOfJournal, LinesOfText
  <2> HIDE DEF rd
  <2>6. LegibleReading(rd).lines = LegibleAll(rd.lines)
    BY DEF LegibleReading
  <2>7. parts = LegibleAll(rd.lines)
    BY <2>4, <2>5, <2>6
  <2>8. QED
    BY <2>7 DEF LinesSurviveCuts, LegibleAll, rd
<1>2. QED
  BY <1>1, InvCorrect, PTL
================================================================================
