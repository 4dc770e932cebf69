-------------------------- MODULE ReadPipelineProofs ---------------------------
(***************************************************************************)
(* Theorems about the streams of a journal read, for pipelines of any      *)
(* length made of any of the transformers, and bodies of any content: type *)
(* correctness and how ends, errors and cancellations go through them.     *)
(* Behind them, for the chains of transformers that the client builds,     *)
(* what they make of the text of the body: only these last proofs use      *)
(* ChainAssumption.                                                        *)
(***************************************************************************)
EXTENDS ReadChains, SequenceProofs

USE DEF stageVars, bodyVars

-----------------------------------------------------------------------------
(* The wire holds the end of what was served.                              *)

LEMMA SuffixProperties ==
  ASSUME NEW S, NEW s \in Seq(S), NEW k \in 0..Len(s)
  PROVE  /\ SubSeq(s, k + 1, Len(s)) \in Seq(S)
         /\ Len(SubSeq(s, k + 1, Len(s))) = Len(s) - k
         /\ \A i \in 1..Len(s) - k : SubSeq(s, k + 1, Len(s))[i] = s[k + i]
<1> DEFINE w == SubSeq(s, k + 1, Len(s))
<1>1. Len(s) \in Nat /\ k \in Nat /\ k + 1 \in Int /\ Len(s) \in Int
  OBVIOUS
<1>2. \A i \in k + 1..Len(s) : s[i] \in S
  BY <1>1
<1>3. /\ w \in Seq(S)
      /\ Len(w) = IF k + 1 <= Len(s) THEN Len(s) - (k + 1) + 1 ELSE 0
      /\ \A i \in 1..Len(s) - (k + 1) + 1 : w[i] = s[k + 1 + i - 1]
  BY <1>1, <1>2, SubSeqProperties
<1> HIDE DEF w
<1>4. Len(w) = Len(s) - k
  BY <1>1, <1>3
<1>5. ASSUME NEW i \in 1..Len(s) - k PROVE w[i] = s[k + i]
  <2>1. i \in 1..Len(s) - (k + 1) + 1 /\ k + 1 + i - 1 = k + i
    BY <1>1
  <2>2. QED
    BY <1>3, <2>1
<1>6. QED
  BY <1>3, <1>4, <1>5 DEF w

LEMMA SuffixAppend ==
  ASSUME NEW S, NEW s \in Seq(S), NEW x \in S, NEW n \in 0..Len(s)
  PROVE  /\ n \in 0..Len(Append(s, x))
         /\ Append(SubSeq(s, n + 1, Len(s)), x)
              = SubSeq(Append(s, x), n + 1, Len(Append(s, x)))
<1> DEFINE t == Append(s, x)
           a == SubSeq(s, n + 1, Len(s))
           b == SubSeq(t, n + 1, Len(t))
<1>1. /\ t \in Seq(S) /\ Len(t) = Len(s) + 1 /\ Len(s) \in Nat
      /\ \A i \in 1..Len(s) : t[i] = s[i]
      /\ t[Len(s) + 1] = x
  BY AppendProperties
<1>2. /\ a \in Seq(S) /\ Len(a) = Len(s) - n
      /\ \A i \in 1..Len(s) - n : a[i] = s[n + i]
  BY SuffixProperties
<1> HIDE DEF t
<1>3. /\ b \in Seq(S) /\ Len(b) = Len(t) - n
      /\ \A i \in 1..Len(t) - n : b[i] = t[n + i]
  BY <1>1, SuffixProperties
<1> HIDE DEF a, b
<1>4. /\ Append(a, x) \in Seq(S) /\ Len(Append(a, x)) = Len(a) + 1
      /\ \A i \in 1..Len(a) : Append(a, x)[i] = a[i]
      /\ Append(a, x)[Len(a) + 1] = x
  BY <1>2, AppendProperties
<1>5. ASSUME NEW i \in 1..Len(b) PROVE Append(a, x)[i] = b[i]
  <2>1. CASE i \in 1..Len(a)
    BY <1>1, <1>2, <1>3, <1>4, <2>1
  <2>2. CASE i = Len(a) + 1
    <3>1. n + i = Len(s) + 1 /\ i \in 1..Len(t) - n
      BY <1>1, <1>2, <2>2
    <3>2. QED
      BY <1>1, <1>3, <1>4, <2>2, <3>1
  <2>3. Len(b) = Len(a) + 1 /\ Len(a) \in Nat
    BY <1>1, <1>2, <1>3
  <2>4. QED
    BY <2>1, <2>2, <2>3
<1>6. Len(Append(a, x)) = Len(b)
  BY <1>1, <1>2, <1>3, <1>4
<1>7. Append(a, x) = b
  BY <1>3, <1>4, <1>5, <1>6, SeqEqual
<1>8. QED
  BY <1>1, <1>7 DEF t, a, b

LEMMA SuffixSuffix ==
  ASSUME NEW S, NEW s \in Seq(S), NEW k \in 0..Len(s),
         NEW n \in 1..Len(SubSeq(s, k + 1, Len(s)))
  PROVE  /\ k + n \in 0..Len(s)
         /\ SubSeq(SubSeq(s, k + 1, Len(s)), n + 1,
                   Len(SubSeq(s, k + 1, Len(s))))
              = SubSeq(s, k + n + 1, Len(s))
<1> DEFINE w == SubSeq(s, k + 1, Len(s))
           a == SubSeq(w, n + 1, Len(w))
           b == SubSeq(s, k + n + 1, Len(s))
<1>1. /\ w \in Seq(S) /\ Len(w) = Len(s) - k /\ Len(s) \in Nat
      /\ \A i \in 1..Len(s) - k : w[i] = s[k + i]
  BY SuffixProperties
<1>2. n \in 1..Len(w)
  OBVIOUS
<1> HIDE DEF w
<1>3. n \in 0..Len(w) /\ k + n \in 0..Len(s) /\ k \in Nat /\ n \in Nat
  BY <1>1, <1>2
<1>4. /\ a \in Seq(S) /\ Len(a) = Len(w) - n
      /\ \A i \in 1..Len(w) - n : a[i] = w[n + i]
  BY <1>1, <1>3, SuffixProperties
<1>5. /\ b \in Seq(S) /\ Len(b) = Len(s) - (k + n)
      /\ \A i \in 1..Len(s) - (k + n) : b[i] = s[k + n + i]
  <2> DEFINE m == k + n
  <2>1. m \in 0..Len(s)
    BY <1>3
  <2> HIDE DEF m
  <2>2. /\ SubSeq(s, m + 1, Len(s)) \in Seq(S)
        /\ Len(SubSeq(s, m + 1, Len(s))) = Len(s) - m
        /\ \A i \in 1..Len(s) - m : SubSeq(s, m + 1, Len(s))[i] = s[m + i]
    BY <2>1, SuffixProperties
  <2>3. QED
    BY <2>2 DEF m
<1> HIDE DEF a, b
<1>6. Len(a) = Len(b)
  BY <1>1, <1>3, <1>4, <1>5
<1>7. ASSUME NEW i \in 1..Len(a) PROVE a[i] = b[i]
  <2>1. /\ i \in 1..Len(w) - n /\ n + i \in 1..Len(s) - k
        /\ i \in 1..Len(s) - (k + n) /\ k + (n + i) = k + n + i
    BY <1>1, <1>3, <1>4
  <2>2. a[i] = s[k + (n + i)] /\ b[i] = s[k + n + i]
    BY <1>1, <1>4, <1>5, <2>1
  <2>3. QED
    BY <2>1, <2>2
<1>8. a = b
  BY <1>4, <1>5, <1>6, <1>7, SeqEqual
<1>9. QED
  BY <1>3, <1>8 DEF w, a, b

LEMMA WireWritten ==
  ASSUME TypeOK, NEW token \in Line \cup {nl},
         served' = Append(served, token), wire' = Append(wire, token)
  PROVE  /\ served' \in Seq(Line \cup {nl})
         /\ \E n \in 0..Len(served') :
              wire' = SubSeq(served', n + 1, Len(served'))
<1>1. PICK n \in 0..Len(served) : wire = SubSeq(served, n + 1, Len(served))
  BY DEF TypeOK
<1>2. served \in Seq(Line \cup {nl})
  BY DEF TypeOK
<1>3. served' \in Seq(Line \cup {nl})
  BY <1>2, AppendProperties
<1>4. /\ n \in 0..Len(served')
      /\ wire' = SubSeq(served', n + 1, Len(served'))
  BY <1>1, <1>2, SuffixAppend
<1>5. QED
  BY <1>3, <1>4

-----------------------------------------------------------------------------
(* The inductive invariant.                                                *)

LEMMA InvInit == Init => Inv
<1> SUFFICES ASSUME Init PROVE Inv
  OBVIOUS
<1>1. N \in Nat
  BY PipelineAssumption DEF Init, N
<1>2. /\ stages \in Pipelines /\ ended = FALSE /\ consumer = "reading"
      /\ status = [i \in 0..N |-> "open"] /\ in = [i \in 1..N |-> <<>>]
      /\ out = [i \in 0..N |-> <<>>] /\ served = <<>> /\ wire = <<>>
  BY DEF Init
<1>3. served \in Seq(Line \cup {nl}) /\ Len(served) = 0
  BY <1>2
<1>4. wire = SubSeq(served, 1, Len(served)) /\ 0 \in 0..Len(served)
  BY <1>2, <1>3, SubSeqEmpty
<1>5. \E n \in 0..Len(served) : wire = SubSeq(served, n + 1, Len(served))
  BY <1>4
<1>6. TypeOK
  <2>1. in = [i \in 1..N |-> in[i]] /\ out = [i \in 0..N |-> out[i]]
    BY <1>2
  <2>2. \A i \in 1..N : Len(in[i]) <= 1
    BY <1>2
  <2>3. QED
    BY <1>2, <1>3, <1>5, <2>1, <2>2 DEF TypeOK
<1>7. \A i \in 0..N : status[i] = "open"
  BY <1>2
<1>8. 0 \in 0..N /\ N \in 0..N /\ \A i \in 1..N : i \in 0..N
  BY <1>1
<1>9. ClosedInOrder /\ StoppedEmpty /\ ErrorsCaused
  BY <1>2, <1>7, <1>8 DEF ClosedInOrder, StoppedEmpty, Stopped, ErrorsCaused
<1>10. QED
  BY <1>6, <1>9 DEF Inv

(* What of the invariant does not mention the queues and states of stages. *)
LEMMA BodyTyped ==
  ASSUME TypeOK, UNCHANGED <<stages, served, wire>>
  PROVE  /\ stages' \in Pipelines /\ served' \in Seq(Line \cup {nl})
         /\ \E n \in 0..Len(served') :
              wire' = SubSeq(served', n + 1, Len(served'))
         /\ N' = N
BY DEF TypeOK, N

(* What has closed comes before what has not.                              *)
LEMMA ClosedBefore ==
  ASSUME ClosedInOrder, N \in Nat, NEW i \in 0..N, status[i] # "closed",
         NEW k \in 1..N, status[k] = "closed"
  PROVE  k < i
<1>1. ASSUME i <= k PROVE FALSE
  <2>1. i = k \/ i + 1 \in 1..k
    BY <1>1
  <2>2. i + 1 \in 1..k => status[i + 1 - 1] = "closed"
    BY DEF ClosedInOrder
  <2>3. i + 1 - 1 = i
    OBVIOUS
  <2>4. QED
    BY <2>1, <2>2, <2>3
<1>2. QED
  BY <1>1

(* A stage stops, and none behind it has closed.                           *)
LEMMA ClosedKept ==
  ASSUME ClosedInOrder, N \in Nat, NEW i \in 0..N,
         status[i] # "closed" \/ (i < N /\ status[i + 1] # "closed"),
         UNCHANGED <<stages, wire, ended>>, status'[i] # "closed",
         \A j \in 0..N : j # i => status'[j] = status[j] /\ out'[j] = out[j],
         \A j \in 1..N : j # i => in'[j] = in[j]
  PROVE  ClosedInOrder'
<1>1. N' = N
  BY DEF N
<1>2. status'[0] = "closed" => status[0] = "closed"
  OBVIOUS
<1>3. ASSUME NEW k \in 1..N, status'[k] = "closed", NEW j \in 1..k
      PROVE  status'[j - 1] = "closed" /\ in'[j] = <<>> /\ out'[j - 1] = <<>>
  <2>1. status[k] = "closed" /\ k # i
    BY <1>3
  <2>2. k < i
    <3>1. CASE status[i] # "closed"
      BY <2>1, <3>1, ClosedBefore
    <3>2. CASE i < N /\ status[i + 1] # "closed"
      <4>1. i + 1 \in 0..N
        BY <3>2
      <4>2. k < i + 1
        BY <2>1, <3>2, <4>1, ClosedBefore
      <4>3. QED
        BY <2>1, <4>2
    <3>3. QED
      BY <3>1, <3>2
  <2>3. j - 1 \in 0..N /\ j - 1 # i /\ j \in 1..N /\ j # i
    BY <2>2
  <2>4. status[j - 1] = "closed" /\ in[j] = <<>> /\ out[j - 1] = <<>>
    BY <2>1 DEF ClosedInOrder
  <2>5. QED
    BY <2>3, <2>4
<1>4. QED
  BY <1>1, <1>2, <1>3 DEF ClosedInOrder

(* A stage that changes only its queues, and is open.                      *)
LEMMA QueuesKeep ==
  ASSUME Inv, NEW i \in 1..N, status[i] = "open",
         UNCHANGED <<stages, served, wire, ended, status, consumer>>,
         in' = [in EXCEPT ![i] = in'[i]], Len(in'[i]) <= 1,
         \A j \in 0..N : j < i - 1 => out'[j] = out[j],
         out' = [j \in 0..N |-> out'[j]],
         \A j \in 0..N : Stopped(j) => out'[j] = <<>>
  PROVE  Inv'
<1>1. N \in Nat
  BY PipelineAssumption DEF Inv, TypeOK, N
<1>2. in = [j \in 1..N |-> in[j]] /\ \A j \in 1..N : Len(in[j]) <= 1
  BY DEF Inv, TypeOK
<1>3. /\ in' = [j \in 1..N |-> in'[j]] /\ \A j \in 1..N : Len(in'[j]) <= 1
      /\ \A j \in 1..N : j # i => in'[j] = in[j]
  BY <1>2
<1>4. TypeOK'
  <2>1. N' = N
    BY DEF N
  <2>2. QED
    BY <2>1, <1>3, BodyTyped DEF Inv, TypeOK
<1>5. ClosedInOrder'
  <2>1. ASSUME NEW k \in 1..N, status[k] = "closed", NEW j \in 1..k
        PROVE  status[j - 1] = "closed" /\ in'[j] = <<>> /\ out'[j - 1] = <<>>
    <3>1. k < i
      BY <1>1, <2>1, ClosedBefore DEF Inv
    <3>2. j # i /\ j \in 1..N /\ j - 1 \in 0..N /\ j - 1 < i - 1
      BY <1>1, <3>1
    <3>3. status[j - 1] = "closed" /\ in[j] = <<>> /\ out[j - 1] = <<>>
      BY <2>1 DEF Inv, ClosedInOrder
    <3>4. QED
      BY <1>3, <3>2, <3>3
  <2>2. N' = N
    BY DEF N
  <2>3. QED
    BY <2>1, <2>2 DEF Inv, ClosedInOrder
<1>6. StoppedEmpty'
  BY <1>1, <1>3 DEF Inv, StoppedEmpty, Stopped, N
<1>7. ErrorsCaused'
  BY DEF Inv, ErrorsCaused, N
<1>8. QED
  BY <1>4, <1>5, <1>6, <1>7 DEF Inv

LEMMA EnqueueKeeps ==
  ASSUME Inv, NEW i \in 1..N, status[i] = "open", NEW chunks,
         Enqueue(i, chunks)
  PROVE  Inv'
<1>1. /\ in' = [in EXCEPT ![i] = <<>>] /\ out' = [out EXCEPT ![i] = @ \o chunks]
      /\ UNCHANGED <<stages, served, wire, ended, status, consumer>>
  BY DEF Enqueue
<1>2. /\ in = [j \in 1..N |-> in[j]] /\ out = [j \in 0..N |-> out[j]]
      /\ N \in Nat
  BY PipelineAssumption DEF Inv, TypeOK, N
<1>3. in'[i] = <<>> /\ in' = [in EXCEPT ![i] = in'[i]] /\ Len(in'[i]) <= 1
  BY <1>1, <1>2
<1>4. /\ out' = [j \in 0..N |-> out'[j]]
      /\ \A j \in 0..N : j # i => out'[j] = out[j]
  BY <1>1, <1>2
<1>5. \A j \in 0..N : j < i - 1 => out'[j] = out[j]
  BY <1>2, <1>4
<1>6. \A j \in 0..N : Stopped(j) => out'[j] = <<>>
  BY <1>4 DEF Inv, StoppedEmpty, Stopped
<1>7. QED
  BY <1>1, <1>3, <1>4, <1>5, <1>6, QueuesKeep

LEMMA PipeKeeps == ASSUME Inv, NEW i \in 1..N, Pipe(i) PROVE Inv'
<1>1. /\ in' = [in EXCEPT ![i] = <<Head(out[i - 1])>>]
      /\ out' = [out EXCEPT ![i - 1] = Tail(@)]
      /\ UNCHANGED <<stages, served, wire, ended, status, consumer>>
      /\ status[i] = "open" /\ out[i - 1] # <<>>
  BY DEF Pipe
<1>2. /\ in = [j \in 1..N |-> in[j]] /\ out = [j \in 0..N |-> out[j]]
      /\ N \in Nat /\ i - 1 \in 0..N
  BY PipelineAssumption DEF Inv, TypeOK, N
<1>3. in'[i] = <<Head(out[i - 1])>>
  BY <1>1, <1>2
<1>4. in' = [in EXCEPT ![i] = in'[i]] /\ Len(in'[i]) <= 1
  <2>1. Len(in'[i]) = 1
    BY <1>3
  <2>2. Len(in'[i]) <= 1
    BY <2>1
  <2>3. QED
    BY <1>1, <1>3, <2>2
<1>5. /\ out' = [j \in 0..N |-> out'[j]]
      /\ \A j \in 0..N : j # i - 1 => out'[j] = out[j]
  BY <1>1, <1>2
<1>6. \A j \in 0..N : j < i - 1 => out'[j] = out[j]
  BY <1>2, <1>5
<1>7. \A j \in 0..N : Stopped(j) => out'[j] = <<>>
  BY <1>1, <1>2, <1>5 DEF Inv, StoppedEmpty, Stopped
<1>8. QED
  BY <1>1, <1>4, <1>5, <1>6, <1>7, QueuesKeep

LEMMA InvNext == Inv /\ [Next]_vars => Inv'
<1> SUFFICES ASSUME Inv, [Next]_vars PROVE Inv'
  OBVIOUS
<1> USE DEF Inv
<1>1. N \in Nat /\ 0 \in 0..N /\ \A i \in 1..N : i \in 0..N /\ i - 1 \in 0..N
  BY PipelineAssumption DEF TypeOK, N
<1>2. ASSUME NEW token \in Line \cup {nl}, ~ended,
             served' = Append(served, token), wire' = Append(wire, token),
             UNCHANGED <<stages, ended, stageVars, consumer>>
      PROVE  Inv'
  <2>1. TypeOK'
    BY <1>2, WireWritten DEF TypeOK, N
  <2>2. ClosedInOrder' /\ StoppedEmpty' /\ ErrorsCaused'
    BY <1>2 DEF ClosedInOrder, StoppedEmpty, Stopped, ErrorsCaused, N
  <2>3. QED
    BY <2>1, <2>2
<1>3. ASSUME NEW line \in Line, WriteLine(line) PROVE Inv'
  BY <1>2, <1>3 DEF WriteLine
<1>4. CASE WriteNewline
  BY <1>2, <1>4 DEF WriteNewline
<1>5. CASE Finish
  <2>1. TypeOK'
    BY <1>5 DEF Finish, TypeOK, N
  <2>2. ClosedInOrder' /\ StoppedEmpty' /\ ErrorsCaused'
    BY <1>5 DEF Finish, ClosedInOrder, StoppedEmpty, Stopped, ErrorsCaused, N
  <2>3. QED
    BY <2>1, <2>2
<1>6. CASE Receive
  <2>1. PICK n \in 1..Len(wire) :
          /\ out' = [out EXCEPT ![0] = Append(@, SubSeq(wire, 1, n))]
          /\ wire' = SubSeq(wire, n + 1, Len(wire))
    BY <1>6 DEF Receive
  <2>2. /\ status[0] = "open"
        /\ UNCHANGED <<stages, served, ended, status, in, consumer>>
    BY <1>6 DEF Receive
  <2>3. /\ out' = [j \in 0..N |-> out'[j]]
        /\ \A j \in 0..N : j # 0 => out'[j] = out[j]
    BY <2>1, <1>1 DEF TypeOK
  <2>4. \E k \in 0..Len(served) : wire' = SubSeq(served, k + 1, Len(served))
    <3>1. PICK k \in 0..Len(served) : wire = SubSeq(served, k + 1, Len(served))
      BY DEF TypeOK
    <3>2. served \in Seq(Line \cup {nl})
      BY DEF TypeOK
    <3>3. /\ k + n \in 0..Len(served)
          /\ wire' = SubSeq(served, k + n + 1, Len(served))
      BY <2>1, <3>1, <3>2, SuffixSuffix
    <3>4. QED
      BY <3>3
  <2>5. TypeOK'
    BY <2>2, <2>3, <2>4 DEF TypeOK, N
  <2>6. \A k \in 1..N : status[k] # "closed"
    BY <1>1, <2>2, ClosedBefore
  <2>7. ClosedInOrder'
    BY <2>2, <2>6 DEF ClosedInOrder, N
  <2>8. StoppedEmpty' /\ ErrorsCaused'
    BY <2>2, <2>3 DEF StoppedEmpty, Stopped, ErrorsCaused, N
  <2>9. QED
    BY <2>5, <2>7, <2>8
<1>7. CASE BodyEnds
  <2>1. /\ status[0] = "open" /\ ended /\ wire = <<>>
        /\ status' = [status EXCEPT ![0] = "closed"]
        /\ UNCHANGED <<stages, served, wire, ended, in, out, consumer>>
    BY <1>7 DEF BodyEnds
  <2>2. /\ status' \in [0..N -> {"open", "closed", "errored", "canceled"}]
        /\ status'[0] = "closed" /\ \A j \in 1..N : status'[j] = status[j]
    BY <2>1, <1>1 DEF TypeOK
  <2>3. TypeOK'
    BY <2>1, <2>2 DEF TypeOK, N
  <2>4. ClosedInOrder'
    BY <2>1, <2>2 DEF ClosedInOrder, N
  <2>5. StoppedEmpty'
    BY <2>1, <2>2 DEF StoppedEmpty, Stopped, N
  <2>6. ErrorsCaused'
    BY <1>1, <2>1, <2>2 DEF ErrorsCaused, N
  <2>7. QED
    BY <2>3, <2>4, <2>5, <2>6
<1>8. CASE BodyBreaks
  <2>1. /\ status[0] = "open" /\ status' = [status EXCEPT ![0] = "errored"]
        /\ out' = [out EXCEPT ![0] = <<>>]
        /\ UNCHANGED <<stages, served, wire, ended, in, consumer>>
    BY <1>8 DEF BodyBreaks
  <2>2. /\ status' \in [0..N -> {"open", "closed", "errored", "canceled"}]
        /\ status'[0] = "errored" /\ \A j \in 1..N : status'[j] = status[j]
        /\ out' = [j \in 0..N |-> out'[j]] /\ out'[0] = <<>>
        /\ \A j \in 1..N : out'[j] = out[j]
    <3>1. /\ status' \in [0..N -> {"open", "closed", "errored", "canceled"}]
          /\ status'[0] = "errored" /\ \A j \in 1..N : status'[j] = status[j]
      BY <2>1, <1>1 DEF TypeOK
    <3>2. out = [j \in 0..N |-> out[j]]
      BY DEF TypeOK
    <3>3. 0 \in 0..N /\ \A j \in 1..N : j \in 0..N /\ j # 0
      BY <1>1
    <3>4. out' = [j \in 0..N |-> IF j = 0 THEN <<>> ELSE out[j]]
      BY <2>1, <3>2
    <3>5. QED
      BY <3>1, <3>3, <3>4
  <2>3. TypeOK'
    BY <2>1, <2>2 DEF TypeOK, N
  <2>4. ClosedInOrder'
    <3>1. SUFFICES ASSUME NEW k \in 1..N, status'[k] = "closed" PROVE FALSE
      BY <2>1, <2>2 DEF ClosedInOrder, N
    <3>2. status[k] = "closed"
      BY <2>2, <3>1
    <3>3. QED
      BY <1>1, <2>1, <3>2, ClosedBefore
  <2>5. StoppedEmpty'
    BY <2>1, <2>2 DEF StoppedEmpty, Stopped, N
  <2>6. ErrorsCaused'
    BY <1>1, <2>1, <2>2 DEF ErrorsCaused, N
  <2>7. QED
    BY <2>3, <2>4, <2>5, <2>6
<1>9. ASSUME NEW i \in 1..N, Split(i) \/ Parse(i) \/ Unwrap(i) \/ Decode(i)
      PROVE  Inv'
  <2>1. status[i] = "open" /\ \E chunks : Enqueue(i, chunks)
    <3>1. CASE Split(i)
      BY <3>1 DEF Split, Runs
    <3>2. CASE Parse(i)
      BY <3>2 DEF Parse, Runs
    <3>3. CASE Unwrap(i)
      BY <3>3 DEF Unwrap, Runs
    <3>4. CASE Decode(i)
      BY <3>4 DEF Decode, Runs
    <3>5. QED
      BY <1>9, <3>1, <3>2, <3>3, <3>4
  <2>2. QED
    BY <2>1, EnqueueKeeps
<1>10. ASSUME NEW i \in 1..N, TransformThrows(i) PROVE Inv'
  <2>1. /\ status[i] = "open" /\ stages[i] \in Throwing /\ out[i] = <<>>
        /\ status' = [status EXCEPT ![i] = "errored"]
        /\ in' = [in EXCEPT ![i] = <<>>]
        /\ UNCHANGED <<stages, served, wire, ended, out, consumer>>
    BY <1>10 DEF TransformThrows, Runs
  <2>2. /\ status' \in [0..N -> {"open", "closed", "errored", "canceled"}]
        /\ status'[i] = "errored"
        /\ \A j \in 0..N : j # i => status'[j] = status[j]
    BY <2>1, <1>1 DEF TypeOK
  <2>3. /\ in' = [j \in 1..N |-> in'[j]] /\ in'[i] = <<>>
        /\ \A j \in 1..N : j # i => in'[j] = in[j]
    BY <2>1 DEF TypeOK
  <2>4. TypeOK'
    <3>1. \A j \in 1..N : Len(in'[j]) <= 1
      BY <2>3 DEF TypeOK
    <3>2. QED
      BY <2>1, <2>2, <2>3, <3>1 DEF TypeOK, N
  <2>5. ClosedInOrder'
    BY <1>1, <2>1, <2>2, <2>3, ClosedKept
  <2>6. StoppedEmpty'
    BY <2>1, <2>2, <2>3, <1>1 DEF StoppedEmpty, Stopped, N
  <2>7. ErrorsCaused'
    BY <2>1, <2>2 DEF ErrorsCaused, N
  <2>8. QED
    BY <2>4, <2>5, <2>6, <2>7
<1>11. ASSUME NEW i \in 1..N, Pipe(i) PROVE Inv'
  BY <1>11, PipeKeeps
<1>12. ASSUME NEW i \in 1..N, Flush(i) PROVE Inv'
  <2>1. /\ status[i] = "open" /\ out[i - 1] = <<>> /\ in[i] = <<>>
        /\ status[i - 1] = "closed"
        /\ status' = [status EXCEPT ![i] = "closed"]
        /\ out' = [out EXCEPT ![i] = @ \o Cut(buffer[i]).lines]
        /\ UNCHANGED <<stages, served, wire, ended, in, consumer>>
    BY <1>12 DEF Flush, Drained
  <2>2. /\ status' \in [0..N -> {"open", "closed", "errored", "canceled"}]
        /\ status'[i] = "closed"
        /\ \A j \in 0..N : j # i => status'[j] = status[j]
    BY <2>1, <1>1 DEF TypeOK
  <2>3. /\ out' = [j \in 0..N |-> out'[j]]
        /\ \A j \in 0..N : j # i => out'[j] = out[j]
    <3>1. out = [j \in 0..N |-> out[j]]
      BY DEF TypeOK
    <3>2. QED
      BY <2>1, <3>1
  <2>4. TypeOK'
    BY <2>1, <2>2, <2>3 DEF TypeOK, N
  <2>5. ClosedInOrder'
    <3>1. status'[0] = "closed" => status[0] = "closed"
      BY <2>2, <1>1
    <3>2. ASSUME NEW k \in 1..N, status'[k] = "closed", NEW j \in 1..k
          PROVE  status'[j - 1] = "closed" /\ in[j] = <<>> /\ out'[j - 1] = <<>>
      <4>1. CASE k # i
        <5>1. status[k] = "closed" /\ k < i
          BY <1>1, <2>1, <2>2, <3>2, <4>1, ClosedBefore
        <5>2. status[j - 1] = "closed" /\ in[j] = <<>> /\ out[j - 1] = <<>>
          BY <5>1 DEF ClosedInOrder
        <5>3. j - 1 \in 0..N /\ j - 1 # i
          BY <1>1, <5>1
        <5>4. QED
          BY <2>2, <2>3, <5>2, <5>3
      <4>2. CASE k = i /\ j = i
        <5>1. j - 1 \in 0..N /\ j - 1 # i
          BY <1>1, <4>2
        <5>2. QED
          BY <2>1, <2>2, <2>3, <4>2, <5>1
      <4>3. CASE k = i /\ j # i
        <5>1. i - 1 \in 1..N /\ j \in 1..i - 1 /\ j - 1 \in 0..N /\ j - 1 # i
          BY <1>1, <4>3
        <5>2. status[j - 1] = "closed" /\ in[j] = <<>> /\ out[j - 1] = <<>>
          BY <2>1, <5>1 DEF ClosedInOrder
        <5>3. QED
          BY <2>2, <2>3, <5>1, <5>2
      <4>4. QED
        BY <4>1, <4>2, <4>3
    <3>3. QED
      BY <2>1, <3>1, <3>2 DEF ClosedInOrder, N
  <2>6. StoppedEmpty'
    BY <2>1, <2>2, <2>3, <1>1 DEF StoppedEmpty, Stopped, N
  <2>7. ErrorsCaused'
    BY <2>1, <2>2, <1>1 DEF ErrorsCaused, N
  <2>8. QED
    BY <2>4, <2>5, <2>6, <2>7
<1>13. ASSUME NEW i \in 1..N, Abort(i) PROVE Inv'
  <2>1. /\ status[i] = "open" /\ in[i] = <<>> /\ status[i - 1] = "errored"
        /\ status' = [status EXCEPT ![i] = "errored"]
        /\ out' = [out EXCEPT ![i] = <<>>]
        /\ UNCHANGED <<stages, served, wire, ended, in, consumer>>
    BY <1>13 DEF Abort, Drained
  <2>2. /\ status' \in [0..N -> {"open", "closed", "errored", "canceled"}]
        /\ status'[i] = "errored"
        /\ \A j \in 0..N : j # i => status'[j] = status[j]
    BY <2>1, <1>1 DEF TypeOK
  <2>3. /\ out' = [j \in 0..N |-> out'[j]] /\ out'[i] = <<>>
        /\ \A j \in 0..N : j # i => out'[j] = out[j]
    <3>1. out = [j \in 0..N |-> out[j]]
      BY DEF TypeOK
    <3>2. QED
      BY <1>1, <2>1, <3>1
  <2>4. TypeOK'
    BY <2>1, <2>2, <2>3 DEF TypeOK, N
  <2>5. ClosedInOrder'
    BY <1>1, <2>1, <2>2, <2>3, ClosedKept DEF N
  <2>6. StoppedEmpty'
    BY <2>1, <2>2, <2>3, <1>1 DEF StoppedEmpty, Stopped, N
  <2>7. ErrorsCaused'
    <3>1. /\ i - 1 \in 0..N /\ i \in 1..N /\ i - 1 # i
          /\ \A k \in 0..N : \A j \in 1..k : j \in 0..N
      BY <1>1
    <3>2. \/ status[0] = "errored"
          \/ \E j \in 1..i - 1 :
               stages[j] \in Throwing /\ status[j] = "errored"
      BY <2>1, <3>1 DEF ErrorsCaused
    <3>3. \A j \in 1..i - 1 : j \in 1..i /\ j \in 0..N /\ j # i
      BY <1>1
    <3>4. ASSUME NEW k \in 0..N, status'[k] = "errored"
          PROVE  \/ status'[0] = "errored"
                 \/ \E j \in 1..k :
                      stages[j] \in Throwing /\ status'[j] = "errored"
      BY <1>1, <2>2, <3>1, <3>2, <3>3, <3>4 DEF ErrorsCaused
    <3>5. ASSUME NEW k \in 0..N, status'[k] = "canceled"
          PROVE  \E j \in k + 1..N : status'[j] = "errored"
      <4>1. status[k] = "canceled" /\ \A j \in k + 1..N : j \in 0..N
        BY <1>1, <2>2, <3>5
      <4>2. QED
        BY <2>2, <4>1 DEF ErrorsCaused
    <3>6. consumer' = "rejected" => status'[N] = "errored"
      BY <1>1, <2>1, <2>2 DEF ErrorsCaused
    <3>7. QED
      BY <2>1, <3>4, <3>5, <3>6 DEF ErrorsCaused, N
  <2>8. QED
    BY <2>4, <2>5, <2>6, <2>7
<1>14. ASSUME NEW i \in 1..N, Cancel(i) PROVE Inv'
  <2> DEFINE k == i - 1
  <2>1. k \in 0..N /\ k < N /\ k + 1 = i /\ i \in 0..N /\ i # k
    BY <1>1
  <2>2. /\ status[i] \in {"errored", "canceled"}
        /\ status[k] \in {"open", "closed"}
        /\ status' = [status EXCEPT ![k] = "canceled"]
        /\ out' = [out EXCEPT ![k] = <<>>]
        /\ in' = [j \in 1..N |-> IF j = k THEN <<>> ELSE in[j]]
        /\ UNCHANGED <<stages, served, wire, ended, consumer>>
    BY <1>14 DEF Cancel
  <2> HIDE DEF k
  <2>3. /\ status' \in [0..N -> {"open", "closed", "errored", "canceled"}]
        /\ status'[k] = "canceled"
        /\ \A j \in 0..N : j # k => status'[j] = status[j]
    BY <2>1, <2>2 DEF TypeOK
  <2>4. /\ out' = [j \in 0..N |-> out'[j]] /\ out'[k] = <<>>
        /\ \A j \in 0..N : j # k => out'[j] = out[j]
    <3>1. out = [j \in 0..N |-> out[j]]
      BY DEF TypeOK
    <3>2. QED
      BY <2>1, <2>2, <3>1
  <2>5. /\ in' = [j \in 1..N |-> in'[j]]
        /\ \A j \in 1..N : j = k => in'[j] = <<>>
        /\ \A j \in 1..N : j # k => in'[j] = in[j]
    BY <2>2
  <2>6. TypeOK'
    <3>1. Len(<<>>) <= 1
      OBVIOUS
    <3>2. \A j \in 1..N : Len(in'[j]) <= 1
      BY <2>5, <3>1 DEF TypeOK
    <3>3. N' = N /\ TypeOK
      BY <2>2 DEF N
    <3>4. QED
      BY <2>2, <2>3, <2>4, <2>5, <3>2, <3>3 DEF TypeOK
  <2>7. ClosedInOrder'
    BY <1>1, <2>1, <2>2, <2>3, <2>4, <2>5, ClosedKept
  <2>8. StoppedEmpty'
    <3>1. ASSUME NEW j \in 0..N, status'[j] \in {"errored", "canceled"}
          PROVE  out'[j] = <<>> /\ (j > 0 => in'[j] = <<>>)
      <4>1. CASE j = k
        BY <1>1, <2>1, <2>4, <2>5, <4>1
      <4>2. CASE j # k
        <5>1. out[j] = <<>> /\ (j > 0 => in[j] = <<>>)
          BY <2>3, <3>1, <4>2 DEF StoppedEmpty, Stopped
        <5>2. j > 0 => j \in 1..N
          BY <1>1
        <5>3. QED
          BY <2>4, <2>5, <4>2, <5>1, <5>2
      <4>3. QED
        BY <4>1, <4>2
    <3>2. QED
      BY <2>2, <3>1 DEF StoppedEmpty, Stopped, N
  <2>9. ErrorsCaused'
    <3>1. \A j \in 0..N : status[j] = "errored" <=> status'[j] = "errored"
      BY <2>1, <2>2, <2>3
    <3>2. ASSUME NEW m \in 0..N, status'[m] = "errored"
          PROVE  \/ status'[0] = "errored"
                 \/ \E j \in 1..m :
                      stages[j] \in Throwing /\ status'[j] = "errored"
      <4>1. 0 \in 0..N /\ \A j \in 1..m : j \in 0..N
        BY <1>1
      <4>2. QED
        BY <3>1, <3>2, <4>1 DEF ErrorsCaused
    <3>3. ASSUME NEW m \in 0..N, status'[m] = "canceled"
          PROVE  \E j \in m + 1..N : status'[j] = "errored"
      <4>1. \A j \in m + 1..N : j \in 0..N
        BY <1>1
      <4>2. CASE m # k
        BY <2>3, <3>1, <3>3, <4>1, <4>2 DEF ErrorsCaused
      <4>3. CASE m = k /\ status[i] = "errored"
        <5>1. i \in m + 1..N
          BY <1>1, <2>1, <4>3
        <5>2. QED
          BY <3>1, <4>1, <4>3, <5>1
      <4>4. CASE m = k /\ status[i] = "canceled"
        <5>1. PICK j \in i + 1..N : status[j] = "errored"
          BY <2>1, <4>4 DEF ErrorsCaused
        <5>2. j \in m + 1..N
          BY <1>1, <2>1, <4>4
        <5>3. QED
          BY <3>1, <4>1, <5>1, <5>2
      <4>5. QED
        BY <2>2, <4>2, <4>3, <4>4
    <3>4. consumer' = "rejected" => status'[N] = "errored"
      BY <1>1, <2>2, <3>1 DEF ErrorsCaused
    <3>5. QED
      BY <2>2, <3>2, <3>3, <3>4 DEF ErrorsCaused, N
  <2>10. QED
    BY <2>6, <2>7, <2>8, <2>9
<1>15. CASE PumpValue
  <2>1. /\ out[N] # <<>> /\ out' = [out EXCEPT ![N] = Tail(@)]
        /\ consumer = "reading" /\ consumer' \in {"reading", "resolved"}
        /\ UNCHANGED <<stages, served, wire, ended, status, in>>
    BY <1>15 DEF PumpValue
  <2>2. /\ out' = [j \in 0..N |-> out'[j]]
        /\ \A j \in 0..N : j # N => out'[j] = out[j]
    <3>1. out = [j \in 0..N |-> out[j]]
      BY DEF TypeOK
    <3>2. QED
      BY <2>1, <3>1
  <2>3. TypeOK'
    BY <2>1, <2>2 DEF TypeOK, N
  <2>4. ClosedInOrder'
    <3>1. \A k \in 1..N : \A j \in 1..k : j - 1 \in 0..N /\ j - 1 # N
      BY <1>1
    <3>2. QED
      BY <2>1, <2>2, <3>1 DEF ClosedInOrder, N
  <2>5. StoppedEmpty'
    BY <1>1, <2>1, <2>2 DEF StoppedEmpty, Stopped, N
  <2>6. ErrorsCaused'
    BY <2>1 DEF ErrorsCaused, N
  <2>7. QED
    BY <2>3, <2>4, <2>5, <2>6
<1>16. CASE PumpDone \/ PumpFails
  <2>1. /\ consumer' \in {"resolved", "rejected"}
        /\ consumer' = "rejected" => status[N] = "errored"
        /\ UNCHANGED <<stages, served, wire, ended, status, in, out>>
    BY <1>16 DEF PumpDone, PumpFails
  <2>2. TypeOK'
    BY <2>1 DEF TypeOK, N
  <2>3. ClosedInOrder' /\ StoppedEmpty' /\ ErrorsCaused'
    BY <2>1 DEF ClosedInOrder, StoppedEmpty, Stopped, ErrorsCaused, N
  <2>4. QED
    BY <2>2, <2>3
<1>17. CASE UNCHANGED vars
  <2>1. TypeOK'
    BY <1>17 DEF vars, TypeOK, N
  <2>2. ClosedInOrder' /\ StoppedEmpty' /\ ErrorsCaused'
    BY <1>17 DEF vars, ClosedInOrder, StoppedEmpty, Stopped, ErrorsCaused, N
  <2>3. QED
    BY <2>1, <2>2
<1>18. CASE \E i \in 1..N :
              Transform(i) \/ Pipe(i) \/ Flush(i) \/ Abort(i) \/ Cancel(i)
  BY <1>9, <1>10, <1>11, <1>12, <1>13, <1>14, <1>18 DEF Transform
<1>19. QED
  BY <1>3, <1>4, <1>5, <1>6, <1>7, <1>8, <1>15, <1>16, <1>17, <1>18
     DEF Next, Network, Runtime

(* How the stages come to their ends, whatever goes through them           *)
(* (streams.ts:3-71, journal_client.ts:53-57, :79-83).                     *)
THEOREM InvCorrect == Spec => []Inv
<1>1. QED
  BY InvInit, InvNext, PTL DEF Spec

(* Every variable keeps to its type; of the chunks, that there is one at   *)
(* most in the queue of a stage, and that the wire holds the end of what   *)
(* was served.                                                             *)
THEOREM TypeCorrect == Spec => []TypeOK
<1>1. Inv => TypeOK
  BY DEF Inv
<1>2. QED
  BY <1>1, InvCorrect, PTL

-----------------------------------------------------------------------------
(* A text is cut one token after the other.                                *)

Uncut == [lines |-> <<>>, rest |-> <<>>]

CutsTo(f, text, n) ==
  f = [i \in 0..n |-> IF i = 0 THEN Uncut ELSE CutStep(f[i - 1], text[i])]

LEMMA CutsToAt ==
  ASSUME NEW f, NEW text, NEW n \in Nat, CutsTo(f, text, n), NEW i \in 0..n
  PROVE  f[i] = IF i = 0 THEN Uncut ELSE CutStep(f[i - 1], text[i])
<1> DEFINE e(j) == IF j = 0 THEN Uncut ELSE CutStep(f[j - 1], text[j])
<1>1. f = [j \in 0..n |-> e(j)]
  BY DEF CutsTo
<1> HIDE DEF e
<1>2. f[i] = e(i)
  BY <1>1
<1>3. QED
  BY <1>2 DEF e

LEMMA CutsToSomething ==
  ASSUME NEW text
  PROVE  \A n \in Nat : \E f : CutsTo(f, text, n)
<1> DEFINE T == {n \in Nat : \E f : CutsTo(f, text, n)}
<1>1. 0 \in T
  <2> DEFINE f == [i \in 0..0 |-> Uncut]
  <2>1. f = [i \in 0..0 |-> IF i = 0 THEN Uncut
                            ELSE CutStep(f[i - 1], text[i])]
    OBVIOUS
  <2>2. CutsTo(f, text, 0)
    BY <2>1 DEF CutsTo
  <2>3. QED
    BY <2>2
<1>2. ASSUME NEW n \in T PROVE n + 1 \in T
  <2>1. PICK f : CutsTo(f, text, n)
    OBVIOUS
  <2> DEFINE e(i) == IF i = 0 THEN Uncut ELSE CutStep(f[i - 1], text[i])
             g == [i \in 0..n + 1 |-> IF i <= n THEN f[i] ELSE e(i)]
  <2>2. n \in Nat /\ \A i \in 0..n : f[i] = e(i)
    BY <2>1, CutsToAt
  <2>3. \A i \in 0..n + 1 : g[i] = e(i)
    <3> HIDE DEF e
    <3>1. QED
      BY <2>2
  <2>4. \A i \in 0..n + 1 : i # 0 => g[i - 1] = f[i - 1]
    <3> HIDE DEF e
    <3>1. QED
      BY <2>2
  <2>5. \A i \in 0..n + 1 :
          g[i] = IF i = 0 THEN Uncut ELSE CutStep(g[i - 1], text[i])
    <3> HIDE DEF g
    <3>1. QED
      BY <2>3, <2>4
  <2>6. g = [i \in 0..n + 1 |-> g[i]]
    OBVIOUS
  <2> HIDE DEF g, e
  <2>7. CutsTo(g, text, n + 1)
    BY <2>5, <2>6 DEF CutsTo
  <2>8. QED
    BY <2>2, <2>7
<1>3. T \in SUBSET Nat
  OBVIOUS
<1> HIDE DEF T
<1>4. \A n \in Nat : n \in T
  BY <1>1, <1>2, <1>3, NumberInduction
<1>5. QED
  BY <1>4 DEF T

LEMMA CutsToOne ==
  ASSUME NEW f, NEW s, NEW m \in Nat, CutsTo(f, s, m),
         NEW g, NEW t, NEW n \in Nat, CutsTo(g, t, n),
         m <= n, \A i \in 1..m : s[i] = t[i]
  PROVE  \A i \in 0..m : f[i] = g[i]
<1> DEFINE T == {i \in Nat : i \in 0..m => f[i] = g[i]}
<1>1. 0 \in T
  <2>1. 0 \in 0..m /\ 0 \in 0..n
    OBVIOUS
  <2>2. f[0] = Uncut /\ g[0] = Uncut
    BY <2>1, CutsToAt
  <2>3. QED
    BY <2>2
<1>2. ASSUME NEW i \in T PROVE i + 1 \in T
  <2> DEFINE j == i + 1
  <2>1. SUFFICES ASSUME j \in 0..m PROVE f[j] = g[j]
    OBVIOUS
  <2>2. /\ j \in 0..m /\ j \in 0..n /\ j - 1 = i /\ j # 0 /\ j \in 1..m
        /\ i \in 0..m
    BY <2>1
  <2>3. f[i] = g[i]
    BY <2>2
  <2> HIDE DEF j
  <2>4. f[j] = IF j = 0 THEN Uncut ELSE CutStep(f[j - 1], s[j])
    BY <2>2, CutsToAt
  <2>5. g[j] = IF j = 0 THEN Uncut ELSE CutStep(g[j - 1], t[j])
    BY <2>2, CutsToAt
  <2>6. QED
    BY <2>2, <2>3, <2>4, <2>5
<1>3. T \in SUBSET Nat
  OBVIOUS
<1> HIDE DEF T
<1>4. \A i \in Nat : i \in T
  BY <1>1, <1>2, <1>3, NumberInduction
<1>5. QED
  BY <1>4 DEF T

LEMMA CutUnfolds ==
  ASSUME NEW text, Len(text) \in Nat
  PROVE  \E f : CutsTo(f, text, Len(text)) /\ Cut(text) = f[Len(text)]
<1> DEFINE f == CHOOSE f : CutsTo(f, text, Len(text))
<1>1. CutsTo(f, text, Len(text))
  BY CutsToSomething
<1>2. Cut(text) = f[Len(text)]
  BY DEF Cut, CutsTo, Uncut
<1> HIDE DEF f
<1>3. QED
  BY <1>1, <1>2

LEMMA CutEmpty == Cut(<<>>) = Uncut
<1> DEFINE e == <<>>
<1>1. Len(e) = 0 /\ 0 \in Nat /\ 0 \in 0..0
  OBVIOUS
<1> HIDE DEF e
<1>2. PICK f : CutsTo(f, e, Len(e)) /\ Cut(e) = f[Len(e)]
  BY <1>1, CutUnfolds
<1>3. f[0] = Uncut
  BY <1>1, <1>2, CutsToAt
<1>4. QED
  BY <1>1, <1>2, <1>3 DEF e

LEMMA CutAppend ==
  ASSUME NEW S, NEW text \in Seq(S), NEW token \in S
  PROVE  Cut(Append(text, token)) = CutStep(Cut(text), token)
<1> DEFINE n == Len(text)
           m == n + 1
           t == Append(text, token)
<1>1. /\ n \in Nat /\ Len(t) = m /\ t[m] = token
      /\ \A i \in 1..n : text[i] = t[i]
  BY AppendProperties
<1> HIDE DEF n, t
<1>2. /\ m \in Nat /\ m # 0 /\ m - 1 = n /\ m \in 0..m /\ n \in 0..n
      /\ n <= m
  BY <1>1
<1> HIDE DEF m
<1>3. PICK f : CutsTo(f, text, n) /\ Cut(text) = f[n]
  BY <1>1, CutUnfolds DEF n
<1>4. PICK g : CutsTo(g, t, m) /\ Cut(t) = g[m]
  BY <1>1, <1>2, CutUnfolds
<1>5. f[n] = g[n]
  <2>1. \A i \in 0..n : f[i] = g[i]
    BY <1>1, <1>2, <1>3, <1>4, CutsToOne
  <2>2. QED
    BY <1>2, <2>1
<1>6. g[m] = IF m = 0 THEN Uncut ELSE CutStep(g[m - 1], t[m])
  BY <1>2, <1>4, CutsToAt
<1>7. QED
  BY <1>1, <1>2, <1>3, <1>4, <1>5, <1>6 DEF t

Cuts(S) == [lines : Seq(Seq(S)), rest : Seq(S)]

LEMMA CutStepIs ==
  ASSUME NEW S, NEW cut \in Cuts(S), NEW token
  PROVE  /\ token = nl =>
              CutStep(cut, token).lines = Append(cut.lines, cut.rest)
         /\ token = nl => CutStep(cut, token).rest = <<>>
         /\ token # nl => CutStep(cut, token).lines = cut.lines
         /\ token # nl => CutStep(cut, token).rest = Append(cut.rest, token)
BY DEF CutStep, Cuts

LEMMA CutStepType ==
  ASSUME NEW S, NEW cut \in Cuts(S \ {nl}), NEW token \in S
  PROVE  CutStep(cut, token) \in Cuts(S \ {nl})
<1> DEFINE R == S \ {nl}
<1>1. cut.lines \in Seq(Seq(R)) /\ cut.rest \in Seq(R)
  BY DEF Cuts
<1>2. CASE token = nl
  <2>1. CutStep(cut, token)
          = [lines |-> Append(cut.lines, cut.rest), rest |-> <<>>]
    BY <1>2 DEF CutStep
  <2> HIDE DEF R
  <2>2. Append(cut.lines, cut.rest) \in Seq(Seq(R)) /\ <<>> \in Seq(R)
    BY <1>1, AppendProperties, EmptySeq
  <2>3. CutStep(cut, token) \in Cuts(R)
    BY <2>1, <2>2 DEF Cuts
  <2>4. QED
    BY <2>3 DEF R
<1>3. CASE token # nl
  <2>1. CutStep(cut, token)
          = [lines |-> cut.lines, rest |-> Append(cut.rest, token)]
    BY <1>3 DEF CutStep, Cuts
  <2>2. token \in R
    BY <1>3
  <2> HIDE DEF R
  <2>3. Append(cut.rest, token) \in Seq(R)
    BY <1>1, <2>2, AppendProperties
  <2>4. CutStep(cut, token) \in Cuts(R)
    BY <1>1, <2>1, <2>3 DEF Cuts
  <2>5. QED
    BY <2>4 DEF R
<1>4. QED
  BY <1>2, <1>3

(* No newline is left in a line, nor in the rest.                          *)
LEMMA CutType ==
  ASSUME NEW S
  PROVE  \A text \in Seq(S) : Cut(text) \in Cuts(S \ {nl})
<1> DEFINE T == {text \in Seq(S) : Cut(text) \in Cuts(S \ {nl})}
<1>1. <<>> \in T
  <2>1. \A R : <<>> \in Seq(R) /\ <<>> \in Seq(Seq(R))
    BY EmptySeq
  <2>2. Cut(<<>>) = [lines |-> <<>>, rest |-> <<>>]
    BY CutEmpty DEF Uncut
  <2> DEFINE R == S \ {nl}
  <2> HIDE DEF R
  <2>3. Cut(<<>>) \in Cuts(R)
    <3>1. <<>> \in Seq(R) /\ <<>> \in Seq(Seq(R))
      BY <2>1
    <3>2. [lines |-> <<>>, rest |-> <<>>] \in Cuts(R)
      BY <3>1 DEF Cuts
    <3>3. QED
      BY <2>2, <3>2
  <2>4. QED
    BY <2>1, <2>3 DEF R
<1>2. ASSUME NEW text \in T, NEW token \in S PROVE Append(text, token) \in T
  <2>1. Append(text, token) \in Seq(S)
    BY AppendProperties
  <2>2. Cut(Append(text, token)) = CutStep(Cut(text), token)
    BY CutAppend
  <2>3. QED
    BY <2>1, <2>2, CutStepType
<1>3. T \in SUBSET Seq(S)
  OBVIOUS
<1> HIDE DEF T
<1>4. \A text \in Seq(S) : text \in T
  BY <1>1, <1>2, <1>3, SequenceInduction
<1>5. QED
  BY <1>4 DEF T

LEMMA CutParts ==
  ASSUME NEW S, NEW text \in Seq(S)
  PROVE  /\ Cut(text).lines \in Seq(Seq(S)) /\ Cut(text).rest \in Seq(S)
         /\ Cut(text).lines \in Seq(Seq(S \ {nl}))
         /\ Cut(text).rest \in Seq(S \ {nl})
         /\ Cut(text) \in Cuts(S)
<1> DEFINE R == S \ {nl}
<1>1. Cut(text) \in Cuts(R)
  BY CutType
<1>2. R \subseteq S
  OBVIOUS
<1> HIDE DEF R
<1>3. /\ Cut(text).lines \in Seq(Seq(R)) /\ Cut(text).rest \in Seq(R)
      /\ Cut(text) = [lines |-> Cut(text).lines, rest |-> Cut(text).rest]
  BY <1>1 DEF Cuts
<1>4. Cut(text).rest \in Seq(S) /\ Seq(R) \subseteq Seq(S)
  BY <1>2, <1>3, SeqMonotonic
<1>5. Cut(text).lines \in Seq(Seq(S))
  BY <1>3, <1>4, SeqMonotonic
<1>6. Cut(text) \in Cuts(S)
  BY <1>3, <1>4, <1>5 DEF Cuts
<1>7. QED
  BY <1>3, <1>4, <1>5, <1>6 DEF R

(* A text without a newline has no line.                                   *)
LEMMA CutNothing ==
  ASSUME NEW S, nl \notin S
  PROVE  \A text \in Seq(S) :
           Cut(text).lines = <<>> /\ Cut(text).rest = text
<1> DEFINE T == {text \in Seq(S) :
                   Cut(text).lines = <<>> /\ Cut(text).rest = text}
<1>1. <<>> \in T
  <2>1. <<>> \in Seq(S)
    BY EmptySeq
  <2>2. QED
    BY <2>1, CutEmpty DEF Uncut
<1>2. ASSUME NEW text \in T, NEW token \in S PROVE Append(text, token) \in T
  <2>1. Append(text, token) \in Seq(S) /\ token # nl
    BY AppendProperties
  <2>2. Cut(Append(text, token)) = CutStep(Cut(text), token)
    BY CutAppend
  <2>3. Cut(text) \in Cuts(S)
    BY CutParts
  <2>4. QED
    BY <2>1, <2>2, <2>3, CutStepIs
<1>3. T \in SUBSET Seq(S)
  OBVIOUS
<1> HIDE DEF T
<1>4. \A text \in Seq(S) : text \in T
  BY <1>1, <1>2, <1>3, SequenceInduction
<1>5. QED
  BY <1>4 DEF T

LEMMA CutStepBehind ==
  ASSUME NEW S, NEW l \in Seq(Seq(S)), NEW a \in Cuts(S), NEW b \in Cuts(S),
         a.lines = l \o b.lines, a.rest = b.rest, NEW x
  PROVE  /\ CutStep(a, x).lines = l \o CutStep(b, x).lines
         /\ CutStep(a, x).rest = CutStep(b, x).rest
<1>1. b.lines \in Seq(Seq(S)) /\ b.rest \in Seq(S)
  BY DEF Cuts
<1>2. CASE x = nl
  <2>1. l \o Append(b.lines, b.rest) = Append(l \o b.lines, b.rest)
    <3> DEFINE k == b.lines
               u == b.rest
               Q == Seq(S)
    <3>1. k \in Seq(Q) /\ l \in Seq(Q) /\ u \in Q
      BY <1>1
    <3> HIDE DEF k, u, Q
    <3>2. l \o Append(k, u) = Append(l \o k, u)
      BY <3>1, ConcatAppend
    <3>3. QED
      BY <3>2 DEF k, u
  <2>2. /\ CutStep(a, x).lines = Append(a.lines, a.rest)
        /\ CutStep(b, x).lines = Append(b.lines, b.rest)
        /\ CutStep(a, x).rest = <<>> /\ CutStep(b, x).rest = <<>>
    BY <1>2, CutStepIs
  <2>3. QED
    BY <2>1, <2>2
<1>3. CASE x # nl
  <2>1. /\ CutStep(a, x).lines = a.lines /\ CutStep(b, x).lines = b.lines
        /\ CutStep(a, x).rest = Append(a.rest, x)
        /\ CutStep(b, x).rest = Append(b.rest, x)
    BY <1>3, CutStepIs
  <2>2. QED
    BY <2>1
<1>4. QED
  BY <1>2, <1>3

(* Wherever a text is divided: the lines of the first part, and the lines  *)
(* of what is left of it with the second part behind it.                   *)
LEMMA CutConcat ==
  ASSUME NEW S, NEW s \in Seq(S)
  PROVE  \A t \in Seq(S) :
           /\ Cut(s \o t).lines
                = Cut(s).lines \o Cut(Cut(s).rest \o t).lines
           /\ Cut(s \o t).rest = Cut(Cut(s).rest \o t).rest
<1> DEFINE r == Cut(s).rest
           l == Cut(s).lines
           Good(t) == /\ Cut(s \o t).lines = l \o Cut(r \o t).lines
                      /\ Cut(s \o t).rest = Cut(r \o t).rest
           T == {t \in Seq(S) : Good(t)}
<1>1. r \in Seq(S) /\ l \in Seq(Seq(S))
  BY CutParts
<1>2. <<>> \in T
  <2>1. Cut(r).lines = <<>> /\ Cut(r).rest = r
    <3>1. r \in Seq(S \ {nl}) /\ nl \notin S \ {nl}
      BY CutParts
    <3> HIDE DEF r
    <3>2. QED
      BY <3>1, CutNothing
  <2>2. <<>> \in Seq(S) /\ s \o <<>> = s
    BY EmptySeq, ConcatEmptySeq
  <2> HIDE DEF r, l
  <2>3. r \o <<>> = r /\ l \o <<>> = l
    BY <1>1, ConcatEmptySeq
  <2>4. Good(<<>>)
    BY <2>1, <2>2, <2>3 DEF r, l
  <2>5. QED
    BY <2>2, <2>4
<1>3. ASSUME NEW t \in T, NEW x \in S PROVE Append(t, x) \in T
  <2> DEFINE a == Cut(s \o t)
             b == Cut(r \o t)
  <2>1. t \in Seq(S) /\ a.lines = l \o b.lines /\ a.rest = b.rest
    OBVIOUS
  <2> HIDE DEF r, l
  <2>2. s \o t \in Seq(S) /\ r \o t \in Seq(S) /\ Append(t, x) \in Seq(S)
    BY <1>1, <2>1, ConcatProperties, AppendProperties
  <2>3. a \in Cuts(S) /\ b \in Cuts(S)
    BY <2>2, CutParts
  <2>4. s \o Append(t, x) = Append(s \o t, x)
    BY <2>1, ConcatAppend
  <2>5. r \o Append(t, x) = Append(r \o t, x)
    BY <1>1, <2>1, ConcatAppend
  <2>6. Cut(s \o Append(t, x)) = CutStep(a, x)
    BY <2>2, <2>4, CutAppend
  <2>7. Cut(r \o Append(t, x)) = CutStep(b, x)
    BY <2>2, <2>5, CutAppend
  <2> HIDE DEF a, b
  <2>8. /\ CutStep(a, x).lines = l \o CutStep(b, x).lines
        /\ CutStep(a, x).rest = CutStep(b, x).rest
    BY <1>1, <2>1, <2>3, CutStepBehind
  <2>9. QED
    BY <2>2, <2>6, <2>7, <2>8
<1>4. T \in SUBSET Seq(S)
  OBVIOUS
<1>5. \A t \in Seq(S) : t \in T
  <2> HIDE DEF T
  <2>1. QED
    BY <1>2, <1>3, <1>4, SequenceInduction
<1>6. QED
  BY <1>5

LEMMA CutBegins ==
  ASSUME NEW S, NEW s \in Seq(S), NEW t, Begins(s, t, S)
  PROVE  Begins(Cut(s).lines, Cut(t).lines, Seq(S))
<1>1. PICK rest \in Seq(S) : t = s \o rest
  BY DEF Begins
<1> DEFINE more == Cut(Cut(s).rest \o rest).lines
<1>2. Cut(t).lines = Cut(s).lines \o more
  BY <1>1, CutConcat
<1>3. Cut(s).rest \o rest \in Seq(S)
  BY CutParts, ConcatProperties
<1>4. more \in Seq(Seq(S))
  BY <1>3, CutParts
<1>5. QED
  BY <1>2, <1>4 DEF Begins

-----------------------------------------------------------------------------
(* What a transformer makes of the chunks it has taken.                    *)

Pass(name, chunk) ==
  IF name = "parse" THEN IF Parses(chunk) THEN chunk ELSE <<>>
  ELSE IF name = "unwrap" THEN <<Property(chunk, "result")>>
  ELSE IF chunk.content # <<>> THEN <<chunk.content>> ELSE <<>>

Passed(name, chunks) == [k \in DOMAIN chunks |-> Pass(name, chunks[k])]

Made(name, chunks) ==
  IF name = "split" THEN Cut(FlattenSeq(chunks)).lines
                    ELSE FlattenSeq(Passed(name, chunks))

(* Of chunks in A it makes chunks in B.                                    *)
Turns(name, A, B) ==
  IF name = "split" THEN \E S : A = Seq(S) /\ B = Seq(S)
                    ELSE \A chunk \in A : Pass(name, chunk) \in Seq(B)

LEMMA PassedProperties ==
  ASSUME NEW name, name # "split", NEW A, NEW B, Turns(name, A, B),
         NEW s \in Seq(A)
  PROVE  /\ Passed(name, s) \in Seq(Seq(B))
         /\ Len(Passed(name, s)) = Len(s)
         /\ \A i \in 1..Len(s) : Passed(name, s)[i] = Pass(name, s[i])
<1> DEFINE n == Len(s)
           p == Passed(name, s)
           Q == Seq(B)
<1>1. n \in Nat /\ DOMAIN s = 1..n /\ \A i \in 1..n : s[i] \in A
  BY LenProperties, ElementOfSeq
<1>2. \A i \in 1..n : Pass(name, s[i]) \in Q
  BY <1>1 DEF Turns
<1>3. p = [i \in 1..n |-> Pass(name, s[i])]
  BY <1>1 DEF Passed
<1> HIDE DEF n, p, Q
<1>4. p \in [1..n -> Q] /\ \A i \in 1..n : p[i] = Pass(name, s[i])
  BY <1>2, <1>3
<1>5. p \in Seq(Q) /\ Len(p) = n
  BY <1>1, <1>4
<1>6. QED
  BY <1>4, <1>5 DEF n, p, Q

LEMMA PassedConcat ==
  ASSUME NEW name, name # "split", NEW A, NEW B, Turns(name, A, B),
         NEW s \in Seq(A), NEW t \in Seq(A)
  PROVE  Passed(name, s \o t) = Passed(name, s) \o Passed(name, t)
<1> DEFINE u == s \o t
           p == Passed(name, s)
           q == Passed(name, t)
           r == Passed(name, u)
           m == Len(s)
           n == Len(t)
<1>1. /\ u \in Seq(A) /\ Len(u) = m + n /\ m \in Nat /\ n \in Nat
      /\ \A i \in 1..m + n : u[i] = IF i <= m THEN s[i] ELSE t[i - m]
  BY ConcatProperties
<1> HIDE DEF u
<1>2. /\ p \in Seq(Seq(B)) /\ Len(p) = m
      /\ \A i \in 1..m : p[i] = Pass(name, s[i])
  BY PassedProperties
<1>3. /\ q \in Seq(Seq(B)) /\ Len(q) = n
      /\ \A i \in 1..n : q[i] = Pass(name, t[i])
  BY PassedProperties
<1>4. /\ r \in Seq(Seq(B)) /\ Len(r) = Len(u)
      /\ \A i \in 1..Len(u) : r[i] = Pass(name, u[i])
  BY <1>1, PassedProperties
<1> HIDE DEF p, q, r, m, n
<1>5. /\ p \o q \in Seq(Seq(B)) /\ Len(p \o q) = m + n
      /\ \A i \in 1..m + n : (p \o q)[i] = IF i <= m THEN p[i] ELSE q[i - m]
  BY <1>2, <1>3, ConcatProperties
<1>6. ASSUME NEW i \in 1..m + n PROVE r[i] = (p \o q)[i]
  <2>1. CASE i <= m
    <3>1. i \in 1..m
      BY <1>1, <2>1
    <3>2. QED
      BY <1>1, <1>2, <1>4, <1>5, <2>1, <3>1
  <2>2. CASE ~(i <= m)
    <3>1. i - m \in 1..n
      BY <1>1, <2>2
    <3>2. QED
      BY <1>1, <1>3, <1>4, <1>5, <2>2, <3>1
  <2>3. QED
    BY <2>1, <2>2
<1>7. r = p \o q
  BY <1>1, <1>4, <1>5, <1>6, SeqEqual
<1>8. QED
  BY <1>7 DEF p, q, r, u

LEMMA PassedOne ==
  ASSUME NEW name, NEW chunk
  PROVE  Passed(name, <<chunk>>) = <<Pass(name, chunk)>>
<1>1. DOMAIN <<chunk>> = 1..1 /\ <<chunk>>[1] = chunk
  OBVIOUS
<1>2. Passed(name, <<chunk>>) = [k \in 1..1 |-> Pass(name, <<chunk>>[k])]
  BY <1>1 DEF Passed
<1> DEFINE y == Pass(name, chunk)
<1>3. \A k \in 1..1 : Pass(name, <<chunk>>[k]) = y
  BY <1>1
<1>4. Passed(name, <<chunk>>) = [k \in 1..1 |-> y]
  BY <1>2, <1>3
<1> HIDE DEF y
<1>5. <<y>> = [k \in 1..1 |-> y]
  OBVIOUS
<1>6. QED
  BY <1>4, <1>5 DEF y

LEMMA MadeType ==
  ASSUME NEW name, NEW A, NEW B, Turns(name, A, B), NEW s \in Seq(A)
  PROVE  Made(name, s) \in Seq(B)
<1>1. CASE name = "split"
  <2>1. PICK S : A = Seq(S) /\ B = Seq(S)
    BY <1>1 DEF Turns
  <2>2. FlattenSeq(s) \in Seq(S)
    BY <2>1, FlattenType
  <2>3. Cut(FlattenSeq(s)).lines \in Seq(Seq(S))
    BY <2>2, CutParts
  <2>4. QED
    BY <1>1, <2>1, <2>3 DEF Made
<1>2. CASE name # "split"
  <2>1. Passed(name, s) \in Seq(Seq(B))
    BY <1>2, PassedProperties
  <2>2. FlattenSeq(Passed(name, s)) \in Seq(B)
    BY <2>1, FlattenType
  <2>3. QED
    BY <1>2, <2>2 DEF Made
<1>3. QED
  BY <1>1, <1>2

LEMMA MadeNothing ==
  ASSUME NEW name
  PROVE  Made(name, <<>>) = <<>>
<1>1. Passed(name, <<>>) = <<>>
  BY DEF Passed
<1>2. QED
  BY <1>1, FlattenEmpty, CutEmpty DEF Made, Uncut

(* More chunks taken, and more made of them.                               *)
LEMMA MadeBegins ==
  ASSUME NEW name, NEW A, NEW B, Turns(name, A, B), NEW s \in Seq(A), NEW t,
         Begins(s, t, A)
  PROVE  Begins(Made(name, s), Made(name, t), B)
<1>1. CASE name = "split"
  <2>1. PICK S : A = Seq(S) /\ B = Seq(S)
    BY <1>1 DEF Turns
  <2>2. FlattenSeq(s) \in Seq(S) /\ Begins(FlattenSeq(s), FlattenSeq(t), S)
    BY <2>1, FlattenType, FlattenBegins
  <2>3. Begins(Cut(FlattenSeq(s)).lines, Cut(FlattenSeq(t)).lines, Seq(S))
    BY <2>2, CutBegins
  <2>4. QED
    BY <1>1, <2>1, <2>3 DEF Made
<1>2. CASE name # "split"
  <2>1. PICK rest \in Seq(A) : t = s \o rest
    BY DEF Begins
  <2>2. Passed(name, t) = Passed(name, s) \o Passed(name, rest)
    BY <1>2, <2>1, PassedConcat
  <2>3. /\ Passed(name, s) \in Seq(Seq(B))
        /\ Passed(name, rest) \in Seq(Seq(B))
    BY <1>2, <2>1, PassedProperties
  <2>4. Begins(Passed(name, s), Passed(name, t), Seq(B))
    BY <2>2, <2>3 DEF Begins
  <2>5. Begins(FlattenSeq(Passed(name, s)), FlattenSeq(Passed(name, t)), B)
    BY <2>3, <2>4, FlattenBegins
  <2>6. QED
    BY <1>2, <2>5 DEF Made
<1>3. QED
  BY <1>1, <1>2

(* One chunk more, through splitStream and through the others.             *)
LEMMA SplitMakes ==
  ASSUME NEW S, NEW s \in Seq(Seq(S)), NEW chunk \in Seq(S)
  PROVE  /\ Made("split", Append(s, chunk))
              = Made("split", s)
                  \o Cut(Cut(FlattenSeq(s)).rest \o chunk).lines
         /\ Cut(FlattenSeq(Append(s, chunk))).rest
              = Cut(Cut(FlattenSeq(s)).rest \o chunk).rest
<1>1. FlattenSeq(s) \in Seq(S)
  BY FlattenType
<1>2. FlattenSeq(Append(s, chunk)) = FlattenSeq(s) \o chunk
  BY FlattenAppend
<1> DEFINE text == FlattenSeq(s)
<1>3. /\ Cut(text \o chunk).lines
           = Cut(text).lines \o Cut(Cut(text).rest \o chunk).lines
      /\ Cut(text \o chunk).rest = Cut(Cut(text).rest \o chunk).rest
  <2>1. text \in Seq(S)
    BY <1>1
  <2> HIDE DEF text
  <2>2. QED
    BY <2>1, CutConcat
<1>4. /\ Made("split", Append(s, chunk)) = Cut(text \o chunk).lines
      /\ Made("split", s) = Cut(text).lines
  BY <1>2 DEF Made
<1>5. QED
  BY <1>2, <1>3, <1>4

LEMMA OthersMake ==
  ASSUME NEW name, name # "split", NEW A, NEW B, Turns(name, A, B),
         NEW s \in Seq(A), NEW chunk \in A
  PROVE  Made(name, Append(s, chunk)) = Made(name, s) \o Pass(name, chunk)
<1>1. <<chunk>> \in Seq(A) /\ Append(s, chunk) = s \o <<chunk>>
  BY AppendIsConcat
<1>2. Passed(name, Append(s, chunk)) = Passed(name, s) \o <<Pass(name, chunk)>>
  <2>1. Passed(name, s \o <<chunk>>)
          = Passed(name, s) \o Passed(name, <<chunk>>)
    BY <1>1, PassedConcat
  <2>2. QED
    BY <1>1, <2>1, PassedOne
<1>3. Passed(name, s) \in Seq(Seq(B)) /\ Pass(name, chunk) \in Seq(B)
  BY PassedProperties DEF Turns
<1>4. Passed(name, Append(s, chunk))
        = Append(Passed(name, s), Pass(name, chunk))
  BY <1>2, <1>3, AppendIsConcat
<1>5. FlattenSeq(Append(Passed(name, s), Pass(name, chunk)))
        = FlattenSeq(Passed(name, s)) \o Pass(name, chunk)
  BY <1>3, FlattenAppend
<1>6. QED
  BY <1>4, <1>5 DEF Made

-----------------------------------------------------------------------------
(* What goes through the chains that the client builds.                    *)

(* The chunks on the readable side of a stage, and those that the stage    *)
(* takes without throwing.                                                 *)
Chunk(i) ==
  IF i <= 1 THEN Seq(Line \cup {nl})
  ELSE IF i = 2 THEN Line
  ELSE IF i = 3 THEN Response \cup {undefined}
  ELSE IF i <= 5 THEN Seq(Token)
  ELSE Doc \cup Line

Taken(i) == IF i = 4 THEN Response ELSE Chunk(i - 1)

LEMMA Chains ==
  ASSUME stages \in Pipelines
  PROVE  /\ N \in {3, 6}
         /\ stages[1] = "split" /\ stages[2] = "parse" /\ stages[3] = "unwrap"
         /\ N = 6 => /\ stages[4] = "decode" /\ stages[5] = "split"
                     /\ stages[6] = "parse"
         /\ ReadsDocuments <=> N = 6
<1> DEFINE a == <<"split", "parse", "unwrap">>
           b == <<"decode", "split", "parse">>
           S == {"split", "parse", "unwrap", "decode"}
<1>1. /\ a \in Seq(S) /\ b \in Seq(S) /\ Len(a) = 3 /\ Len(b) = 3
      /\ a[1] = "split" /\ a[2] = "parse" /\ a[3] = "unwrap"
      /\ b[1] = "decode" /\ b[2] = "split" /\ b[3] = "parse"
  OBVIOUS
<1>2. ReadStages = a /\ DocumentStages = a \o b
  BY DEF ReadStages, DocumentStages
<1> HIDE DEF a, b
<1>3. /\ Len(a \o b) = 6
      /\ \A i \in 1..6 : (a \o b)[i] = IF i <= 3 THEN a[i] ELSE b[i - 3]
  <2>1. /\ Len(a \o b) = Len(a) + Len(b)
        /\ \A i \in 1..Len(a) + Len(b) :
             (a \o b)[i] = IF i <= Len(a) THEN a[i] ELSE b[i - Len(a)]
    BY <1>1, ConcatProperties
  <2>2. QED
    BY <1>1, <2>1
<1>4. /\ (a \o b)[1] = "split" /\ (a \o b)[2] = "parse"
      /\ (a \o b)[3] = "unwrap" /\ (a \o b)[4] = "decode"
      /\ (a \o b)[5] = "split" /\ (a \o b)[6] = "parse"
  BY <1>1, <1>3
<1>5. stages = a \/ stages = a \o b
  BY <1>2, ChainAssumption
<1>6. a \o b \in Seq(S)
  BY <1>1, ConcatProperties
<1>7. DOMAIN a = 1..3 /\ DOMAIN (a \o b) = 1..6
  BY <1>1, <1>3, <1>6, LenProperties
<1>8. CASE stages = a
  <2>1. N = 3
    BY <1>1, <1>8 DEF N
  <2>2. ~ ReadsDocuments
    BY <1>1, <1>7, <1>8 DEF ReadsDocuments, ToSet
  <2>3. QED
    BY <1>1, <1>8, <2>1, <2>2
<1>9. CASE stages = a \o b
  <2>1. N = 6
    BY <1>3, <1>9 DEF N
  <2>2. ReadsDocuments
    <3>1. 4 \in DOMAIN stages /\ stages[4] = "decode"
      BY <1>4, <1>7, <1>9
    <3>2. QED
      BY <3>1 DEF ReadsDocuments, ToSet
  <2>3. QED
    BY <1>4, <1>9, <2>1, <2>2
<1>10. QED
  BY <1>5, <1>8, <1>9

LEMMA LineProperties ==
  ASSUME NEW line \in Line
  PROVE  /\ Property(line, "result") \in Response \cup {undefined}
         /\ Property(line, "result") = undefined <=> line = Failure
         /\ "result" \in DOMAIN line <=> line # Failure
<1>1. CASE line \in [result : Response]
  <2>1. DOMAIN line = {"result"} /\ line.result \in Response
    BY <1>1
  <2>2. Property(line, "result") = line.result
    BY <2>1 DEF Property
  <2>3. line # Failure
    <3>1. "result" \notin DOMAIN Failure
      BY DEF Failure
    <3>2. QED
      BY <2>1, <3>1
  <2>4. QED
    BY <2>1, <2>2, <2>3, TextAssumption DEF Nullish
<1>2. CASE line = Failure
  <2>1. "result" \notin DOMAIN line
    BY <1>2 DEF Failure
  <2>2. QED
    BY <1>2, <2>1 DEF Property
<1>3. QED
  BY <1>1, <1>2 DEF Line

LEMMA ParseTurns ==
  ASSUME NEW S, nl \notin S, NEW chunk \in Seq(S \cup {nl})
  PROVE  Pass("parse", chunk) \in Seq(S \cap (Doc \cup Line))
<1> DEFINE B == S \cap (Doc \cup Line)
<1>1. CASE Parses(chunk)
  <2>1. Len(chunk) = 1 /\ Head(chunk) \in Doc \cup Line
    BY <1>1 DEF Parses
  <2>2. chunk # <<>> /\ chunk[1] = Head(chunk) /\ chunk[1] \in S \cup {nl}
    BY <2>1
  <2>3. chunk[1] # nl
    BY <2>1, <2>2, PipelineAssumption, TextAssumption
  <2>4. chunk[1] \in B
    BY <2>1, <2>2, <2>3
  <2>5. chunk \in Seq(S \cup {nl})
    OBVIOUS
  <2> HIDE DEF B
  <2>6. chunk \in Seq(B)
    <3>1. chunk \in [1..1 -> S \cup {nl}]
      BY <2>1, <2>5, LenProperties
    <3>2. \A i \in 1..1 : chunk[i] \in B
      BY <2>4
    <3>3. chunk \in [1..1 -> B]
      BY <3>1, <3>2
    <3>4. \E n \in Nat : chunk \in [1..n -> B]
      BY <3>3
    <3>5. Seq(B) = UNION {[1..n -> B] : n \in Nat}
      BY SeqDef
    <3>6. QED
      BY <3>4, <3>5, Zenon
  <2>7. Pass("parse", chunk) \in Seq(B)
    BY <1>1, <2>6 DEF Pass
  <2>8. QED
    BY <2>7 DEF B
<1>2. CASE ~ Parses(chunk)
  BY <1>2 DEF Pass
<1>3. QED
  BY <1>1, <1>2

LEMMA ResponseContent ==
  ASSUME NEW response \in Response
  PROVE  response.content \in Seq(Token)
<1>1. CASE response = Refused
  <2>1. response.content = <<>>
    BY <1>1 DEF Refused, ReadResponse
  <2>2. QED
    BY <2>1, EmptySeq
<1>2. ASSUME NEW content \in Content, response = ReadResponse("OK", content)
      PROVE  response.content \in Seq(Token)
  <2>1. response.content = content
    BY <1>2 DEF ReadResponse
  <2>2. QED
    BY <2>1, TextAssumption
<1>3. QED
  BY <1>1, <1>2 DEF Response

LEMMA StageTurns ==
  ASSUME stages \in Pipelines, NEW i \in 1..N
  PROVE  Turns(stages[i], Taken(i), Chunk(i)) /\ Taken(i) \subseteq Chunk(i - 1)
<1>1. N \in {3, 6} /\ i \in Nat
  BY Chains
<1>2. CASE i = 1
  <2>1. Taken(1) = Chunk(0) /\ Chunk(0) = Chunk(1)
        /\ Chunk(1) = Seq(Line \cup {nl})
    BY DEF Taken, Chunk
  <2>2. stages[1] = "split"
    BY Chains
  <2>3. QED
    BY <1>2, <2>1, <2>2 DEF Turns
<1>3. CASE i = 2
  <2>1. Taken(2) = Chunk(1) /\ Chunk(1) = Seq(Line \cup {nl})
        /\ Chunk(2) = Line
    BY DEF Taken, Chunk
  <2>2. stages[2] = "parse"
    BY Chains
  <2>3. nl \notin Line /\ Line \cap (Doc \cup Line) = Line
    BY TextAssumption
  <2>4. \A chunk \in Seq(Line \cup {nl}) : Pass("parse", chunk) \in Seq(Line)
    BY <2>3, ParseTurns
  <2>5. Turns("parse", Taken(2), Chunk(2))
    BY <2>1, <2>4 DEF Turns
  <2>6. QED
    BY <1>3, <2>1, <2>2, <2>5
<1>4. CASE i = 3
  <2>1. Taken(3) = Chunk(2) /\ Chunk(2) = Line
        /\ Chunk(3) = Response \cup {undefined}
    BY DEF Taken, Chunk
  <2>2. stages[3] = "unwrap"
    BY Chains
  <2>3. ASSUME NEW chunk \in Line
        PROVE  Pass("unwrap", chunk) \in Seq(Response \cup {undefined})
    <3>1. Property(chunk, "result") \in Response \cup {undefined}
      BY LineProperties
    <3>2. Pass("unwrap", chunk) = <<Property(chunk, "result")>>
      BY DEF Pass
    <3> DEFINE y == Property(chunk, "result")
               Q == Response \cup {undefined}
    <3> HIDE DEF y, Q
    <3>3. y \in Q => <<y>> \in Seq(Q)
      OBVIOUS
    <3>4. QED
      BY <3>1, <3>2, <3>3 DEF y, Q
  <2>4. Turns("unwrap", Taken(3), Chunk(3))
    BY <2>1, <2>3 DEF Turns
  <2>5. QED
    BY <1>4, <2>1, <2>2, <2>4
<1>5. CASE i = 4
  <2>1. Taken(4) = Response /\ Chunk(3) = Response \cup {undefined}
        /\ Chunk(4) = Seq(Token)
    BY DEF Taken, Chunk
  <2>2. stages[4] = "decode"
    BY <1>1, <1>5, Chains
  <2>3. ASSUME NEW chunk \in Response
        PROVE  Pass("decode", chunk) \in Seq(Seq(Token))
    <3>1. chunk.content \in Seq(Token)
      BY ResponseContent
    <3>2. Pass("decode", chunk)
            = IF chunk.content # <<>> THEN <<chunk.content>> ELSE <<>>
      BY DEF Pass
    <3> DEFINE Q == Seq(Token)
    <3> HIDE DEF Q
    <3>3. chunk.content \in Q => <<chunk.content>> \in Seq(Q)
      OBVIOUS
    <3>4. <<>> \in Seq(Q)
      OBVIOUS
    <3>5. QED
      BY <3>1, <3>2, <3>3, <3>4 DEF Q
  <2>4. Turns("decode", Taken(4), Chunk(4))
    BY <2>1, <2>3 DEF Turns
  <2>5. QED
    BY <1>5, <2>1, <2>2, <2>4
<1>6. CASE i = 5
  <2>1. Taken(5) = Chunk(4) /\ Chunk(4) = Chunk(5) /\ Chunk(5) = Seq(Token)
    BY DEF Taken, Chunk
  <2>2. stages[5] = "split"
    BY <1>1, <1>6, Chains
  <2>3. QED
    BY <1>6, <2>1, <2>2 DEF Turns
<1>7. CASE i = 6
  <2>1. Taken(6) = Chunk(5) /\ Chunk(5) = Seq(Token)
        /\ Chunk(6) = Doc \cup Line
    BY DEF Taken, Chunk
  <2>2. stages[6] = "parse"
    BY <1>1, <1>7, Chains
  <2> DEFINE S == Doc \cup (Fragment \ {nl})
  <2>3. nl \notin S /\ Token = S \cup {nl}
        /\ S \cap (Doc \cup Line) \subseteq Doc \cup Line
    BY PipelineAssumption DEF Token
  <2> HIDE DEF S
  <2>4. ASSUME NEW chunk \in Seq(Token)
        PROVE  Pass("parse", chunk) \in Seq(Doc \cup Line)
    <3>1. Pass("parse", chunk) \in Seq(S \cap (Doc \cup Line))
      BY <2>3, ParseTurns
    <3>2. QED
      BY <2>3, <3>1, SeqMonotonic
  <2>5. Turns("parse", Taken(6), Chunk(6))
    BY <2>1, <2>4 DEF Turns
  <2>6. QED
    BY <1>7, <2>1, <2>2, <2>5
<1>8. QED
  BY <1>1, <1>2, <1>3, <1>4, <1>5, <1>6, <1>7

-----------------------------------------------------------------------------
(* What is on its way from a stage to what reads it.                       *)

(* Of what a stage has made, some is taken and some is waiting: nothing    *)
(* else, and nothing is missing, as long as neither has stopped; once the  *)
(* stage has, something may be missing at the end; and once the one that   *)
(* takes has stopped, what waits for it does not matter.                   *)
Link(taken, waiting, whole, S, mode) ==
  /\ taken \in Seq(S) /\ waiting \in Seq(S) /\ whole \in Seq(S)
  /\ Begins(taken, whole, S)
  /\ mode # "stopped" => Begins(taken \o waiting, whole, S)
  /\ mode = "exact" => taken \o waiting = whole

LEMMA LinkTake ==
  ASSUME NEW S, NEW taken, NEW chunk \in S, NEW rest \in Seq(S), NEW whole,
         NEW mode, mode # "stopped",
         Link(taken, <<chunk>> \o rest, whole, S, mode)
  PROVE  Link(Append(taken, chunk), rest, whole, S, mode)
<1>1. taken \in Seq(S) /\ <<chunk>> \in Seq(S)
  BY DEF Link
<1>2. Append(taken, chunk) = taken \o <<chunk>> /\ taken \o <<chunk>> \in Seq(S)
  BY <1>1, AppendIsConcat, ConcatProperties
<1>3. taken \o (<<chunk>> \o rest) = Append(taken, chunk) \o rest
  BY <1>1, <1>2, ConcatAssociative
<1>4. Begins(Append(taken, chunk), Append(taken, chunk) \o rest, S)
  BY <1>2, BeginsConcat
<1>5. Begins(Append(taken, chunk) \o rest, whole, S)
  BY <1>3 DEF Link
<1>6. Begins(Append(taken, chunk), whole, S)
  BY <1>2, <1>4, <1>5, BeginsTransitive
<1>7. QED
  BY <1>2, <1>3, <1>5, <1>6 DEF Link

LEMMA LinkGrow ==
  ASSUME NEW S, NEW taken, NEW waiting, NEW whole, NEW more \in Seq(S),
         NEW mode \in {"stopped", "exact"},
         Link(taken, waiting, whole, S, mode)
  PROVE  Link(taken, waiting \o more, whole \o more, S, mode)
<1>1. taken \in Seq(S) /\ waiting \in Seq(S) /\ whole \in Seq(S)
  BY DEF Link
<1>2. waiting \o more \in Seq(S) /\ whole \o more \in Seq(S)
  BY <1>1, ConcatProperties
<1>3. Begins(whole, whole \o more, S)
  BY <1>1, BeginsConcat
<1>4. Begins(taken, whole \o more, S)
  BY <1>1, <1>3, BeginsTransitive DEF Link
<1>5. (taken \o waiting) \o more = taken \o (waiting \o more)
  BY <1>1, ConcatAssociative
<1>6. mode = "exact" => taken \o (waiting \o more) = whole \o more
  BY <1>5 DEF Link
<1>7. Begins(whole \o more, whole \o more, S)
  BY <1>2, BeginsSelf
<1>8. QED
  BY <1>1, <1>2, <1>4, <1>6, <1>7 DEF Link

(* The stage stops, and what waits at the end is dropped.                  *)
LEMMA LinkDrop ==
  ASSUME NEW S, NEW taken, NEW kept \in Seq(S), NEW dropped \in Seq(S),
         NEW whole, NEW mode, Link(taken, kept \o dropped, whole, S, mode),
         NEW next, next = IF mode = "stopped" THEN "stopped" ELSE "partial"
  PROVE  Link(taken, kept, whole, S, next)
<1>1. taken \in Seq(S)
  BY DEF Link
<1>2. /\ taken \o (kept \o dropped) = (taken \o kept) \o dropped
      /\ taken \o kept \in Seq(S)
  <2>1. Regroups(taken, kept, dropped)
    BY <1>1, Associative
  <2>2. taken \o kept \in Seq(S)
    BY <1>1, ConcatProperties
  <2>3. QED
    BY <2>1, <2>2 DEF Regroups
<1>3. Begins(taken \o kept, taken \o (kept \o dropped), S)
  BY <1>2, BeginsConcat
<1>4. mode # "stopped" => Begins(taken \o kept, whole, S)
  BY <1>2, <1>3, BeginsTransitive DEF Link
<1>5. QED
  BY <1>4 DEF Link

(* The one that takes stops.                                               *)
LEMMA LinkStop ==
  ASSUME NEW S, NEW taken, NEW waiting, NEW left \in Seq(S), NEW whole,
         NEW mode, Link(taken, waiting, whole, S, mode)
  PROVE  Link(taken, left, whole, S, "stopped")
BY DEF Link

(* What stage i, or the reader behind the last one, has taken and what     *)
(* waits for it.                                                           *)
Took(h, i) == IF i = N + 1 THEN results ELSE h[i]
Waiting(i) == IF i = N + 1 THEN out[N] ELSE in[i] \o out[i - 1]
Whole(h, i) == IF i = 0 THEN h[0] ELSE Made(stages[i], h[i])
Live(i) == IF i = N + 1 THEN consumer = "reading" ELSE ~ Stopped(i)
Mode(i) == IF ~ Live(i) THEN "stopped"
           ELSE IF Stopped(i - 1) THEN "partial" ELSE "exact"

Kept(name, chunks) ==
  IF name = "split" THEN Cut(FlattenSeq(chunks)).rest ELSE <<>>

Typed(h) ==
  /\ h = [i \in 0..N |-> h[i]]
  /\ h[0] \in Seq(Chunk(0))
  /\ \A i \in 1..N : h[i] \in Seq(Taken(i))
  /\ \A i \in 1..N : in[i] \in Seq(Chunk(i - 1))
  /\ \A i \in 0..N : out[i] \in Seq(Chunk(i))
  /\ wire \in Chunk(0)

Linked(h, i) ==
  Link(Took(h, i), Waiting(i), Whole(h, i - 1), Chunk(i - 1), Mode(i))

(* It resolves at the end, or at a value that counts for false.            *)
Settled(h) ==
  consumer = "resolved" =>
    \/ status[N] = "closed" /\ results = Whole(h, N)
    \/ \E value \in Falsy \cap Chunk(N) :
         Begins(Append(results, value), Whole(h, N), Chunk(N))

(* h[0] is what the body has handed over in chunks, and h[i] what stage i  *)
(* has taken.                                                              *)
Flow(h) ==
  /\ Typed(h)
  /\ FlattenSeq(h[0]) \o wire = served
  /\ \A i \in 1..N + 1 : Linked(h, i)
  /\ buffer = [i \in 1..N |-> Kept(stages[i], h[i])]
  /\ Settled(h)

LEMMA FlowBasics ==
  ASSUME Inv
  PROVE  /\ N \in {3, 6} /\ stages \in Pipelines
         /\ in = [j \in 1..N |-> in[j]] /\ out = [j \in 0..N |-> out[j]]
         /\ status \in [0..N -> {"open", "closed", "errored", "canceled"}]
         /\ \A j \in 1..N : Len(in[j]) <= 1
BY Chains DEF Inv, TypeOK

LEMMA Indices ==
  ASSUME NEW n \in Nat, NEW i \in 0..n
  PROVE  /\ 0 \in 0..n /\ n \in 0..n /\ i # n + 1 /\ i + 1 # i
         /\ i + 1 \in 1..n + 1 /\ i + 1 - 1 = i /\ i \in Nat
         /\ i > 0 => i \in 1..n /\ i - 1 \in 0..n /\ i - 1 # i
         /\ i + 1 # n + 1 => i + 1 \in 1..n
         /\ i + 1 = n + 1 => i = n
         /\ \A j \in 1..n : j \in 0..n /\ j - 1 \in 0..n /\ j \in 1..n + 1
         /\ \A j \in 1..n + 1 : j # n + 1 => j \in 1..n
         /\ \A j \in 1..n + 1 : j # i + 1 => j - 1 # i
         /\ \A j \in 1..n + 1 : j - 1 \in 0..n
OBVIOUS

LEMMA LinkOf ==
  ASSUME NEW h, Flow(h), NEW i \in 1..N + 1
  PROVE  /\ Link(Took(h, i), Waiting(i), Whole(h, i - 1), Chunk(i - 1), Mode(i))
         /\ Took(h, i) \in Seq(Chunk(i - 1))
         /\ Whole(h, i - 1) \in Seq(Chunk(i - 1))
<1>1. Linked(h, i)
  BY DEF Flow
<1>2. Link(Took(h, i), Waiting(i), Whole(h, i - 1), Chunk(i - 1), Mode(i))
  BY <1>1 DEF Linked
<1>3. QED
  BY <1>2 DEF Link

LEMMA WholeType ==
  ASSUME NEW h, Flow(h), N \in Nat
  PROVE  /\ Whole(h, N) \in Seq(Chunk(N)) /\ results \in Seq(Chunk(N))
         /\ Link(results, out[N], Whole(h, N), Chunk(N), Mode(N + 1))
<1> DEFINE k == N + 1
<1>1. k \in 1..k /\ k - 1 = N
  BY Indices
<1>2. /\ Link(Took(h, k), Waiting(k), Whole(h, k - 1), Chunk(k - 1), Mode(k))
      /\ Took(h, k) \in Seq(Chunk(k - 1))
      /\ Whole(h, k - 1) \in Seq(Chunk(k - 1))
  BY <1>1, LinkOf
<1>3. Took(h, k) = results /\ Waiting(k) = out[N]
  BY DEF Took, Waiting
<1> HIDE DEF k
<1>4. QED
  <2>1. /\ Link(results, out[N], Whole(h, N), Chunk(N), Mode(k))
        /\ results \in Seq(Chunk(N)) /\ Whole(h, N) \in Seq(Chunk(N))
    BY <1>1, <1>2, <1>3
  <2>2. QED
    BY <2>1 DEF k

LEMMA ModeSame ==
  ASSUME NEW i, UNCHANGED <<stages, consumer>>,
         status'[i - 1] = status[i - 1],
         i # N + 1 => status'[i] = status[i]
  PROVE  Mode(i)' = Mode(i)
BY DEF Mode, Live, Stopped, N

(* A link to which nothing happens.                                        *)
LEMMA LinkUntouched ==
  ASSUME NEW h, NEW g, Flow(h), NEW j \in 1..N + 1,
         UNCHANGED <<stages, results, consumer>>,
         g[j - 1] = h[j - 1], out'[j - 1] = out[j - 1],
         status'[j - 1] = status[j - 1],
         j # N + 1 => /\ g[j] = h[j] /\ in'[j] = in[j]
                      /\ status'[j] = status[j],
         N \in Nat
  PROVE  Linked(g, j)'
<1>1. N' = N
  BY DEF N
<1>2. Took(g, j)' = Took(h, j)
  BY <1>1 DEF Took
<1>3. Whole(g, j - 1)' = Whole(h, j - 1)
  BY DEF Whole
<1>4. Mode(j)' = Mode(j)
  BY ModeSame
<1>5. Waiting(j)' = Waiting(j)
  <2>1. CASE j = N + 1
    <3>1. j - 1 = N
      BY <2>1
    <3>2. out'[N] = out[N]
      BY <3>1
    <3>3. QED
      BY <1>1, <2>1, <3>2 DEF Waiting
  <2>2. CASE j # N + 1
    BY <1>1, <2>2 DEF Waiting
  <2>3. QED
    BY <2>1, <2>2
<1>6. Link(Took(h, j), Waiting(j), Whole(h, j - 1), Chunk(j - 1), Mode(j))
  BY LinkOf
<1>7. QED
  BY <1>2, <1>3, <1>4, <1>5, <1>6 DEF Linked

(* Stage i, which is sound, has made more.                                 *)
LEMMA LinkBehind ==
  ASSUME NEW h, NEW g, Flow(h), NEW i \in 0..N,
         UNCHANGED <<stages, results, consumer>>,
         NEW more \in Seq(Chunk(i)), out'[i] = out[i] \o more,
         Whole(g, i)' = Whole(h, i) \o more,
         ~ Stopped(i), status'[i] = status[i],
         i + 1 # N + 1 => /\ g[i + 1] = h[i + 1] /\ in'[i + 1] = in[i + 1]
                          /\ status'[i + 1] = status[i + 1],
         N \in Nat
  PROVE  Linked(g, i + 1)'
<1> DEFINE j == i + 1
           S == Chunk(i)
<1>1. N' = N
  BY DEF N
<1>2. j \in 1..N + 1 /\ j - 1 = i /\ (j # N + 1 => j \in 1..N)
      /\ (j = N + 1 => i = N)
  BY Indices
<1>3. j # N + 1 => /\ g[j] = h[j] /\ in'[j] = in[j]
                   /\ status'[j] = status[j]
  OBVIOUS
<1> HIDE DEF j
<1>4. Took(g, j)' = Took(h, j)
  BY <1>1, <1>3 DEF Took
<1>5. Mode(j)' = Mode(j) /\ Mode(j) \in {"stopped", "exact"}
  <2>1. Mode(j)' = Mode(j)
    BY <1>2, <1>3, ModeSame
  <2>2. Mode(j) \in {"stopped", "exact"}
    BY <1>2 DEF Mode
  <2>3. QED
    BY <2>1, <2>2
<1>6. Link(Took(h, j), Waiting(j), Whole(h, i), S, Mode(j))
  BY <1>2, LinkOf
<1>7. out[i] \in Seq(S) /\ (j # N + 1 => in[j] \in Seq(S))
  <2>1. Typed(h)
    BY DEF Flow
  <2>2. QED
    BY <1>2, <2>1 DEF Typed
<1> HIDE DEF S
<1>8. more \in Seq(S)
  BY DEF S
<1>9. Waiting(j)' = Waiting(j) \o more
  <2>1. CASE j = N + 1
    BY <1>1, <1>2, <2>1 DEF Waiting
  <2>2. CASE j # N + 1
    <3>1. in[j] \in Seq(S) /\ out[i] \in Seq(S)
      BY <1>7, <2>2
    <3>2. in[j] \o (out[i] \o more) = (in[j] \o out[i]) \o more
      <4> DEFINE a == in[j]
                 b == out[i]
      <4>1. a \in Seq(S) /\ b \in Seq(S)
        BY <3>1
      <4> HIDE DEF a, b
      <4>2. Regroups(a, b, more)
        BY <1>8, <4>1, Associative
      <4>3. (a \o b) \o more = a \o (b \o more)
        BY <4>2 DEF Regroups
      <4>4. QED
        BY <4>3 DEF a, b
    <3>3. Waiting(j) = in[j] \o out[i]
      BY <1>2, <2>2 DEF Waiting
    <3>4. Waiting(j)' = in'[j] \o out'[i]
      BY <1>1, <1>2, <2>2 DEF Waiting
    <3>5. QED
      BY <1>3, <2>2, <3>2, <3>3, <3>4
  <2>3. QED
    BY <2>1, <2>2
<1>10. Link(Took(h, j), Waiting(j) \o more, Whole(h, i) \o more, S, Mode(j))
  BY <1>5, <1>6, <1>8, LinkGrow
<1>11. Linked(g, j)'
  <2>1. Link(Took(h, j), Waiting(j) \o more, Whole(h, i) \o more,
             Chunk(j - 1), Mode(j))
    BY <1>2, <1>10 DEF S
  <2>2. Whole(g, j - 1)' = Whole(h, i) \o more
    BY <1>2
  <2>3. QED
    BY <1>4, <1>5, <1>9, <2>1, <2>2 DEF Linked
<1>12. QED
  BY <1>11 DEF j

(* What was settled remains settled when more is made.                     *)
LEMMA SettledKept ==
  ASSUME NEW h, NEW g, Flow(h), N \in Nat,
         UNCHANGED <<stages, results, consumer>>,
         status[N] = "closed" =>
           status'[N] = "closed" /\ Whole(g, N)' = Whole(h, N),
         Begins(Whole(h, N), Whole(g, N)', Chunk(N))
  PROVE  Settled(g)'
<1>1. N' = N
  BY DEF N
<1>2. SUFFICES ASSUME consumer = "resolved" PROVE Settled(g)'
  BY DEF Settled
<1>3. CASE status[N] = "closed" /\ results = Whole(h, N)
  <2>1. status'[N] = "closed" /\ results' = Whole(g, N)'
    BY <1>3
  <2>2. QED
    BY <1>1, <2>1 DEF Settled
<1>4. CASE \E value \in Falsy \cap Chunk(N) :
             Begins(Append(results, value), Whole(h, N), Chunk(N))
  <2>1. PICK value \in Falsy \cap Chunk(N) :
          Begins(Append(results, value), Whole(h, N), Chunk(N))
    BY <1>4
  <2>2. results \in Seq(Chunk(N))
    BY WholeType
  <2>3. Append(results, value) \in Seq(Chunk(N))
    BY <2>1, <2>2, AppendProperties
  <2>4. Begins(Append(results, value), Whole(g, N)', Chunk(N))
    BY <2>1, <2>3, BeginsTransitive
  <2>5. Begins(Append(results', value), Whole(g, N)', Chunk(N))
    BY <2>4
  <2>6. QED
    BY <1>1, <2>1, <2>5 DEF Settled
<1>5. QED
  BY <1>2, <1>3, <1>4 DEF Flow, Settled

(* The histories, when that of one stage becomes longer.                   *)
LEMMA HistoryLonger ==
  ASSUME NEW h, NEW i \in 0..N, NEW more, NEW g,
         h = [j \in 0..N |-> h[j]], g = [h EXCEPT ![i] = Append(@, more)]
  PROVE  /\ g = [j \in 0..N |-> g[j]] /\ g[i] = Append(h[i], more)
         /\ \A j \in 0..N : j # i => g[j] = h[j]
OBVIOUS

LEMMA EnqueueIs ==
  ASSUME Inv, NEW i \in 1..N, NEW chunks, Enqueue(i, chunks)
  PROVE  /\ in'[i] = <<>> /\ \A j \in 1..N : j # i => in'[j] = in[j]
         /\ out'[i] = out[i] \o chunks
         /\ \A j \in 0..N : j # i => out'[j] = out[j]
         /\ UNCHANGED <<stages, served, wire, ended, status, consumer, results>>
<1>1. in = [j \in 1..N |-> in[j]] /\ out = [j \in 0..N |-> out[j]] /\ N \in Nat
  BY FlowBasics
<1>2. /\ in' = [in EXCEPT ![i] = <<>>] /\ out' = [out EXCEPT ![i] = @ \o chunks]
      /\ UNCHANGED <<stages, served, wire, ended, status, consumer, results>>
  BY DEF Enqueue
<1>3. i \in 0..N
  BY <1>1
<1>4. QED
  BY <1>1, <1>2, <1>3

(* A stage takes a chunk and enqueues what it makes of it.                 *)
LEMMA TransformFlows ==
  ASSUME Inv, NEW h, Flow(h), NEW i \in 1..N, status[i] = "open",
         NEW chunk \in Taken(i), in[i] = <<chunk>>,
         NEW made \in Seq(Chunk(i)), Enqueue(i, made),
         Made(stages[i], Append(h[i], chunk)) = Made(stages[i], h[i]) \o made,
         buffer' = [buffer EXCEPT ![i] = Kept(stages[i], Append(h[i], chunk))]
  PROVE  \E g : Flow(g)'
<1>1. N \in Nat /\ stages \in Pipelines /\ i \in 0..N /\ i > 0
  BY FlowBasics
<1>2. /\ 0 \in 0..N /\ N \in 0..N /\ i # N + 1 /\ i # i + 1
      /\ i \in 1..N + 1 /\ i - 1 \in 0..N /\ i - 1 # i
      /\ i + 1 \in 1..N + 1 /\ i + 1 - 1 = i
      /\ i + 1 # N + 1 => i + 1 \in 1..N
      /\ \A j \in 1..N : j \in 0..N
      /\ \A j \in 1..N + 1 : j # N + 1 => j \in 1..N
      /\ \A j \in 1..N + 1 : j # i + 1 => j - 1 # i
      /\ \A j \in 1..N + 1 : j - 1 \in 0..N
  BY <1>1, Indices
<1>3. /\ in'[i] = <<>> /\ \A j \in 1..N : j # i => in'[j] = in[j]
      /\ out'[i] = out[i] \o made
      /\ \A j \in 0..N : j # i => out'[j] = out[j]
      /\ UNCHANGED <<stages, served, wire, ended, status, consumer, results>>
  BY EnqueueIs
<1>4. Typed(h)
  BY DEF Flow
<1>5. PICK g : g = [h EXCEPT ![i] = Append(@, chunk)]
  OBVIOUS
<1>6. /\ g = [j \in 0..N |-> g[j]] /\ g[i] = Append(h[i], chunk)
      /\ \A j \in 0..N : j # i => g[j] = h[j]
  BY <1>1, <1>4, <1>5, HistoryLonger DEF Typed
<1>7. N' = N
  BY <1>3 DEF N
<1>8. h[i] \in Seq(Taken(i)) /\ g[i] \in Seq(Taken(i))
  <2>1. h[i] \in Seq(Taken(i))
    BY <1>4 DEF Typed
  <2>2. Append(h[i], chunk) \in Seq(Taken(i))
    BY <2>1, AppendProperties
  <2>3. QED
    BY <1>6, <2>1, <2>2
<1>9. out[i] \in Seq(Chunk(i)) /\ out'[i] \in Seq(Chunk(i))
  <2>1. out[i] \in Seq(Chunk(i))
    BY <1>1, <1>4 DEF Typed
  <2>2. out[i] \o made \in Seq(Chunk(i))
    BY <2>1, ConcatProperties
  <2>3. QED
    BY <1>3, <2>1, <2>2
<1>10. Typed(g)'
  <2>1. ASSUME NEW j \in 1..N
        PROVE  g[j] \in Seq(Taken(j)) /\ in'[j] \in Seq(Chunk(j - 1))
    <3>1. j \in 0..N /\ h[j] \in Seq(Taken(j)) /\ in[j] \in Seq(Chunk(j - 1))
      BY <1>2, <1>4 DEF Typed
    <3>2. <<>> \in Seq(Chunk(j - 1))
      BY EmptySeq
    <3>3. QED
      BY <1>3, <1>6, <1>8, <3>1, <3>2
  <2>2. ASSUME NEW j \in 0..N PROVE out'[j] \in Seq(Chunk(j))
    <3>1. out[j] \in Seq(Chunk(j))
      BY <1>4 DEF Typed
    <3>2. QED
      BY <1>3, <1>9, <3>1
  <2>3. g[0] = h[0] /\ wire' = wire
    <3>1. 0 \in 0..N /\ 0 # i
      BY <1>1, <1>2
    <3>2. QED
      BY <1>3, <1>6, <3>1
  <2>4. g[0] \in Seq(Chunk(0)) /\ wire' \in Chunk(0)
    BY <1>4, <2>3 DEF Typed
  <2>5. QED
    BY <1>6, <1>7, <2>1, <2>2, <2>4 DEF Typed
<1>11. /\ \A j \in 0..N : j # i => Whole(g, j)' = Whole(h, j)
       /\ Whole(g, i)' = Whole(h, i) \o made
  <2>1. i # 0 /\ stages' = stages
    BY <1>1, <1>3
  <2>2. QED
    BY <1>6, <2>1 DEF Whole
<1>12. Linked(g, i)'
  <2>1. Mode(i)' = Mode(i) /\ Mode(i) # "stopped"
    <3>1. Mode(i)' = Mode(i)
      BY <1>3, ModeSame
    <3>2. Live(i)
      BY <1>2 DEF Live, Stopped
    <3>3. QED
      BY <3>1, <3>2 DEF Mode
  <2>2. Took(h, i) = h[i] /\ Waiting(i) = <<chunk>> \o out[i - 1]
    BY <1>2 DEF Took, Waiting
  <2>3. Link(h[i], <<chunk>> \o out[i - 1], Whole(h, i - 1), Chunk(i - 1),
             Mode(i))
    BY <1>2, <2>2, LinkOf
  <2>4. chunk \in Chunk(i - 1) /\ out[i - 1] \in Seq(Chunk(i - 1))
    BY <1>1, <1>2, <1>4, StageTurns DEF Typed
  <2>5. Link(Append(h[i], chunk), out[i - 1], Whole(h, i - 1), Chunk(i - 1),
             Mode(i))
    BY <2>1, <2>3, <2>4, LinkTake
  <2>6. Took(g, i)' = Append(h[i], chunk) /\ Waiting(i)' = out[i - 1]
    <3>1. <<>> \o out[i - 1] = out[i - 1]
      BY <2>4, ConcatEmptySeq
    <3>2. out'[i - 1] = out[i - 1]
      BY <1>2, <1>3
    <3>3. QED
      BY <1>2, <1>3, <1>6, <1>7, <3>1, <3>2 DEF Took, Waiting
  <2>7. Whole(g, i - 1)' = Whole(h, i - 1)
    BY <1>2, <1>11
  <2>8. QED
    BY <2>1, <2>5, <2>6, <2>7 DEF Linked
<1>13. Linked(g, i + 1)'
  <2>1. i + 1 # N + 1 => /\ g[i + 1] = h[i + 1] /\ in'[i + 1] = in[i + 1]
                         /\ status'[i + 1] = status[i + 1]
    BY <1>2, <1>3, <1>6
  <2>2. ~ Stopped(i) /\ status'[i] = status[i]
    BY <1>3 DEF Stopped
  <2>3. QED
    BY <1>1, <1>3, <1>11, <2>1, <2>2, LinkBehind
<1>14. ASSUME NEW j \in 1..N + 1, j # i, j # i + 1 PROVE Linked(g, j)'
  <2>1. j - 1 \in 0..N /\ j - 1 # i
    BY <1>2, <1>14
  <2>2. g[j - 1] = h[j - 1] /\ out'[j - 1] = out[j - 1]
    BY <1>3, <1>6, <2>1
  <2>3. j # N + 1 => g[j] = h[j] /\ in'[j] = in[j]
    BY <1>2, <1>3, <1>6, <1>14
  <2>4. QED
    BY <1>1, <1>3, <2>2, <2>3, LinkUntouched
<1>15. FlattenSeq(g[0]) \o wire' = served'
  <2>1. g[0] = h[0]
    <3>1. 0 \in 0..N /\ 0 # i
      BY <1>1, <1>2
    <3>2. QED
      BY <1>6, <3>1
  <2>2. QED
    BY <1>3, <2>1 DEF Flow
<1>16. buffer' = [j \in 1..N |-> Kept(stages[j], g[j])]
  <2>1. buffer = [j \in 1..N |-> Kept(stages[j], h[j])]
    BY DEF Flow
  <2>2. QED
    BY <1>2, <1>6, <2>1
<1>17. Settled(g)'
  <2>1. status[N] # "closed"
    <3>1. ASSUME status[N] = "closed" PROVE FALSE
      <4>1. N \in 1..N
        BY <1>1
      <4>2. N < i
        BY <1>1, <3>1, <4>1, ClosedBefore DEF Inv
      <4>3. QED
        BY <1>1, <4>2
    <3>2. QED
      BY <3>1
  <2>2. Whole(h, N) \in Seq(Chunk(N))
    BY <1>1, WholeType
  <2>3. Begins(Whole(h, N), Whole(g, N)', Chunk(N))
    <3>1. CASE N = i
      <4>1. Whole(g, N)' = Whole(h, N) \o made /\ made \in Seq(Chunk(N))
        BY <1>7, <1>11, <3>1
      <4>2. QED
        BY <2>2, <4>1, BeginsConcat
    <3>2. CASE N # i
      <4>1. Whole(g, N)' = Whole(h, N)
        BY <1>2, <1>7, <1>11, <3>2
      <4>2. QED
        BY <2>2, <4>1, BeginsSelf
    <3>3. QED
      BY <3>1, <3>2
  <2>4. QED
    BY <1>1, <1>3, <2>1, <2>3, SettledKept
<1>18. \A j \in 1..N + 1 : Linked(g, j)'
  BY <1>12, <1>13, <1>14
<1>19. Flow(g)'
  BY <1>3, <1>7, <1>10, <1>15, <1>16, <1>17, <1>18 DEF Flow
<1>20. QED
  BY <1>19

(* The one chunk that waits in front of a stage.                           *)
LEMMA OneChunk ==
  ASSUME Inv, NEW h, Flow(h), NEW i \in 1..N, in[i] # <<>>
  PROVE  in[i] = <<Head(in[i])>> /\ Head(in[i]) \in Chunk(i - 1)
<1> DEFINE q == in[i]
           S == Chunk(i - 1)
<1>1. q \in Seq(S) /\ Len(q) <= 1 /\ q # <<>>
  <2>1. \A j \in 1..N : in[j] \in Seq(Chunk(j - 1))
    BY DEF Flow, Typed
  <2>2. q \in Seq(S)
    BY <2>1
  <2>3. \A j \in 1..N : Len(in[j]) <= 1
    BY FlowBasics
  <2>4. QED
    BY <2>2, <2>3
<1> HIDE DEF q, S
<1>2. Len(q) = 1 /\ Head(q) = q[1] /\ q[1] \in S
  <2>1. Len(q) \in Nat /\ Len(q) # 0
    BY <1>1, LenProperties, EmptySeq
  <2>2. Len(q) = 1
    <3> DEFINE n == Len(q)
    <3>1. n \in Nat /\ n # 0 /\ n <= 1
      BY <1>1, <2>1
    <3> HIDE DEF n
    <3>2. n = 1
      BY <3>1
    <3>3. QED
      BY <3>2 DEF n
  <2>3. q[1] \in S
    BY <1>1, <2>2, ElementOfSeq
  <2>4. QED
    BY <2>2, <2>3
<1>3. q = <<q[1]>>
  <2>1. <<q[1]>> \in Seq(S) /\ Len(<<q[1]>>) = 1 /\ <<q[1]>>[1] = q[1]
    <3> DEFINE x == q[1]
    <3>1. x \in S
      BY <1>2
    <3> HIDE DEF x
    <3>2. <<x>> \in Seq(S) /\ Len(<<x>>) = 1 /\ <<x>>[1] = x
      BY <3>1
    <3>3. QED
      BY <3>2 DEF x
  <2>2. \A k \in 1..1 : q[k] = <<q[1]>>[k]
    BY <2>1
  <2>3. QED
    BY <1>1, <1>2, <2>1, <2>2, SeqEqual
<1>4. QED
  BY <1>2, <1>3 DEF q, S

LEMMA SplitFlows ==
  ASSUME Inv, NEW h, Flow(h), NEW i \in 1..N, Split(i)
  PROVE  \E g : Flow(g)'
<1> DEFINE chunk == Head(in[i])
           cut == Cut(buffer[i] \o chunk)
<1>1. /\ stages[i] = "split" /\ status[i] = "open" /\ in[i] # <<>>
      /\ Enqueue(i, cut.lines)
      /\ buffer' = [buffer EXCEPT ![i] = cut.rest]
  BY DEF Split, Runs
<1>2. in[i] = <<chunk>> /\ chunk \in Chunk(i - 1)
  BY <1>1, OneChunk
<1>3. stages \in Pipelines
  BY FlowBasics
<1>4. i # 4
  <2>1. 4 \in 1..N => stages[4] = "decode"
    BY <1>3, Chains
  <2>2. QED
    BY <1>1, <2>1
<1>5. Taken(i) = Chunk(i - 1) /\ chunk \in Taken(i)
  BY <1>2, <1>4 DEF Taken
<1>6. PICK S : Taken(i) = Seq(S) /\ Chunk(i) = Seq(S)
  BY <1>1, <1>3, StageTurns DEF Turns
<1>7. h[i] \in Seq(Taken(i)) /\ buffer[i] = Kept("split", h[i])
  BY <1>1 DEF Flow, Typed
<1> HIDE DEF chunk
<1> DEFINE r == Cut(FlattenSeq(h[i])).rest
           t == h[i]
<1>8. buffer[i] = r
  BY <1>7 DEF Kept
<1>9. t \in Seq(Seq(S)) /\ chunk \in Seq(S)
  BY <1>5, <1>6, <1>7
<1>10. /\ Made("split", Append(t, chunk)) = Made("split", t) \o cut.lines
       /\ Cut(FlattenSeq(Append(t, chunk))).rest = cut.rest
  <2> HIDE DEF t
  <2>1. /\ Made("split", Append(t, chunk))
             = Made("split", t) \o Cut(Cut(FlattenSeq(t)).rest \o chunk).lines
        /\ Cut(FlattenSeq(Append(t, chunk))).rest
             = Cut(Cut(FlattenSeq(t)).rest \o chunk).rest
    BY <1>9, SplitMakes
  <2>2. QED
    BY <1>8, <2>1 DEF t
<1>11. cut.lines \in Seq(Chunk(i))
  <2>1. FlattenSeq(t) \in Seq(S)
    BY <1>9, FlattenType
  <2>2. r \in Seq(S)
    BY <2>1, CutParts
  <2>3. buffer[i] \o chunk \in Seq(S)
    BY <1>8, <1>9, <2>2, ConcatProperties
  <2>4. cut.lines \in Seq(Seq(S))
    BY <2>3, CutParts
  <2>5. QED
    BY <1>6, <2>4
<1>12. Kept("split", Append(t, chunk)) = cut.rest
  BY <1>10 DEF Kept
<1> HIDE DEF cut, r, t
<1>13. /\ Made(stages[i], Append(h[i], chunk))
            = Made(stages[i], h[i]) \o cut.lines
       /\ buffer' = [buffer EXCEPT ![i] = Kept(stages[i], Append(h[i], chunk))]
  BY <1>1, <1>10, <1>12 DEF t
<1>14. QED
  BY <1>1, <1>2, <1>5, <1>11, <1>13, TransformFlows DEF chunk

LEMMA OtherFlows ==
  ASSUME Inv, NEW h, Flow(h), NEW i \in 1..N, NEW name, name # "split",
         Runs(i, name), Head(in[i]) \in Taken(i),
         Enqueue(i, Pass(name, Head(in[i]))), UNCHANGED buffer
  PROVE  \E g : Flow(g)'
<1> DEFINE chunk == Head(in[i])
           t == h[i]
           A == Taken(i)
           B == Chunk(i)
<1>1. stages[i] = name /\ status[i] = "open" /\ in[i] = <<chunk>>
  BY OneChunk DEF Runs
<1>2. Turns(name, A, B)
  BY <1>1, StageTurns, FlowBasics
<1>3. t \in Seq(A) /\ buffer = [j \in 1..N |-> Kept(stages[j], h[j])]
  BY DEF Flow, Typed
<1>4. chunk \in A
  OBVIOUS
<1> HIDE DEF chunk, t, A, B
<1>5. Made(name, Append(t, chunk)) = Made(name, t) \o Pass(name, chunk)
  BY <1>2, <1>3, <1>4, OthersMake
<1>6. Pass(name, chunk) \in Seq(B)
  BY <1>2, <1>4 DEF Turns
<1>7. buffer' = [buffer EXCEPT ![i] = Kept(stages[i], Append(h[i], chunk))]
  <2>1. Kept(name, Append(h[i], chunk)) = <<>> /\ Kept(name, h[i]) = <<>>
    BY DEF Kept
  <2>2. buffer[i] = <<>> /\ buffer' = buffer
    BY <1>1, <1>3, <2>1
  <2>3. QED
    BY <1>1, <1>3, <2>1, <2>2
<1>8. /\ chunk \in Taken(i) /\ in[i] = <<chunk>>
      /\ Pass(name, chunk) \in Seq(Chunk(i)) /\ Enqueue(i, Pass(name, chunk))
      /\ Made(stages[i], Append(h[i], chunk))
           = Made(stages[i], h[i]) \o Pass(name, chunk)
  BY <1>1, <1>4, <1>5, <1>6 DEF chunk, t, A, B
<1>9. QED
  BY <1>1, <1>7, <1>8, TransformFlows

LEMMA ParseFlows ==
  ASSUME Inv, NEW h, Flow(h), NEW i \in 1..N, Parse(i)
  PROVE  \E g : Flow(g)'
<1>1. Runs(i, "parse") /\ Enqueue(i, Pass("parse", Head(in[i])))
      /\ UNCHANGED buffer
  BY DEF Parse, Pass
<1>2. stages[i] = "parse" /\ Head(in[i]) \in Chunk(i - 1)
  BY <1>1, OneChunk DEF Runs
<1>3. i # 4
  <2>1. 4 \in 1..N => stages[4] = "decode"
    BY FlowBasics, Chains
  <2>2. QED
    BY <1>2, <2>1
<1>4. Head(in[i]) \in Taken(i)
  BY <1>2, <1>3 DEF Taken
<1>5. QED
  BY <1>1, <1>4, OtherFlows

LEMMA UnwrapFlows ==
  ASSUME Inv, NEW h, Flow(h), NEW i \in 1..N, Unwrap(i)
  PROVE  \E g : Flow(g)'
<1>1. Runs(i, "unwrap") /\ Enqueue(i, Pass("unwrap", Head(in[i])))
      /\ UNCHANGED buffer
  BY DEF Unwrap, Pass
<1>2. stages[i] = "unwrap" /\ Head(in[i]) \in Chunk(i - 1)
  BY <1>1, OneChunk DEF Runs
<1>3. i # 4
  <2>1. 4 \in 1..N => stages[4] = "decode"
    BY FlowBasics, Chains
  <2>2. QED
    BY <1>2, <2>1
<1>4. Head(in[i]) \in Taken(i)
  BY <1>2, <1>3 DEF Taken
<1>5. QED
  BY <1>1, <1>4, OtherFlows

(* Only the fourth stage is decodeContent.                                 *)
LEMMA DecodeFourth ==
  ASSUME stages \in Pipelines, NEW i \in 1..N, stages[i] = "decode"
  PROVE  i = 4 /\ N = 6
<1>1. /\ N \in {3, 6} /\ stages[1] = "split" /\ stages[2] = "parse"
      /\ stages[3] = "unwrap"
      /\ N = 6 => stages[4] = "decode" /\ stages[5] = "split"
                  /\ stages[6] = "parse"
  BY Chains
<1>2. i \in 1..3 => FALSE
  BY <1>1
<1>3. i \in 5..6 /\ N = 6 => FALSE
  BY <1>1
<1>4. QED
  BY <1>1, <1>2, <1>3

LEMMA DecodeFlows ==
  ASSUME Inv, NEW h, Flow(h), NEW i \in 1..N, Decode(i)
  PROVE  \E g : Flow(g)'
<1>1. /\ Runs(i, "decode") /\ Enqueue(i, Pass("decode", Head(in[i])))
      /\ UNCHANGED buffer /\ Head(in[i]) \notin Nullish
  BY DEF Decode, Pass
<1>2. stages[i] = "decode" /\ Head(in[i]) \in Chunk(i - 1)
  BY <1>1, OneChunk DEF Runs
<1>3. i = 4
  BY <1>2, FlowBasics, DecodeFourth
<1>4. Chunk(3) = Response \cup {undefined} /\ Taken(4) = Response
  BY DEF Chunk, Taken
<1>5. Head(in[i]) \in Taken(i)
  BY <1>1, <1>2, <1>3, <1>4 DEF Nullish
<1>6. QED
  BY <1>1, <1>5, OtherFlows

-----------------------------------------------------------------------------
(* The steps in which no stage makes anything.                             *)

LEMMA SameHistory ==
  ASSUME Inv, NEW h, Flow(h),
         UNCHANGED <<stages, served, wire, buffer, consumer, results>>,
         status[N] = "closed" => status'[N] = "closed",
         \A j \in 1..N : in'[j] \in Seq(Chunk(j - 1)),
         \A j \in 0..N : out'[j] \in Seq(Chunk(j)),
         \A j \in 1..N + 1 : Linked(h, j)'
  PROVE  Flow(h)'
<1>1. N' = N /\ N \in Nat
  BY FlowBasics DEF N
<1>2. Typed(h)'
  BY <1>1 DEF Typed, Flow
<1>3. Settled(h)'
  <2>1. Whole(h, N)' = Whole(h, N)
    BY <1>1 DEF Whole
  <2>2. Whole(h, N) \in Seq(Chunk(N))
    BY <1>1, WholeType
  <2>3. Begins(Whole(h, N), Whole(h, N)', Chunk(N))
    BY <2>1, <2>2, BeginsSelf
  <2>4. QED
    BY <1>1, <2>1, <2>3, SettledKept
<1>4. QED
  <2>1. FlattenSeq(h[0]) \o wire = served
        /\ buffer = [j \in 1..N |-> Kept(stages[j], h[j])]
    BY DEF Flow
  <2>2. FlattenSeq(h[0]) \o wire' = served'
        /\ buffer' = [j \in 1..N |-> Kept(stages'[j], h[j])]
    BY <2>1
  <2>3. QED
    BY <1>1, <1>2, <1>3, <2>2 DEF Flow

LEMMA QueuesTyped ==
  ASSUME NEW h, Flow(h)
  PROVE  /\ \A j \in 1..N : in[j] \in Seq(Chunk(j - 1))
         /\ \A j \in 0..N : out[j] \in Seq(Chunk(j))
BY DEF Flow, Typed

LEMMA PipeFlows ==
  ASSUME Inv, NEW h, Flow(h), NEW i \in 1..N, Pipe(i)
  PROVE  \E g : Flow(g)'
<1> DEFINE q == out[i - 1]
           S == Chunk(i - 1)
<1>1. /\ N \in Nat /\ i \in Nat /\ i - 1 \in 0..N /\ i # N + 1
      /\ \A j \in 1..N + 1 : j # i => j - 1 # i - 1
      /\ \A j \in 1..N + 1 : j - 1 \in 0..N /\ (j # N + 1 => j \in 1..N)
  BY FlowBasics
<1>2. /\ in'[i] = <<Head(q)>> /\ \A j \in 1..N : j # i => in'[j] = in[j]
      /\ out'[i - 1] = Tail(q)
      /\ \A j \in 0..N : j # i - 1 => out'[j] = out[j]
      /\ q # <<>> /\ in[i] = <<>>
      /\ UNCHANGED <<stages, served, wire, ended, status, buffer, consumer,
                     results>>
  BY <1>1, FlowBasics DEF Pipe
<1>3. q \in Seq(S)
  BY <1>1, QueuesTyped
<1> HIDE DEF q, S
<1>4. <<Head(q)>> \in Seq(S) /\ Tail(q) \in Seq(S) /\ <<Head(q)>> \o Tail(q) = q
  <2> DEFINE x == Head(q)
  <2>1. x \in S /\ Tail(q) \in Seq(S)
    BY <1>2, <1>3, HeadTailProperties
  <2> HIDE DEF x
  <2>2. <<x>> \in Seq(S)
    BY <2>1
  <2> USE DEF x
  <2>3. <<Head(q)>> \o Tail(q) = q
    BY <1>2, <1>3
  <2>4. QED
    BY <2>1, <2>2, <2>3
<1>5. \A j \in 1..N : in'[j] \in Seq(Chunk(j - 1))
  <2>1. in'[i] \in Seq(Chunk(i - 1))
    BY <1>2, <1>4 DEF S
  <2>2. QED
    BY <1>2, <2>1, QueuesTyped
<1>6. \A j \in 0..N : out'[j] \in Seq(Chunk(j))
  <2>1. out'[i - 1] \in Seq(Chunk(i - 1))
    BY <1>2, <1>4 DEF S
  <2>2. QED
    BY <1>2, <2>1, QueuesTyped
<1>7. Linked(h, i)'
  <2>1. Took(h, i) = h[i] /\ Took(h, i)' = h[i]
    BY <1>1, <1>2 DEF Took, N
  <2>2. Waiting(i)' = Waiting(i)
    <3>1. <<>> \o q = q
      BY <1>3, ConcatEmptySeq
    <3>2. Waiting(i) = q
      BY <1>1, <1>2, <3>1 DEF Waiting, q
    <3>3. N' = N
      BY <1>2 DEF N
    <3>4. Waiting(i)' = <<Head(q)>> \o Tail(q)
      BY <1>1, <1>2, <3>3 DEF Waiting
    <3>5. QED
      BY <1>4, <3>2, <3>4
  <2>3. Whole(h, i - 1)' = Whole(h, i - 1)
    BY <1>2 DEF Whole
  <2>4. Mode(i)' = Mode(i)
    BY <1>2, ModeSame
  <2>5. i \in 1..N + 1
    BY <1>1
  <2>6. Linked(h, i)
    BY <2>5 DEF Flow
  <2>7. QED
    BY <2>1, <2>2, <2>3, <2>4, <2>6 DEF Linked
<1>8. ASSUME NEW j \in 1..N + 1, j # i PROVE Linked(h, j)'
  <2>1. j - 1 \in 0..N /\ j - 1 # i - 1
    BY <1>1, <1>8
  <2>2. out'[j - 1] = out[j - 1]
    BY <1>2, <2>1
  <2>3. j # N + 1 => in'[j] = in[j]
    BY <1>1, <1>2, <1>8
  <2>4. QED
    BY <1>1, <1>2, <2>2, <2>3, LinkUntouched
<1>9. \A j \in 1..N + 1 : Linked(h, j)'
  BY <1>7, <1>8
<1>10. Flow(h)'
  BY <1>2, <1>5, <1>6, <1>9, SameHistory
<1>11. QED
  BY <1>10

(* What splitStream keeps holds no newline, so that there is nothing to    *)
(* flush.                                                                  *)
LEMMA KeptNothing ==
  ASSUME Inv, NEW h, Flow(h), NEW i \in 1..N
  PROVE  Cut(buffer[i]).lines = <<>> /\ Cut(buffer[i]).rest = buffer[i]
<1>1. buffer[i] = Kept(stages[i], h[i]) /\ h[i] \in Seq(Taken(i))
  BY DEF Flow, Typed
<1>2. CASE stages[i] = "split"
  <2>1. PICK S : Taken(i) = Seq(S)
    BY <1>2, FlowBasics, StageTurns DEF Turns
  <2>2. FlattenSeq(h[i]) \in Seq(S)
    BY <1>1, <2>1, FlattenType
  <2> DEFINE r == Cut(FlattenSeq(h[i])).rest
             Q == S \ {nl}
  <2>3. r \in Seq(Q) /\ nl \notin Q
    BY <2>2, CutParts
  <2>4. buffer[i] = r
    BY <1>1, <1>2 DEF Kept
  <2> HIDE DEF r, Q
  <2>5. QED
    BY <2>3, <2>4, CutNothing
<1>3. CASE stages[i] # "split"
  <2>1. buffer[i] = <<>>
    BY <1>1, <1>3 DEF Kept
  <2>2. QED
    BY <2>1, CutEmpty DEF Uncut
<1>4. QED
  BY <1>2, <1>3

LEMMA FlushFlows ==
  ASSUME Inv, NEW h, Flow(h), NEW i \in 1..N, Flush(i)
  PROVE  \E g : Flow(g)'
<1>1. N \in Nat /\ i \in 0..N /\ buffer = [j \in 1..N |-> buffer[j]]
  <2>1. buffer = [j \in 1..N |-> Kept(stages[j], h[j])]
    BY DEF Flow
  <2>2. QED
    BY <2>1, FlowBasics
<1>2. /\ status' = [status EXCEPT ![i] = "closed"]
      /\ out' = [out EXCEPT ![i] = @ \o Cut(buffer[i]).lines]
      /\ buffer' = [buffer EXCEPT ![i] = Cut(buffer[i]).rest]
      /\ UNCHANGED <<stages, served, wire, ended, in, consumer, results>>
      /\ status[i] = "open"
  BY DEF Flush, Drained
<1>3. out' = out /\ buffer' = buffer
  <2> DEFINE q == out[i]
             S == Chunk(i)
  <2>1. q \in Seq(S)
    BY <1>1, QueuesTyped
  <2> HIDE DEF q, S
  <2>2. q \o <<>> = q
    BY <2>1, ConcatEmptySeq
  <2>3. out[i] \o Cut(buffer[i]).lines = out[i]
    BY <2>2, KeptNothing DEF q
  <2>4. out = [j \in 0..N |-> out[j]] /\ Cut(buffer[i]).rest = buffer[i]
    BY FlowBasics, KeptNothing
  <2>5. out' = out
    BY <1>1, <1>2, <2>3, <2>4
  <2>6. buffer' = buffer
    BY <1>1, <1>2, <2>4
  <2>7. QED
    BY <2>5, <2>6
<1>4. \A j \in 0..N : Stopped(j)' <=> Stopped(j)
  BY <1>1, <1>2, FlowBasics DEF Stopped
<1>5. ASSUME NEW j \in 1..N + 1 PROVE Linked(h, j)'
  <2>1. N' = N
    BY <1>2 DEF N
  <2>2. /\ Took(h, j)' = Took(h, j) /\ Waiting(j)' = Waiting(j)
        /\ Whole(h, j - 1)' = Whole(h, j - 1)
    BY <1>2, <1>3, <2>1 DEF Took, Waiting, Whole
  <2>3. Mode(j)' = Mode(j)
    <3>1. j - 1 \in 0..N /\ (j # N + 1 => j \in 0..N)
      BY <1>1
    <3>2. Stopped(j - 1)' <=> Stopped(j - 1)
      BY <1>4, <3>1
    <3>3. Live(j)' <=> Live(j)
      BY <1>2, <1>4, <2>1, <3>1 DEF Live
    <3>4. QED
      BY <3>2, <3>3 DEF Mode
  <2>4. Linked(h, j)
    BY DEF Flow
  <2>5. QED
    BY <2>2, <2>3, <2>4 DEF Linked
<1>6. status[N] = "closed" => status'[N] = "closed"
  BY <1>1, <1>2, FlowBasics
<1>7. /\ \A j \in 1..N : in'[j] \in Seq(Chunk(j - 1))
      /\ \A j \in 0..N : out'[j] \in Seq(Chunk(j))
  BY <1>2, <1>3, QueuesTyped
<1>8. Flow(h)'
  BY <1>2, <1>3, <1>5, <1>6, <1>7, SameHistory
<1>9. QED
  BY <1>8

(* Stage k, or the body, stops: what waits in front of it and behind it is *)
(* dropped.                                                                *)
LEMMA StopFlows ==
  ASSUME Inv, NEW h, Flow(h), NEW k \in 0..N,
         NEW to \in {"errored", "canceled"},
         k = N => status[k] # "closed",
         status' = [status EXCEPT ![k] = to], out'[k] = <<>>,
         \A j \in 0..N : j # k => out'[j] = out[j],
         k > 0 => in'[k] = <<>>,
         \A j \in 1..N : j # k => in'[j] = in[j],
         UNCHANGED <<stages, served, wire, buffer, consumer, results>>
  PROVE  \E g : Flow(g)'
<1> DEFINE n == k + 1
<1>1. /\ N \in Nat /\ k \in Nat /\ n \in 1..N + 1 /\ n - 1 = k /\ n # k
      /\ n # N + 1 => n \in 1..N
      /\ k # N + 1
      /\ k # 0 => k \in 1..N /\ k \in 1..N + 1 /\ k - 1 \in 0..N /\ k - 1 # k
      /\ \A j \in 1..N + 1 : j # k /\ j # n =>
           j - 1 \in 0..N /\ j - 1 # k /\ (j # N + 1 => j \in 1..N)
      /\ \A j \in 1..N : j \in 0..N
  BY FlowBasics
<1>2. /\ status'[k] = to
      /\ \A j \in 0..N : j # k => status'[j] = status[j]
  BY FlowBasics
<1> HIDE DEF n
<1>3. \A j \in 1..N : in'[j] \in Seq(Chunk(j - 1))
  <2>1. <<>> \in Seq(Chunk(k - 1))
    BY EmptySeq
  <2>2. ASSUME NEW j \in 1..N PROVE in'[j] \in Seq(Chunk(j - 1))
    <3>1. CASE j = k
      <4>1. k > 0
        BY <1>1, <3>1
      <4>2. in'[j] = <<>> /\ <<>> \in Seq(Chunk(j - 1))
        BY <2>1, <3>1, <4>1
      <4>3. QED
        BY <4>2
    <3>2. CASE j # k
      <4>1. in'[j] = in[j] /\ in[j] \in Seq(Chunk(j - 1))
        BY <3>2, QueuesTyped
      <4>2. QED
        BY <4>1
    <3>3. QED
      BY <3>1, <3>2
  <2>3. QED
    BY <2>2
<1>4. \A j \in 0..N : out'[j] \in Seq(Chunk(j))
  <2>1. <<>> \in Seq(Chunk(k))
    BY EmptySeq
  <2>2. QED
    BY <2>1, QueuesTyped
<1>5. N' = N
  BY DEF N
<1>6. Stopped(k)'
  BY <1>2 DEF Stopped
<1>7. k # 0 => Linked(h, k)'
  <2>1. SUFFICES ASSUME k # 0 PROVE Linked(h, k)'
    OBVIOUS
  <2>2. Link(Took(h, k), Waiting(k), Whole(h, k - 1), Chunk(k - 1), Mode(k))
    BY <1>1, <2>1, LinkOf
  <2>3. Waiting(k)' \in Seq(Chunk(k - 1))
    <3> DEFINE q == out[k - 1]
               S == Chunk(k - 1)
    <3>1. q \in Seq(S)
      BY <1>1, <2>1, QueuesTyped
    <3>2. in'[k] = <<>> /\ out'[k - 1] = q
      BY <1>1, <2>1
    <3> HIDE DEF q, S
    <3>3. <<>> \o q = q
      BY <3>1, ConcatEmptySeq
    <3>4. Waiting(k)' = q
      BY <1>1, <1>5, <3>2, <3>3 DEF Waiting
    <3>5. QED
      BY <3>1, <3>4 DEF S
  <2>4. Took(h, k)' = Took(h, k) /\ Whole(h, k - 1)' = Whole(h, k - 1)
    BY <1>5 DEF Took, Whole
  <2>5. Mode(k)' = "stopped"
    BY <1>1, <1>5, <1>6 DEF Mode, Live
  <2>6. Link(Took(h, k), Waiting(k)', Whole(h, k - 1), Chunk(k - 1), "stopped")
    BY <2>2, <2>3, LinkStop
  <2>7. QED
    BY <2>4, <2>5, <2>6 DEF Linked
<1>8. Linked(h, n)'
  <2> DEFINE kept == IF n = N + 1 THEN <<>> ELSE in[n]
             q == out[k]
             S == Chunk(k)
  <2>1. Link(Took(h, n), Waiting(n), Whole(h, k), S, Mode(n))
    BY <1>1, LinkOf
  <2>2. q \in Seq(S)
    BY QueuesTyped
  <2>3. kept \in Seq(S)
    <3>1. <<>> \in Seq(S)
      BY EmptySeq
    <3>2. n # N + 1 => in[n] \in Seq(S)
      BY <1>1, QueuesTyped
    <3>3. QED
      BY <3>1, <3>2
  <2>4. Waiting(n) = kept \o q /\ Waiting(n)' = kept
    <3>1. CASE n = N + 1
      <4>1. Waiting(n) = q
        BY <1>1, <3>1 DEF Waiting
      <4>2. Waiting(n)' = <<>>
        BY <1>1, <1>5, <3>1 DEF Waiting
      <4>3. <<>> \o q = q
        <5> HIDE DEF q, S
        <5>1. QED
          BY <2>2, ConcatEmptySeq
      <4>4. QED
        BY <3>1, <4>1, <4>2, <4>3
    <3>2. CASE n # N + 1
      <4>1. Waiting(n) = kept \o q
        BY <1>1, <3>2 DEF Waiting
      <4>2. in'[n] = in[n] /\ out'[n - 1] = <<>>
        BY <1>1, <3>2
      <4>3. Waiting(n)' = in[n] \o <<>>
        BY <1>5, <3>2, <4>2 DEF Waiting
      <4>4. in[n] = kept
        BY <3>2
      <4>5. kept \o <<>> = kept
        <5> HIDE DEF kept, S
        <5>1. QED
          BY <2>3, ConcatEmptySeq
      <4>6. QED
        BY <4>1, <4>3, <4>4, <4>5
    <3>3. QED
      BY <3>1, <3>2
  <2>5. Took(h, n)' = Took(h, n) /\ Whole(h, k)' = Whole(h, k)
    BY <1>5 DEF Took, Whole
  <2>6. Mode(n)' = IF Mode(n) = "stopped" THEN "stopped" ELSE "partial"
    <3>1. Live(n)' <=> Live(n)
      <4>1. n # N + 1 => status'[n] = status[n]
        BY <1>1, <1>2
      <4>2. QED
        BY <1>5, <4>1 DEF Live, Stopped
    <3>2. Stopped(n - 1)'
      BY <1>1, <1>6
    <3>3. QED
      BY <3>1, <3>2 DEF Mode
  <2>7. Link(Took(h, n), kept, Whole(h, k), S, Mode(n)')
    <3> HIDE DEF kept, q, S
    <3>1. Link(Took(h, n), kept \o q, Whole(h, k), S, Mode(n))
      BY <2>1, <2>4
    <3>2. QED
      BY <2>2, <2>3, <2>6, <3>1, LinkDrop
  <2>8. Link(Took(h, n)', Waiting(n)', Whole(h, k)', Chunk(k), Mode(n)')
    BY <2>4, <2>5, <2>7
  <2>9. QED
    BY <1>1, <2>8 DEF Linked
<1>9. ASSUME NEW j \in 1..N + 1, j # k, j # n PROVE Linked(h, j)'
  <2>1. j - 1 \in 0..N /\ j - 1 # k /\ (j # N + 1 => j \in 1..N)
    BY <1>1, <1>9
  <2>2. out'[j - 1] = out[j - 1] /\ status'[j - 1] = status[j - 1]
    BY <1>2, <2>1
  <2>3. j # N + 1 => in'[j] = in[j] /\ status'[j] = status[j]
    BY <1>1, <1>2, <1>9, <2>1
  <2>4. QED
    BY <1>1, <2>2, <2>3, LinkUntouched
<1>10. \A j \in 1..N + 1 : Linked(h, j)'
  <2>1. \A j \in 1..N + 1 : j # 0
    BY <1>1
  <2>2. QED
    BY <1>7, <1>8, <1>9, <2>1
<1>11. status[N] = "closed" => status'[N] = "closed"
  BY <1>1, <1>2
<1>12. Flow(h)'
  BY <1>3, <1>4, <1>10, <1>11, SameHistory
<1>13. QED
  BY <1>12

LEMMA BodyBreaksFlows ==
  ASSUME Inv, NEW h, Flow(h), BodyBreaks
  PROVE  \E g : Flow(g)'
<1>1. 0 \in 0..N /\ N # 0
  BY FlowBasics
<1>2. /\ status' = [status EXCEPT ![0] = "errored"]
      /\ out' = [out EXCEPT ![0] = <<>>]
      /\ UNCHANGED <<stages, served, wire, in, buffer, consumer, results>>
  BY DEF BodyBreaks
<1>3. out'[0] = <<>> /\ \A j \in 0..N : j # 0 => out'[j] = out[j]
  BY <1>1, <1>2, FlowBasics
<1>4. PICK k \in 0..N : k = 0
  BY <1>1
<1>5. ~ (k > 0) /\ k # N
  BY <1>1, <1>4
<1>6. \A j \in 1..N : j # k => in'[j] = in[j]
  BY <1>2
<1>7. /\ status' = [status EXCEPT ![k] = "errored"] /\ out'[k] = <<>>
      /\ \A j \in 0..N : j # k => out'[j] = out[j]
  BY <1>2, <1>3, <1>4
<1>8. QED
  BY <1>2, <1>5, <1>6, <1>7, StopFlows

LEMMA TransformThrowsFlows ==
  ASSUME Inv, NEW h, Flow(h), NEW i \in 1..N, TransformThrows(i)
  PROVE  \E g : Flow(g)'
<1>1. i \in 0..N
  BY FlowBasics
<1>2. /\ status' = [status EXCEPT ![i] = "errored"]
      /\ in' = [in EXCEPT ![i] = <<>>]
      /\ UNCHANGED <<stages, served, wire, out, buffer, consumer, results>>
      /\ out[i] = <<>> /\ status[i] # "closed"
  BY DEF TransformThrows, Runs
<1>3. in'[i] = <<>> /\ \A j \in 1..N : j # i => in'[j] = in[j]
  BY <1>2, FlowBasics
<1>4. QED
  BY <1>1, <1>2, <1>3, StopFlows

LEMMA AbortFlows ==
  ASSUME Inv, NEW h, Flow(h), NEW i \in 1..N, Abort(i)
  PROVE  \E g : Flow(g)'
<1>1. i \in 0..N
  BY FlowBasics
<1>2. /\ status' = [status EXCEPT ![i] = "errored"]
      /\ out' = [out EXCEPT ![i] = <<>>]
      /\ UNCHANGED <<stages, served, wire, in, buffer, consumer, results>>
      /\ in[i] = <<>> /\ status[i] # "closed"
  BY DEF Abort, Drained
<1>3. out'[i] = <<>> /\ \A j \in 0..N : j # i => out'[j] = out[j]
  BY <1>1, <1>2, FlowBasics
<1>4. QED
  BY <1>1, <1>2, <1>3, StopFlows

LEMMA CancelFlows ==
  ASSUME Inv, NEW h, Flow(h), NEW i \in 1..N, Cancel(i)
  PROVE  \E g : Flow(g)'
<1> DEFINE k == i - 1
<1>1. k \in 0..N /\ k # N /\ (k > 0 => k \in 1..N)
  BY FlowBasics
<1>2. /\ status' = [status EXCEPT ![k] = "canceled"]
      /\ out' = [out EXCEPT ![k] = <<>>]
      /\ in' = [j \in 1..N |-> IF j = k THEN <<>> ELSE in[j]]
      /\ UNCHANGED <<stages, served, wire, buffer, consumer, results>>
  BY DEF Cancel
<1> HIDE DEF k
<1>3. out'[k] = <<>> /\ \A j \in 0..N : j # k => out'[j] = out[j]
  BY <1>1, <1>2, FlowBasics
<1>4. (k > 0 => in'[k] = <<>>) /\ \A j \in 1..N : j # k => in'[j] = in[j]
  BY <1>1, <1>2
<1>5. QED
  BY <1>1, <1>2, <1>3, <1>4, StopFlows

(* The body ends: nothing is lost, whether it has stopped or not is as     *)
(* before.                                                                 *)
LEMMA BodyEndsFlows ==
  ASSUME Inv, NEW h, Flow(h), BodyEnds
  PROVE  \E g : Flow(g)'
<1>1. N \in Nat /\ N # 0
  BY FlowBasics
<1>2. /\ status' = [status EXCEPT ![0] = "closed"] /\ status[0] = "open"
      /\ UNCHANGED <<stages, served, wire, in, out, buffer, consumer, results>>
  BY DEF BodyEnds
<1>3. N' = N
  BY <1>2 DEF N
<1>4. \A j \in 0..N : Stopped(j)' <=> Stopped(j)
  BY <1>1, <1>2, FlowBasics DEF Stopped
<1>5. ASSUME NEW j \in 1..N + 1 PROVE Linked(h, j)'
  <2>1. /\ Took(h, j)' = Took(h, j) /\ Waiting(j)' = Waiting(j)
        /\ Whole(h, j - 1)' = Whole(h, j - 1)
    BY <1>2, <1>3 DEF Took, Waiting, Whole
  <2>2. Mode(j)' = Mode(j)
    <3>1. j - 1 \in 0..N /\ (j # N + 1 => j \in 0..N)
      BY <1>1
    <3>2. Stopped(j - 1)' <=> Stopped(j - 1)
      BY <1>4, <3>1
    <3>3. Live(j)' <=> Live(j)
      BY <1>2, <1>3, <1>4, <3>1 DEF Live
    <3>4. QED
      BY <3>2, <3>3 DEF Mode
  <2>3. Linked(h, j)
    BY DEF Flow
  <2>4. QED
    BY <2>1, <2>2, <2>3 DEF Linked
<1>6. status[N] = "closed" => status'[N] = "closed"
  BY <1>1, <1>2, FlowBasics
<1>7. /\ \A j \in 1..N : in'[j] \in Seq(Chunk(j - 1))
      /\ \A j \in 0..N : out'[j] \in Seq(Chunk(j))
  BY <1>2, QueuesTyped
<1>8. Flow(h)'
  BY <1>2, <1>5, <1>6, <1>7, SameHistory
<1>9. QED
  BY <1>8

(* The gateway writes: the body is longer, and so is what is under way.    *)
LEMMA WriteFlows ==
  ASSUME Inv, NEW h, Flow(h), NEW token \in Line \cup {nl},
         served' = Append(served, token), wire' = Append(wire, token),
         UNCHANGED <<stages, stageVars, consumer, results>>
  PROVE  \E g : Flow(g)'
<1> DEFINE S == Line \cup {nl}
<1>1. N' = N /\ N \in Nat /\ Chunk(0) = Seq(S)
  BY FlowBasics DEF N, Chunk
<1>2. Typed(h)
  BY DEF Flow
<1>3. h[0] \in Seq(Seq(S)) /\ wire \in Seq(S)
  BY <1>1, <1>2 DEF Typed
<1> HIDE DEF S
<1>4. token \in S
  BY DEF S
<1>5. Append(wire, token) \in Seq(S)
  BY <1>3, <1>4, AppendProperties
<1>6. Typed(h)'
  BY <1>1, <1>2, <1>5 DEF Typed
<1>7. FlattenSeq(h[0]) \o wire' = served'
  <2> DEFINE t == FlattenSeq(h[0])
  <2>1. t \in Seq(S)
    BY <1>3, FlattenType
  <2>2. t \o wire = served
    BY DEF Flow
  <2> HIDE DEF t
  <2>3. t \o Append(wire, token) = Append(t \o wire, token)
    BY <1>3, <1>4, <2>1, ConcatAppend
  <2>4. QED
    BY <2>2, <2>3 DEF t
<1>8. ASSUME NEW j \in 1..N + 1 PROVE Linked(h, j)'
  BY <1>1, LinkUntouched
<1>9. Settled(h)'
  <2>1. Whole(h, N)' = Whole(h, N)
    BY <1>1 DEF Whole
  <2>2. Settled(h)
    BY DEF Flow
  <2>3. QED
    BY <1>1, <2>1, <2>2 DEF Settled
<1>10. buffer' = [j \in 1..N |-> Kept(stages'[j], h[j])]
  <2>1. buffer = [j \in 1..N |-> Kept(stages[j], h[j])]
    BY DEF Flow
  <2>2. QED
    BY <2>1
<1>11. Flow(h)'
  BY <1>1, <1>6, <1>7, <1>8, <1>9, <1>10 DEF Flow
<1>12. QED
  BY <1>11

LEMMA UnchangedFlows ==
  ASSUME NEW h, Flow(h), UNCHANGED <<stages, served, wire, stageVars, consumer,
                                     results>>
  PROVE  Flow(h)'
BY DEF Flow, Typed, Linked, Settled, Took, Waiting, Whole, Mode, Live,
       Stopped, N

(* The first tokens of the wire arrive as one chunk.                       *)
LEMMA ReceiveFlows ==
  ASSUME Inv, NEW h, Flow(h), Receive
  PROVE  \E g : Flow(g)'
<1>1. PICK n \in 1..Len(wire) :
        /\ out' = [out EXCEPT ![0] = Append(@, SubSeq(wire, 1, n))]
        /\ wire' = SubSeq(wire, n + 1, Len(wire))
  BY DEF Receive
<1> DEFINE S == Line \cup {nl}
           chunk == SubSeq(wire, 1, n)
           Q == Chunk(0)
<1>2. /\ N \in Nat /\ N # 0 /\ 0 \in 0..N /\ Q = Seq(S) /\ N' = N
      /\ UNCHANGED <<stages, served, ended, status, in, buffer, consumer,
                     results>>
      /\ status[0] = "open"
  <2>1. /\ UNCHANGED <<stages, served, ended, status, in, buffer, consumer,
                       results>>
        /\ status[0] = "open"
    BY DEF Receive
  <2>2. N' = N
    BY <2>1 DEF N
  <2>3. N \in Nat /\ N # 0 /\ 0 \in 0..N
    BY FlowBasics
  <2>4. Q = Seq(S)
    BY DEF Chunk
  <2>5. QED
    BY <2>1, <2>2, <2>3, <2>4
<1>3. Typed(h)
  BY DEF Flow
<1>4. wire \in Seq(S) /\ h[0] \in Seq(Q) /\ out[0] \in Seq(Q)
  BY <1>2, <1>3 DEF Typed
<1> HIDE DEF S
<1>5. chunk \in Seq(S) /\ wire' \in Seq(S) /\ chunk \o wire' = wire
  <2>1. Len(wire) \in Nat
    BY <1>4, LenProperties
  <2>2. /\ SubSeq(wire, 1, n) \in Seq(S)
        /\ SubSeq(wire, n + 1, Len(wire)) \in Seq(S)
    BY <1>4, <2>1
  <2>3. SubSeq(wire, 1, n) \o SubSeq(wire, n + 1, Len(wire)) = wire
    BY <1>4, <2>1
  <2>4. QED
    BY <1>1, <2>2, <2>3
<1> HIDE DEF chunk, Q
<1>6. PICK g : g = [h EXCEPT ![0] = Append(@, chunk)]
  OBVIOUS
<1>7. /\ g = [j \in 0..N |-> g[j]] /\ g[0] = Append(h[0], chunk)
      /\ \A j \in 0..N : j # 0 => g[j] = h[j]
  BY <1>2, <1>3, <1>6, HistoryLonger DEF Typed
<1>8. g[0] = h[0] \o <<chunk>> /\ <<chunk>> \in Seq(Q) /\ g[0] \in Seq(Q)
  <2> DEFINE u == h[0]
  <2>1. chunk \in Q /\ u \in Seq(Q)
    BY <1>2, <1>4, <1>5
  <2> HIDE DEF u
  <2>2. /\ Append(u, chunk) = u \o <<chunk>> /\ <<chunk>> \in Seq(Q)
        /\ Append(u, chunk) \in Seq(Q)
    BY <2>1, AppendIsConcat, AppendProperties
  <2>3. QED
    BY <1>7, <2>2 DEF u
<1>9. /\ out'[0] = out[0] \o <<chunk>> /\ out'[0] \in Seq(Q)
      /\ \A j \in 0..N : j # 0 => out'[j] = out[j]
  <2>1. out' = [out EXCEPT ![0] = Append(@, chunk)]
    BY <1>1 DEF chunk
  <2>2. out'[0] = Append(out[0], chunk)
        /\ \A j \in 0..N : j # 0 => out'[j] = out[j]
    BY <1>2, <2>1, FlowBasics
  <2>3. chunk \in Q
    BY <1>2, <1>5
  <2>4. QED
    BY <1>4, <2>2, <2>3, AppendIsConcat, AppendProperties
<1>10. Typed(g)'
  <2>1. ASSUME NEW j \in 1..N PROVE g[j] \in Seq(Taken(j))
    <3>1. j \in 0..N /\ j # 0
      BY <1>2
    <3>2. g[j] = h[j] /\ h[j] \in Seq(Taken(j))
      BY <1>3, <1>7, <3>1 DEF Typed
    <3>3. QED
      BY <3>2
  <2>2. ASSUME NEW j \in 1..N PROVE in'[j] \in Seq(Chunk(j - 1))
    BY <1>2, <1>3 DEF Typed
  <2>3. ASSUME NEW j \in 0..N PROVE out'[j] \in Seq(Chunk(j))
    <3>1. out'[0] \in Seq(Chunk(0))
      BY <1>9 DEF Q
    <3>2. QED
      BY <1>3, <1>9, <3>1 DEF Typed
  <2>4. g[0] \in Seq(Chunk(0)) /\ wire' \in Chunk(0)
    BY <1>2, <1>5, <1>8 DEF Q
  <2>5. QED
    BY <1>2, <1>7, <2>1, <2>2, <2>3, <2>4 DEF Typed
<1>11. FlattenSeq(g[0]) \o wire' = served'
  <2> DEFINE t == FlattenSeq(h[0])
             u == h[0]
  <2>1. u \in Seq(Seq(S)) /\ t \o wire = served
    BY <1>2, <1>4 DEF Flow
  <2>2. t \in Seq(S)
    BY <2>1, FlattenType
  <2>3. FlattenSeq(Append(u, chunk)) = t \o chunk
    <3> HIDE DEF u
    <3>1. FlattenSeq(Append(u, chunk)) = FlattenSeq(u) \o chunk
      BY <1>5, <2>1, FlattenAppend
    <3>2. QED
      BY <3>1 DEF u
  <2> DEFINE w == wire'
  <2>4. w \in Seq(S) /\ chunk \o w = wire
    BY <1>5
  <2> HIDE DEF t, u, w
  <2>5. (t \o chunk) \o w = t \o (chunk \o w)
    <3>1. chunk \in Seq(S) /\ t \in Seq(S) /\ w \in Seq(S)
      BY <1>5, <2>2, <2>4
    <3>2. QED
      BY <3>1, ConcatAssociative
  <2>6. FlattenSeq(g[0]) = t \o chunk
    BY <1>7, <2>3 DEF u
  <2>7. FlattenSeq(g[0]) \o w = served
    BY <2>1, <2>4, <2>5, <2>6
  <2>8. QED
    BY <1>2, <2>7 DEF w
<1>12. buffer' = [j \in 1..N |-> Kept(stages'[j], g[j])]
  <2>1. buffer = [j \in 1..N |-> Kept(stages[j], h[j])]
    BY DEF Flow
  <2>2. \A j \in 1..N : g[j] = h[j]
    BY <1>2, <1>7
  <2>3. QED
    BY <1>2, <2>1, <2>2
<1>13. Linked(g, 1)'
  <2>1. PICK i \in 0..N : i = 0
    BY <1>2
  <2>2. i + 1 = 1 /\ i + 1 # N + 1 /\ 1 \in 1..N
    BY <1>2, <2>1
  <2>3. g[1] = h[1] /\ in'[1] = in[1] /\ status'[1] = status[1]
    BY <1>2, <1>7, <2>2
  <2>4. Whole(g, 0)' = Whole(h, 0) \o <<chunk>>
    BY <1>8 DEF Whole
  <2>5. ~ Stopped(0) /\ status'[0] = status[0]
    BY <1>2 DEF Stopped
  <2>6. /\ <<chunk>> \in Seq(Chunk(i)) /\ out'[i] = out[i] \o <<chunk>>
        /\ Whole(g, i)' = Whole(h, i) \o <<chunk>>
        /\ ~ Stopped(i) /\ status'[i] = status[i]
    BY <1>8, <1>9, <2>1, <2>4, <2>5 DEF Q
  <2>7. /\ g[i + 1] = h[i + 1] /\ in'[i + 1] = in[i + 1]
        /\ status'[i + 1] = status[i + 1]
    BY <2>2, <2>3
  <2>8. Linked(g, i + 1)'
    BY <1>2, <2>6, <2>7, LinkBehind
  <2>9. QED
    BY <2>2, <2>8
<1>14. ASSUME NEW j \in 1..N + 1, j # 1 PROVE Linked(g, j)'
  <2>1. j - 1 \in 0..N /\ j - 1 # 0 /\ (j # N + 1 => j \in 0..N /\ j # 0)
    BY <1>2, <1>14
  <2>2. g[j - 1] = h[j - 1] /\ out'[j - 1] = out[j - 1]
    BY <1>7, <1>9, <2>1
  <2>3. j # N + 1 => g[j] = h[j]
    BY <1>7, <2>1
  <2>4. QED
    BY <1>2, <2>2, <2>3, LinkUntouched
<1>15. Settled(g)'
  <2>1. Whole(g, N)' = Whole(h, N)
    <3>1. g[N] = h[N] /\ stages' = stages
      BY <1>2, <1>7
    <3>2. QED
      BY <1>2, <3>1 DEF Whole
  <2>2. Settled(h)
    BY DEF Flow
  <2>3. QED
    BY <1>2, <2>1, <2>2 DEF Settled
<1>16. Flow(g)'
  <2>1. \A j \in 1..N + 1 : Linked(g, j)'
    BY <1>13, <1>14
  <2>2. QED
    BY <1>2, <1>10, <1>11, <1>12, <1>15, <2>1 DEF Flow
<1>17. QED
  BY <1>16

(* A step of the reader: only the last link is disturbed.                  *)
LEMMA PumpFlows ==
  ASSUME Inv, NEW h, Flow(h),
         UNCHANGED <<stages, served, wire, ended, status, in, buffer>>,
         \A j \in 0..N : j # N => out'[j] = out[j],
         out'[N] \in Seq(Chunk(N)),
         NEW last, last = N + 1, Linked(h, last)', Settled(h)'
  PROVE  Flow(h)'
<1>1. N' = N /\ N \in Nat
  BY FlowBasics DEF N
<1>2. Typed(h)'
  <2>1. Typed(h)
    BY DEF Flow
  <2>2. \A j \in 0..N : out'[j] \in Seq(Chunk(j))
    BY <2>1 DEF Typed
  <2>3. QED
    BY <1>1, <2>1, <2>2 DEF Typed
<1>3. ASSUME NEW j \in 1..N + 1, j # last PROVE Linked(h, j)'
  <2>1. j \in 1..N /\ j - 1 \in 0..N /\ j - 1 # N
    BY <1>1, <1>3
  <2>2. /\ Took(h, j)' = Took(h, j) /\ Waiting(j)' = Waiting(j)
        /\ Whole(h, j - 1)' = Whole(h, j - 1)
    BY <1>1, <1>3, <2>1 DEF Took, Waiting, Whole
  <2>3. Mode(j)' = Mode(j)
    BY <1>1, <1>3 DEF Mode, Live, Stopped
  <2>4. Linked(h, j)
    BY DEF Flow
  <2>5. QED
    BY <2>2, <2>3, <2>4 DEF Linked
<1>4. \A j \in 1..N + 1 : Linked(h, j)'
  BY <1>3
<1>5. FlattenSeq(h[0]) \o wire' = served'
  BY DEF Flow
<1>6. buffer' = [j \in 1..N |-> Kept(stages'[j], h[j])]
  <2>1. buffer = [j \in 1..N |-> Kept(stages[j], h[j])]
    BY DEF Flow
  <2>2. QED
    BY <2>1
<1>7. QED
  BY <1>1, <1>2, <1>4, <1>5, <1>6 DEF Flow

(* The last link, after such a step.                                       *)
LEMMA LastLink ==
  ASSUME Inv, NEW h, UNCHANGED <<stages, status>>, NEW k, k = N + 1,
         Link(results', out'[N], Whole(h, N), Chunk(N),
              IF consumer' # "reading" THEN "stopped" ELSE Mode(k)),
         consumer = "reading"
  PROVE  Linked(h, k)'
<1>1. N' = N /\ N \in Nat /\ k - 1 = N
  BY FlowBasics DEF N
<1>2. Took(h, k)' = results' /\ Waiting(k)' = out'[N]
  BY <1>1 DEF Took, Waiting
<1>3. Whole(h, N)' = Whole(h, N)
  BY <1>1 DEF Whole
<1>4. Mode(k)' = IF consumer' # "reading" THEN "stopped" ELSE Mode(k)
  BY <1>1 DEF Mode, Live, Stopped
<1>5. Link(results', out'[N], Whole(h, N), Chunk(N), Mode(k)')
  BY <1>4
<1>6. Link(Took(h, k)', Waiting(k)', Whole(h, k - 1)', Chunk(k - 1), Mode(k)')
  BY <1>1, <1>2, <1>3, <1>5
<1>7. QED
  BY <1>6 DEF Linked

LEMMA PumpValueFlows ==
  ASSUME Inv, NEW h, Flow(h), PumpValue
  PROVE  \E g : Flow(g)'
<1>0. PICK k : k = N + 1
  OBVIOUS
<1> DEFINE q == out[N]
           S == Chunk(N)
           x == Head(q)
           m == Mode(k)
           w == Whole(h, N)
<1>1. /\ N \in Nat /\ N \in 0..N /\ N' = N /\ consumer = "reading" /\ q # <<>>
      /\ UNCHANGED <<stages, served, wire, ended, status, in, buffer>>
      /\ out'[N] = Tail(q)
      /\ \A j \in 0..N : j # N => out'[j] = out[j]
      /\ \/ x \in Falsy /\ consumer' = "resolved" /\ results' = results
         \/ x \notin Falsy /\ consumer' = "reading"
            /\ results' = Append(results, x)
  <2>1. N \in Nat /\ N \in 0..N
    BY FlowBasics
  <2>2. /\ consumer = "reading" /\ q # <<>>
        /\ UNCHANGED <<stages, served, wire, ended, status, in, buffer>>
        /\ out' = [out EXCEPT ![N] = Tail(q)]
        /\ \/ x \in Falsy /\ consumer' = "resolved" /\ results' = results
           \/ x \notin Falsy /\ consumer' = "reading"
              /\ results' = Append(results, x)
    BY DEF PumpValue
  <2>3. N' = N
    BY <2>2 DEF N
  <2>4. out'[N] = Tail(q) /\ \A j \in 0..N : j # N => out'[j] = out[j]
    BY <2>1, <2>2, FlowBasics
  <2>5. QED
    BY <2>1, <2>2, <2>3, <2>4
<1>2. /\ Link(results, q, w, S, m) /\ q \in Seq(S) /\ results \in Seq(S)
      /\ w \in Seq(S)
  BY <1>0, <1>1, WholeType, QueuesTyped
<1>3. m # "stopped"
  BY <1>0, <1>1 DEF Mode, Live
<1> HIDE DEF q, S, x, m, w
<1>4. x \in S /\ Tail(q) \in Seq(S) /\ q = <<x>> \o Tail(q)
  <2>1. x \in S /\ Tail(q) \in Seq(S)
    BY <1>1, <1>2, HeadTailProperties DEF x
  <2>2. q = <<Head(q)>> \o Tail(q)
    BY <1>1, <1>2
  <2>3. QED
    BY <2>1, <2>2 DEF x
<1>5. Link(Append(results, x), Tail(q), w, S, m)
  BY <1>2, <1>3, <1>4, LinkTake
<1>6. CASE x \in Falsy /\ consumer' = "resolved" /\ results' = results
  <2>1. Link(results', out'[N], w, S, "stopped")
    BY <1>1, <1>2, <1>4, <1>6, LinkStop
  <2>2. Linked(h, k)'
    BY <1>0, <1>1, <1>6, <2>1, LastLink DEF w, S
  <2>3. Begins(Append(results, x), w, S)
    BY <1>5 DEF Link
  <2>4. Settled(h)'
    <3>1. Whole(h, N)' = w
      BY <1>1 DEF Whole, w
    <3>2. x \in Falsy \cap S /\ Begins(Append(results', x), w, S)
      BY <1>4, <1>6, <2>3
    <3>3. QED
      BY <1>1, <3>1, <3>2 DEF Settled, S
  <2>5. Flow(h)'
    BY <1>0, <1>1, <1>4, <2>2, <2>4, PumpFlows DEF S
  <2>6. QED
    BY <2>5
<1>7. CASE /\ x \notin Falsy /\ consumer' = "reading"
           /\ results' = Append(results, x)
  <2>1. Link(results', out'[N], w, S, m)
    BY <1>1, <1>5, <1>7
  <2>2. Linked(h, k)'
    BY <1>0, <1>1, <1>7, <2>1, LastLink DEF w, S, m
  <2>3. Settled(h)'
    BY <1>7 DEF Settled
  <2>4. Flow(h)'
    BY <1>0, <1>1, <1>4, <2>2, <2>3, PumpFlows DEF S
  <2>5. QED
    BY <2>4
<1>8. QED
  BY <1>1, <1>6, <1>7

LEMMA PumpEnds ==
  ASSUME Inv, NEW h, Flow(h), consumer = "reading", consumer' # "reading",
         UNCHANGED <<bodyVars, stageVars, results>>,
         consumer' = "resolved" => out[N] = <<>> /\ status[N] = "closed"
  PROVE  \E g : Flow(g)'
<1>0. PICK k : k = N + 1
  OBVIOUS
<1> DEFINE q == out[N]
           S == Chunk(N)
           w == Whole(h, N)
<1>1. N \in Nat /\ N \in 0..N /\ N' = N /\ N + 1 - 1 = N
  BY FlowBasics DEF N
<1>2. Link(results, q, w, S, Mode(k)) /\ q \in Seq(S)
      /\ results \in Seq(S)
  BY <1>0, <1>1, WholeType, QueuesTyped
<1>3. Linked(h, k)'
  <2>1. Link(results', out'[N], w, S, "stopped")
    <3> HIDE DEF S, w
    <3>1. Link(results, q, w, S, "stopped")
      <4> HIDE DEF q
      <4>1. QED
        BY <1>2, LinkStop
    <3>2. QED
      BY <3>1
  <2>2. QED
    BY <1>0, <2>1, LastLink
<1>4. Settled(h)'
  <2>1. ASSUME consumer' = "resolved" PROVE results = w /\ status[N] = "closed"
    <3>1. Mode(k) = "exact"
      BY <1>0, <1>1, <2>1 DEF Mode, Live, Stopped
    <3>2. results \o q = w
      BY <1>2, <3>1 DEF Link
    <3>3. q = <<>> /\ results \o <<>> = results
      <4> HIDE DEF S
      <4>1. results \o <<>> = results
        BY <1>2, ConcatEmptySeq
      <4>2. QED
        BY <2>1, <4>1
    <3>4. QED
      BY <2>1, <3>2, <3>3
  <2>2. Whole(h, N)' = w
    BY <1>1 DEF Whole
  <2>3. QED
    BY <1>1, <2>1, <2>2 DEF Settled
<1>5. out'[N] \in Seq(Chunk(N))
  BY <1>1, QueuesTyped
<1>6. Flow(h)'
  BY <1>0, <1>3, <1>4, <1>5, PumpFlows
<1>7. QED
  BY <1>6

(* At first nothing has been handed over.                                  *)
LEMMA FlowInit == Init => \E h : Flow(h)
<1> SUFFICES ASSUME Init PROVE \E h : Flow(h)
  OBVIOUS
<1>1. Inv
  BY InvInit
<1>2. /\ N \in Nat
      /\ \A j \in 1..N + 1 : j - 1 \in 0..N /\ (j # N + 1 => j \in 0..N)
  BY <1>1, FlowBasics
<1>3. /\ served = <<>> /\ wire = <<>> /\ consumer = "reading" /\ results = <<>>
      /\ in = [j \in 1..N |-> <<>>] /\ out = [j \in 0..N |-> <<>>]
      /\ buffer = [j \in 1..N |-> <<>>] /\ status = [j \in 0..N |-> "open"]
  BY DEF Init
<1>4. PICK h : h = [j \in 0..N |-> <<>>]
  OBVIOUS
<1>5. \A S : <<>> \in Seq(S)
  BY EmptySeq
<1>6. Typed(h)
  <2>1. /\ \A j \in 0..N : h[j] = <<>> /\ out[j] = <<>>
        /\ \A j \in 1..N : in[j] = <<>>
    BY <1>3, <1>4
  <2>2. wire \in Chunk(0)
    BY <1>3, <1>5 DEF Chunk
  <2>3. h[0] \in Seq(Chunk(0))
    <3>1. h[0] = <<>> /\ <<>> \in Seq(Chunk(0))
      BY <1>2, <2>1, EmptySeq
    <3>2. QED
      BY <3>1
  <2>4. ASSUME NEW j \in 1..N
        PROVE  h[j] \in Seq(Taken(j)) /\ in[j] \in Seq(Chunk(j - 1))
    <3>1. h[j] = <<>> /\ in[j] = <<>>
      BY <1>2, <2>1
    <3>2. <<>> \in Seq(Taken(j)) /\ <<>> \in Seq(Chunk(j - 1))
      BY EmptySeq
    <3>3. QED
      BY <3>1, <3>2
  <2>5. \A j \in 0..N : out[j] \in Seq(Chunk(j))
    BY <1>5, <2>1
  <2>6. QED
    BY <1>4, <2>2, <2>3, <2>4, <2>5 DEF Typed
<1>7. FlattenSeq(h[0]) \o wire = served
  BY <1>2, <1>3, <1>4, FlattenEmpty
<1>8. ASSUME NEW j \in 1..N + 1 PROVE Linked(h, j)
  <2>1. j - 1 \in 0..N /\ (j # N + 1 => j \in 0..N)
    BY <1>2
  <2>2. Took(h, j) = <<>> /\ Whole(h, j - 1) = <<>>
    BY <1>3, <1>4, <2>1, MadeNothing DEF Took, Whole
  <2>3. Waiting(j) = <<>>
    BY <1>2, <1>3, <2>1 DEF Waiting
  <2> DEFINE S == Chunk(j - 1)
  <2> HIDE DEF S
  <2>4. <<>> \in Seq(S) /\ <<>> \o <<>> = <<>>
    BY EmptySeq
  <2>5. Begins(<<>>, <<>>, S)
    BY <2>4, BeginsSelf
  <2>6. Link(<<>>, <<>>, <<>>, S, Mode(j))
    BY <2>4, <2>5 DEF Link
  <2>7. QED
    BY <2>2, <2>3, <2>6 DEF Linked, S
<1>9. buffer = [j \in 1..N |-> Kept(stages[j], h[j])]
  <2>1. \A j \in 1..N : Kept(stages[j], h[j]) = <<>>
    <3>1. \A j \in 1..N : h[j] = <<>>
      BY <1>4
    <3>2. Cut(FlattenSeq(<<>>)).rest = <<>>
      BY FlattenEmpty, CutEmpty DEF Uncut
    <3>3. QED
      BY <3>1, <3>2 DEF Kept
  <2>2. QED
    BY <1>3, <2>1
<1>10. Settled(h)
  BY <1>3 DEF Settled
<1>11. QED
  BY <1>6, <1>7, <1>8, <1>9, <1>10 DEF Flow

LEMMA FlowNext ==
  ASSUME Inv, [Next]_vars, NEW h, Flow(h)
  PROVE  \E g : Flow(g)'
<1>1. ASSUME NEW i \in 1..N, Transform(i) PROVE \E g : Flow(g)'
  BY <1>1, SplitFlows, ParseFlows, UnwrapFlows, DecodeFlows,
     TransformThrowsFlows DEF Transform
<1>2. ASSUME NEW i \in 1..N, Pipe(i) \/ Flush(i) \/ Abort(i) \/ Cancel(i)
      PROVE  \E g : Flow(g)'
  BY <1>2, PipeFlows, FlushFlows, AbortFlows, CancelFlows
<1>3. ASSUME PumpDone \/ PumpFails PROVE \E g : Flow(g)'
  <2>1. /\ consumer = "reading" /\ consumer' # "reading"
        /\ UNCHANGED <<bodyVars, stageVars, results>>
        /\ consumer' = "resolved" => out[N] = <<>> /\ status[N] = "closed"
    BY <1>3 DEF PumpDone, PumpFails
  <2>2. QED
    BY <2>1, PumpEnds
<1>4. ASSUME NEW line \in Line, WriteLine(line) PROVE \E g : Flow(g)'
  BY <1>4, WriteFlows DEF WriteLine
<1>5. ASSUME WriteNewline PROVE \E g : Flow(g)'
  BY <1>5, WriteFlows DEF WriteNewline
<1>6. ASSUME Finish \/ UNCHANGED vars PROVE \E g : Flow(g)'
  BY <1>6, UnchangedFlows DEF Finish, vars
<1>7. QED
  BY <1>1, <1>2, <1>3, <1>4, <1>5, <1>6, PumpValueFlows, ReceiveFlows,
     BodyEndsFlows, BodyBreaksFlows
     DEF Next, Network, Runtime

-----------------------------------------------------------------------------
(* What the gateway writes.                                                *)

(* Each line of the body is one line of the gateway's stream, and nothing  *)
(* comes behind a failure.                                                 *)
BodyLines ==
  /\ \A n \in 1..Len(Lines) : \E line \in Line \cap ToSet(served) :
       /\ Lines[n] = <<line>>
       /\ line = Failure => n = Len(Lines) /\ Cut(served).rest = <<>>
  /\ Cut(served).rest # <<>> =>
       \E line \in Line \cap ToSet(served) : Cut(served).rest = <<line>>

LEMMA ServedParts ==
  ASSUME TypeOK
  PROVE  /\ served \in Seq(Line \cup {nl})
         /\ Lines \in Seq(Seq(Line \cup {nl})) /\ Len(Lines) \in Nat
         /\ Cut(served).rest \in Seq(Line \cup {nl})
<1> DEFINE S == Line \cup {nl}
<1>1. served \in Seq(S)
  BY DEF TypeOK
<1> HIDE DEF S
<1>2. Lines \in Seq(Seq(S)) /\ Cut(served).rest \in Seq(S)
  BY <1>1, CutParts DEF Lines
<1>3. Len(Lines) \in Nat
  BY <1>2, LenProperties
<1>4. QED
  BY <1>1, <1>2, <1>3 DEF S

LEMMA ServedLonger ==
  ASSUME TypeOK, NEW token \in Line \cup {nl}, served' = Append(served, token)
  PROVE  /\ token = nl => /\ Lines' = Append(Lines, Cut(served).rest)
                          /\ (Cut(served).rest)' = <<>>
         /\ token # nl => /\ Lines' = Lines
                          /\ (Cut(served).rest)'
                               = Append(Cut(served).rest, token)
         /\ ToSet(served)' = ToSet(served) \cup {token}
<1> DEFINE S == Line \cup {nl}
<1>1. served \in Seq(S) /\ token \in S
  BY ServedParts
<1> HIDE DEF S
<1>2. Cut(Append(served, token)) = CutStep(Cut(served), token)
  BY <1>1, CutAppend
<1>3. Cut(served) \in Cuts(S)
  BY <1>1, CutParts
<1>4. /\ token = nl => /\ Lines' = Append(Lines, Cut(served).rest)
                       /\ Cut(served').rest = <<>>
      /\ token # nl => /\ Lines' = Lines
                       /\ Cut(served').rest = Append(Cut(served).rest, token)
  BY <1>2, <1>3, CutStepIs DEF Lines
<1>5. ToSet(served)' = ToSet(served) \cup {token}
  <2> DEFINE n == Len(served)
             t == Append(served, token)
             m == n + 1
  <2>1. /\ n \in Nat /\ DOMAIN served = 1..n /\ Len(t) = n + 1 /\ t[m] = token
        /\ t \in Seq(S) /\ \A i \in 1..n : t[i] = served[i]
    BY <1>1, AppendProperties, LenProperties
  <2>2. DOMAIN t = 1..m
    <3> HIDE DEF t
    <3>1. QED
      BY <2>1, LenProperties
  <2>3. served' = t
    OBVIOUS
  <2> HIDE DEF n, t
  <2>4. 1..m = 1..n \cup {m} /\ m \notin 1..n
    BY <2>1
  <2> HIDE DEF m
  <2>5. {t[i] : i \in DOMAIN t} = {served[i] : i \in DOMAIN served} \cup {token}
    BY <2>1, <2>2, <2>4
  <2>6. QED
    BY <2>3, <2>5 DEF ToSet
<1>6. QED
  BY <1>4, <1>5

LEMMA BodyLinesInit == Init => BodyLines
<1> SUFFICES ASSUME Init PROVE BodyLines
  OBVIOUS
<1>1. Lines = <<>> /\ Cut(served).rest = <<>>
  BY CutEmpty DEF Init, Lines, Uncut
<1>2. 1..Len(Lines) = {}
  BY <1>1
<1>3. QED
  BY <1>1, <1>2 DEF BodyLines

LEMMA NoFailureYet ==
  ASSUME BodyLines, ToSet(served) \cap Final = {} \/ Cut(served).rest # <<>>
  PROVE  \A n \in 1..Len(Lines) : \E line \in Line \cap ToSet(served) :
           Lines[n] = <<line>> /\ line # Failure
<1>1. Failure \in Final
  BY DEF Final
<1>2. QED
  BY <1>1 DEF BodyLines

LEMMA BodyLinesNext ==
  ASSUME TypeOK, BodyLines, [Next]_vars
  PROVE  BodyLines'
<1>1. ASSUME UNCHANGED served PROVE BodyLines'
  BY <1>1 DEF BodyLines, Lines
<1>2. ASSUME NEW line \in Line, WriteLine(line) PROVE BodyLines'
  <2>1. /\ Cut(served).rest = <<>> /\ ToSet(served) \cap Final = {}
        /\ served' = Append(served, line)
    BY <1>2 DEF WriteLine
  <2>2. line # nl
    BY TextAssumption
  <2>3. /\ Lines' = Lines /\ Cut(served').rest = Append(Cut(served).rest, line)
        /\ ToSet(served') = ToSet(served) \cup {line}
    BY <2>1, <2>2, ServedLonger
  <2>4. Cut(served').rest = <<line>>
    BY <2>1, <2>3
  <2>5. \A n \in 1..Len(Lines) : \E l \in Line \cap ToSet(served) :
          Lines[n] = <<l>> /\ l # Failure
    BY <2>1, NoFailureYet
  <2>6. QED
    BY <2>3, <2>4, <2>5 DEF BodyLines
<1>3. ASSUME WriteNewline PROVE BodyLines'
  <2>1. Cut(served).rest # <<>> /\ served' = Append(served, nl)
    BY <1>3 DEF WriteNewline
  <2>2. /\ Lines' = Append(Lines, Cut(served).rest) /\ Cut(served').rest = <<>>
        /\ ToSet(served') = ToSet(served) \cup {nl}
    BY <2>1, ServedLonger
  <2>3. PICK line \in Line \cap ToSet(served) : Cut(served).rest = <<line>>
    BY <2>1 DEF BodyLines
  <2>4. \A n \in 1..Len(Lines) : \E l \in Line \cap ToSet(served) :
          Lines[n] = <<l>> /\ l # Failure
    BY <2>1, NoFailureYet
  <2> DEFINE m == Len(Lines)
             k == m + 1
  <2>5. /\ m \in Nat /\ Len(Lines') = k /\ Lines'[k] = Cut(served).rest
        /\ \A n \in 1..m : Lines'[n] = Lines[n]
    <3>1. Lines \in Seq(Seq(Line \cup {nl}))
          /\ Cut(served).rest \in Seq(Line \cup {nl})
      BY ServedParts
    <3> DEFINE S == Seq(Line \cup {nl})
               r == Cut(served).rest
               s == Lines
    <3>2. s \in Seq(S) /\ r \in S
      BY <3>1
    <3> HIDE DEF S, r, s
    <3>3. /\ Len(Append(s, r)) = Len(s) + 1 /\ Len(s) \in Nat
          /\ Append(s, r)[Len(s) + 1] = r
          /\ \A n \in 1..Len(s) : Append(s, r)[n] = s[n]
      BY <3>2, AppendProperties
    <3>4. QED
      BY <2>2, <3>3 DEF r, s
  <2> HIDE DEF m
  <2>6. ASSUME NEW n \in 1..k
        PROVE  \E l \in Line \cap ToSet(served') :
                 Lines'[n] = <<l>> /\ (l = Failure => n = k)
    <3>1. n \in 1..m \/ n = k
      BY <2>5
    <3>2. CASE n = k
      BY <2>2, <2>3, <2>5, <3>2
    <3>3. CASE n \in 1..m
      <4>1. PICK l \in Line \cap ToSet(served) :
              Lines[n] = <<l>> /\ l # Failure
        BY <2>4, <3>3 DEF m
      <4>2. Lines'[n] = <<l>>
        BY <2>5, <3>3, <4>1
      <4>3. QED
        BY <2>2, <4>1, <4>2
    <3>4. QED
      BY <3>1, <3>2, <3>3
  <2>7. QED
    BY <2>2, <2>5, <2>6 DEF BodyLines
<1>4. QED
  <2>1. UNCHANGED served \/ (\E line \in Line : WriteLine(line)) \/ WriteNewline
    BY DEF Next, Network, Runtime, Transform, Finish, BodyBreaks, Receive,
       BodyEnds, Split, Parse, Unwrap, Decode, TransformThrows, Enqueue, Pipe,
       Flush, Abort, Cancel, PumpValue, PumpDone, PumpFails, vars
  <2>2. QED
    BY <1>1, <1>2, <1>3, <2>1

-----------------------------------------------------------------------------
(* What the stages would make of the whole body.                           *)

(* The parser takes every line of the body, and unwrapResult makes the     *)
(* responses of them.                                                      *)
LEMMA LinesParsed ==
  ASSUME Inv, BodyLines
  PROVE  /\ Made("parse", Lines) \in Seq(Line)
         /\ Len(Made("parse", Lines)) = Len(Lines)
         /\ \A n \in 1..Len(Lines) : Made("parse", Lines)[n] = Lines[n][1]
         /\ \A n \in 1..Len(Lines) : Lines[n][1] \in Line
<1> DEFINE p == Passed("parse", Lines)
           A == Chunk(1)
           B == Chunk(2)
           m == Len(Lines)
<1>1. Lines \in Seq(A) /\ m \in Nat /\ B = Line
  BY ServedParts DEF Chunk, Inv
<1>2. Turns("parse", A, B)
  <2>1. stages \in Pipelines /\ 2 \in 1..N
    BY FlowBasics
  <2>2. stages[2] = "parse" /\ Taken(2) = Chunk(1)
    BY <2>1, Chains DEF Taken
  <2>3. QED
    BY <2>1, <2>2, StageTurns
<1>3. \A n \in 1..m : Parses(Lines[n]) /\ Lines[n][1] \in Line
                      /\ Len(Lines[n]) = 1
  <2>1. ASSUME NEW n \in 1..m
        PROVE  Parses(Lines[n]) /\ Lines[n][1] \in Line /\ Len(Lines[n]) = 1
    <3>1. PICK line \in Line : Lines[n] = <<line>>
      BY DEF BodyLines
    <3>2. Len(<<line>>) = 1 /\ Head(<<line>>) = line /\ <<line>>[1] = line
      OBVIOUS
    <3>3. QED
      BY <3>1, <3>2 DEF Parses
  <2>2. QED
    BY <2>1
<1> HIDE DEF A
<1>4. /\ p \in Seq(Seq(B)) /\ Len(p) = m
      /\ \A n \in 1..m : p[n] = Pass("parse", Lines[n])
  <2> HIDE DEF B
  <2>1. QED
    BY <1>1, <1>2, PassedProperties
<1>5. \A n \in 1..m : p[n] = Lines[n] /\ Len(p[n]) = 1
  BY <1>3, <1>4 DEF Pass
<1>6. FlattenSeq(p) \in Seq(B) /\ Len(FlattenSeq(p)) = m
      /\ \A n \in 1..m : FlattenSeq(p)[n] = p[n][1]
  <2> HIDE DEF p, B, m
  <2>1. QED
    BY <1>4, <1>5, FlattenType, FlattenSingles
<1>7. Made("parse", Lines) = FlattenSeq(p)
  BY DEF Made
<1>8. QED
  BY <1>1, <1>3, <1>5, <1>6, <1>7

LEMMA LinesUnwrapped ==
  ASSUME Inv, BodyLines
  PROVE  /\ Made("unwrap", Made("parse", Lines)) = Responses
         /\ Responses \in Seq(Chunk(3)) /\ Len(Responses) = Len(Lines)
         /\ \A n \in 1..Len(Lines) :
              Responses[n] = Property(Lines[n][1], "result")
<1> DEFINE l == Made("parse", Lines)
           p == Passed("unwrap", l)
           A == Chunk(2)
           B == Chunk(3)
           m == Len(Lines)
<1>1. l \in Seq(A) /\ m \in Nat /\ Len(l) = m
      /\ \A n \in 1..m : l[n] = Lines[n][1]
  BY ServedParts, LinesParsed DEF Chunk, Inv
<1>2. Turns("unwrap", A, B)
  <2>1. stages \in Pipelines /\ 3 \in 1..N
    BY FlowBasics
  <2>2. stages[3] = "unwrap" /\ Taken(3) = Chunk(2)
    BY <2>1, Chains DEF Taken
  <2>3. QED
    BY <2>1, <2>2, StageTurns
<1> HIDE DEF l, A, B
<1>3. /\ p \in Seq(Seq(B)) /\ Len(p) = m
      /\ \A n \in 1..m : p[n] = Pass("unwrap", l[n])
  BY <1>1, <1>2, PassedProperties
<1>4. \A n \in 1..m : /\ p[n] = <<Property(Lines[n][1], "result")>>
                      /\ Len(p[n]) = 1
                      /\ p[n][1] = Property(Lines[n][1], "result")
  <2>1. \A x : Len(<<x>>) = 1 /\ <<x>>[1] = x
    OBVIOUS
  <2>2. \A n \in 1..m : p[n] = <<Property(Lines[n][1], "result")>>
    BY <1>1, <1>3 DEF Pass
  <2>3. QED
    BY <2>1, <2>2
<1> DEFINE f == FlattenSeq(p)
<1>5. f \in Seq(B) /\ Len(f) = m /\ \A n \in 1..m : f[n] = p[n][1]
  <2> HIDE DEF p, m
  <2>1. QED
    BY <1>3, <1>4, FlattenType, FlattenSingles
<1>6. Made("unwrap", l) = f
  BY DEF Made
<1> HIDE DEF p, f
<1>7. f = [n \in 1..m |-> Property(Lines[n][1], "result")]
  <2>1. f \in [1..m -> B]
    BY <1>5, LenProperties
  <2>2. \A n \in 1..m : f[n] = Property(Lines[n][1], "result")
    BY <1>4, <1>5
  <2>3. QED
    BY <2>1, <2>2
<1>8. DOMAIN Lines = 1..m
  BY ServedParts, LenProperties DEF Inv
<1>9. Responses = f
  BY <1>7, <1>8 DEF Responses
<1>10. QED
  BY <1>4, <1>5, <1>6, <1>9 DEF l, B

(* Only the last line can be a failure, and a failure has no response.     *)
LEMMA ResponsesWrapped ==
  ASSUME Inv, BodyLines
  PROVE  \E k \in 0..Len(Lines) :
           /\ Wrapped = 1..k
           /\ \A n \in 1..k : Responses[n] \in Response
           /\ \A n \in 1..Len(Lines) : n > k =>
                n \in Broken /\ Responses[n] = undefined
           /\ Broken = {} <=> k = Len(Lines)
<1> DEFINE m == Len(Lines)
           last == Lines[m][1]
           k == IF m > 0 /\ last = Failure THEN m - 1 ELSE m
<1>1. m \in Nat /\ DOMAIN Lines = 1..m
  BY ServedParts, LenProperties DEF Inv
<1>2. \A n \in 1..m : /\ Lines[n][1] \in Line
                      /\ Responses[n] = Property(Lines[n][1], "result")
                      /\ Lines[n][1] = Failure => n = m
  <2>1. ASSUME NEW n \in 1..m, Lines[n][1] = Failure PROVE n = m
    <3>1. PICK line \in Line :
            Lines[n] = <<line>> /\ (line = Failure => n = m)
      BY DEF BodyLines
    <3>2. <<line>>[1] = line
      OBVIOUS
    <3>3. QED
      BY <2>1, <3>1, <3>2
  <2>2. QED
    BY <2>1, LinesParsed, LinesUnwrapped
<1> HIDE DEF m
<1>3. k \in 0..m /\ \A n \in 1..m : n <= k <=> Lines[n][1] # Failure
  <2>1. CASE m > 0 /\ last = Failure
    <3>1. k = m - 1 /\ k \in 0..m
      BY <1>1, <2>1
    <3> HIDE DEF k
    <3>2. \A n \in 1..m : n <= k <=> n # m
      BY <1>1, <3>1
    <3>3. \A n \in 1..m : n # m <=> Lines[n][1] # Failure
      BY <1>2, <2>1
    <3>4. QED
      BY <3>1, <3>2, <3>3
  <2>2. CASE ~ (m > 0 /\ last = Failure)
    <3>1. k = m /\ k \in 0..m
      BY <1>1, <2>2
    <3>2. \A n \in 1..m : Lines[n][1] # Failure
      <4>1. ASSUME NEW n \in 1..m, Lines[n][1] = Failure PROVE FALSE
        <5>1. n = m /\ m > 0
          BY <1>1, <1>2, <4>1
        <5>2. QED
          BY <2>2, <4>1, <5>1
      <4>2. QED
        BY <4>1
    <3> HIDE DEF k
    <3>3. \A n \in 1..m : n <= k
      BY <1>1, <3>1
    <3>4. QED
      BY <3>1, <3>2, <3>3
  <2>3. QED
    BY <2>1, <2>2
<1> HIDE DEF k
<1>4. \A n \in 1..m : /\ n <= k <=> "result" \in DOMAIN Lines[n][1]
                      /\ n <= k => Responses[n] \in Response
                      /\ n > k => Responses[n] = undefined
  <2>1. ASSUME NEW n \in 1..m
        PROVE  /\ n <= k <=> "result" \in DOMAIN Lines[n][1]
               /\ n <= k => Responses[n] \in Response
               /\ n > k => Responses[n] = undefined
    <3> DEFINE line == Lines[n][1]
    <3>1. /\ line \in Line /\ Responses[n] = Property(line, "result")
          /\ n <= k <=> line # Failure
      BY <1>2, <1>3
    <3> HIDE DEF line
    <3>2. /\ Property(line, "result") \in Response \cup {undefined}
          /\ Property(line, "result") = undefined <=> line = Failure
          /\ "result" \in DOMAIN line <=> line # Failure
      BY <3>1, LineProperties
    <3>3. n > k <=> ~ (n <= k)
      BY <1>1, <1>3
    <3>4. QED
      BY <3>1, <3>2, <3>3 DEF line
  <2>2. QED
    BY <2>1
<1>5. Wrapped = {n \in 1..m : n <= k}
  BY <1>1, <1>4 DEF Wrapped
<1>6. Wrapped = 1..k
  BY <1>1, <1>3, <1>5
<1>7. Broken = {n \in 1..m : n > k}
  BY <1>1, <1>3, <1>6 DEF Broken
<1>8. Broken = {} <=> k = m
  <2>1. k # m => m \in 1..m /\ m > k
    BY <1>1, <1>3
  <2>2. k = m => \A n \in 1..m : ~ (n > k)
    BY <1>1, <1>3
  <2>3. QED
    BY <1>7, <2>1, <2>2
<1>9. \A n \in 1..k : Responses[n] \in Response
  BY <1>1, <1>3, <1>4
<1>10. \A n \in 1..m : n > k => n \in Broken /\ Responses[n] = undefined
  BY <1>4, <1>7
<1>11. QED
  BY <1>3, <1>6, <1>8, <1>9, <1>10 DEF m

(* A response without content adds nothing to the text of the journal.     *)
LEMMA ContentsDecoded ==
  ASSUME Turns("decode", Response, Seq(Token))
  PROVE  \A s \in Seq(Response) :
           FlattenSeq(Made("decode", s))
             = FlattenSeq([i \in 1..Len(s) |-> s[i].content])
<1> DEFINE C(s) == [i \in 1..Len(s) |-> s[i].content]
           T == {s \in Seq(Response) :
                   FlattenSeq(Made("decode", s)) = FlattenSeq(C(s))}
<1>1. \A x \in Response : /\ Pass("decode", x) \in Seq(Seq(Token))
                          /\ x.content \in Seq(Token)
                          /\ FlattenSeq(Pass("decode", x)) = x.content
  <2>1. ASSUME NEW x \in Response
        PROVE  /\ Pass("decode", x) \in Seq(Seq(Token))
               /\ x.content \in Seq(Token)
               /\ FlattenSeq(Pass("decode", x)) = x.content
    <3>1. x.content \in Seq(Token)
      BY ResponseContent
    <3>2. Pass("decode", x)
            = IF x.content # <<>> THEN <<x.content>> ELSE <<>>
      BY DEF Pass
    <3>3. FlattenSeq(<<x.content>>) = x.content /\ FlattenSeq(<<>>) = <<>>
      BY <3>1, FlattenSingle, FlattenEmpty
    <3>4. Pass("decode", x) \in Seq(Seq(Token))
      BY DEF Turns
    <3>5. QED
      BY <3>1, <3>2, <3>3, <3>4
  <2>2. QED
    BY <2>1
<1>2. \A s \in Seq(Response) : C(s) \in Seq(Seq(Token))
  <2>1. ASSUME NEW s \in Seq(Response) PROVE C(s) \in Seq(Seq(Token))
    <3> DEFINE n == Len(s)
               Q == Seq(Token)
    <3>1. n \in Nat /\ \A i \in 1..n : s[i].content \in Q
      BY <1>1, LenProperties, ElementOfSeq
    <3> HIDE DEF n, Q
    <3>2. [i \in 1..n |-> s[i].content] \in Seq(Q)
      BY <3>1
    <3>3. QED
      BY <3>2 DEF n, Q
  <2>2. QED
    BY <2>1
<1>3. <<>> \in T
  <2>1. C(<<>>) = <<>>
    OBVIOUS
  <2>2. <<>> \in Seq(Response)
    BY EmptySeq
  <2>3. QED
    BY <2>1, <2>2, MadeNothing
<1>4. ASSUME NEW s \in T, NEW x \in Response PROVE Append(s, x) \in T
  <2> DEFINE t == Append(s, x)
             c == C(s)
             y == x.content
             d == Made("decode", s)
             p == Pass("decode", x)
             Q == Seq(Token)
  <2>1. s \in Seq(Response) /\ t \in Seq(Response)
        /\ FlattenSeq(d) = FlattenSeq(c)
    BY AppendProperties
  <2>2. Made("decode", t) = d \o p
    BY <2>1, OthersMake
  <2>3. d \in Seq(Q) /\ p \in Seq(Q) /\ y \in Q /\ c \in Seq(Q)
        /\ FlattenSeq(p) = y
    BY <1>1, <1>2, <2>1, MadeType
  <2>4. C(t) = Append(c, y)
    <3> DEFINE n == Len(s)
               k == n + 1
    <3>1. /\ n \in Nat /\ Len(t) = k /\ t[k] = x
          /\ \A i \in 1..n : t[i] = s[i]
      BY <2>1, AppendProperties
    <3>2. Len(c) = n /\ \A i \in 1..n : c[i] = s[i].content
      BY <3>1
    <3> HIDE DEF t, c, n, Q
    <3>3. /\ Len(Append(c, y)) = k /\ Append(c, y)[k] = y
          /\ Append(c, y) \in Seq(Q)
          /\ \A i \in 1..n : Append(c, y)[i] = s[i].content
      BY <2>3, <3>2, AppendProperties
    <3>4. Append(c, y) \in [1..k -> Q]
      BY <3>3, LenProperties
    <3>5. \A i \in 1..k : Append(c, y)[i] = t[i].content
      <4>1. \A i \in 1..k : i = k \/ i \in 1..n
        BY <3>1
      <4>2. QED
        BY <3>1, <3>3, <4>1
    <3>6. Append(c, y) = [i \in 1..k |-> t[i].content]
      BY <3>4, <3>5
    <3>7. QED
      BY <3>1, <3>6
  <2> HIDE DEF t, c, y, d, p
  <2>5. FlattenSeq(d \o p) = FlattenSeq(d) \o FlattenSeq(p)
    BY <2>3, FlattenConcat
  <2>6. FlattenSeq(Append(c, y)) = FlattenSeq(c) \o y
    BY <2>3, FlattenAppend
  <2>7. FlattenSeq(Made("decode", t)) = FlattenSeq(C(t))
    BY <2>1, <2>2, <2>3, <2>4, <2>5, <2>6
  <2>8. QED
    BY <2>1, <2>7 DEF t
<1>5. T \in SUBSET Seq(Response)
  OBVIOUS
<1>6. \A s \in Seq(Response) : s \in T
  <2> HIDE DEF T
  <2>1. QED
    BY <1>3, <1>4, <1>5, SequenceInduction
<1>7. QED
  BY <1>6

(* The responses that a document can be read from.                         *)
Readable == [n \in Wrapped |-> Responses[n]]

LEMMA DocumentsMade ==
  ASSUME Inv, BodyLines, N = 6
  PROVE  /\ Readable \in Seq(Response)
         /\ Made("decode", Readable) \in Seq(Chunk(4))
         /\ Made("split", Made("decode", Readable)) \in Seq(Chunk(5))
         /\ Documents
              = Made("parse", Made("split", Made("decode", Readable)))
<1>1. PICK k \in 0..Len(Lines) :
        Wrapped = 1..k /\ \A n \in 1..k : Responses[n] \in Response
  BY ResponsesWrapped
<1>2. k \in Nat
  BY ServedParts DEF Inv
<1>3. Readable \in Seq(Response) /\ Len(Readable) = k
      /\ \A n \in 1..k : Readable[n] = Responses[n]
  <2> DEFINE r == [n \in 1..k |-> Responses[n]]
  <2>1. Readable = r
    BY <1>1 DEF Readable
  <2>2. r \in Seq(Response) /\ Len(r) = k /\ \A n \in 1..k : r[n] = Responses[n]
    BY <1>1, <1>2
  <2>3. QED
    BY <2>1, <2>2
<1>4. stages \in Pipelines /\ 4 \in 1..N /\ 5 \in 1..N
      /\ stages[4] = "decode" /\ stages[5] = "split"
  BY FlowBasics, Chains
<1>5. /\ Turns("decode", Response, Chunk(4))
      /\ Turns("split", Chunk(4), Chunk(5)) /\ Chunk(4) = Seq(Token)
  <2>1. Taken(4) = Response /\ Taken(5) = Chunk(4) /\ Chunk(4) = Seq(Token)
    BY DEF Taken, Chunk
  <2>2. /\ Turns("decode", Taken(4), Chunk(4))
        /\ Turns("split", Taken(5), Chunk(5))
    BY <1>4, StageTurns
  <2>3. QED
    BY <2>1, <2>2
<1> DEFINE d == Made("decode", Readable)
           s == Made("split", d)
<1>6. d \in Seq(Chunk(4))
  BY <1>3, <1>5, MadeType
<1>7. s \in Seq(Chunk(5))
  <2> HIDE DEF d
  <2>1. QED
    BY <1>5, <1>6, MadeType
<1>8. JournalText = FlattenSeq(d)
  <2>1. FlattenSeq(d)
          = FlattenSeq([i \in 1..Len(Readable) |-> Readable[i].content])
    BY <1>3, <1>5, ContentsDecoded
  <2>2. [i \in 1..Len(Readable) |-> Readable[i].content]
          = [i \in Wrapped |-> Responses[i].content]
    BY <1>1, <1>3
  <2>3. QED
    BY <2>1, <2>2 DEF JournalText
<1>9. s = Cut(JournalText).lines
  BY <1>8 DEF Made
<1>10. Documents = FlattenSeq([i \in DOMAIN s |->
                                 IF Parses(s[i]) THEN s[i] ELSE <<>>])
  BY <1>9 DEF Documents
<1>11. Documents = Made("parse", s)
  <2> HIDE DEF s
  <2>1. QED
    BY <1>10 DEF Made, Passed, Pass
<1>12. QED
  BY <1>3, <1>6, <1>7, <1>11

LEMMA StageTook ==
  ASSUME NEW h, Flow(h), N \in Nat, NEW i \in 1..N
  PROVE  /\ h[i] \in Seq(Taken(i)) /\ h[i] \in Seq(Chunk(i - 1))
         /\ Begins(h[i], Whole(h, i - 1), Chunk(i - 1))
         /\ Whole(h, i - 1) \in Seq(Chunk(i - 1))
<1>1. i \in 1..N + 1 /\ i # N + 1
  OBVIOUS
<1>2. Link(Took(h, i), Waiting(i), Whole(h, i - 1), Chunk(i - 1), Mode(i))
  BY <1>1, LinkOf
<1>3. Took(h, i) = h[i]
  BY <1>1 DEF Took
<1>4. h[i] \in Seq(Taken(i))
  BY DEF Flow, Typed
<1>5. QED
  BY <1>2, <1>3, <1>4 DEF Link

LEMMA StageMakes ==
  ASSUME Inv, NEW h, Flow(h), NEW i \in 1..N, NEW all,
         Begins(h[i], all, Taken(i))
  PROVE  Begins(Whole(h, i), Made(stages[i], all), Chunk(i))
<1> DEFINE t == h[i]
<1>1. t \in Seq(Taken(i)) /\ Turns(stages[i], Taken(i), Chunk(i))
  BY FlowBasics, StageTook, StageTurns
<1>2. Begins(t, all, Taken(i))
  OBVIOUS
<1> HIDE DEF t
<1>3. Begins(Made(stages[i], t), Made(stages[i], all), Chunk(i))
  BY <1>1, <1>2, MadeBegins
<1>4. i # 0
  BY FlowBasics
<1>5. QED
  BY <1>3, <1>4 DEF Whole, t

(* What a stage takes of what the one before it makes.                     *)
LEMMA StageFollows ==
  ASSUME Inv, NEW h, Flow(h), NEW i \in 1..N, i # 4, NEW all,
         Begins(Whole(h, i - 1), all, Chunk(i - 1))
  PROVE  Begins(Whole(h, i), Made(stages[i], all), Chunk(i))
<1>1. /\ h[i] \in Seq(Chunk(i - 1))
      /\ Begins(h[i], Whole(h, i - 1), Chunk(i - 1))
  BY FlowBasics, StageTook
<1>2. Begins(h[i], all, Chunk(i - 1))
  <2> DEFINE t == h[i]
             S == Chunk(i - 1)
             w == Whole(h, i - 1)
  <2>1. t \in Seq(S) /\ Begins(t, w, S) /\ Begins(w, all, S)
    BY <1>1
  <2> HIDE DEF t, S, w
  <2>2. Begins(t, all, S)
    BY <2>1, BeginsTransitive
  <2>3. QED
    BY <2>2 DEF t, S
<1>3. Taken(i) = Chunk(i - 1)
  BY DEF Taken
<1>4. QED
  BY <1>2, <1>3, StageMakes

LEMMA WholeBegins ==
  ASSUME Inv, BodyLines, NEW h, Flow(h)
  PROVE  /\ Begins(Whole(h, 3), Responses, Chunk(3))
         /\ N = 6 => Begins(Whole(h, 6), Documents, Chunk(6))
<1>1. /\ N \in {3, 6} /\ N \in Nat /\ stages \in Pipelines
      /\ 1 \in 1..N /\ 2 \in 1..N /\ 3 \in 1..N
      /\ stages[1] = "split" /\ stages[2] = "parse" /\ stages[3] = "unwrap"
      /\ N = 6 => /\ stages[4] = "decode" /\ stages[5] = "split"
                  /\ stages[6] = "parse"
                  /\ 4 \in 1..N /\ 5 \in 1..N /\ 6 \in 1..N
  BY FlowBasics, Chains
<1>2. Begins(Whole(h, 1), Lines, Chunk(1))
  <2> DEFINE S == Line \cup {nl}
             t == h[1]
             a == h[0]
  <2>1. Chunk(0) = Seq(S) /\ Chunk(1) = Seq(S) /\ Taken(1) = Seq(S)
    BY DEF Chunk, Taken
  <2>2. t \in Seq(Seq(S)) /\ a \in Seq(Seq(S)) /\ Begins(t, a, Seq(S))
    <3>1. /\ h[1] \in Seq(Chunk(1 - 1))
          /\ Begins(h[1], Whole(h, 1 - 1), Chunk(1 - 1))
          /\ Whole(h, 1 - 1) \in Seq(Chunk(1 - 1))
      BY <1>1, StageTook
    <3>2. 1 - 1 = 0 /\ Whole(h, 0) = h[0]
      BY DEF Whole
    <3>3. QED
      BY <2>1, <3>1, <3>2
  <2>3. wire \in Seq(S) /\ FlattenSeq(a) \o wire = served
    <3>1. Typed(h)
      BY DEF Flow
    <3>2. QED
      BY <2>1, <3>1 DEF Flow, Typed
  <2>4. Whole(h, 1) = Cut(FlattenSeq(t)).lines
    BY <1>1 DEF Whole, Made
  <2> HIDE DEF S, t, a
  <2>5. /\ FlattenSeq(t) \in Seq(S) /\ FlattenSeq(a) \in Seq(S)
        /\ Begins(FlattenSeq(t), FlattenSeq(a), S)
    BY <2>2, FlattenType, FlattenBegins
  <2>6. Begins(FlattenSeq(a), served, S)
    BY <2>3, <2>5 DEF Begins
  <2>7. Begins(FlattenSeq(t), served, S)
    BY <2>5, <2>6, BeginsTransitive
  <2>8. Begins(Cut(FlattenSeq(t)).lines, Cut(served).lines, Seq(S))
    BY <2>5, <2>7, CutBegins
  <2>9. QED
    BY <2>1, <2>4, <2>8 DEF Lines
<1>3. Begins(Whole(h, 2), Made("parse", Lines), Chunk(2))
  <2>1. 2 - 1 = 1 /\ 2 # 4
    OBVIOUS
  <2>2. Begins(Whole(h, 2 - 1), Lines, Chunk(2 - 1))
    BY <1>2, <2>1
  <2>3. QED
    BY <1>1, <2>1, <2>2, StageFollows
<1>4. Begins(Whole(h, 3), Responses, Chunk(3))
  <2>1. 3 - 1 = 2 /\ 3 # 4
    OBVIOUS
  <2> DEFINE all == Made("parse", Lines)
  <2>2. Begins(Whole(h, 3 - 1), all, Chunk(3 - 1))
    BY <1>3, <2>1
  <2> HIDE DEF all
  <2>3. Begins(Whole(h, 3), Made("unwrap", all), Chunk(3))
    BY <1>1, <2>1, <2>2, StageFollows
  <2>4. QED
    BY <2>3, LinesUnwrapped DEF all
<1>5. ASSUME N = 6 PROVE Begins(Whole(h, 6), Documents, Chunk(6))
  <2> DEFINE t == h[4]
             d == Made("decode", Readable)
             s == Made("split", d)
  <2>1. Begins(t, Readable, Response)
    <3>1. t \in Seq(Response) /\ t \in Seq(Chunk(3))
          /\ Begins(t, Whole(h, 3), Chunk(3))
      <4>1. 4 - 1 = 3 /\ Taken(4) = Response
        BY DEF Taken
      <4>2. h[4] \in Seq(Taken(4)) /\ h[4] \in Seq(Chunk(4 - 1))
            /\ Begins(h[4], Whole(h, 4 - 1), Chunk(4 - 1))
        BY <1>1, <1>5, StageTook
      <4>3. QED
        BY <4>1, <4>2
    <3> HIDE DEF t
    <3>2. Begins(t, Responses, Chunk(3))
      BY <1>4, <3>1, BeginsTransitive
    <3>3. /\ Len(t) <= Len(Responses)
          /\ \A n \in 1..Len(t) : t[n] = Responses[n]
      BY <3>1, <3>2, LinesUnwrapped, BeginsPointwise
    <3>4. Readable \in Seq(Response)
      BY <1>5, DocumentsMade
    <3>5. PICK k \in 0..Len(Lines) :
            /\ Wrapped = 1..k
            /\ \A n \in 1..Len(Lines) : n > k => Responses[n] = undefined
      BY ResponsesWrapped
    <3>6. Len(t) \in Nat /\ Len(Lines) \in Nat /\ k \in Nat
          /\ Len(Responses) = Len(Lines)
      BY <3>1, ServedParts, LenProperties, LinesUnwrapped DEF Inv
    <3>7. Len(t) <= k
      <4>1. ASSUME Len(t) > k PROVE FALSE
        <5> DEFINE n == Len(t)
        <5>1. n \in 1..Len(t) /\ n \in 1..Len(Lines) /\ n > k
          BY <3>3, <3>6, <4>1
        <5>2. t[n] = undefined
          BY <3>3, <3>5, <5>1
        <5>3. t[n] \in Response
          BY <3>1, <5>1, ElementOfSeq
        <5>4. QED
          BY <5>2, <5>3, TextAssumption DEF Nullish
      <4>2. QED
        BY <3>6, <4>1
    <3>8. Len(Readable) = k /\ \A n \in 1..k : Readable[n] = Responses[n]
      <4>1. DOMAIN Readable = 1..k /\ \A n \in 1..k : Readable[n] = Responses[n]
        BY <3>5 DEF Readable
      <4>2. Len(Readable) = k
        BY <3>4, <3>6, <4>1, LenProperties
      <4>3. QED
        BY <4>1, <4>2
    <3>9. \A n \in 1..Len(t) : n \in 1..k
      BY <3>6, <3>7
    <3>10. Len(t) <= Len(Readable) /\ \A n \in 1..Len(t) : t[n] = Readable[n]
      BY <3>3, <3>7, <3>8, <3>9
    <3>11. QED
      BY <3>1, <3>4, <3>10, PointwiseBegins
  <2>2. Begins(Whole(h, 4), d, Chunk(4))
    <3>1. Taken(4) = Response
      BY DEF Taken
    <3>2. Begins(h[4], Readable, Taken(4))
      BY <2>1, <3>1
    <3>3. QED
      BY <1>1, <1>5, <3>2, StageMakes
  <2> HIDE DEF d
  <2>3. Begins(Whole(h, 5), s, Chunk(5))
    <3>1. 5 - 1 = 4 /\ 5 # 4
      OBVIOUS
    <3>2. Begins(Whole(h, 5 - 1), d, Chunk(5 - 1))
      BY <2>2, <3>1
    <3>3. QED
      BY <1>1, <1>5, <3>1, <3>2, StageFollows
  <2> HIDE DEF s
  <2>4. Begins(Whole(h, 6), Made("parse", s), Chunk(6))
    <3>1. 6 - 1 = 5 /\ 6 # 4
      OBVIOUS
    <3>2. Begins(Whole(h, 6 - 1), s, Chunk(6 - 1))
      BY <2>3, <3>1
    <3>3. QED
      BY <1>1, <1>5, <3>1, <3>2, StageFollows
  <2>5. QED
    BY <1>5, <2>4, DocumentsMade DEF s, d
<1>6. QED
  BY <1>4, <1>5

(* Once the last stage has closed, each has taken all that was made for it.*)
LEMMA AllTaken ==
  ASSUME Inv, NEW h, Flow(h), status[N] = "closed"
  PROVE  /\ status[0] = "closed" /\ FlattenSeq(h[0]) = served
         /\ \A i \in 1..N : h[i] = Whole(h, i - 1)
<1>1. N \in Nat /\ N \in 1..N
  BY FlowBasics
<1>2. \A j \in 1..N :
        status[j - 1] = "closed" /\ in[j] = <<>> /\ out[j - 1] = <<>>
  BY <1>1 DEF Inv, ClosedInOrder
<1>3. status[0] = "closed"
  <2>1. 1 \in 1..N /\ 1 - 1 = 0
    BY <1>1
  <2>2. status[1 - 1] = "closed"
    BY <1>2, <2>1
  <2>3. QED
    BY <2>1, <2>2
<1>4. FlattenSeq(h[0]) = served
  <2> DEFINE S == Line \cup {nl}
             t == FlattenSeq(h[0])
  <2>1. wire = <<>> /\ t \o wire = served
    BY <1>3 DEF Flow, Inv, ClosedInOrder
  <2>2. t \in Seq(S)
    <3>1. h[0] \in Seq(Chunk(0)) /\ Chunk(0) = Seq(S)
      BY DEF Flow, Typed, Chunk
    <3>2. QED
      BY <3>1, FlattenType
  <2> HIDE DEF t, S
  <2>3. t \o <<>> = t
    BY <2>2, ConcatEmptySeq
  <2>4. QED
    BY <2>1, <2>3 DEF t
<1>5. ASSUME NEW i \in 1..N PROVE h[i] = Whole(h, i - 1)
  <2>1. /\ i \in 1..N + 1 /\ i # N + 1 /\ i \in 0..N
        /\ i # N => i + 1 \in 1..N /\ i + 1 - 1 = i
    BY <1>1
  <2>2. status[i] = "closed"
    <3>1. CASE i = N
      BY <3>1
    <3>2. CASE i # N
      <4>1. status[i + 1 - 1] = "closed"
        BY <1>2, <2>1, <3>2
      <4>2. QED
        BY <2>1, <3>2, <4>1
    <3>3. QED
      BY <3>1, <3>2
  <2>3. Mode(i) = "exact"
    BY <1>2, <2>1, <2>2 DEF Mode, Live, Stopped
  <2>4. Link(Took(h, i), Waiting(i), Whole(h, i - 1), Chunk(i - 1), Mode(i))
        /\ Took(h, i) \in Seq(Chunk(i - 1))
    BY <2>1, LinkOf
  <2>5. Took(h, i) = h[i] /\ Waiting(i) = <<>>
    <3>1. <<>> \o <<>> = <<>>
      OBVIOUS
    <3>2. QED
      BY <1>2, <2>1, <3>1 DEF Took, Waiting
  <2> DEFINE t == h[i]
             S == Chunk(i - 1)
  <2>6. t \in Seq(S) /\ t \o <<>> = Whole(h, i - 1)
    BY <2>3, <2>4, <2>5 DEF Link
  <2> HIDE DEF t, S
  <2>7. t \o <<>> = t
    BY <2>6, ConcatEmptySeq
  <2>8. QED
    BY <2>6, <2>7 DEF t
<1>6. QED
  BY <1>3, <1>4, <1>5

LEMMA WholeExact ==
  ASSUME Inv, BodyLines, NEW h, Flow(h), status[N] = "closed"
  PROVE  /\ Whole(h, 3) = Responses
         /\ N = 6 => Broken = {} /\ Whole(h, 6) = Documents
<1>1. /\ N \in {3, 6} /\ N \in Nat
      /\ 1 \in 1..N /\ 2 \in 1..N /\ 3 \in 1..N
      /\ stages[1] = "split" /\ stages[2] = "parse" /\ stages[3] = "unwrap"
      /\ N = 6 => /\ stages[4] = "decode" /\ stages[5] = "split"
                  /\ stages[6] = "parse"
                  /\ 4 \in 1..N /\ 5 \in 1..N /\ 6 \in 1..N
  BY FlowBasics, Chains
<1>2. FlattenSeq(h[0]) = served /\ \A i \in 1..N : h[i] = Whole(h, i - 1)
  BY AllTaken
<1>3. /\ 1 - 1 = 0 /\ 2 - 1 = 1 /\ 3 - 1 = 2 /\ 4 - 1 = 3 /\ 5 - 1 = 4
      /\ 6 - 1 = 5
  OBVIOUS
<1>4. h[1] = h[0] /\ h[2] = Whole(h, 1) /\ h[3] = Whole(h, 2)
      /\ (N = 6 => h[4] = Whole(h, 3) /\ h[5] = Whole(h, 4)
                   /\ h[6] = Whole(h, 5))
  <2>1. Whole(h, 0) = h[0]
    BY DEF Whole
  <2>2. /\ h[1] = Whole(h, 1 - 1) /\ h[2] = Whole(h, 2 - 1)
        /\ h[3] = Whole(h, 3 - 1)
    BY <1>1, <1>2
  <2>3. N = 6 => /\ h[4] = Whole(h, 4 - 1) /\ h[5] = Whole(h, 5 - 1)
                 /\ h[6] = Whole(h, 6 - 1)
    BY <1>1, <1>2
  <2>4. QED
    BY <1>3, <2>1, <2>2, <2>3
<1>5. \A i : i # 0 => Whole(h, i) = Made(stages[i], h[i])
  BY DEF Whole
<1>6. Whole(h, 1) = Lines
  BY <1>1, <1>2, <1>4, <1>5 DEF Made, Lines
<1>7. Whole(h, 2) = Made("parse", Lines)
  BY <1>1, <1>4, <1>5, <1>6
<1>8. Whole(h, 3) = Responses
  BY <1>1, <1>4, <1>5, <1>7, LinesUnwrapped
<1>9. ASSUME N = 6 PROVE Broken = {} /\ Whole(h, 6) = Documents
  <2>1. h[4] = Responses
    BY <1>4, <1>8, <1>9
  <2>2. Responses \in Seq(Response)
    <3>1. Taken(4) = Response
      BY DEF Taken
    <3>2. h[4] \in Seq(Taken(4))
      BY <1>1, <1>9, StageTook
    <3>3. QED
      BY <2>1, <3>1, <3>2
  <2>3. PICK k \in 0..Len(Lines) :
          /\ Wrapped = 1..k
          /\ \A n \in 1..Len(Lines) : n > k => Responses[n] = undefined
          /\ Broken = {} <=> k = Len(Lines)
    BY ResponsesWrapped
  <2>4. Len(Lines) \in Nat /\ Len(Responses) = Len(Lines)
    BY ServedParts, LinesUnwrapped DEF Inv
  <2>5. k = Len(Lines)
    <3>1. ASSUME k # Len(Lines) PROVE FALSE
      <4> DEFINE m == Len(Lines)
      <4>1. m \in 1..Len(Lines) /\ m > k
        BY <2>4, <3>1
      <4>2. Responses[m] = undefined
        BY <2>3, <4>1
      <4>3. Responses[m] \in Response
        BY <2>2, <2>4, <4>1, ElementOfSeq
      <4>4. QED
        BY <4>2, <4>3, TextAssumption DEF Nullish
    <3>2. QED
      BY <3>1
  <2>6. Readable = Responses
    <3>1. Responses \in [1..Len(Lines) -> Response]
      BY <2>2, <2>4, LenProperties
    <3>2. QED
      BY <2>3, <2>5, <3>1 DEF Readable
  <2>7. Whole(h, 4) = Made("decode", Readable)
    BY <1>1, <1>5, <1>9, <2>1, <2>6
  <2>8. Whole(h, 5) = Made("split", Made("decode", Readable))
    BY <1>1, <1>4, <1>5, <1>9, <2>7
  <2>9. Whole(h, 6) = Made("parse", Made("split", Made("decode", Readable)))
    BY <1>1, <1>4, <1>5, <1>9, <2>8
  <2>10. QED
    BY <1>9, <2>3, <2>5, <2>9, DocumentsMade
<1>10. QED
  BY <1>8, <1>9

(* What the reader gets, and what it is to get.                            *)
LEMMA ResultsExpected ==
  ASSUME Inv, BodyLines, NEW h, Flow(h)
  PROVE  /\ Begins(Whole(h, N), Expected, Chunk(N))
         /\ results \in Seq(Chunk(N)) /\ Begins(results, Whole(h, N), Chunk(N))
         /\ status[N] = "closed" => /\ Whole(h, N) = Expected
                                    /\ ReadsDocuments => Broken = {}
         /\ Expected \in Seq(Chunk(N))
<1>1. N \in {3, 6} /\ (ReadsDocuments <=> N = 6) /\ N \in Nat
  BY FlowBasics, Chains
<1>2. Begins(Whole(h, N), Expected, Chunk(N))
  BY <1>1, WholeBegins DEF Expected
<1>3. status[N] = "closed" => /\ Whole(h, N) = Expected
                              /\ ReadsDocuments => Broken = {}
  BY <1>1, WholeExact DEF Expected
<1>4. results \in Seq(Chunk(N)) /\ Begins(results, Whole(h, N), Chunk(N))
      /\ Whole(h, N) \in Seq(Chunk(N))
  BY <1>1, WholeType DEF Link
<1>5. Expected \in Seq(Chunk(N))
  BY <1>2, <1>4, ConcatProperties DEF Begins
<1>6. QED
  BY <1>2, <1>3, <1>4, <1>5

LEMMA InOrder ==
  ASSUME Inv, BodyLines, NEW h, Flow(h)
  PROVE  ResultsInOrder
<1> DEFINE S == Chunk(N)
           w == Whole(h, N)
<1>1. /\ Begins(w, Expected, S) /\ results \in Seq(S) /\ Begins(results, w, S)
      /\ Expected \in Seq(S)
  BY ResultsExpected
<1> HIDE DEF S, w
<1>2. Begins(results, Expected, S)
  BY <1>1, BeginsTransitive
<1>3. IsPrefix(results, Expected)
  BY <1>1, <1>2, BeginsPointwise
<1>4. QED
  BY <1>3 DEF ResultsInOrder

LEMMA ResolvedAll ==
  ASSUME Inv, BodyLines, NEW h, Flow(h)
  PROVE  ResolvedMeansAll
<1> SUFFICES ASSUME consumer = "resolved" PROVE ResolvedMeansAll
  BY DEF ResolvedMeansAll
<1>1. CASE status[N] = "closed" /\ results = Whole(h, N)
  <2>1. status[0] = "closed" /\ results = Expected
        /\ (ReadsDocuments => Broken = {})
    BY <1>1, AllTaken, ResultsExpected
  <2>2. QED
    BY <2>1 DEF ResolvedMeansAll
<1>2. ASSUME NEW value \in Falsy \cap Chunk(N),
             Begins(Append(results, value), Whole(h, N), Chunk(N))
      PROVE  ResolvedMeansAll
  <2> DEFINE S == Chunk(N)
             w == Whole(h, N)
             t == Append(results, value)
             n == Len(results)
             m == n + 1
  <2>1. /\ Begins(w, Expected, S) /\ results \in Seq(S) /\ Expected \in Seq(S)
        /\ Begins(t, w, S) /\ value \in S
    BY <1>2, ResultsExpected
  <2> HIDE DEF S, w
  <2>2. t \in Seq(S) /\ n \in Nat /\ Len(t) = m /\ t[m] = value
    BY <2>1, AppendProperties
  <2> HIDE DEF t
  <2>3. Begins(t, Expected, S)
    BY <2>1, <2>2, BeginsTransitive
  <2>4. Len(t) <= Len(Expected) /\ \A i \in 1..Len(t) : t[i] = Expected[i]
    BY <2>1, <2>2, <2>3, BeginsPointwise
  <2>5. Len(Expected) \in Nat
    BY <2>1, LenProperties
  <2> HIDE DEF n
  <2>6. m \in 1..Len(t) /\ n < Len(Expected)
    BY <2>2, <2>4, <2>5
  <2>7. Expected[m] = value
    BY <2>2, <2>4, <2>6
  <2>8. Len(results) < Len(Expected) /\ Expected[Len(results) + 1] \in Falsy
    BY <2>6, <2>7 DEF n
  <2>9. QED
    BY <2>8 DEF ResolvedMeansAll
<1>3. QED
  BY <1>1, <1>2 DEF Flow, Settled

-----------------------------------------------------------------------------
(* Why a read fails.                                                       *)

(* unwrapResult fails only for the failure of the body, decodeContent also *)
(* for a failure line.                                                     *)
Failures ==
  \A i \in 1..N : stages[i] \in Throwing /\ status[i] = "errored" =>
    status[0] = "errored" \/ (stages[i] = "decode" /\ Broken # {})

(* Where the stages stand that can throw.                                  *)
LEMMA ThrowingStages ==
  ASSUME stages \in Pipelines, NEW i \in 1..N, stages[i] \in Throwing
  PROVE  \/ i = 3 /\ stages[i] = "unwrap"
         \/ i = 4 /\ stages[i] = "decode"
<1>1. CASE stages[i] = "decode"
  BY <1>1, DecodeFourth
<1>2. CASE stages[i] = "unwrap"
  <2>1. /\ N \in {3, 6} /\ stages[1] = "split" /\ stages[2] = "parse"
        /\ N = 6 => stages[4] = "decode" /\ stages[5] = "split"
                    /\ stages[6] = "parse"
    BY Chains
  <2>2. i \in 1..2 => FALSE
    BY <1>2, <2>1
  <2>3. i \in 4..6 /\ N = 6 => FALSE
    BY <1>2, <2>1
  <2>4. QED
    BY <1>2, <2>1, <2>2, <2>3
<1>3. QED
  BY <1>1, <1>2 DEF Throwing

(* Only decodeContent does: what unwrapResult takes is a line.             *)
LEMMA DecodeThrows ==
  ASSUME Inv, NEW h, Flow(h), NEW i \in 1..N, TransformThrows(i)
  PROVE  /\ stages[i] = "decode" /\ status[i] = "open" /\ in[i] # <<>>
         /\ Head(in[i]) = undefined
<1>1. /\ stages[i] \in Throwing /\ status[i] = "open" /\ in[i] # <<>>
      /\ Head(in[i]) \in Nullish
  BY DEF TransformThrows, Runs
<1>2. stages \in Pipelines
  BY FlowBasics
<1>3. Head(in[i]) \in Chunk(i - 1)
  BY <1>1, OneChunk
<1>4. CASE i = 3 /\ stages[i] = "unwrap"
  <2>1. Chunk(i - 1) = Line
    BY <1>4 DEF Chunk
  <2>2. QED
    BY <1>1, <1>3, <2>1, TextAssumption
<1>5. CASE i = 4 /\ stages[i] = "decode"
  <2>1. Chunk(i - 1) = Response \cup {undefined}
    BY <1>5 DEF Chunk
  <2>2. QED
    BY <1>1, <1>3, <1>5, <2>1, TextAssumption
<1>6. QED
  BY <1>1, <1>2, <1>4, <1>5, ThrowingStages

LEMMA BrokenKept ==
  ASSUME TypeOK, [Next]_vars, Broken # {}
  PROVE  Broken' # {}
<1>1. ASSUME UNCHANGED served PROVE Broken' = Broken
  BY <1>1 DEF Broken, Wrapped, Lines
<1>2. PICK n \in DOMAIN Lines : ~ ("result" \in DOMAIN Lines[n][1])
  BY DEF Broken, Wrapped
<1>3. ASSUME NEW token \in Line \cup {nl}, served' = Append(served, token)
      PROVE  Broken' # {}
  <2>1. Lines' = Lines \/ Lines' = Append(Lines, Cut(served).rest)
    BY <1>3, ServedLonger
  <2>2. n \in DOMAIN Lines' /\ Lines'[n] = Lines[n]
    <3>1. CASE Lines' = Lines
      BY <3>1
    <3>2. CASE Lines' = Append(Lines, Cut(served).rest)
      <4> DEFINE S == Seq(Line \cup {nl})
                 s == Lines
                 r == Cut(served).rest
                 t == Append(s, r)
      <4>1. s \in Seq(S) /\ r \in S
        BY ServedParts
      <4> HIDE DEF S, s, r
      <4>2. /\ t \in Seq(S) /\ Len(t) = Len(s) + 1 /\ Len(s) \in Nat
            /\ DOMAIN s = 1..Len(s)
            /\ \A k \in 1..Len(s) : t[k] = s[k]
        BY <4>1, AppendProperties, LenProperties
      <4> HIDE DEF t
      <4>3. DOMAIN t = 1..Len(t)
        BY <4>2, LenProperties
      <4>4. n \in DOMAIN s
        BY DEF s
      <4>5. n \in DOMAIN t /\ t[n] = s[n]
        BY <4>2, <4>3, <4>4
      <4>6. Lines' = t /\ s = Lines
        BY <3>2 DEF t, s, r
      <4>7. QED
        BY <4>5, <4>6
    <3>3. QED
      BY <2>1, <3>1, <3>2
  <2>3. n \in Broken'
    BY <1>2, <2>2 DEF Broken, Wrapped
  <2>4. QED
    BY <2>3
<1>4. \/ UNCHANGED served
      \/ \E token \in Line \cup {nl} : served' = Append(served, token)
  BY DEF Next, Network, Runtime, Transform, WriteLine, WriteNewline, Finish,
     BodyBreaks, Receive, BodyEnds, Split, Parse, Unwrap, Decode,
     TransformThrows, Enqueue, Pipe, Flush, Abort, Cancel, PumpValue, PumpDone,
     PumpFails, vars
<1>5. QED
  BY <1>1, <1>3, <1>4

(* The body remains broken, and only two kinds of steps make an error of a *)
(* stage.                                                                  *)
LEMMA ErrorSteps ==
  ASSUME Inv, [Next]_vars
  PROVE  /\ status[0] = "errored" => status'[0] = "errored"
         /\ \A i \in 1..N : status'[i] = "errored" =>
              status[i] = "errored" \/ TransformThrows(i) \/ Abort(i)
<1>1. N \in Nat /\ 0 \in 0..N /\ \A i \in 1..N : i \in 0..N /\ i # 0
      /\ i - 1 \in 0..N
  BY FlowBasics
<1>2. status \in [0..N -> {"open", "closed", "errored", "canceled"}]
  BY FlowBasics
<1> DEFINE Goal ==
      /\ status[0] = "errored" => status'[0] = "errored"
      /\ \A i \in 1..N : status'[i] = "errored" =>
           status[i] = "errored" \/ TransformThrows(i) \/ Abort(i)
<1>3. ASSUME NEW k \in 1..N, Transform(k) PROVE Goal
  <2>1. CASE TransformThrows(k)
    <3>1. status' = [status EXCEPT ![k] = "errored"]
      BY <2>1 DEF TransformThrows
    <3>2. \A i \in 0..N : i # k => status'[i] = status[i]
      BY <1>2, <3>1
    <3> HIDE DEF TransformThrows
    <3>3. QED
      BY <1>1, <2>1, <3>2
  <2>2. CASE ~ TransformThrows(k)
    <3>1. UNCHANGED status
      BY <1>3, <2>2 DEF Transform, Split, Parse, Unwrap, Decode, Enqueue
    <3>2. QED
      BY <3>1
  <2>3. QED
    BY <2>1, <2>2
<1>4. ASSUME NEW k \in 1..N, Pipe(k) \/ Flush(k) PROVE Goal
  <2>1. UNCHANGED status
        \/ status' = [status EXCEPT ![k] = "closed"]
    BY <1>4 DEF Pipe, Flush
  <2>2. \A i \in 0..N :
          status'[i] = status[i] \/ (i = k /\ status'[i] = "closed")
    BY <1>2, <2>1
  <2>3. QED
    BY <1>1, <2>2
<1>5. ASSUME NEW k \in 1..N, Abort(k) PROVE Goal
  <2>1. status' = [status EXCEPT ![k] = "errored"]
    BY <1>5 DEF Abort
  <2>2. \A i \in 0..N : i # k => status'[i] = status[i]
    BY <1>2, <2>1
  <2>3. QED
    BY <1>1, <1>5, <2>2
<1>6. ASSUME NEW k \in 1..N, Cancel(k) PROVE Goal
  <2>1. status' = [status EXCEPT ![k - 1] = "canceled"]
        /\ status[k - 1] # "errored"
    BY <1>6 DEF Cancel
  <2>2. \A i \in 0..N :
          status'[i] = status[i] \/ (i = k - 1 /\ status'[i] = "canceled")
    BY <1>1, <1>2, <2>1
  <2>3. QED
    BY <1>1, <2>1, <2>2
<1>7. ASSUME BodyBreaks \/ BodyEnds PROVE Goal
  <2>1. status[0] = "open" /\ \A i \in 0..N : i # 0 => status'[i] = status[i]
    BY <1>2, <1>7 DEF BodyBreaks, BodyEnds
  <2>2. QED
    BY <1>1, <2>1
<1>8. ASSUME UNCHANGED status PROVE Goal
  BY <1>8
<1>9. Goal
  <2> HIDE DEF Goal
  <2>1. \/ UNCHANGED status \/ BodyBreaks \/ BodyEnds
        \/ \E k \in 1..N :
             Transform(k) \/ Pipe(k) \/ Flush(k) \/ Abort(k) \/ Cancel(k)
    BY DEF Next, Network, Runtime, WriteLine, WriteNewline, Finish, Receive,
       PumpValue, PumpDone, PumpFails, vars
  <2>2. QED
    BY <1>3, <1>4, <1>5, <1>6, <1>7, <1>8, <2>1
<1>10. QED
  BY <1>9

(* It meets what is undefined only at a failure line.                      *)
LEMMA ThrowsAtFailure ==
  ASSUME Inv, BodyLines, NEW h, Flow(h), NEW i \in 1..N, TransformThrows(i)
  PROVE  Broken # {}
<1>1. /\ stages[i] = "decode" /\ status[i] = "open" /\ in[i] # <<>>
      /\ Head(in[i]) = undefined
  BY DecodeThrows
<1>2. i = 4 /\ N = 6
  BY <1>1, FlowBasics, DecodeFourth
<1>3. 4 \in 1..N /\ 4 \in 1..N + 1 /\ 4 # N + 1 /\ 3 \in 0..N /\ 4 - 1 = 3
  BY <1>2
<1> DEFINE t == h[4]
           S == Chunk(3)
           w == Whole(h, 3)
           m == Mode(4)
           q == out[3]
<1>4. in[4] = <<undefined>> /\ undefined \in S
  <2>1. in[i] = <<Head(in[i])>> /\ Head(in[i]) \in Chunk(i - 1)
    BY <1>1, OneChunk
  <2>2. QED
    BY <1>1, <1>2, <1>3, <2>1
<1>5. Link(t, <<undefined>> \o q, w, S, m) /\ q \in Seq(S)
  <2>1. Link(Took(h, 4), Waiting(4), Whole(h, 4 - 1), Chunk(4 - 1), Mode(4))
    BY <1>3, LinkOf
  <2>2. Took(h, 4) = h[4] /\ Waiting(4) = in[4] \o out[3]
    BY <1>3 DEF Took, Waiting
  <2>3. out[3] \in Seq(Chunk(3))
    BY <1>3, QueuesTyped
  <2>4. QED
    BY <1>3, <1>4, <2>1, <2>2, <2>3
<1>6. m # "stopped"
  BY <1>1, <1>2, <1>3 DEF Mode, Live, Stopped
<1>7. Begins(w, Responses, S) /\ Responses \in Seq(S)
      /\ Len(Responses) = Len(Lines)
  BY WholeBegins, LinesUnwrapped
<1> HIDE DEF t, S, w, m, q
<1>8. Link(Append(t, undefined), q, w, S, m)
  BY <1>4, <1>5, <1>6, LinkTake
<1> DEFINE u == Append(t, undefined)
           n == Len(t)
           k == n + 1
<1>9. u \in Seq(S) /\ Begins(u, w, S) /\ t \in Seq(S)
  BY <1>5, <1>8 DEF Link
<1>10. n \in Nat /\ Len(u) = k /\ u[k] = undefined
  BY <1>4, <1>9, AppendProperties
<1> HIDE DEF u, n
<1>11. Begins(u, Responses, S)
  BY <1>7, <1>9, BeginsTransitive
<1>12. Len(u) <= Len(Responses) /\ \A j \in 1..Len(u) : u[j] = Responses[j]
  BY <1>7, <1>9, <1>11, BeginsPointwise
<1>13. Len(Lines) \in Nat
  BY ServedParts DEF Inv
<1>14. k \in 1..Len(Lines) /\ Responses[k] = undefined
  BY <1>7, <1>10, <1>12, <1>13
<1>15. PICK good \in 0..Len(Lines) :
         /\ \A j \in 1..good : Responses[j] \in Response
         /\ \A j \in 1..Len(Lines) : j > good => j \in Broken
  BY ResponsesWrapped
<1>16. ~ (k \in 1..good)
  BY <1>14, <1>15, TextAssumption DEF Nullish
<1>17. k > good
  BY <1>13, <1>14, <1>16
<1>18. QED
  BY <1>14, <1>15, <1>17

LEMMA FailuresNext ==
  ASSUME Inv, BodyLines, Failures, NEW h, Flow(h), [Next]_vars
  PROVE  Failures'
<1>1. UNCHANGED stages
  BY DEF Next, Network, Runtime, Transform, WriteLine, WriteNewline, Finish,
     BodyBreaks, Receive, BodyEnds, Split, Parse, Unwrap, Decode,
     TransformThrows, Enqueue, Pipe, Flush, Abort, Cancel, PumpValue, PumpDone,
     PumpFails, vars
<1>2. N' = N
  BY <1>1 DEF N
<1>3. ASSUME NEW i \in 1..N, stages[i] \in Throwing, status'[i] = "errored"
      PROVE  status'[0] = "errored" \/ (stages[i] = "decode" /\ Broken' # {})
  <2>1. status[0] = "errored" => status'[0] = "errored"
    BY ErrorSteps
  <2>2. Broken # {} => Broken' # {}
    BY BrokenKept DEF Inv
  <2>3. CASE status[i] = "errored"
    BY <1>3, <2>1, <2>2, <2>3 DEF Failures
  <2>4. CASE TransformThrows(i)
    BY <2>2, <2>4, DecodeThrows, ThrowsAtFailure
  <2>5. CASE Abort(i)
    <3>1. i \in 3..4 /\ i - 1 \in 0..N /\ stages \in Pipelines
      BY <1>3, FlowBasics, ThrowingStages
    <3>2. status[i - 1] = "errored"
      BY <2>5 DEF Abort
    <3>3. \/ status[0] = "errored"
          \/ \E j \in 1..i - 1 :
               stages[j] \in Throwing /\ status[j] = "errored"
      BY <3>1, <3>2 DEF Inv, ErrorsCaused
    <3>4. ASSUME NEW j \in 1..i - 1,
                 stages[j] \in Throwing, status[j] = "errored"
          PROVE  status[0] = "errored"
      <4>1. j \in 1..N /\ j # 4
        <5>1. N \in Nat /\ i \in Nat /\ j \in Nat /\ i <= N
          BY FlowBasics
        <5>2. QED
          BY <3>1, <5>1
      <4>2. stages[j] = "unwrap"
        BY <3>1, <3>4, <4>1, ThrowingStages
      <4>3. QED
        BY <3>4, <4>1, <4>2 DEF Failures
    <3>5. QED
      BY <2>1, <3>3, <3>4
  <2>6. QED
    BY <1>3, <2>3, <2>4, <2>5, ErrorSteps
<1>4. QED
  BY <1>1, <1>2, <1>3 DEF Failures

LEMMA RejectedFailure ==
  ASSUME Inv, Failures
  PROVE  RejectedMeansFailure
<1> SUFFICES ASSUME consumer = "rejected" PROVE RejectedMeansFailure
  BY DEF RejectedMeansFailure
<1>1. N \in 0..N /\ stages \in Pipelines
  BY FlowBasics
<1>2. status[N] = "errored"
  BY DEF Inv, ErrorsCaused
<1>3. status[0] = "errored"
        \/ \E j \in 1..N :
             stages[j] \in Throwing /\ status[j] = "errored"
  BY <1>1, <1>2 DEF Inv, ErrorsCaused
<1>4. ASSUME NEW j \in 1..N, stages[j] \in Throwing, status[j] = "errored"
      PROVE  RejectedMeansFailure
  <2>1. status[0] = "errored" \/ (stages[j] = "decode" /\ Broken # {})
    BY <1>4 DEF Failures
  <2>2. stages[j] = "decode" => ReadsDocuments
    BY <1>1, DecodeFourth, Chains
  <2>3. QED
    BY <2>1, <2>2 DEF RejectedMeansFailure
<1>5. QED
  BY <1>3, <1>4 DEF RejectedMeansFailure

-----------------------------------------------------------------------------
(* The inductive invariant of the data.                                    *)
DataInv == Inv /\ BodyLines /\ Failures /\ \E h : Flow(h)

(* However the body is cut into chunks, delayed or broken: the queues, the *)
(* buffers of splitStream and the results hold between them what the body  *)
(* has handed over, in order and once (streams.ts:3-88).                   *)
THEOREM DataCorrect == Spec => []DataInv
<1>1. Init => DataInv
  <2>1. Init => Failures
    <3>1. ASSUME Init PROVE Failures
      <4>1. \A i \in 1..N : i \in 0..N
        BY <3>1, InvInit, FlowBasics
      <4>2. QED
        BY <3>1, <4>1 DEF Init, Failures
    <3>2. QED
      BY <3>1
  <2>2. QED
    BY <2>1, InvInit, BodyLinesInit, FlowInit DEF DataInv
<1>2. DataInv /\ [Next]_vars => DataInv'
  <2> SUFFICES ASSUME DataInv, [Next]_vars PROVE DataInv'
    OBVIOUS
  <2>1. PICK h : Flow(h)
    BY DEF DataInv
  <2>2. Inv /\ BodyLines /\ Failures /\ TypeOK
    BY DEF DataInv, Inv
  <2>3. Inv'
    BY <2>2, InvNext
  <2>4. BodyLines'
    BY <2>2, BodyLinesNext
  <2>5. Failures'
    BY <2>1, <2>2, FailuresNext
  <2>6. \E g : Flow(g)'
    BY <2>1, <2>2, FlowNext
  <2>7. QED
    BY <2>3, <2>4, <2>5, <2>6 DEF DataInv
<1>3. QED
  BY <1>1, <1>2, PTL DEF Spec

(* The results begin the responses of the body, or its documents, in order *)
(* and with none left out (journal_client.ts:53 and :72).                  *)
THEOREM ResultsCorrect == Spec => []ResultsInOrder
<1>1. DataInv => ResultsInOrder
  BY InOrder DEF DataInv
<1>2. QED
  BY <1>1, DataCorrect, PTL

(* readStreamToEnd resolves with all that the body holds, or before a      *)
(* value that counts for false (streams.ts:84).                            *)
THEOREM ResolvedCorrect == Spec => []ResolvedMeansAll
<1>1. DataInv => ResolvedMeansAll
  BY ResolvedAll DEF DataInv
<1>2. QED
  BY <1>1, DataCorrect, PTL

(* It rejects only for a body that broke or for a failure line that        *)
(* decodeContent cannot take (streams.ts:56).                              *)
THEOREM RejectedCorrect == Spec => []RejectedMeansFailure
<1>1. DataInv => RejectedMeansFailure
  BY RejectedFailure DEF DataInv
<1>2. QED
  BY <1>1, DataCorrect, PTL
================================================================================
