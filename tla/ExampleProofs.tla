---------------------------- MODULE ExampleProofs ---------------------------
(***************************************************************************)
(* Proofs about the signed view and the arena of the example guests.       *)
(***************************************************************************)
EXTENDS ProgramExamples, SequenceTheorems, Induction

(* A sequence whose elements are in a set is a sequence over it.           *)
LEMMA SequenceOver ==
    ASSUME NEW S, NEW s, IsSequence(s), \A i \in 1..Len(s) : s[i] \in S
    PROVE  s \in Seq(S)
<1>1. s \in [1..Len(s) -> S] /\ Len(s) \in Nat
    BY DEF IsSequence
<1> QED
    BY <1>1, SeqDef

(* The length of a concatenation.                                         *)
LEMMA Concat ==
    ASSUME NEW S, NEW s \in Seq(S), NEW t \in Seq(S)
    PROVE  s \o t \in Seq(S) /\ Len(s \o t) = Len(s) + Len(t) /\ Len(s) \in Nat /\ Len(t) \in Nat
BY ConcatProperties, LenProperties

(* A little-endian number has one cell for each byte of its width.         *)
LEMMA LittleEndianType ==
    ASSUME NEW n \in Nat, NEW width \in Nat
    PROVE  LittleEndian(n, width) \in Seq(Nat) /\ Len(LittleEndian(n, width)) = width
<1> DEFINE le == LittleEndian(n, width)
<1>1. n % 256 \in Nat /\ (n \div 256) % 256 \in Nat /\ (n \div 65536) % 256 \in Nat
    OBVIOUS
<1>2. le \in [1..width -> Nat]
    BY <1>1 DEF LittleEndian
<1> HIDE DEF le
<1>3. le \in Seq(Nat) /\ Len(le) = width
    BY <1>2
<1> QED
    BY <1>3 DEF le

(* Division by a byte's range.                                             *)
LEMMA Digit ==
    ASSUME NEW n \in Nat, NEW q \in Nat, NEW r \in Nat, q = n \div 256, r = n % 256
    PROVE  n = 256 * q + r /\ r < 256
BY SMT

(* The three lower bytes of a number below NumberRange are the number.     *)
LEMMA ThreeDigits ==
    ASSUME NEW n \in Nat, n < NumberRange
    PROVE  n = (n % 256) + 256 * ((n \div 256) % 256) + 65536 * ((n \div 65536) % 256)
<1> DEFINE q == n \div 256
           r == n % 256
           m == n \div 65536
           s == q % 256
<1>1. q \in Nat /\ r \in Nat /\ m \in Nat /\ s \in Nat /\ m = q \div 256
    BY SMT
<1>2. m < 256
    BY SMT DEF NumberRange
<1>3. m % 256 = m
    BY <1>1, <1>2, SMT
<1>4. n = 256 * q + r
    BY <1>1, Digit, SMT
<1> HIDE DEF r, m
<1>5. q = 256 * m + s
  <2> HIDE DEF q
  <2> QED
      BY <1>1, Digit, SMT
<1>6. n = r + 256 * s + 65536 * m
  <2> HIDE DEF q, s
  <2> QED
      BY <1>1, <1>4, <1>5, SMT
<1> QED
    BY <1>3, <1>6, SMT DEF r, m

-----------------------------------------------------------------------------
(* FlattenSeq concatenates one sequence after the other.                   *)
LEMMA FlattenUnfolds ==
    ASSUME NEW S, NEW seqs \in Seq(Seq(S))
    PROVE  \E flat \in [0..Len(seqs) -> Seq(S)] :
              /\ flat[0] = <<>>
              /\ \A k \in 1..Len(seqs) : flat[k] = flat[k - 1] \o seqs[k]
              /\ FlattenSeq(seqs) = flat[Len(seqs)]
<1> DEFINE n == Len(seqs)
           Q == Seq(S)
           F == [t \in (1..n) \X Q |-> t[2] \o seqs[t[1]]]
           Step(h) == [i \in 1..Len(seqs) |-> IF i = 1 THEN seqs[i] ELSE h[i - 1] \o seqs[i]]
           C == CHOOSE h : h = Step(h)
<1>1. \A k \in 1..n : seqs[k] \in Q
    OBVIOUS
<1>2. StepFunction(F, n, Q) /\ n \in Nat /\ <<>> \in Q
  <2>1. ASSUME NEW t \in (1..n) \X Q
        PROVE  t[2] \o seqs[t[1]] \in Q
      BY <1>1
  <2> QED
      BY <2>1 DEF StepFunction
<1>3. PICK g : Iterates(g, F, n, Q, <<>>)
  <2> HIDE DEF F, n, Q
  <2> QED
      BY <1>2, FiniteRecursion
<1>4. g \in [0..n -> Q] /\ g[0] = <<>>
    BY <1>3 DEF Iterates
<1>5. ASSUME NEW k \in 1..n
      PROVE  g[k] = g[k - 1] \o seqs[k]
  <2>1. g[k - 1] \in Q
    <3>1. k - 1 \in 0..n
        OBVIOUS
    <3> HIDE DEF n, Q
    <3> QED
        BY <1>4, <3>1
  <2>2. F[<<k, g[k - 1]>>] = g[k - 1] \o seqs[k]
    <3> HIDE DEF n, Q
    <3> QED
        BY <2>1
  <2> QED
      BY <1>3, <2>2 DEF Iterates
<1>6. n > 0 => g[1] = seqs[1]
  <2> SUFFICES ASSUME n > 0 PROVE g[1] = seqs[1]
      OBVIOUS
  <2>1. 1 \in 1..n /\ 1 - 1 = 0
      BY <1>2
  <2>2. g[1] = g[0] \o seqs[1]
      BY <1>5, <2>1
  <2>3. seqs[1] \in Seq(S)
      BY <1>1, <2>1
  <2>4. <<>> \o seqs[1] = seqs[1]
      BY <2>3, ConcatEmptySeq
  <2> QED
      BY <1>4, <2>2, <2>4
<1>7. ASSUME n > 0
      PROVE  C = Step(C)
  <2> DEFINE h == [i \in 1..n |-> g[i]]
  <2>1. ASSUME NEW i \in 1..n
        PROVE  h[i] = IF i = 1 THEN seqs[i] ELSE h[i - 1] \o seqs[i]
    <3>1. CASE i = 1
        BY <1>6, <3>1
    <3>2. CASE i # 1
      <4>1. i - 1 \in 1..n
          BY <1>2, <3>2
      <4> QED
          BY <1>5, <3>2, <4>1
    <3> QED
        BY <3>1, <3>2
  <2>2. h = Step(h)
      BY <2>1
  <2> HIDE DEF Step, h
  <2> QED
      BY <2>2
<1> HIDE DEF C
<1>8. ASSUME n > 0
      PROVE  C[n] = g[n]
  <2> DEFINE same == [i \in 0..n |-> IF i = 0 \/ C[i] = g[i] THEN 1 ELSE 0]
             One == {1}
  <2>1. same[0] \in One
      BY <1>2
  <2>2. ASSUME NEW k \in 1..n, same[k - 1] \in One
        PROVE  same[k] \in One
    <3>1. C[k] = IF k = 1 THEN seqs[k] ELSE C[k - 1] \o seqs[k]
        BY <1>7, <1>8
    <3>2. g[k] = g[k - 1] \o seqs[k]
        BY <1>5
    <3>3. k - 1 \in 0..n /\ k \in 0..n
        OBVIOUS
    <3>4. CASE k = 1
        BY <1>6, <3>1, <3>3, <3>4
    <3>5. CASE k # 1
      <4>1. C[k - 1] = g[k - 1]
          BY <2>2, <3>3, <3>5
      <4>2. C[k] = g[k]
          BY <3>1, <3>2, <3>5, <4>1
      <4> QED
          BY <3>3, <4>2
    <3> QED
        BY <3>4, <3>5
  <2>3. same[n] \in One
    <3>1. n \in 0..n
        BY <1>2
    <3> HIDE DEF same, One, n
    <3> QED
        BY <1>2, <2>1, <2>2, <3>1, PrefixInduction
  <2> QED
      BY <1>2, <1>8, <2>3
<1>9. FlattenSeq(seqs) = g[n]
  <2>1. CASE n = 0
    <3>1. FlattenSeq(seqs) = seqs /\ seqs = <<>>
        BY <2>1 DEF FlattenSeq
    <3> QED
        BY <1>4, <2>1, <3>1
  <2>2. CASE n > 0
    <3>1. FlattenSeq(seqs) = C[n]
        BY <2>2 DEF FlattenSeq, C
    <3> QED
        BY <1>8, <2>2, <3>1
  <2> QED
      BY <1>2, <2>1, <2>2
<1> HIDE DEF F, Step
<1> QED
    BY <1>4, <1>5, <1>9

(* A list of one sequence is flattened to that sequence.                   *)
LEMMA FlattenOne ==
    ASSUME NEW S, NEW seqs \in Seq(Seq(S)), Len(seqs) = 1
    PROVE  FlattenSeq(seqs) = seqs[1]
<1>1. PICK flat \in [0..Len(seqs) -> Seq(S)] :
         /\ flat[0] = <<>>
         /\ \A k \in 1..Len(seqs) : flat[k] = flat[k - 1] \o seqs[k]
         /\ FlattenSeq(seqs) = flat[Len(seqs)]
    BY FlattenUnfolds
<1>2. 1 \in 1..Len(seqs) /\ 1 - 1 = 0
    OBVIOUS
<1>3. flat[1] = flat[0] \o seqs[1] /\ seqs[1] \in Seq(S)
  <2>1. flat[1] = flat[1 - 1] \o seqs[1]
      BY <1>1, <1>2, Zenon
  <2>2. seqs[1] \in Seq(S)
    <3> DEFINE Q == Seq(S)
    <3>1. seqs \in Seq(Q)
        OBVIOUS
    <3> HIDE DEF Q
    <3>2. seqs[1] \in Q
        BY <1>2, <3>1, ElementOfSeq
    <3> QED
        BY <3>2 DEF Q
  <2> QED
      BY <1>2, <2>1, <2>2
<1>4. <<>> \o seqs[1] = seqs[1]
    BY <1>3, ConcatEmptySeq
<1> QED
    BY <1>1, <1>3, <1>4

(* ScriptedSize adds one item after the other.                             *)
LEMMA ScriptedUnfolds ==
    ASSUME NEW fixed \in Nat, NEW items, Len(items) \in Nat,
           \A k \in 1..Len(items) : Len(items[k].script) \in Nat
    PROVE  \E size \in [0..Len(items) -> Nat] :
              /\ size[0] = 0
              /\ \A k \in 1..Len(items) : size[k] = size[k - 1] + fixed + Len(items[k].script)
              /\ ScriptedSize(fixed, items) = size[Len(items)]
<1> DEFINE n == Len(items)
           length(k) == Len(items[k].script)
           F == [t \in (1..n) \X Nat |-> t[2] + fixed + Len(items[t[1]].script)]
           Step(h) == [k \in 0..Len(items) |->
                          IF k = 0 THEN 0 ELSE h[k - 1] + fixed + Len(items[k].script)]
           C == CHOOSE h : h = Step(h)
<1>1. n \in Nat /\ \A k \in 1..n : length(k) \in Nat
    OBVIOUS
<1>2. StepFunction(F, n, Nat)
  <2>1. ASSUME NEW t \in (1..n) \X Nat
        PROVE  t[2] + fixed + Len(items[t[1]].script) \in Nat
      OBVIOUS
  <2> QED
      BY <2>1 DEF StepFunction
<1>3. PICK g : Iterates(g, F, n, Nat, 0)
  <2> HIDE DEF F, n
  <2> QED
      BY <1>1, <1>2, FiniteRecursion
<1>4. g \in [0..n -> Nat] /\ g[0] = 0
    BY <1>3 DEF Iterates
<1>5. ASSUME NEW k \in 1..n
      PROVE  g[k] = g[k - 1] + fixed + length(k) /\ g[k - 1] \in Nat
  <2>1. g[k - 1] \in Nat
    <3>1. k - 1 \in 0..n
        OBVIOUS
    <3> HIDE DEF n
    <3> QED
        BY <1>4, <3>1
  <2>2. F[<<k, g[k - 1]>>] = g[k - 1] + fixed + length(k)
    <3> HIDE DEF n
    <3> QED
        BY <2>1
  <2> QED
      BY <1>3, <2>1, <2>2 DEF Iterates
<1>6. C = Step(C)
  <2>1. g = Step(g)
      BY <1>4, <1>5
  <2> HIDE DEF Step
  <2> QED
      BY <2>1
<1> HIDE DEF C
<1>7. C \in [0..n -> Nat] /\ C[0] = 0
  <2>1. C[0] = 0
      BY <1>6
  <2>2. ASSUME NEW k \in 1..n, C[k - 1] \in Nat
        PROVE  C[k] \in Nat
    <3>1. C[k] = C[k - 1] + fixed + length(k)
        BY <1>6
    <3> QED
        BY <1>1, <2>2, <3>1
  <2>3. \A k \in 0..n : C[k] \in Nat
    <3> DEFINE N == Nat
    <3>1. C[0] \in N /\ n \in Nat
        BY <1>1, <2>1
    <3>2. \A k \in 1..n : C[k - 1] \in N => C[k] \in N
        BY <2>2
    <3>3. \A k \in 0..n : C[k] \in N
      <4> HIDE DEF N, n
      <4> QED
          BY <3>1, <3>2, PrefixInduction
    <3> QED
        BY <3>3
  <2>4. C = [k \in 0..n |-> C[k]]
    <3>1. Step(C) = [k \in 0..n |-> Step(C)[k]]
        OBVIOUS
    <3> HIDE DEF Step
    <3> QED
        BY <1>6, <3>1
  <2> HIDE DEF Step
  <2> QED
      BY <2>1, <2>3, <2>4
<1>8. ASSUME NEW k \in 1..n
      PROVE  C[k] = C[k - 1] + fixed + length(k)
    BY <1>6
<1>9. ScriptedSize(fixed, items) = C[n]
    BY DEF ScriptedSize, C
<1> HIDE DEF F, Step
<1> QED
    BY <1>7, <1>8, <1>9

(* Sequences that are a fixed part and a script each have together the     *)
(* size that was computed for them, at least one byte each.                *)
LEMMA FlattenSize ==
    ASSUME NEW S, NEW fixed \in Nat, fixed > 0, NEW items, NEW seqs \in Seq(Seq(S)),
           Len(items) = Len(seqs),
           \A k \in 1..Len(seqs) : /\ Len(items[k].script) \in Nat
                                   /\ Len(seqs[k]) = fixed + Len(items[k].script)
    PROVE  /\ FlattenSeq(seqs) \in Seq(S)
           /\ Len(FlattenSeq(seqs)) = ScriptedSize(fixed, items)
           /\ Len(seqs) <= ScriptedSize(fixed, items)
<1> DEFINE n == Len(seqs)
<1>1. n \in Nat /\ \A k \in 1..n : seqs[k] \in Seq(S)
    OBVIOUS
<1>2. PICK flat \in [0..n -> Seq(S)] :
         /\ flat[0] = <<>>
         /\ \A k \in 1..n : flat[k] = flat[k - 1] \o seqs[k]
         /\ FlattenSeq(seqs) = flat[n]
    BY FlattenUnfolds
<1>3. PICK size \in [0..n -> Nat] :
         /\ size[0] = 0
         /\ \A k \in 1..n : size[k] = size[k - 1] + fixed + Len(items[k].script)
         /\ ScriptedSize(fixed, items) = size[n]
  <2>1. Len(items) = n /\ n \in Nat /\ \A k \in 1..n : Len(items[k].script) \in Nat
      BY <1>1
  <2>2. \E size \in [0..Len(items) -> Nat] :
           /\ size[0] = 0
           /\ \A k \in 1..Len(items) : size[k] = size[k - 1] + fixed + Len(items[k].script)
           /\ ScriptedSize(fixed, items) = size[Len(items)]
    <3> HIDE DEF n
    <3> QED
        BY <2>1, ScriptedUnfolds
  <2> QED
      BY <2>1, <2>2
<1>4. \A k \in 1..n : Len(items[k].script) \in Nat /\ Len(seqs[k]) = fixed + Len(items[k].script)
    OBVIOUS
<1> HIDE DEF n
<1> DEFINE agrees == [k \in 0..n |-> IF Len(flat[k]) = size[k] /\ k <= size[k] THEN 1 ELSE 0]
           One == {1}
<1>5. agrees[0] \in One
    BY <1>1, <1>2, <1>3
<1>6. ASSUME NEW k \in 1..n, agrees[k - 1] \in One
      PROVE  agrees[k] \in One
  <2>1. k - 1 \in 0..n /\ k \in 0..n
      BY <1>1
  <2>2. Len(flat[k - 1]) = size[k - 1] /\ k - 1 <= size[k - 1]
      BY <1>6, <2>1
  <2>3. flat[k - 1] \in Seq(S) /\ seqs[k] \in Seq(S) /\ size[k - 1] \in Nat
      BY <1>1, <1>2, <1>3, <2>1
  <2>4. flat[k] = flat[k - 1] \o seqs[k]
      BY <1>2
  <2>5. Len(flat[k]) = Len(flat[k - 1]) + Len(seqs[k])
      BY <2>3, <2>4, Concat
  <2>6. size[k] = size[k - 1] + fixed + Len(items[k].script)
      BY <1>3
  <2>7. Len(seqs[k]) = fixed + Len(items[k].script) /\ Len(items[k].script) \in Nat
      BY <1>4
  <2>8. Len(flat[k]) = size[k] /\ k <= size[k]
    <3> DEFINE script == Len(items[k].script)
               before == size[k - 1]
    <3>1. script \in Nat /\ before \in Nat /\ k \in Nat /\ k - 1 <= before
        BY <1>1, <2>2, <2>3, <2>7
    <3>2. size[k] = before + fixed + script /\ Len(flat[k]) = before + (fixed + script)
        BY <2>2, <2>5, <2>6, <2>7
    <3> HIDE DEF script, before
    <3> QED
        BY <3>1, <3>2
  <2> QED
      BY <2>1, <2>8
<1>7. agrees[n] \in One
  <2>1. n \in 0..n
      BY <1>1
  <2> HIDE DEF agrees, One
  <2> QED
      BY <1>1, <1>5, <1>6, <2>1, PrefixInduction
<1>8. n \in 0..n
    BY <1>1
<1>9. Len(flat[n]) = size[n] /\ n <= size[n] /\ flat[n] \in Seq(S)
    BY <1>2, <1>7, <1>8
<1> QED
    BY <1>2, <1>3, <1>9 DEF n

-----------------------------------------------------------------------------
(* Elements of a concatenation.                                            *)
LEMMA ConcatElements ==
    ASSUME NEW S, NEW s \in Seq(S), NEW t \in Seq(S)
    PROVE  /\ \A i \in 1..Len(s) : (s \o t)[i] = s[i]
           /\ \A i \in 1..Len(t) : (s \o t)[Len(s) + i] = t[i]
<1>1. Len(s) \in Nat /\ Len(t) \in Nat
    OBVIOUS
<1>2. \A i \in 1..(Len(s) + Len(t)) : (s \o t)[i] = IF i <= Len(s) THEN s[i] ELSE t[i - Len(s)]
    BY ConcatProperties
<1>3. ASSUME NEW i \in 1..Len(s)
      PROVE  (s \o t)[i] = s[i]
  <2>1. i \in 1..(Len(s) + Len(t)) /\ i <= Len(s)
      BY <1>1
  <2> QED
      BY <1>2, <2>1
<1>4. ASSUME NEW i \in 1..Len(t)
      PROVE  (s \o t)[Len(s) + i] = t[i]
  <2>1. /\ Len(s) + i \in 1..(Len(s) + Len(t)) /\ ~(Len(s) + i <= Len(s))
        /\ (Len(s) + i) - Len(s) = i
      BY <1>1
  <2> QED
      BY <1>2, <2>1
<1> QED
    BY <1>3, <1>4

(* A sequence over some set is a sequence.                                 *)
LEMMA SequenceOf ==
    ASSUME NEW S, NEW s \in Seq(S)
    PROVE  IsSequence(s)
BY LenProperties DEF IsSequence

(* Numbers are four or eight cells.                                        *)
LEMMA NumberCells ==
    ASSUME NEW S, Nat \subseteq S, NEW n \in Nat
    PROVE  U32(n) \in Seq(S) /\ Len(U32(n)) = 4 /\ U64(n) \in Seq(S) /\ Len(U64(n)) = 8
<1>1. U32(n) \in Seq(Nat) /\ Len(U32(n)) = 4
    BY LittleEndianType DEF U32
<1>2. U64(n) \in Seq(Nat) /\ Len(U64(n)) = 8
    BY LittleEndianType DEF U64
<1>3. U32(n) \in Seq(S)
    BY <1>1, SeqMonotonic
<1>4. U64(n) \in Seq(S)
    BY <1>2, SeqMonotonic
<1> QED
    BY <1>1, <1>2, <1>3, <1>4

(* An input takes 52 cells and its script.                                 *)
LEMMA InputSize ==
    ASSUME NEW S, Nat \subseteq S, NEW input, input.outpoint \in S, input.sequence \in Nat,
           input.value \in Nat, input.script \in Seq(S)
    PROVE  EncodeInput(input) \in Seq(S) /\ Len(EncodeInput(input)) = 52 + Len(input.script)
<1> DEFINE a == [i \in 1..36 |-> input.outpoint]
           b == U32(input.sequence)
           c == U64(input.value)
           d == U32(Len(input.script))
           e == input.script
<1>1. a \in Seq(S) /\ Len(a) = 36
    OBVIOUS
<1>2. Len(e) \in Nat /\ e \in Seq(S)
    OBVIOUS
<1>3. b \in Seq(S) /\ Len(b) = 4 /\ c \in Seq(S) /\ Len(c) = 8 /\ d \in Seq(S) /\ Len(d) = 4
    BY <1>2, NumberCells
<1>4. EncodeInput(input) = (((a \o b) \o c) \o d) \o e
    BY DEF EncodeInput
<1> HIDE DEF a, b, c, d, e
<1>5. a \o b \in Seq(S) /\ Len(a \o b) = 40
  <2>1. a \o b \in Seq(S) /\ Len(a \o b) = Len(a) + Len(b)
      BY <1>1, <1>3, Concat
  <2> QED
      BY <1>1, <1>3, <2>1
<1>6. (a \o b) \o c \in Seq(S) /\ Len((a \o b) \o c) = 48
  <2>1. (a \o b) \o c \in Seq(S) /\ Len((a \o b) \o c) = Len(a \o b) + Len(c)
      BY <1>3, <1>5, Concat
  <2> QED
      BY <1>3, <1>5, <2>1
<1>7. ((a \o b) \o c) \o d \in Seq(S) /\ Len(((a \o b) \o c) \o d) = 52
  <2>1. ((a \o b) \o c) \o d \in Seq(S) /\ Len(((a \o b) \o c) \o d) = Len((a \o b) \o c) + Len(d)
      BY <1>3, <1>6, Concat
  <2> QED
      BY <1>3, <1>6, <2>1
<1>8. /\ (((a \o b) \o c) \o d) \o e \in Seq(S)
      /\ Len((((a \o b) \o c) \o d) \o e) = 52 + Len(e)
    BY <1>2, <1>7, Concat
<1> QED
    BY <1>4, <1>8 DEF e

(* An output takes 12 cells and its script.                                *)
LEMMA OutputSize ==
    ASSUME NEW S, Nat \subseteq S, NEW output, output.value \in Nat, output.script \in Seq(S)
    PROVE  EncodeOutput(output) \in Seq(S) /\ Len(EncodeOutput(output)) = 12 + Len(output.script)
<1> DEFINE c == U64(output.value)
           d == U32(Len(output.script))
           e == output.script
<1>1. Len(e) \in Nat /\ e \in Seq(S)
    OBVIOUS
<1>2. c \in Seq(S) /\ Len(c) = 8 /\ d \in Seq(S) /\ Len(d) = 4
    BY <1>1, NumberCells
<1>3. EncodeOutput(output) = (c \o d) \o e
    BY DEF EncodeOutput
<1> HIDE DEF c, d, e
<1>4. c \o d \in Seq(S) /\ Len(c \o d) = 12
  <2>1. c \o d \in Seq(S) /\ Len(c \o d) = Len(c) + Len(d)
      BY <1>2, Concat
  <2> QED
      BY <1>2, <2>1
<1>5. (c \o d) \o e \in Seq(S) /\ Len((c \o d) \o e) = 12 + Len(e)
    BY <1>1, <1>4, Concat
<1> QED
    BY <1>3, <1>5 DEF e

(* The cells of a sequence after an offset are those of another one.       *)
Holds(s, at, t) ==
    /\ at \in Nat /\ Len(s) \in Nat /\ Len(t) \in Nat /\ at + Len(t) <= Len(s)
    /\ \A i \in 1..Len(t) : s[at + i] = t[i]

(* What the parts of a concatenation hold, it holds.                       *)
LEMMA HoldsConcat ==
    ASSUME NEW S, NEW s \in Seq(S), NEW t \in Seq(S)
    PROVE  Holds(s \o t, Len(s), t) /\ Holds(s \o t, 0, s)
<1>1. /\ Len(s \o t) = Len(s) + Len(t) /\ Len(s) \in Nat /\ Len(t) \in Nat
    BY Concat
<1>2. /\ \A i \in 1..Len(s) : (s \o t)[i] = s[i]
      /\ \A i \in 1..Len(t) : (s \o t)[Len(s) + i] = t[i]
    BY ConcatElements
<1>3. Holds(s \o t, Len(s), t)
  <2> DEFINE both == s \o t
  <2>1. Len(both) \in Nat /\ Len(s) + Len(t) <= Len(both)
      BY <1>1
  <2> HIDE DEF both
  <2> QED
      BY <1>1, <1>2, <2>1 DEF Holds, both
<1>4. Holds(s \o t, 0, s)
  <2> DEFINE both == s \o t
  <2>1. Len(both) \in Nat /\ 0 + Len(s) <= Len(both) /\ 0 \in Nat
      BY <1>1
  <2>2. \A i \in 1..Len(s) : both[0 + i] = s[i]
    <3>1. \A i \in 1..Len(s) : 0 + i = i
        BY <1>1
    <3> QED
        BY <1>2, <3>1
  <2> HIDE DEF both
  <2>3. Holds(both, 0, s)
      BY <1>1, <2>1, <2>2 DEF Holds
  <2> QED
      BY <2>3 DEF both
<1> QED
    BY <1>3, <1>4

(* Holding is transitive.                                                  *)
LEMMA HoldsWithin ==
    ASSUME NEW s, NEW t, NEW u, NEW at, NEW inner, Holds(s, at, t), Holds(t, inner, u)
    PROVE  Holds(s, at + inner, u)
<1>1. /\ at \in Nat /\ inner \in Nat /\ Len(s) \in Nat /\ Len(t) \in Nat /\ Len(u) \in Nat
      /\ at + Len(t) <= Len(s) /\ inner + Len(u) <= Len(t)
    BY DEF Holds
<1>2. at + inner \in Nat /\ (at + inner) + Len(u) <= Len(s)
    BY <1>1
<1>3. ASSUME NEW i \in 1..Len(u)
      PROVE  s[(at + inner) + i] = u[i]
  <2>1. t[inner + i] = u[i]
      BY DEF Holds
  <2>2. inner + i \in 1..Len(t) /\ at + (inner + i) = (at + inner) + i
      BY <1>1
  <2>3. s[at + (inner + i)] = t[inner + i]
      BY <2>2 DEF Holds
  <2> QED
      BY <2>1, <2>2, <2>3
<1> QED
    BY <1>1, <1>2, <1>3 DEF Holds

(* A longer sequence holds what its beginning holds.                       *)
LEMMA HoldsBefore ==
    ASSUME NEW S, NEW s \in Seq(S), NEW t \in Seq(S), NEW at, NEW u, Holds(s, at, u)
    PROVE  Holds(s \o t, at, u)
<1>1. Holds(s \o t, 0, s)
    BY HoldsConcat
<1>2. Holds(s \o t, 0 + at, u)
  <2> DEFINE both == s \o t
  <2>1. Holds(both, 0, s)
      BY <1>1
  <2>2. Holds(both, 0 + at, u)
    <3> HIDE DEF both
    <3> QED
        BY <2>1, HoldsWithin
  <2> QED
      BY <2>2
<1>3. 0 + at = at
    BY DEF Holds
<1> QED
    BY <1>2, <1>3

(* Reader::u32 and u64: a number that was written is read back.            *)
LEMMA HoldsNumber ==
    ASSUME NEW s, NEW n \in Nat, n < NumberRange, NEW at,
           Holds(s, at, U32(n)) \/ Holds(s, at, U64(n))
    PROVE  Number(s, at) = n
<1>1. Len(U32(n)) = 4 /\ Len(U64(n)) = 8
    BY LittleEndianType DEF U32, U64
<1>2. /\ U32(n)[1] = n % 256 /\ U32(n)[2] = (n \div 256) % 256 /\ U32(n)[3] = (n \div 65536) % 256
      /\ U64(n)[1] = n % 256 /\ U64(n)[2] = (n \div 256) % 256 /\ U64(n)[3] = (n \div 65536) % 256
    BY DEF U32, U64, LittleEndian
<1>3. at \in Nat /\ Len(s) \in Nat /\ at + 4 <= Len(s)
    BY <1>1 DEF Holds
<1>4. s[at + 1] = n % 256 /\ s[at + 2] = (n \div 256) % 256 /\ s[at + 3] = (n \div 65536) % 256
  <2>1. CASE Holds(s, at, U32(n))
    <3>1. \A i \in 1..4 : s[at + i] = U32(n)[i]
        BY <1>1, <2>1 DEF Holds
    <3> QED
        BY <1>2, <3>1
  <2>2. CASE Holds(s, at, U64(n))
    <3>1. \A i \in 1..8 : s[at + i] = U64(n)[i]
        BY <1>1, <2>2 DEF Holds
    <3> QED
        BY <1>2, <3>1
  <2> QED
      BY <2>1, <2>2
<1>5. ~(at + 4 > Len(s))
    BY <1>3
<1>6. Number(s, at) = s[at + 1] + 256 * s[at + 2] + 65536 * s[at + 3]
    BY <1>5 DEF Number
<1> QED
    BY <1>4, <1>6, ThreeDigits

(* Reader::take: the bytes that were written are read back.                *)
LEMMA HoldsBytes ==
    ASSUME NEW S, NEW s \in Seq(S), NEW t \in Seq(S), NEW at, Holds(s, at, t)
    PROVE  Bytes(s, at, Len(t)) = t
<1> DEFINE m == at + 1
           n == at + Len(t)
           sub == SubSeq(s, m, n)
<1>1. at \in Nat /\ Len(t) \in Nat /\ Len(s) \in Nat /\ at + Len(t) <= Len(s)
    BY DEF Holds
<1>2. m \in Int /\ n \in Int /\ m..n \subseteq 1..Len(s) /\ n - m + 1 = Len(t)
    BY <1>1
<1>3. \A i \in m..n : s[i] \in S
    BY <1>2
<1>4. /\ sub \in Seq(S) /\ Len(sub) = (IF m <= n THEN n - m + 1 ELSE 0)
      /\ \A i \in 1..(n - m + 1) : sub[i] = s[m + i - 1]
  <2> HIDE DEF m, n
  <2> QED
      BY <1>2, <1>3, SubSeqProperties
<1>5. Len(sub) = Len(t)
  <2>1. m <= n \/ Len(t) = 0
      BY <1>1
  <2> HIDE DEF sub
  <2> QED
      BY <1>1, <1>2, <1>4, <2>1
<1>6. ASSUME NEW i \in 1..Len(t)
      PROVE  sub[i] = t[i]
  <2>1. m + i - 1 = at + i
      BY <1>1
  <2>2. sub[i] = s[m + i - 1]
    <3> HIDE DEF sub
    <3> QED
        BY <1>2, <1>4
  <2>3. s[at + i] = t[i]
      BY DEF Holds
  <2> QED
      BY <2>1, <2>2, <2>3
<1> HIDE DEF sub
<1>7. sub = t
    BY <1>4, <1>5, <1>6, SeqEqual
<1> QED
    BY <1>7 DEF Bytes, sub

(* Where the fields of an input are.                                       *)
LEMMA InputParts ==
    ASSUME NEW S, Nat \subseteq S, NEW input, input.outpoint \in S, input.sequence \in Nat,
           input.value \in Nat, input.script \in Seq(S)
    PROVE  /\ Holds(EncodeInput(input), 36, U32(input.sequence))
           /\ Holds(EncodeInput(input), 40, U64(input.value))
           /\ Holds(EncodeInput(input), 48, U32(Len(input.script)))
<1> DEFINE a == [i \in 1..36 |-> input.outpoint]
           b == U32(input.sequence)
           c == U64(input.value)
           d == U32(Len(input.script))
           e == input.script
<1>1. a \in Seq(S) /\ Len(a) = 36
    OBVIOUS
<1>2. Len(e) \in Nat /\ e \in Seq(S)
    OBVIOUS
<1>3. b \in Seq(S) /\ Len(b) = 4 /\ c \in Seq(S) /\ Len(c) = 8 /\ d \in Seq(S) /\ Len(d) = 4
    BY <1>2, NumberCells
<1>4. EncodeInput(input) = (((a \o b) \o c) \o d) \o e
    BY DEF EncodeInput
<1> HIDE DEF a, b, c, d, e
<1> DEFINE ab == a \o b
           abc == ab \o c
           abcd == abc \o d
<1>5. ab \in Seq(S) /\ Len(ab) = 40 /\ Holds(ab, 36, b)
  <2>1. a \o b \in Seq(S) /\ Len(a \o b) = Len(a) + Len(b)
      BY <1>1, <1>3, Concat
  <2>2. Holds(a \o b, Len(a), b)
      BY <1>1, <1>3, HoldsConcat
  <2> QED
      BY <1>1, <1>3, <2>1, <2>2
<1>6. abc \in Seq(S) /\ Len(abc) = 48 /\ Holds(abc, 40, c) /\ Holds(abc, 36, b)
  <2> HIDE DEF ab
  <2>1. ab \o c \in Seq(S) /\ Len(ab \o c) = Len(ab) + Len(c)
      BY <1>3, <1>5, Concat
  <2>2. Holds(ab \o c, Len(ab), c)
      BY <1>3, <1>5, HoldsConcat
  <2>3. Holds(ab \o c, 36, b)
      BY <1>3, <1>5, HoldsBefore
  <2> QED
      BY <1>3, <1>5, <2>1, <2>2, <2>3
<1>7. abcd \in Seq(S) /\ Holds(abcd, 36, b) /\ Holds(abcd, 40, c) /\ Holds(abcd, 48, d)
  <2> HIDE DEF abc
  <2>1. abc \o d \in Seq(S)
      BY <1>3, <1>6, Concat
  <2>2. Holds(abc \o d, Len(abc), d)
      BY <1>3, <1>6, HoldsConcat
  <2>3. Holds(abc \o d, 40, c) /\ Holds(abc \o d, 36, b)
      BY <1>3, <1>6, HoldsBefore
  <2> QED
      BY <1>6, <2>1, <2>2, <2>3
<1>8. Holds(abcd \o e, 36, b) /\ Holds(abcd \o e, 40, c) /\ Holds(abcd \o e, 48, d)
  <2> HIDE DEF abcd
  <2> QED
      BY <1>2, <1>7, HoldsBefore
<1> QED
    BY <1>4, <1>8 DEF b, c, d

(* Where the fields of an output are.                                      *)
LEMMA OutputParts ==
    ASSUME NEW S, Nat \subseteq S, NEW output, output.value \in Nat, output.script \in Seq(S)
    PROVE  /\ Holds(EncodeOutput(output), 0, U64(output.value))
           /\ Holds(EncodeOutput(output), 8, U32(Len(output.script)))
           /\ Holds(EncodeOutput(output), 12, output.script)
<1> DEFINE c == U64(output.value)
           d == U32(Len(output.script))
           e == output.script
<1>1. Len(e) \in Nat /\ e \in Seq(S)
    OBVIOUS
<1>2. c \in Seq(S) /\ Len(c) = 8 /\ d \in Seq(S) /\ Len(d) = 4
    BY <1>1, NumberCells
<1>3. EncodeOutput(output) = (c \o d) \o e
    BY DEF EncodeOutput
<1> HIDE DEF c, d, e
<1> DEFINE cd == c \o d
<1>4. cd \in Seq(S) /\ Len(cd) = 12 /\ Holds(cd, 0, c) /\ Holds(cd, 8, d)
  <2>1. c \o d \in Seq(S) /\ Len(c \o d) = Len(c) + Len(d)
      BY <1>2, Concat
  <2>2. Holds(c \o d, Len(c), d) /\ Holds(c \o d, 0, c)
      BY <1>2, HoldsConcat
  <2> QED
      BY <1>2, <2>1, <2>2
<1>5. Holds(cd \o e, 0, c) /\ Holds(cd \o e, 8, d) /\ Holds(cd \o e, 12, e)
  <2> HIDE DEF cd
  <2>1. Holds(cd \o e, Len(cd), e)
      BY <1>1, <1>4, HoldsConcat
  <2>2. Holds(cd \o e, 0, c) /\ Holds(cd \o e, 8, d)
      BY <1>1, <1>4, HoldsBefore
  <2> QED
      BY <1>4, <2>1, <2>2
<1> QED
    BY <1>3, <1>5 DEF c, d, e

(* The cells a view of the transaction is made of, and its two lists.      *)
Over(S, tx) ==
    /\ Nat \subseteq S /\ tx.internal_key \in S
    /\ \A i \in 1..Len(tx.inputs) :
          tx.inputs[i].outpoint \in S /\ tx.inputs[i].script \in Seq(S)
    /\ \A i \in 1..Len(tx.outputs) : tx.outputs[i].script \in Seq(S)

EncodedInputs(tx) == FlattenSeq([i \in DOMAIN tx.inputs |-> EncodeInput(tx.inputs[i])])
EncodedOutputs(tx) == FlattenSeq([i \in DOMAIN tx.outputs |-> EncodeOutput(tx.outputs[i])])

(* Everything a view of the transaction is made of is in one set.          *)
LEMMA Alphabet ==
    ASSUME NEW tx, IsTransaction(tx)
    PROVE  \E S : Over(S, tx)
<1> DEFINE Outpoints == {tx.inputs[i].outpoint : i \in 1..Len(tx.inputs)}
           Cells(items, i) == {items[i].script[j] : j \in 1..Len(items[i].script)}
           Spent == UNION {Cells(tx.inputs, i) : i \in 1..Len(tx.inputs)}
           Paid == UNION {Cells(tx.outputs, i) : i \in 1..Len(tx.outputs)}
           S == Nat \cup {tx.internal_key} \cup Outpoints \cup Spent \cup Paid
<1>1. Nat \subseteq S /\ tx.internal_key \in S
    OBVIOUS
<1>2. ASSUME NEW i \in 1..Len(tx.inputs)
      PROVE  tx.inputs[i].outpoint \in S /\ tx.inputs[i].script \in Seq(S)
  <2>1. tx.inputs[i].outpoint \in Outpoints
      OBVIOUS
  <2>2. \A j \in 1..Len(tx.inputs[i].script) : tx.inputs[i].script[j] \in Spent
      OBVIOUS
  <2>3. \A j \in 1..Len(tx.inputs[i].script) : tx.inputs[i].script[j] \in S
      BY <2>2
  <2>4. IsSequence(tx.inputs[i].script)
      BY DEF IsTransaction
  <2>5. tx.inputs[i].script \in Seq(S)
    <3> HIDE DEF S
    <3> QED
        BY <2>3, <2>4, SequenceOver
  <2> QED
      BY <2>1, <2>5
<1>3. ASSUME NEW i \in 1..Len(tx.outputs)
      PROVE  tx.outputs[i].script \in Seq(S)
  <2>1. \A j \in 1..Len(tx.outputs[i].script) : tx.outputs[i].script[j] \in Paid
      OBVIOUS
  <2>2. \A j \in 1..Len(tx.outputs[i].script) : tx.outputs[i].script[j] \in S
      BY <2>1
  <2>3. IsSequence(tx.outputs[i].script)
      BY DEF IsTransaction
  <2> HIDE DEF S
  <2> QED
      BY <2>2, <2>3, SequenceOver
<1> HIDE DEF S
<1> QED
    BY <1>1, <1>2, <1>3 DEF Over

(* The inputs and the outputs of the view have the computed size.          *)
LEMMA ItemsSize ==
    ASSUME NEW S, NEW tx, IsTransaction(tx), Over(S, tx)
    PROVE  /\ EncodedInputs(tx) \in Seq(S)
           /\ Len(EncodedInputs(tx)) = ScriptedSize(52, tx.inputs)
           /\ EncodedOutputs(tx) \in Seq(S)
           /\ Len(EncodedOutputs(tx)) = ScriptedSize(12, tx.outputs)
           /\ Len(tx.inputs) <= Len(EncodedInputs(tx)) /\ Len(tx.outputs) <= Len(EncodedOutputs(tx))
           /\ Len(tx.inputs) = 1 => EncodedInputs(tx) = EncodeInput(tx.inputs[1])
           /\ Len(tx.outputs) = 1 => EncodedOutputs(tx) = EncodeOutput(tx.outputs[1])
<1> DEFINE n == Len(tx.inputs)
           m == Len(tx.outputs)
           I == [i \in 1..n |-> EncodeInput(tx.inputs[i])]
           O == [i \in 1..m |-> EncodeOutput(tx.outputs[i])]
<1>1. n \in Nat /\ m \in Nat /\ DOMAIN tx.inputs = 1..n /\ DOMAIN tx.outputs = 1..m
    BY DEF IsTransaction, IsSequence
<1>2. ASSUME NEW i \in 1..n
      PROVE  /\ EncodeInput(tx.inputs[i]) \in Seq(S)
             /\ Len(EncodeInput(tx.inputs[i])) = 52 + Len(tx.inputs[i].script)
             /\ Len(tx.inputs[i].script) \in Nat
  <2>1. tx.inputs[i].sequence \in Nat /\ tx.inputs[i].value \in Nat
      BY DEF IsTransaction
  <2>2. Nat \subseteq S /\ tx.inputs[i].outpoint \in S /\ tx.inputs[i].script \in Seq(S)
      BY DEF Over
  <2> QED
      BY <2>1, <2>2, InputSize, LenProperties
<1>3. ASSUME NEW i \in 1..m
      PROVE  /\ EncodeOutput(tx.outputs[i]) \in Seq(S)
             /\ Len(EncodeOutput(tx.outputs[i])) = 12 + Len(tx.outputs[i].script)
             /\ Len(tx.outputs[i].script) \in Nat
  <2>1. tx.outputs[i].value \in Nat
      BY DEF IsTransaction
  <2>2. Nat \subseteq S /\ tx.outputs[i].script \in Seq(S)
      BY DEF Over
  <2> QED
      BY <2>1, <2>2, OutputSize, LenProperties
<1>4. I \in Seq(Seq(S)) /\ Len(I) = n /\ \A i \in 1..n : I[i] = EncodeInput(tx.inputs[i])
  <2> DEFINE Q == Seq(S)
  <2>1. \A i \in 1..n : EncodeInput(tx.inputs[i]) \in Q
      BY <1>2
  <2> HIDE DEF n, Q
  <2>2. I \in [1..n -> Q]
      BY <2>1
  <2>3. I \in Seq(Q) /\ Len(I) = n
    <3> HIDE DEF I
    <3> QED
        BY <1>1, <2>2
  <2> QED
      BY <2>3 DEF Q
<1>5. O \in Seq(Seq(S)) /\ Len(O) = m /\ \A i \in 1..m : O[i] = EncodeOutput(tx.outputs[i])
  <2> DEFINE Q == Seq(S)
  <2>1. \A i \in 1..m : EncodeOutput(tx.outputs[i]) \in Q
      BY <1>3
  <2> HIDE DEF m, Q
  <2>2. O \in [1..m -> Q]
      BY <2>1
  <2>3. O \in Seq(Q) /\ Len(O) = m
    <3> HIDE DEF O
    <3> QED
        BY <1>1, <2>2
  <2> QED
      BY <2>3 DEF Q
<1>6. EncodedInputs(tx) = FlattenSeq(I) /\ EncodedOutputs(tx) = FlattenSeq(O)
    BY <1>1 DEF EncodedInputs, EncodedOutputs
<1> HIDE DEF I, O
<1>7. /\ FlattenSeq(I) \in Seq(S) /\ Len(FlattenSeq(I)) = ScriptedSize(52, tx.inputs)
      /\ Len(I) <= ScriptedSize(52, tx.inputs)
  <2>1. \A k \in 1..Len(I) : /\ Len(tx.inputs[k].script) \in Nat
                             /\ Len(I[k]) = 52 + Len(tx.inputs[k].script)
      BY <1>2, <1>4
  <2>2. 52 \in Nat /\ 52 > 0 /\ Len(tx.inputs) = Len(I) /\ I \in Seq(Seq(S))
      BY <1>4
  <2> DEFINE items == tx.inputs
  <2>3. /\ Len(items) = Len(I)
        /\ \A k \in 1..Len(I) : /\ Len(items[k].script) \in Nat
                               /\ Len(I[k]) = 52 + Len(items[k].script)
      BY <2>1, <2>2
  <2>4. /\ FlattenSeq(I) \in Seq(S) /\ Len(FlattenSeq(I)) = ScriptedSize(52, items)
        /\ Len(I) <= ScriptedSize(52, items)
    <3> HIDE DEF n, items
    <3> QED
        BY <2>2, <2>3, FlattenSize
  <2> QED
      BY <2>4
<1>8. /\ FlattenSeq(O) \in Seq(S) /\ Len(FlattenSeq(O)) = ScriptedSize(12, tx.outputs)
      /\ Len(O) <= ScriptedSize(12, tx.outputs)
  <2>1. \A k \in 1..Len(O) : /\ Len(tx.outputs[k].script) \in Nat
                             /\ Len(O[k]) = 12 + Len(tx.outputs[k].script)
      BY <1>3, <1>5
  <2>2. 12 \in Nat /\ 12 > 0 /\ Len(tx.outputs) = Len(O) /\ O \in Seq(Seq(S))
      BY <1>5
  <2> DEFINE items == tx.outputs
  <2>3. /\ Len(items) = Len(O)
        /\ \A k \in 1..Len(O) : /\ Len(items[k].script) \in Nat
                               /\ Len(O[k]) = 12 + Len(items[k].script)
      BY <2>1, <2>2
  <2>4. /\ FlattenSeq(O) \in Seq(S) /\ Len(FlattenSeq(O)) = ScriptedSize(12, items)
        /\ Len(O) <= ScriptedSize(12, items)
    <3> HIDE DEF m, items
    <3> QED
        BY <2>2, <2>3, FlattenSize
  <2> QED
      BY <2>4
<1>9. n = 1 => FlattenSeq(I) = EncodeInput(tx.inputs[1])
  <2>1. n = 1 => FlattenSeq(I) = I[1]
    <3> HIDE DEF n
    <3> QED
        BY <1>4, FlattenOne
  <2>2. n = 1 => 1 \in 1..n
      OBVIOUS
  <2> QED
      BY <1>4, <2>1, <2>2
<1>10. m = 1 => FlattenSeq(O) = EncodeOutput(tx.outputs[1])
  <2>1. m = 1 => FlattenSeq(O) = O[1]
    <3> HIDE DEF m
    <3> QED
        BY <1>5, FlattenOne
  <2>2. m = 1 => 1 \in 1..m
      OBVIOUS
  <2> QED
      BY <1>5, <2>1, <2>2
<1> QED
    BY <1>4, <1>5, <1>6, <1>7, <1>8, <1>9, <1>10

(* Where the fields of a view are.                                         *)
LEMMA ViewParts ==
    ASSUME NEW tx, IsTransaction(tx), NEW version, NEW S, Over(S, tx),
           NEW size, size = Len(EncodedInputs(tx)), NEW encoded, encoded = EncodeView(version, tx)
    PROVE  /\ encoded \in Seq(S) /\ Len(encoded) = ViewSize(version, tx)
           /\ size \in Nat /\ Len(EncodedOutputs(tx)) \in Nat
           /\ Len(encoded) >= 20 + size + Len(EncodedOutputs(tx))
           /\ version = 1 => Len(encoded) = 20 + size + Len(EncodedOutputs(tx))
           /\ Holds(encoded, 0, U32(tx.version)) /\ Holds(encoded, 4, U32(tx.lock_time))
           /\ Holds(encoded, 8, U32(tx.index)) /\ Holds(encoded, 12, U32(Len(tx.inputs)))
           /\ Holds(encoded, 16, EncodedInputs(tx)) /\ Holds(encoded, 16 + size, U32(Len(tx.outputs)))
           /\ Holds(encoded, 20 + size, EncodedOutputs(tx))
<1>1. Over(S, tx)
    OBVIOUS
<1> DEFINE n == Len(tx.inputs)
           a == U32(tx.version)
           b == U32(tx.lock_time)
           c == U32(tx.index)
           d == U32(Len(tx.inputs))
           ins == EncodedInputs(tx)
           e == U32(Len(tx.outputs))
           outs == EncodedOutputs(tx)
           tail == IF version = 2 THEN [i \in 1..32 |-> tx.internal_key] \o U32(0) ELSE <<>>
           extra == IF version = 2 THEN 36 ELSE 0
<1>2. n \in Nat /\ Len(tx.outputs) \in Nat /\ tx.version \in Nat /\ tx.lock_time \in Nat
      /\ tx.index \in Nat
    BY DEF IsTransaction, IsSequence
<1>3. /\ a \in Seq(S) /\ Len(a) = 4 /\ b \in Seq(S) /\ Len(b) = 4 /\ c \in Seq(S) /\ Len(c) = 4
      /\ d \in Seq(S) /\ Len(d) = 4 /\ e \in Seq(S) /\ Len(e) = 4
    BY <1>1, <1>2, NumberCells DEF Over
<1>4. /\ ins \in Seq(S) /\ Len(ins) = ScriptedSize(52, tx.inputs)
      /\ outs \in Seq(S) /\ Len(outs) = ScriptedSize(12, tx.outputs)
      /\ n <= Len(ins)
    BY <1>1, ItemsSize
<1>5. tail \in Seq(S) /\ Len(tail) = extra
  <2> DEFINE key == [i \in 1..32 |-> tx.internal_key]
             annex == U32(0)
  <2>1. key \in Seq(S) /\ Len(key) = 32
      BY <1>1 DEF Over
  <2>2. annex \in Seq(S) /\ Len(annex) = 4
      BY <1>1, NumberCells DEF Over
  <2>3. tail = IF version = 2 THEN key \o annex ELSE <<>>
      OBVIOUS
  <2> HIDE DEF key, annex, tail
  <2>4. key \o annex \in Seq(S) /\ Len(key \o annex) = Len(key) + Len(annex)
      BY <2>1, <2>2, Concat
  <2>5. CASE version = 2
      BY <2>1, <2>2, <2>3, <2>4, <2>5
  <2>6. CASE version # 2
      BY <2>3, <2>6
  <2> QED
      BY <2>5, <2>6
<1>6. /\ EncodeView(version, tx) = ((((((a \o b) \o c) \o d) \o ins) \o e) \o outs) \o tail
      /\ ViewSize(version, tx) = 20 + Len(ins) + Len(outs) + extra
    BY <1>4 DEF EncodeView, ViewSize, EncodedInputs, EncodedOutputs
<1>7. d = U32(n)
    OBVIOUS
<1> HIDE DEF a, b, c, d, ins, e, outs, tail, n
<1> DEFINE ab == a \o b
           abc == ab \o c
           head == abc \o d
           upto == head \o ins
           mid == upto \o e
           most == mid \o outs
           whole == most \o tail
<1>8. /\ ab \in Seq(S) /\ Len(ab) = Len(a) + Len(b)
    BY <1>3, Concat
<1>9. abc \in Seq(S) /\ Len(abc) = Len(ab) + Len(c)
  <2> HIDE DEF ab
  <2> QED
      BY <1>3, <1>8, Concat
<1>10. head \in Seq(S) /\ Len(head) = Len(abc) + Len(d)
  <2> HIDE DEF abc
  <2> QED
      BY <1>3, <1>9, Concat
<1>11. upto \in Seq(S) /\ Len(upto) = Len(head) + Len(ins)
  <2> HIDE DEF head
  <2> QED
      BY <1>4, <1>10, Concat
<1>12. mid \in Seq(S) /\ Len(mid) = Len(upto) + Len(e)
  <2> HIDE DEF upto
  <2> QED
      BY <1>3, <1>11, Concat
<1>13. most \in Seq(S) /\ Len(most) = Len(mid) + Len(outs)
  <2> HIDE DEF mid
  <2> QED
      BY <1>4, <1>12, Concat
<1>14. whole \in Seq(S) /\ Len(whole) = Len(most) + Len(tail)
  <2> HIDE DEF most
  <2> QED
      BY <1>5, <1>13, Concat
<1>15. Len(ins) \in Nat /\ Len(outs) \in Nat /\ extra \in Nat
    BY <1>4
<1>16. EncodeView(version, tx) = whole
    BY <1>6
<1>17. Len(abc) = 12 /\ Len(head) = 16 /\ Len(upto) = 16 + Len(ins) /\ Len(mid) = 20 + Len(ins)
       /\ Len(most) = 20 + Len(ins) + Len(outs)
  <2> HIDE DEF ab, abc, head, upto, mid, most
  <2> QED
      BY <1>3, <1>8, <1>9, <1>10, <1>11, <1>12, <1>13, <1>15
<1>18. Len(whole) = ViewSize(version, tx)
  <2> HIDE DEF most, whole, extra
  <2> QED
      BY <1>5, <1>6, <1>14, <1>15, <1>17
<1>19. Holds(whole, 20 + Len(ins), outs)
  <2>1. Holds(mid \o outs, Len(mid), outs)
    <3> HIDE DEF mid
    <3> QED
        BY <1>4, <1>12, HoldsConcat
  <2>2. Holds(most, 20 + Len(ins), outs)
      BY <1>17, <2>1
  <2> HIDE DEF most
  <2> QED
      BY <1>5, <1>13, <2>2, HoldsBefore
<1>20. Holds(whole, 16 + Len(ins), e)
  <2>1. Holds(upto \o e, Len(upto), e)
    <3> HIDE DEF upto
    <3> QED
        BY <1>3, <1>11, HoldsConcat
  <2>2. Holds(mid, 16 + Len(ins), e)
      BY <1>17, <2>1
  <2>3. Holds(most, 16 + Len(ins), e)
    <3> HIDE DEF mid
    <3> QED
        BY <1>4, <1>12, <2>2, HoldsBefore
  <2> HIDE DEF most
  <2> QED
      BY <1>5, <1>13, <2>3, HoldsBefore
<1>21. ASSUME NEW at, NEW u, Holds(upto, at, u)
       PROVE  Holds(whole, at, u)
  <2>1. Holds(mid, at, u)
    <3> HIDE DEF upto
    <3> QED
        BY <1>3, <1>11, <1>21, HoldsBefore
  <2>2. Holds(most, at, u)
    <3> HIDE DEF mid
    <3> QED
        BY <1>4, <1>12, <2>1, HoldsBefore
  <2> HIDE DEF most
  <2> QED
      BY <1>5, <1>13, <2>2, HoldsBefore
<1>22. Holds(whole, 16, ins)
  <2>1. Holds(head \o ins, Len(head), ins)
    <3> HIDE DEF head
    <3> QED
        BY <1>4, <1>10, HoldsConcat
  <2> QED
      BY <1>17, <1>21, <2>1
<1>23. Holds(whole, 12, d)
  <2>1. Holds(abc \o d, Len(abc), d)
    <3> HIDE DEF abc
    <3> QED
        BY <1>3, <1>9, HoldsConcat
  <2>2. Holds(head, 12, d)
      BY <1>17, <2>1
  <2>3. Holds(upto, 12, d)
    <3> HIDE DEF head
    <3> QED
        BY <1>4, <1>10, <2>2, HoldsBefore
  <2> QED
      BY <1>21, <2>3
<1>24. Holds(whole, 8, c)
  <2>1. Holds(ab \o c, Len(ab), c)
    <3> HIDE DEF ab
    <3> QED
        BY <1>3, <1>8, HoldsConcat
  <2>2. Holds(abc, 8, c)
      BY <1>3, <1>8, <2>1
  <2>3. Holds(head, 8, c)
    <3> HIDE DEF abc
    <3> QED
        BY <1>3, <1>9, <2>2, HoldsBefore
  <2>4. Holds(upto, 8, c)
    <3> HIDE DEF head
    <3> QED
        BY <1>4, <1>10, <2>3, HoldsBefore
  <2> QED
      BY <1>21, <2>4
<1>25. Holds(whole, 4, b) /\ Holds(whole, 0, a)
  <2>1. Holds(a \o b, Len(a), b) /\ Holds(a \o b, 0, a)
      BY <1>3, HoldsConcat
  <2>2. Holds(ab, 4, b) /\ Holds(ab, 0, a)
      BY <1>3, <2>1
  <2>3. Holds(abc, 4, b) /\ Holds(abc, 0, a)
    <3> HIDE DEF ab
    <3> QED
        BY <1>3, <1>8, <2>2, HoldsBefore
  <2>4. Holds(head, 4, b) /\ Holds(head, 0, a)
    <3> HIDE DEF abc
    <3> QED
        BY <1>3, <1>9, <2>3, HoldsBefore
  <2>5. Holds(upto, 4, b) /\ Holds(upto, 0, a)
    <3> HIDE DEF head
    <3> QED
        BY <1>4, <1>10, <2>4, HoldsBefore
  <2> QED
      BY <1>21, <2>5
<1>26. Len(whole) >= 20 + Len(ins) + Len(outs)
       /\ (version = 1 => Len(whole) = 20 + Len(ins) + Len(outs))
  <2>1. Len(whole) = 20 + Len(ins) + Len(outs) + extra
      BY <1>6, <1>18
  <2>2. version = 1 => extra = 0
      OBVIOUS
  <2> HIDE DEF whole, extra
  <2> QED
      BY <1>15, <2>1, <2>2
<1>27. encoded = whole /\ size = Len(ins)
    BY <1>16 DEF ins
<1> HIDE DEF whole, extra
<1> QED
    BY <1>14, <1>15, <1>18, <1>19, <1>20, <1>22, <1>23, <1>24, <1>25, <1>26, <1>27
       DEF ins, outs, a, b, c, d, e

(* The view is as long as the size computed beforehand, and the number of  *)
(* inputs can be read back from it.                                        *)
LEMMA ViewLength ==
    ASSUME NEW tx, IsTransaction(tx), NEW version
    PROVE  /\ IsSequence(EncodeView(version, tx))
           /\ Len(EncodeView(version, tx)) = ViewSize(version, tx)
           /\ ViewSize(version, tx) < NumberRange =>
                 Number(EncodeView(version, tx), 12) = Len(tx.inputs)
<1>1. PICK S : Over(S, tx)
    BY Alphabet
<1> DEFINE encoded == EncodeView(version, tx)
           size == Len(EncodedInputs(tx))
<1>2. encoded = EncodeView(version, tx) /\ size = Len(EncodedInputs(tx))
    OBVIOUS
<1> HIDE DEF encoded, size
<1>3. /\ encoded \in Seq(S) /\ Len(encoded) = ViewSize(version, tx)
      /\ size \in Nat /\ Len(EncodedOutputs(tx)) \in Nat
      /\ Len(encoded) >= 20 + size + Len(EncodedOutputs(tx))
      /\ Holds(encoded, 12, U32(Len(tx.inputs)))
    BY <1>1, <1>2, ViewParts
<1>4. Len(tx.inputs) \in Nat /\ Len(tx.inputs) <= size
    BY <1>1, <1>2, ItemsSize DEF IsTransaction, IsSequence
<1>5. ASSUME ViewSize(version, tx) < NumberRange
      PROVE  Number(encoded, 12) = Len(tx.inputs)
  <2>1. Len(encoded) \in Nat /\ NumberRange \in Nat
      BY <1>3, SMT DEF NumberRange
  <2>2. Len(tx.inputs) < NumberRange
    <3> DEFINE n == Len(tx.inputs)
               m == Len(EncodedOutputs(tx))
               l == Len(encoded)
    <3>1. n \in Nat /\ m \in Nat /\ l \in Nat /\ n <= size /\ l >= 20 + size + m /\ l < NumberRange
        BY <1>3, <1>4, <1>5, <2>1
    <3> HIDE DEF n, m, l
    <3>2. n < NumberRange
        BY <1>3, <2>1, <3>1, SMT
    <3> QED
        BY <3>2 DEF n
  <2> QED
      BY <1>3, <1>4, <2>2, HoldsNumber
<1>6. IsSequence(encoded)
    BY <1>3, SequenceOf
<1> QED
    BY <1>2, <1>3, <1>5, <1>6

(* The offsets of the output's fields behind those of the input.           *)
LEMMA VaultOffsets ==
    ASSUME NEW size \in Nat, NEW length \in Nat
    PROVE  /\ 20 + size + 0 = 16 + size + 4 /\ 20 + size + 8 = 16 + size + 12
           /\ 20 + size + 12 = 16 + size + 16
           /\ 20 + size + (12 + length) = 16 + size + 16 + length
           /\ 20 + size + (12 + length) < NumberRange => length < NumberRange
BY SMT DEF NumberRange

(* What the vault reads in the view of a transaction.                      *)
VaultReads(S, tx, encoded, count) ==
    /\ encoded \in Seq(S) /\ Len(encoded) \in Nat /\ Len(encoded) >= 20
    /\ Number(encoded, 8) = tx.index /\ Number(encoded, 12) = Len(tx.inputs)
    /\ Len(tx.inputs) = 1 =>
          /\ Number(encoded, 56) = tx.inputs[1].value
          /\ Number(encoded, 64) = Len(tx.inputs[1].script)
          /\ count \in Nat /\ count + 4 <= Len(encoded)
          /\ Number(encoded, count) = Len(tx.outputs)
    /\ Len(tx.inputs) = 1 /\ Len(tx.outputs) = 1 =>
          /\ Number(encoded, count + 4) = tx.outputs[1].value
          /\ Number(encoded, count + 12) = Len(tx.outputs[1].script)
          /\ Len(encoded) = count + 16 + Len(tx.outputs[1].script)
          /\ Bytes(encoded, count + 16, Len(tx.outputs[1].script)) = tx.outputs[1].script

(* The numbers below NumberRange are naturals.                             *)
LEMMA BelowRange == \A k \in 0..(NumberRange - 1) : k \in Nat
<1> DEFINE e == NumberRange - 1
<1>1. e \in Int
    BY SMT DEF NumberRange
<1> HIDE DEF e
<1>2. \A k \in 0..e : k \in Nat
    BY <1>1
<1> QED
    BY <1>2 DEF e

(* The fields are where the vault looks for them.                          *)
LEMMA VaultView ==
    ASSUME NEW tx, IsTransaction(tx), NEW S, Over(S, tx),
           NEW encoded, encoded = EncodeView(1, tx), Len(encoded) < NumberRange,
           \A i \in 1..Len(tx.inputs) : tx.inputs[i].value < NumberRange,
           \A i \in 1..Len(tx.outputs) : tx.outputs[i].value < NumberRange,
           NEW count, count = 68 + Len(tx.inputs[1].script)
    PROVE  VaultReads(S, tx, encoded, count)
<1> DEFINE size == Len(EncodedInputs(tx))
           rest == Len(EncodedOutputs(tx))
           n == Len(tx.inputs)
           m == Len(tx.outputs)
           l == Len(encoded)
<1>1. /\ encoded \in Seq(S) /\ size \in Nat /\ rest \in Nat
      /\ l >= 20 + size + rest /\ l = 20 + size + rest
      /\ Holds(encoded, 8, U32(tx.index)) /\ Holds(encoded, 12, U32(n))
      /\ Holds(encoded, 16, EncodedInputs(tx)) /\ Holds(encoded, 16 + size, U32(m))
      /\ Holds(encoded, 20 + size, EncodedOutputs(tx))
    BY ViewParts
<1>2. n \in Nat /\ m \in Nat /\ tx.index \in Nat /\ tx.index < n
    BY DEF IsTransaction, IsSequence
<1>3. n <= size /\ m <= rest
    BY ItemsSize
<1>4. l \in Nat /\ NumberRange \in Nat /\ l < NumberRange
    BY <1>1, SMT DEF NumberRange
<1>5. n < NumberRange /\ m < NumberRange /\ tx.index < NumberRange /\ l >= 20
  <2> DEFINE k == tx.index
  <2>1. k \in Nat /\ k < n
      BY <1>2
  <2> HIDE DEF size, rest, n, m, l, k
  <2>2. n < NumberRange /\ m < NumberRange /\ k < NumberRange /\ l >= 20
      BY <1>1, <1>2, <1>3, <1>4, <2>1, SMT
  <2> QED
      BY <2>2 DEF k
<1>6. Number(encoded, 8) = tx.index /\ Number(encoded, 12) = n
    BY <1>1, <1>2, <1>5, HoldsNumber
<1>7. ASSUME n = 1
      PROVE  /\ Holds(encoded, 56, U64(tx.inputs[1].value))
             /\ Holds(encoded, 64, U32(Len(tx.inputs[1].script)))
             /\ tx.inputs[1].value \in Nat /\ tx.inputs[1].value < NumberRange
             /\ Len(tx.inputs[1].script) \in Nat /\ size = 52 + Len(tx.inputs[1].script)
  <2> DEFINE input == tx.inputs[1]
  <2>1. 1 \in 1..n
      BY <1>7
  <2>2. /\ Nat \subseteq S /\ input.outpoint \in S /\ input.sequence \in Nat
        /\ input.value \in Nat /\ input.script \in Seq(S) /\ input.value < NumberRange
      BY <2>1 DEF IsTransaction, Over
  <2>3. EncodedInputs(tx) = EncodeInput(input)
      BY <1>7, ItemsSize
  <2> HIDE DEF input
  <2>4. /\ Holds(EncodeInput(input), 40, U64(input.value))
        /\ Holds(EncodeInput(input), 48, U32(Len(input.script)))
      BY <2>2, InputParts
  <2>5. Len(EncodeInput(input)) = 52 + Len(input.script)
      BY <2>2, InputSize
  <2>6. Holds(encoded, 16, EncodeInput(input))
      BY <1>1, <2>3
  <2>7. Holds(encoded, 16 + 40, U64(input.value)) /\ Holds(encoded, 16 + 48, U32(Len(input.script)))
      BY <2>4, <2>6, HoldsWithin
  <2>8. 16 + 40 = 56 /\ 16 + 48 = 64
      OBVIOUS
  <2>9. Len(input.script) \in Nat
      BY <2>2, LenProperties
  <2> QED
      BY <2>2, <2>3, <2>5, <2>7, <2>8, <2>9 DEF input
<1>8. ASSUME m = 1
      PROVE  /\ Holds(encoded, 20 + size + 0, U64(tx.outputs[1].value))
             /\ Holds(encoded, 20 + size + 8, U32(Len(tx.outputs[1].script)))
             /\ Holds(encoded, 20 + size + 12, tx.outputs[1].script)
             /\ tx.outputs[1].value \in Nat /\ tx.outputs[1].value < NumberRange
             /\ tx.outputs[1].script \in Seq(S)
             /\ Len(tx.outputs[1].script) \in Nat /\ rest = 12 + Len(tx.outputs[1].script)
  <2> DEFINE output == tx.outputs[1]
  <2>1. 1 \in 1..m
      BY <1>8
  <2>2. /\ Nat \subseteq S /\ output.value \in Nat /\ output.script \in Seq(S)
        /\ output.value < NumberRange
      BY <2>1 DEF IsTransaction, Over
  <2>3. EncodedOutputs(tx) = EncodeOutput(output)
      BY <1>8, ItemsSize
  <2> HIDE DEF output
  <2>4. /\ Holds(EncodeOutput(output), 0, U64(output.value))
        /\ Holds(EncodeOutput(output), 8, U32(Len(output.script)))
        /\ Holds(EncodeOutput(output), 12, output.script)
      BY <2>2, OutputParts
  <2>5. Len(EncodeOutput(output)) = 12 + Len(output.script)
      BY <2>2, OutputSize
  <2>6. Holds(encoded, 20 + size, EncodeOutput(output))
      BY <1>1, <2>3
  <2>7. /\ Holds(encoded, 20 + size + 0, U64(output.value))
        /\ Holds(encoded, 20 + size + 8, U32(Len(output.script)))
        /\ Holds(encoded, 20 + size + 12, output.script)
    <3> DEFINE at == 20 + size
    <3> HIDE DEF at
    <3>1. Holds(encoded, at, EncodeOutput(output))
        BY <2>6 DEF at
    <3>2. /\ Holds(encoded, at + 0, U64(output.value))
          /\ Holds(encoded, at + 8, U32(Len(output.script)))
          /\ Holds(encoded, at + 12, output.script)
        BY <2>4, <3>1, HoldsWithin
    <3> QED
        BY <3>2 DEF at
  <2>8. Len(output.script) \in Nat
      BY <2>2, LenProperties
  <2> QED
      BY <2>2, <2>3, <2>5, <2>7, <2>8 DEF output
<1>9. ASSUME n = 1
      PROVE  /\ Number(encoded, 56) = tx.inputs[1].value
             /\ Number(encoded, 64) = Len(tx.inputs[1].script)
             /\ count \in Nat /\ count + 4 <= Len(encoded) /\ count = 16 + size
             /\ Number(encoded, count) = m
  <2> DEFINE script == Len(tx.inputs[1].script)
  <2>1. script \in Nat /\ size = 52 + script /\ count = 68 + script
      BY <1>7, <1>9
  <2> HIDE DEF script, size, rest, n, m, l
  <2>2. count = 16 + size /\ count \in Nat /\ count + 4 <= l /\ script < NumberRange
      BY <1>1, <1>4, <2>1, SMT
  <2>3. Number(encoded, count) = m
      BY <1>1, <1>2, <1>5, <2>2, HoldsNumber
  <2>4. Number(encoded, 56) = tx.inputs[1].value
      BY <1>7, <1>9, HoldsNumber
  <2>5. Number(encoded, 64) = script
    <3>1. Holds(encoded, 64, U32(script))
        BY <1>7, <1>9 DEF script
    <3> QED
        BY <2>1, <2>2, <3>1, HoldsNumber
  <2> QED
      BY <2>2, <2>3, <2>4, <2>5 DEF script, l
<1>10. ASSUME n = 1, m = 1
       PROVE  /\ Number(encoded, count + 4) = tx.outputs[1].value
              /\ Number(encoded, count + 12) = Len(tx.outputs[1].script)
              /\ Len(encoded) = count + 16 + Len(tx.outputs[1].script)
              /\ Bytes(encoded, count + 16, Len(tx.outputs[1].script)) = tx.outputs[1].script
  <2> DEFINE script == tx.outputs[1].script
             length == Len(script)
  <2>1. length \in Nat /\ rest = 12 + length /\ count = 16 + size /\ script \in Seq(S)
      BY <1>8, <1>9, <1>10
  <2>2. /\ Holds(encoded, 20 + size + 0, U64(tx.outputs[1].value))
        /\ Holds(encoded, 20 + size + 8, U32(length))
        /\ Holds(encoded, 20 + size + 12, script)
        /\ tx.outputs[1].value \in Nat /\ tx.outputs[1].value < NumberRange
      BY <1>8, <1>10
  <2> HIDE DEF size, rest, n, m, l, length, script
  <2>3. /\ 20 + size + 0 = count + 4 /\ 20 + size + 8 = count + 12 /\ 20 + size + 12 = count + 16
        /\ l = count + 16 + length /\ length < NumberRange
    <3>1. size \in Nat /\ rest \in Nat /\ l = 20 + size + rest /\ l < NumberRange
        BY <1>1, <1>4
    <3>2. length \in Nat /\ rest = 12 + length /\ count = 16 + size
        BY <2>1
    <3>3. /\ 20 + size + 0 = 16 + size + 4 /\ 20 + size + 8 = 16 + size + 12
          /\ 20 + size + 12 = 16 + size + 16
          /\ 20 + size + (12 + length) = 16 + size + 16 + length
          /\ 20 + size + (12 + length) < NumberRange => length < NumberRange
        BY <3>1, <3>2, VaultOffsets, Zenon
    <3>4. l = 20 + size + (12 + length)
        BY <3>1, <3>2, Zenon
    <3>5. length < NumberRange
        BY <3>1, <3>3, <3>4, Zenon
    <3> QED
        BY <3>2, <3>3, <3>4, <3>5, Zenon
  <2>4. /\ Holds(encoded, count + 4, U64(tx.outputs[1].value))
        /\ Holds(encoded, count + 12, U32(length)) /\ Holds(encoded, count + 16, script)
      BY <2>2, <2>3
  <2>5. Number(encoded, count + 4) = tx.outputs[1].value
      BY <2>2, <2>4, HoldsNumber
  <2>6. Number(encoded, count + 12) = length
      BY <2>1, <2>3, <2>4, HoldsNumber
  <2>7. Bytes(encoded, count + 16, length) = script
    <3> DEFINE at == count + 16
    <3>1. Holds(encoded, at, script)
        BY <2>4
    <3> HIDE DEF at
    <3>2. Bytes(encoded, at, Len(script)) = script
        BY <1>1, <2>1, <3>1, HoldsBytes
    <3> QED
        BY <3>2 DEF at, length
  <2> QED
      BY <2>3, <2>5, <2>6, <2>7 DEF l, length, script
<1> QED
    BY <1>1, <1>4, <1>5, <1>6, <1>9, <1>10 DEF VaultReads

(* Parameters are valid and name the destination exactly when they are     *)
(* what contract.rs encodes for it.                                        *)
LEMMA ParametersMeant ==
    ASSUME NEW p, IsSequence(p), NEW destination, IsSequence(destination),
           Len(destination) < NumberRange,
           NEW max_fee \in Nat, NEW length \in Nat, length = Number(p, 8),
           Len(p) >= 12 => SubSeq(p, 1, 12) = U64(max_fee) \o U32(length)
    PROVE  (VaultParametersValid(p) /\ destination = Bytes(p, 12, Len(p) - 12))
              <=> p = VaultParameters(max_fee, destination)
<1> DEFINE S == Nat \cup {p[i] : i \in 1..Len(p)} \cup {destination[i] : i \in 1..Len(destination)}
           a == U64(max_fee)
           b == U32(Len(destination))
<1>1. Nat \subseteq S /\ (\A i \in 1..Len(p) : p[i] \in S)
      /\ (\A i \in 1..Len(destination) : destination[i] \in S)
    OBVIOUS
<1> HIDE DEF S
<1>2. p \in Seq(S) /\ destination \in Seq(S)
    BY <1>1, SequenceOver
<1>3. Len(p) \in Nat /\ Len(destination) \in Nat
    BY DEF IsSequence
<1>4. a \in Seq(S) /\ Len(a) = 8 /\ b \in Seq(S) /\ Len(b) = 4
    BY <1>1, <1>3, NumberCells
<1>5. VaultParameters(max_fee, destination) = (a \o b) \o destination
    BY DEF VaultParameters
<1>6. ASSUME VaultParametersValid(p), destination = Bytes(p, 12, Len(p) - 12)
      PROVE  p = VaultParameters(max_fee, destination)
  <2>1. Len(p) >= 12 /\ Len(p) = 12 + length
      BY <1>6 DEF VaultParametersValid
  <2>2. destination = SubSeq(p, 13, Len(p))
    <3>1. 12 + 1 = 13 /\ 12 + (Len(p) - 12) = Len(p)
        BY <1>3
    <3> QED
        BY <1>6, <3>1 DEF Bytes
  <2>3. Len(destination) = length
    <3> DEFINE l == Len(p)
    <3>1. l \in Nat /\ l = 12 + length /\ destination = SubSeq(p, 13, l)
        BY <1>3, <2>1, <2>2
    <3>2. \A i \in 13..l : p[i] \in S
        BY <1>1, <1>3
    <3> HIDE DEF l
    <3>3. Len(SubSeq(p, 13, l)) = IF 13 <= l THEN l - 13 + 1 ELSE 0
        BY <3>1, <3>2, SubSeqProperties
    <3> QED
        BY <3>1, <3>3
  <2>4. SubSeq(p, 1, 12) \o SubSeq(p, 13, Len(p)) = p
    <3>1. 1 \in 1..(Len(p) + 1) /\ 12 \in (1 - 1)..Len(p) /\ Len(p) \in 12..Len(p) /\ 12 + 1 = 13
        BY <1>3, <2>1
    <3>2. SubSeq(p, 1, 12) \o SubSeq(p, 12 + 1, Len(p)) = SubSeq(p, 1, Len(p))
        BY <1>2, <3>1, ConcatAdjacentSubSeq
    <3>3. SubSeq(p, 1, Len(p)) = p
        BY <1>2, SubSeqFull
    <3> QED
        BY <3>1, <3>2, <3>3
  <2>5. SubSeq(p, 1, 12) = a \o b
      BY <2>1, <2>3
  <2> HIDE DEF a, b
  <2> QED
      BY <1>5, <2>2, <2>4, <2>5
<1>7. ASSUME p = VaultParameters(max_fee, destination)
      PROVE  VaultParametersValid(p) /\ destination = Bytes(p, 12, Len(p) - 12)
  <2> DEFINE ab == a \o b
  <2> HIDE DEF a, b
  <2>1. ab \in Seq(S) /\ Len(ab) = 12 /\ Holds(ab, 8, b)
    <3>1. a \o b \in Seq(S) /\ Len(a \o b) = Len(a) + Len(b)
        BY <1>4, Concat
    <3>2. Holds(a \o b, Len(a), b)
        BY <1>4, HoldsConcat
    <3> QED
        BY <1>4, <3>1, <3>2
  <2>2. p = ab \o destination
      BY <1>5, <1>7
  <2> HIDE DEF ab
  <2>3. Len(p) = 12 + Len(destination) /\ Holds(p, 8, b) /\ Holds(p, 12, destination)
    <3>1. Len(ab \o destination) = Len(ab) + Len(destination)
        BY <1>2, <2>1, Concat
    <3>2. Holds(ab \o destination, Len(ab), destination)
        BY <1>2, <2>1, HoldsConcat
    <3>3. Holds(ab \o destination, 8, b)
        BY <1>2, <2>1, HoldsBefore
    <3> QED
        BY <2>1, <2>2, <3>1, <3>2, <3>3
  <2>4. Number(p, 8) = Len(destination)
    <3>1. Holds(p, 8, U32(Len(destination)))
        BY <2>3 DEF b
    <3> QED
        BY <1>3, <3>1, HoldsNumber
  <2>5. Bytes(p, 12, Len(destination)) = destination
      BY <1>2, <2>3, HoldsBytes
  <2>6. Len(p) - 12 = Len(destination) /\ Len(p) >= 12
      BY <1>3, <2>3
  <2>7. VaultParametersValid(p)
      BY <2>3, <2>4, <2>6 DEF VaultParametersValid
  <2> QED
      BY <2>5, <2>6, <2>7
<1> QED
    BY <1>6, <1>7

-----------------------------------------------------------------------------
(* The arguments of an evaluation and where the arena places them: each    *)
(* after the ones before it.                                               *)
Arguments(r) ==
    <<r.instance.program, r.instance.parameters,
      EncodeView(Version(r.instance.guest), r.tx), r.witness>>

WithinLimits(r) ==
    /\ \A argument \in {r.instance.program, r.instance.parameters, r.witness} :
          Len(argument) <= MaxArgument
    /\ ViewSize(Version(r.instance.guest), r.tx) <= MaxView

Fits(args) ==
    /\ IsSequence(args) /\ Len(args) = 4
    /\ \A i \in 1..4 : IsSequence(args[i])
    /\ \A i \in {1, 2, 4} : Len(args[i]) <= MaxArgument
    /\ Len(args[3]) <= MaxView

Offset(args, i) ==
    CASE i = 1 -> 0
      [] i = 2 -> Len(args[1])
      [] i = 3 -> Len(args[1]) + Len(args[2])
      [] i = 4 -> Len(args[1]) + Len(args[2]) + Len(args[3])
      [] OTHER -> Len(args[1]) + Len(args[2]) + Len(args[3]) + Len(args[4])

(* An evaluation in progress or done is of an authentic request; the arena *)
(* holds the arguments placed so far, and the scratch space comes after.   *)
Evaluated == Authentic /\ arguments = Arguments(request)

Placed ==
    /\ used = Offset(arguments, Len(pointers) + 1)
    /\ \A i \in 1..Len(pointers) :
          pointers[i] = IF arguments[i] = <<>> THEN 0 ELSE ArenaBase + Offset(arguments, i)

ScratchInv ==
    scratch # <<>> =>
        /\ request.instance.guest = "template" /\ phase \in {"signed", "rejected"}
        /\ scratch = Scratch(view, used)

EvaluationInv ==
    /\ Evaluated
    /\ request.instance.guest \in ArenaGuests => Placed /\ (phase = "place" \/ Len(pointers) = 4)
    /\ request.instance.guest \notin ArenaGuests => pointers = <<>>
    /\ ScratchInv

ArenaInv ==
    /\ phase = "authenticate" => arguments = <<>> /\ used = 0 /\ scratch = <<>>
    /\ phase \in {"place", "evaluate"} => arguments # <<>>
    /\ phase = "place" => request.instance.guest \in ArenaGuests /\ Len(pointers) < 4
    /\ phase \in {"place", "evaluate", "signed", "rejected"} =>
          IF arguments = <<>> THEN scratch = <<>> ELSE EvaluationInv

ExampleInv == TypeOK /\ ArenaInv

(* A request within the limits has arguments that fit, and a view from     *)
(* which the number of inputs can be read.                                 *)
LEMMA Contents ==
    ASSUME NEW r, IsRequest(r), WithinLimits(r)
    PROVE  /\ Fits(Arguments(r))
           /\ Len(Arguments(r)[3]) = ViewSize(Version(r.instance.guest), r.tx)
           /\ Number(Arguments(r)[3], 12) = Len(r.tx.inputs)
           /\ Len(r.tx.inputs) \in Nat
<1> DEFINE version == Version(r.instance.guest)
           size == ViewSize(version, r.tx)
           encoded == EncodeView(version, r.tx)
           tx == r.tx
           args == <<r.instance.program, r.instance.parameters, encoded, r.witness>>
<1>1. IsTransaction(tx) /\ Len(tx.inputs) \in Nat
    BY DEF IsRequest, IsTransaction, IsSequence
<1>2. /\ IsSequence(EncodeView(version, tx)) /\ Len(EncodeView(version, tx)) = ViewSize(version, tx)
      /\ ViewSize(version, tx) < NumberRange =>
            Number(EncodeView(version, tx), 12) = Len(tx.inputs)
  <2> HIDE DEF version, tx
  <2> QED
      BY <1>1, ViewLength
<1>3. IsSequence(encoded) /\ Len(encoded) = size /\ size <= MaxView /\ size \in Nat
  <2>1. IsSequence(encoded) /\ Len(encoded) = size /\ size <= MaxView
      BY <1>2 DEF WithinLimits
  <2> HIDE DEF encoded, size
  <2> QED
      BY <2>1 DEF IsSequence
<1>4. Number(encoded, 12) = Len(r.tx.inputs)
  <2>1. MaxView \in Nat /\ MaxView < NumberRange /\ NumberRange \in Nat
      BY ArenaAssumption, SMT DEF NumberRange
  <2>2. size < NumberRange
    <3> HIDE DEF size
    <3> QED
        BY <1>3, <2>1, SMT
  <2> QED
      BY <1>2, <2>2
<1>5. /\ IsSequence(r.instance.program) /\ IsSequence(r.instance.parameters)
      /\ IsSequence(r.witness)
      /\ Len(r.instance.program) <= MaxArgument /\ Len(r.instance.parameters) <= MaxArgument
      /\ Len(r.witness) <= MaxArgument
    BY DEF IsRequest, WithinLimits
<1> HIDE DEF encoded, size
<1>6. Fits(args)
  <2>1. IsSequence(args) /\ Len(args) = 4
      BY DEF IsSequence
  <2>2. args[1] = r.instance.program /\ args[2] = r.instance.parameters /\ args[3] = encoded
        /\ args[4] = r.witness
      OBVIOUS
  <2>3. ASSUME NEW i \in 1..4
        PROVE  IsSequence(args[i])
    <3>1. i = 1 \/ i = 2 \/ i = 3 \/ i = 4
        OBVIOUS
    <3> HIDE DEF args
    <3> QED
        BY <1>3, <1>5, <2>2, <3>1
  <2> HIDE DEF args
  <2>4. Len(args[1]) <= MaxArgument /\ Len(args[2]) <= MaxArgument /\ Len(args[4]) <= MaxArgument
      BY <1>5, <2>2
  <2>5. Len(args[3]) <= MaxView
      BY <1>3, <2>2
  <2> QED
      BY <2>1, <2>3, <2>4, <2>5 DEF Fits
<1>7. Arguments(r) = args
    BY DEF Arguments, encoded
<1>8. Arguments(r)[3] = encoded
    BY <1>7
<1> HIDE DEF args
<1> QED
    BY <1>1, <1>3, <1>4, <1>6, <1>7, <1>8 DEF size

(* Arguments that fit take the arena one after the other, within it.       *)
LEMMA Offsets ==
    ASSUME NEW args, Fits(args)
    PROVE  /\ \A i \in 1..5 : Offset(args, i) \in 0..Capacity
           /\ \A i \in 1..4 : /\ Len(args[i]) \in Nat
                              /\ Offset(args, i + 1) = Offset(args, i) + Len(args[i])
           /\ \A i, j \in 1..5 : i < j => Offset(args, i) + Len(args[i]) <= Offset(args, j)
           /\ Offset(args, 1) = 0
<1> DEFINE p == Len(args[1])
           q == Len(args[2])
           v == Len(args[3])
           w == Len(args[4])
<1>1. p \in Nat /\ q \in Nat /\ v \in Nat /\ w \in Nat
    BY DEF Fits, IsSequence
<1>2. p <= MaxArgument /\ q <= MaxArgument /\ w <= MaxArgument /\ v <= MaxView
    BY DEF Fits
<1>3. /\ Offset(args, 1) = 0 /\ Offset(args, 2) = p /\ Offset(args, 3) = p + q
      /\ Offset(args, 4) = p + q + v /\ Offset(args, 5) = p + q + v + w
    BY DEF Offset
<1>4. Capacity = MaxView + 3 * MaxArgument /\ MaxView \in Nat /\ MaxArgument \in Nat
    BY ArenaAssumption DEF Capacity
<1>5. /\ p = Len(args[1]) /\ q = Len(args[2]) /\ v = Len(args[3]) /\ w = Len(args[4])
    OBVIOUS
<1> HIDE DEF p, q, v, w
<1>6. ASSUME NEW i \in 1..5
      PROVE  Offset(args, i) \in 0..Capacity
  <2>1. i = 1 \/ i = 2 \/ i = 3 \/ i = 4 \/ i = 5
      OBVIOUS
  <2> QED
      BY <1>1, <1>2, <1>3, <1>4, <2>1
<1>7. ASSUME NEW i \in 1..4
      PROVE  /\ Len(args[i]) \in Nat
             /\ Offset(args, i + 1) = Offset(args, i) + Len(args[i])
  <2>1. i = 1 \/ i = 2 \/ i = 3 \/ i = 4
      OBVIOUS
  <2>2. CASE i = 1
    <3>1. i + 1 = 2
        BY <2>2
    <3> QED
        BY <1>1, <1>3, <1>5, <2>2, <3>1
  <2>3. CASE i = 2
    <3>1. i + 1 = 3
        BY <2>3
    <3> QED
        BY <1>1, <1>3, <1>5, <2>3, <3>1
  <2>4. CASE i = 3
    <3>1. i + 1 = 4
        BY <2>4
    <3> QED
        BY <1>1, <1>3, <1>5, <2>4, <3>1
  <2>5. CASE i = 4
    <3>1. i + 1 = 5
        BY <2>5
    <3> QED
        BY <1>1, <1>3, <1>5, <2>5, <3>1
  <2> QED
      BY <2>1, <2>2, <2>3, <2>4, <2>5
<1>8. ASSUME NEW i \in 1..5, NEW j \in 1..5, i < j
      PROVE  Offset(args, i) + Len(args[i]) <= Offset(args, j)
  <2>1. i \in 1..4 /\ i + 1 \in 2..5 /\ i + 1 <= j
      BY <1>8
  <2>2. Offset(args, i + 1) = Offset(args, i) + Len(args[i])
      BY <1>7, <2>1
  <2>3. \A k \in 2..5 : k <= j => Offset(args, k) <= Offset(args, j)
    <3>1. CASE j = 1
        BY <3>1
    <3>2. CASE j = 2
      <4>1. \A k \in 2..5 : k <= j => k = 2
          BY <3>2
      <4> QED
          BY <1>1, <1>3, <3>2, <4>1
    <3>3. CASE j = 3
      <4>1. \A k \in 2..5 : k <= j => k = 2 \/ k = 3
          BY <3>3
      <4> QED
          BY <1>1, <1>3, <3>3, <4>1
    <3>4. CASE j = 4
      <4>1. \A k \in 2..5 : k <= j => k = 2 \/ k = 3 \/ k = 4
          BY <3>4
      <4> QED
          BY <1>1, <1>3, <3>4, <4>1
    <3>5. CASE j = 5
      <4>1. \A k \in 2..5 : k = 2 \/ k = 3 \/ k = 4 \/ k = 5
          OBVIOUS
      <4> QED
          BY <1>1, <1>3, <3>5, <4>1
    <3> QED
        BY <3>1, <3>2, <3>3, <3>4, <3>5
  <2> QED
      BY <2>1, <2>2, <2>3
<1> QED
    BY <1>3, <1>6, <1>7, <1>8

(* What an allocation returns.                                             *)
LEMMA Allocated ==
    ASSUME NEW from \in 0..Capacity, NEW length \in Nat
    PROVE  /\ Alloc(from, length).pointer \in Nat
           /\ Alloc(from, length).used \in from..Capacity
           /\ Alloc(from, length) \in [pointer : Nat, used : 0..Capacity]
           /\ Alloc(from, length).pointer # 0 =>
                 /\ Alloc(from, length).pointer = ArenaBase + from
                 /\ Alloc(from, length).used = from + length
<1>1. Capacity \in Nat /\ ArenaBase \in Nat
    BY ArenaAssumption DEF Capacity
<1>2. CASE from + length > Capacity
    BY <1>1, <1>2 DEF Alloc
<1>3. CASE ~(from + length > Capacity)
    BY <1>1, <1>3 DEF Alloc
<1> QED
    BY <1>2, <1>3

(* A nonempty sequence's tail is a sequence of its later elements.         *)
LEMMA TailSequence ==
    ASSUME NEW s, IsSequence(s), s # <<>>
    PROVE  /\ Len(s) >= 1 /\ IsSequence(Tail(s)) /\ Len(Tail(s)) = Len(s) - 1
           /\ \A i \in 1..Len(Tail(s)) : Tail(s)[i] = s[i + 1]
<1> DEFINE S == {s[i] : i \in 1..Len(s)}
<1>1. s \in Seq(S)
  <2>1. \A i \in 1..Len(s) : s[i] \in S
      OBVIOUS
  <2> HIDE DEF S
  <2> QED
      BY <2>1, SequenceOver
<1> HIDE DEF S
<1>2. Tail(s) \in Seq(S) /\ Len(Tail(s)) = Len(s) - 1 /\ Len(s) >= 1
      /\ \A i \in 1..Len(Tail(s)) : Tail(s)[i] = s[i + 1]
    BY <1>1, HeadTailProperties, EmptySeq
<1> QED
    BY <1>2, SequenceOf

-----------------------------------------------------------------------------
(* The request under way is a request.                                     *)
LEMMA CurrentRequest ==
    ASSUME TypeOK, steps # <<>>
    PROVE  IsRequest(request) /\ Len(steps) >= 1
<1>1. IsSequence(steps) /\ \A i \in 1..Len(steps) : IsRequest(steps[i].request)
    BY DEF TypeOK, IsPlan
<1>2. Len(steps) >= 1 /\ Len(steps) \in Nat
    BY <1>1, TailSequence DEF IsSequence
<1> QED
    BY <1>1, <1>2 DEF request

(* The arguments of an evaluation fit the arena.                           *)
LEMMA EvaluatedFits ==
    ASSUME IsRequest(request), Evaluated
    PROVE  /\ Fits(arguments)
           /\ Len(view) = ViewSize(Version(request.instance.guest), request.tx)
           /\ Len(view) \in Nat /\ Len(view) <= MaxView
           /\ Number(view, 12) = Len(request.tx.inputs) /\ Len(request.tx.inputs) \in Nat
<1>1. WithinLimits(request) /\ arguments = Arguments(request)
    BY DEF Evaluated, Authentic, WithinLimits
<1> DEFINE r == request
<1>2. IsRequest(r) /\ WithinLimits(r) /\ arguments = Arguments(r)
    BY <1>1
<1>3. /\ Fits(Arguments(r))
      /\ Len(Arguments(r)[3]) = ViewSize(Version(r.instance.guest), r.tx)
      /\ Number(Arguments(r)[3], 12) = Len(r.tx.inputs)
      /\ Len(r.tx.inputs) \in Nat
  <2> HIDE DEF r
  <2> QED
      BY <1>2, Contents
<1>4. Fits(arguments)
    BY <1>2, <1>3
<1>5. Len(view) \in Nat /\ Len(view) <= MaxView
    BY <1>4 DEF Fits, IsSequence, view
<1> QED
    BY <1>2, <1>3, <1>4, <1>5 DEF view

(* The empty sequence, and the variables before anything is evaluated.     *)
LEMMA Empty ==
    /\ IsSequence(<<>>) /\ Len(<<>>) = 0 /\ \A S : <<>> \in Seq(S)
    /\ 0 \in 0..Capacity /\ Capacity \in Nat
BY ArenaAssumption DEF IsSequence, Capacity

(* Every plan starts in the invariant.                                     *)
LEMMA ExampleStart == Init => ExampleInv
<1> SUFFICES ASSUME Init PROVE ExampleInv
    OBVIOUS
<1>1. IsPlan(steps) /\ phase = "client" /\ arguments = <<>> /\ pointers = <<>> /\ used = 0
      /\ scratch = <<>>
    BY DEF Init, Begin
<1>2. TypeOK
    BY <1>1, Empty DEF TypeOK
<1>3. ArenaInv
    BY <1>1 DEF ArenaInv
<1> QED
    BY <1>2, <1>3 DEF ExampleInv

(* A submission starts with an empty arena.                                *)
LEMMA SubmitKeeps == ExampleInv /\ Submit => ExampleInv'
<1> SUFFICES ASSUME ExampleInv, Submit PROVE ExampleInv'
    OBVIOUS
<1>1. /\ steps' = steps /\ steps # <<>> /\ phase' \in {"authenticate", "failed"}
      /\ arguments' = <<>> /\ pointers' = <<>> /\ used' = 0 /\ scratch' = <<>>
    BY DEF Submit
<1>2. IsPlan(steps')
    BY <1>1 DEF ExampleInv, TypeOK
<1>3. TypeOK'
    BY <1>1, <1>2, Empty DEF TypeOK
<1>4. ArenaInv'
    BY <1>1 DEF ArenaInv
<1> QED
    BY <1>3, <1>4 DEF ExampleInv

(* Authentication either rejects or leaves arguments that fit.             *)
LEMMA AuthenticateKeeps == ExampleInv /\ Authenticate => ExampleInv'
<1> SUFFICES ASSUME ExampleInv, Authenticate PROVE ExampleInv'
    OBVIOUS
<1>1. /\ steps' = steps /\ steps # <<>> /\ pointers' = pointers /\ used' = 0 /\ scratch' = <<>>
      /\ IsPlan(steps') /\ arguments = <<>> /\ phase = "authenticate"
    BY DEF Authenticate, ExampleInv, TypeOK, ArenaInv
<1>2. pointers' = <<>>
    BY <1>1, Empty, EmptySeq DEF ExampleInv, TypeOK
<1>3. CASE ~Authentic
  <2>1. phase' = "rejected" /\ arguments' = <<>>
      BY <1>3 DEF Authenticate
  <2>2. TypeOK'
      BY <1>1, <1>2, <2>1, Empty DEF TypeOK
  <2>3. ArenaInv'
      BY <1>1, <2>1 DEF ArenaInv
  <2> QED
      BY <2>2, <2>3 DEF ExampleInv
<1>4. CASE Authentic
  <2>1. /\ arguments' = Arguments(request)
        /\ phase' = IF request.instance.guest \in ArenaGuests THEN "place" ELSE "evaluate"
      BY <1>4 DEF Authenticate, Arguments
  <2>2. request' = request /\ Authentic'
      BY <1>1, <1>4 DEF request, Authentic
  <2>3. IsRequest(request) /\ WithinLimits(request)
      BY <1>1, <1>4, CurrentRequest DEF ExampleInv, Authentic, WithinLimits
  <2>4. Fits(arguments')
    <3> DEFINE r == request
    <3>1. IsRequest(r) /\ WithinLimits(r) /\ arguments' = Arguments(r)
        BY <2>1, <2>3
    <3> HIDE DEF r
    <3> QED
        BY <3>1, Contents
  <2>5. Len(arguments') = 4 /\ IsSequence(arguments') /\ arguments' # <<>>
        /\ \A i \in 1..4 : IsSequence(arguments'[i])
      BY <2>4, Empty DEF Fits
  <2>6. TypeOK'
      BY <1>1, <1>2, <2>1, <2>5, Empty DEF TypeOK
  <2>7. Evaluated'
      BY <2>1, <2>2 DEF Evaluated
  <2>8. Placed'
    <3>1. Len(pointers') = 0 /\ Len(pointers') + 1 = 1
        BY <1>2, Empty
    <3>2. Offset(arguments', Len(pointers') + 1) = 0
        BY <3>1 DEF Offset
    <3>3. 1..Len(pointers') = {}
        BY <3>1
    <3> QED
        BY <1>1, <3>2, <3>3 DEF Placed
  <2>9. Len(pointers') < 4
      BY <1>2, Empty
  <2>10. EvaluationInv'
      BY <1>1, <1>2, <2>1, <2>2, <2>7, <2>8 DEF EvaluationInv, ScratchInv
  <2>11. ArenaInv'
      BY <2>1, <2>2, <2>5, <2>9, <2>10 DEF ArenaInv
  <2> QED
      BY <2>6, <2>11 DEF ExampleInv
<1> QED
    BY <1>3, <1>4

(* The next argument is placed where the ones before it end: the           *)
(* allocation always succeeds.                                             *)
LEMMA PlaceKeeps == ExampleInv /\ Place => ExampleInv'
<1> SUFFICES ASSUME ExampleInv, Place PROVE ExampleInv'
    OBVIOUS
<1> DEFINE n == Len(pointers)
           k == n + 1
           argument == arguments[k]
           range == IF argument = <<>> THEN [pointer |-> 0, used |-> used]
                    ELSE Alloc(used, Len(argument))
           at == IF argument = <<>> THEN 0 ELSE ArenaBase + Offset(arguments, k)
<1>1. /\ phase = "place" /\ steps' = steps /\ arguments' = arguments /\ scratch' = scratch
      /\ pointers' = Append(pointers, range.pointer) /\ used' = range.used
      /\ phase' = IF Len(pointers') = 4 THEN "evaluate" ELSE "place"
    BY DEF Place
<1>2. /\ steps # <<>> /\ arguments # <<>> /\ n < 4 /\ request.instance.guest \in ArenaGuests
      /\ EvaluationInv /\ pointers \in Seq(Nat) /\ used \in 0..Capacity
    BY <1>1 DEF ExampleInv, TypeOK, ArenaInv
<1>3. Fits(arguments)
    BY <1>2, CurrentRequest, EvaluatedFits DEF ExampleInv, EvaluationInv
<1>4. n \in Nat /\ k \in 1..4 /\ k \in 1..5 /\ k + 1 \in 1..5
    BY <1>2
<1>5. Placed /\ used = Offset(arguments, k)
    BY <1>2 DEF EvaluationInv, Placed
<1>6. /\ Len(argument) \in Nat /\ Offset(arguments, k + 1) = used + Len(argument)
      /\ Offset(arguments, k + 1) \in 0..Capacity
  <2> HIDE DEF k
  <2> QED
      BY <1>3, <1>4, <1>5, Offsets
<1>7. range.pointer = at /\ range.used = Offset(arguments, k + 1)
  <2>1. CASE argument = <<>>
    <3>1. Len(argument) = 0
        BY <2>1
    <3>2. Offset(arguments, k + 1) = used
      <4> HIDE DEF k, argument
      <4> QED
          BY <1>2, <1>6, <3>1
    <3> QED
        BY <2>1, <3>2
  <2>2. CASE argument # <<>>
    <3>1. ~(used + Len(argument) > Capacity)
      <4> HIDE DEF k, argument
      <4> QED
          BY <1>2, <1>6, Empty
    <3>2. Alloc(used, Len(argument))
             = [pointer |-> ArenaBase + used, used |-> used + Len(argument)]
        BY <3>1 DEF Alloc
    <3> HIDE DEF k, argument
    <3> QED
        BY <1>5, <1>6, <2>2, <3>2
  <2> QED
      BY <2>1, <2>2
<1>8. at \in Nat
  <2>1. Offset(arguments, k) \in Nat /\ ArenaBase \in Nat
      BY <1>2, <1>5, ArenaAssumption
  <2> HIDE DEF k, argument
  <2> QED
      BY <2>1
<1>9. pointers' = Append(pointers, at) /\ used' = Offset(arguments, k + 1)
    BY <1>1, <1>7
<1>10. at = IF arguments[k] = <<>> THEN 0 ELSE ArenaBase + Offset(arguments, k)
    OBVIOUS
<1> HIDE DEF range, at, argument
<1>11. /\ pointers' \in Seq(Nat) /\ Len(pointers') = k /\ pointers'[k] = at
       /\ \A i \in 1..n : pointers'[i] = pointers[i]
    BY <1>2, <1>8, <1>9, AppendProperties
<1>12. Len(arguments) = 4
    BY <1>3 DEF Fits
<1>13. TypeOK'
  <2>1. used' \in 0..Capacity
      BY <1>6, <1>9
  <2>2. Len(pointers') <= Len(arguments')
      BY <1>1, <1>4, <1>11, <1>12
  <2>3. phase' \in {"evaluate", "place"}
      BY <1>1
  <2> HIDE DEF k, n
  <2> QED
      BY <1>1, <1>2, <1>11, <2>1, <2>2, <2>3 DEF ExampleInv, TypeOK
<1>14. Placed'
  <2>1. used' = Offset(arguments', Len(pointers') + 1)
    <3> HIDE DEF k
    <3> QED
        BY <1>1, <1>9, <1>11
  <2>2. ASSUME NEW i \in 1..Len(pointers')
        PROVE  pointers'[i] = IF arguments'[i] = <<>> THEN 0 ELSE ArenaBase + Offset(arguments', i)
    <3>1. i \in 1..n \/ i = k
        BY <1>4, <1>11
    <3>2. CASE i = k
      <4> HIDE DEF k
      <4> QED
          BY <1>1, <1>10, <1>11, <3>2
    <3>3. CASE i \in 1..n
      <4>1. pointers'[i] = pointers[i]
          BY <1>11, <3>3
      <4>2. pointers[i] = IF arguments[i] = <<>> THEN 0 ELSE ArenaBase + Offset(arguments, i)
          BY <1>5, <3>3 DEF Placed
      <4> QED
          BY <1>1, <4>1, <4>2
    <3> QED
        BY <3>1, <3>2, <3>3
  <2> QED
      BY <2>1, <2>2 DEF Placed
<1>15. request' = request /\ Evaluated'
  <2>1. request' = request
      BY <1>1 DEF request
  <2>2. Authentic'
      BY <1>1, <1>2 DEF EvaluationInv, Evaluated, Authentic, request
  <2> QED
      BY <1>1, <1>2, <2>1, <2>2 DEF EvaluationInv, Evaluated
<1>16. phase' = "place" \/ Len(pointers') = 4
    BY <1>1
<1>17. scratch' = <<>>
    BY <1>1, <1>2 DEF EvaluationInv, ScratchInv
<1>18. EvaluationInv'
    BY <1>2, <1>14, <1>15, <1>16, <1>17 DEF EvaluationInv, ScratchInv
<1>19. phase' = "place" => Len(pointers') < 4
    BY <1>1, <1>4, <1>11
<1>20. ArenaInv'
    BY <1>1, <1>2, <1>15, <1>18, <1>19 DEF ArenaInv
<1> QED
    BY <1>13, <1>20 DEF ExampleInv

(* The scratch space of a template is two allocations after the arguments. *)
LEMMA ScratchType ==
    ASSUME NEW from \in 0..Capacity, NEW v, Number(v, 12) \in Nat, Len(v) \in Nat
    PROVE  /\ Scratch(v, from) \in Seq([pointer : Nat, used : 0..Capacity])
           /\ Len(Scratch(v, from)) = 2
<1> DEFINE one == Alloc(from, 4 * Number(v, 12))
           two == Alloc(one.used, Len(v))
           R == [pointer : Nat, used : 0..Capacity]
<1>1. one \in R /\ one.used \in 0..Capacity
  <2>1. 4 * Number(v, 12) \in Nat
      OBVIOUS
  <2> QED
      BY <2>1, Allocated
<1>2. two \in R
  <2> HIDE DEF one
  <2> QED
      BY <1>1, Allocated
<1>3. Scratch(v, from) = <<one, two>>
    BY DEF Scratch
<1> HIDE DEF one, two, R
<1>4. <<one, two>> \in Seq(R) /\ Len(<<one, two>>) = 2
    BY <1>1, <1>2
<1> QED
    BY <1>3, <1>4 DEF R

(* An evaluation allocates scratch space for a template, nothing else.     *)
LEMMA EvaluateKeeps == ExampleInv /\ Evaluate => ExampleInv'
<1> SUFFICES ASSUME ExampleInv, Evaluate PROVE ExampleInv'
    OBVIOUS
<1>1. /\ phase = "evaluate" /\ steps' = steps /\ arguments' = arguments
      /\ pointers' = pointers /\ used' = used /\ phase' \in {"signed", "rejected"}
      /\ scratch' = IF request.instance.guest = "template" THEN Scratch(view, used) ELSE <<>>
    BY DEF Evaluate
<1>2. steps # <<>> /\ arguments # <<>> /\ EvaluationInv /\ used \in 0..Capacity
    BY <1>1 DEF ExampleInv, TypeOK, ArenaInv
<1>3. /\ Len(view) \in Nat /\ Number(view, 12) \in Nat
    BY <1>2, CurrentRequest, EvaluatedFits DEF ExampleInv, EvaluationInv
<1>4. /\ scratch' \in Seq([pointer : Nat, used : 0..Capacity]) /\ Len(scratch') \in {0, 2}
  <2> DEFINE v == view
             R == [pointer : Nat, used : 0..Capacity]
  <2>1. Len(v) \in Nat /\ Number(v, 12) \in Nat
      BY <1>3
  <2>2. Scratch(v, used) \in Seq(R) /\ Len(Scratch(v, used)) = 2
    <3> HIDE DEF v
    <3> QED
        BY <1>2, <2>1, ScratchType
  <2>3. <<>> \in Seq(R) /\ Len(<<>>) = 0
      OBVIOUS
  <2>4. scratch' = Scratch(v, used) \/ scratch' = <<>>
      BY <1>1
  <2> HIDE DEF v, R
  <2>5. scratch' \in Seq(R) /\ Len(scratch') \in {0, 2}
      BY <2>2, <2>3, <2>4
  <2> QED
      BY <2>5 DEF R
<1>5. TypeOK'
    BY <1>1, <1>2, <1>4 DEF ExampleInv, TypeOK
<1>6. request' = request /\ Evaluated' /\ view' = view
  <2>1. request' = request /\ view' = view
      BY <1>1 DEF request, view
  <2>2. Authentic'
      BY <1>1, <1>2 DEF EvaluationInv, Evaluated, Authentic, request
  <2> QED
      BY <1>1, <1>2, <2>1, <2>2 DEF EvaluationInv, Evaluated
<1>7. Placed => Placed'
    BY <1>1 DEF Placed
<1>8. ScratchInv'
    BY <1>1, <1>6 DEF ScratchInv
<1>9. EvaluationInv'
    BY <1>1, <1>2, <1>6, <1>7, <1>8 DEF EvaluationInv
<1>10. ArenaInv'
    BY <1>1, <1>2, <1>9 DEF ArenaInv
<1> QED
    BY <1>5, <1>10 DEF ExampleInv

(* A verdict drops the submitted step, or stops the client.                *)
LEMMA VerdictKeeps == ExampleInv /\ Verdict => ExampleInv'
<1> SUFFICES ASSUME ExampleInv, Verdict PROVE ExampleInv'
    OBVIOUS
<1>1. /\ arguments' = arguments /\ pointers' = pointers /\ used' = used /\ scratch' = scratch
      /\ phase' \in {"client", "failed"} /\ (steps' = steps \/ steps' = Tail(steps))
      /\ phase \in {"signed", "rejected"}
    BY DEF Verdict
<1>2. IsPlan(steps')
  <2>1. IsSequence(steps) /\ steps # <<>> /\ \A i \in 1..Len(steps) : IsRequest(steps[i].request)
      BY <1>1 DEF ExampleInv, TypeOK, IsPlan
  <2>2. /\ IsSequence(Tail(steps)) /\ Len(Tail(steps)) = Len(steps) - 1 /\ Len(steps) \in Nat
        /\ \A i \in 1..Len(Tail(steps)) : Tail(steps)[i] = steps[i + 1]
      BY <2>1, TailSequence DEF IsSequence
  <2>3. \A i \in 1..Len(Tail(steps)) : i + 1 \in 1..Len(steps)
      BY <2>2
  <2>4. \A i \in 1..Len(Tail(steps)) : IsRequest(Tail(steps)[i].request)
      BY <2>1, <2>2, <2>3
  <2> QED
      BY <1>1, <2>1, <2>2, <2>4 DEF IsPlan
<1>3. TypeOK'
    BY <1>1, <1>2 DEF ExampleInv, TypeOK
<1>4. ArenaInv'
    BY <1>1 DEF ArenaInv
<1> QED
    BY <1>3, <1>4 DEF ExampleInv

(* The invariant of every behaviour.                                       *)
LEMMA ExampleInvariant == Spec => []ExampleInv
<1>1. ExampleInv /\ UNCHANGED vars => ExampleInv'
    BY DEF ExampleInv, TypeOK, ArenaInv, EvaluationInv, Evaluated, Authentic, Placed, ScratchInv,
           request, view, vars
<1>2. ExampleInv /\ [Next]_vars => ExampleInv'
    BY <1>1, SubmitKeeps, AuthenticateKeeps, PlaceKeeps, EvaluateKeeps, VerdictKeeps DEF Next
<1> QED
    BY <1>2, ExampleStart, PTL DEF Spec

(* The shapes of the variables: the arena of a guest is never overdrawn    *)
(* (sapio_alloc_v1), whatever a client submits.                            *)
THEOREM ExampleTypes == Spec => []TypeOK
<1>1. ExampleInv => TypeOK
    BY DEF ExampleInv
<1> QED
    BY <1>1, ExampleInvariant, PTL

(* The size computed before encode_view writes is the size of what it      *)
(* writes, for every transaction and both versions (the debug_assert of    *)
(* evaluator.rs holds).                                                    *)
THEOREM ViewSizeExact == Spec => []SizeIsExact
<1>1. ExampleInv => SizeIsExact
  <2> SUFFICES ASSUME ExampleInv, phase = "evaluate"
               PROVE  /\ Len(view) = ViewSize(Version(request.instance.guest), request.tx)
                      /\ Len(view) <= MaxView
      BY DEF SizeIsExact
  <2>1. steps # <<>> /\ Evaluated
      BY DEF ExampleInv, TypeOK, ArenaInv, EvaluationInv
  <2> QED
      BY <2>1, CurrentRequest, EvaluatedFits DEF ExampleInv
<1> QED
    BY <1>1, ExampleInvariant, PTL

(* The guest can read the arguments the arena was given.                   *)
LEMMA Readable ==
    ASSUME ExampleInv, phase = "evaluate", request.instance.guest \in ArenaGuests
    PROVE  ArgumentsReadable(pointers, arguments, used)
<1>1. steps # <<>> /\ Evaluated /\ Placed /\ Len(pointers) = 4
    BY DEF ExampleInv, TypeOK, ArenaInv, EvaluationInv
<1>2. Fits(arguments)
    BY <1>1, CurrentRequest, EvaluatedFits DEF ExampleInv
<1>3. ASSUME NEW i \in 1..4
      PROVE  InputSlice(pointers[i], Len(arguments[i]), used)
  <2>1. used = Offset(arguments, 5)
      BY <1>1 DEF Placed
  <2>2. pointers[i] = IF arguments[i] = <<>> THEN 0 ELSE ArenaBase + Offset(arguments, i)
      BY <1>1 DEF Placed
  <2>3. i \in 1..5 /\ 5 \in 1..5 /\ i < 5
      OBVIOUS
  <2>4. /\ Offset(arguments, i) \in Nat /\ Len(arguments[i]) \in Nat
        /\ Offset(arguments, i) + Len(arguments[i]) <= Offset(arguments, 5)
      BY <1>2, <2>3, Offsets
  <2>5. CASE arguments[i] = <<>>
      BY <2>5 DEF InputSlice
  <2>6. CASE arguments[i] # <<>>
      BY <2>1, <2>2, <2>4, <2>6, ArenaAssumption DEF InputSlice
  <2> QED
      BY <2>5, <2>6
<1> QED
    BY <1>2, <1>3 DEF Fits, ArgumentsReadable

(* Arguments within the host's limits are all readable by the guest: the   *)
(* capacity of the arena is enough, whatever their lengths.                *)
THEOREM ArgumentsAlwaysFit == Spec => []ArgumentsFit
<1>1. ExampleInv => ArgumentsFit
    BY Readable DEF ArgumentsFit
<1> QED
    BY <1>1, ExampleInvariant, PTL

-----------------------------------------------------------------------------
(* The vault's predicate answers what the contract means: what it decodes  *)
(* is what was encoded, and every other shape is refused.                  *)
LEMMA VaultAnswer ==
    ASSUME NEW r, IsRequest(r), WithinLimits(r), InRange(r), Version(r.instance.guest) = 1
    PROVE  VaultEvaluate(r.instance.program, r.instance.parameters, EncodeView(1, r.tx), r.witness)
              = Yes <=> SweepMeant(r)
<1> DEFINE tx == r.tx
           program == r.instance.program
           p == r.instance.parameters
           witness == r.witness
           v == EncodeView(1, tx)
           count == 68 + Len(tx.inputs[1].script)
           payment == tx.outputs[1]
           max_fee == Number(p, 0)
           length == Number(p, 8)
           n == Len(tx.inputs)
           m == Len(tx.outputs)
           answer == VaultEvaluate(program, p, v, witness)
           meant == p = VaultParameters(max_fee, payment.script)
<1>1. /\ IsTransaction(tx) /\ IsSequence(p)
      /\ \A i \in 1..n : tx.inputs[i].value < NumberRange
      /\ \A i \in 1..m : tx.outputs[i].value < NumberRange
    BY DEF IsRequest, InRange
<1>2. /\ max_fee \in Nat /\ length \in Nat
      /\ Len(p) >= 12 => SubSeq(p, 1, 12) = U64(max_fee) \o U32(length)
  <2>1. max_fee \in 0..(NumberRange - 1) /\ length \in 0..(NumberRange - 1)
      BY DEF InRange
  <2>2. max_fee \in Nat /\ length \in Nat
    <3> HIDE DEF max_fee, length
    <3> QED
        BY <2>1, BelowRange, Zenon
  <2>3. Len(p) >= 12 => SubSeq(p, 1, 12) = U64(max_fee) \o U32(length)
      BY DEF InRange
  <2> QED
      BY <2>2, <2>3
<1>3. PICK S : Over(S, tx)
    BY <1>1, Alphabet
<1>4. Len(v) < NumberRange
  <2>1. IsSequence(v) /\ Len(v) = ViewSize(1, tx)
    <3> HIDE DEF tx
    <3> QED
        BY <1>1, ViewLength
  <2>2. Len(v) <= MaxView
      BY <2>1 DEF WithinLimits
  <2>3. Len(v) \in Nat
      BY <2>1 DEF IsSequence
  <2>4. MaxView \in Nat /\ MaxView < NumberRange /\ NumberRange \in Nat
      BY ArenaAssumption, SMT DEF NumberRange
  <2> HIDE DEF v
  <2> QED
      BY <2>2, <2>3, <2>4, SMT
<1>5. /\ v \in Seq(S) /\ Len(v) \in Nat /\ Len(v) >= 20
      /\ Number(v, 8) = tx.index /\ Number(v, 12) = n
      /\ n = 1 =>
            /\ Number(v, 56) = tx.inputs[1].value
            /\ Number(v, 64) = Len(tx.inputs[1].script)
            /\ count \in Nat /\ count + 4 <= Len(v)
            /\ Number(v, count) = m
      /\ n = 1 /\ m = 1 =>
            /\ Number(v, count + 4) = payment.value
            /\ Number(v, count + 12) = Len(payment.script)
            /\ Len(v) = count + 16 + Len(payment.script)
            /\ Bytes(v, count + 16, Len(payment.script)) = payment.script
  <2>1. v = EncodeView(1, tx) /\ count = 68 + Len(tx.inputs[1].script)
      OBVIOUS
  <2> HIDE DEF tx, v, count
  <2>2. VaultReads(S, tx, v, count)
      BY <1>1, <1>3, <1>4, <2>1, VaultView, Zenon
  <2> QED
      BY <2>2 DEF VaultReads
<1>6. m = 1 => /\ IsSequence(payment.script) /\ payment.value \in Nat
               /\ Len(payment.script) \in Nat
    BY <1>1 DEF IsTransaction, IsSequence
<1>7. n = 1 => tx.inputs[1].value \in Nat /\ tx.index = 0
    BY <1>1 DEF IsTransaction
<1>8. n = 1 /\ m = 1 =>
         ((VaultParametersValid(p) /\ payment.script = Bytes(p, 12, Len(p) - 12)) <=> meant)
  <2> SUFFICES ASSUME n = 1, m = 1
               PROVE  (VaultParametersValid(p) /\ payment.script = Bytes(p, 12, Len(p) - 12))
                         <=> meant
      OBVIOUS
  <2> DEFINE script == payment.script
             l == Len(script)
  <2>1. l < NumberRange
    <3>1. l \in Nat /\ Len(v) = count + 16 + l /\ count \in Nat
        BY <1>5, <1>6
    <3>2. NumberRange \in Nat
        BY SMT DEF NumberRange
    <3> HIDE DEF l, v, count
    <3> QED
        BY <1>4, <3>1, <3>2, SMT
  <2>2. IsSequence(script) /\ Len(script) < NumberRange
      BY <1>6, <2>1
  <2> HIDE DEF script
  <2>3. (VaultParametersValid(p) /\ script = Bytes(p, 12, Len(p) - 12))
           <=> p = VaultParameters(max_fee, script)
    <3> HIDE DEF p, max_fee
    <3> QED
        BY <1>1, <1>2, <2>2, ParametersMeant
  <2> QED
      BY <2>3 DEF script
<1>9. SweepMeant(r) <=>
         /\ program = <<>> /\ witness = <<>> /\ n = 1 /\ m = 1 /\ meant
         /\ payment.value >= 330 /\ tx.inputs[1].value - payment.value \in 0..max_fee
    BY DEF SweepMeant
<1> DEFINE at == 68 + Number(v, 64)
           end == at + 16 + Number(v, at + 12)
           swept == /\ Bytes(v, at + 16, Len(v) - at - 16) = Bytes(p, 12, Len(p) - 12)
                    /\ SweepAllowed(Number(v, 56), Number(v, at + 4), max_fee)
<1>10. answer = IF program # <<>> \/ witness # <<>> \/ ~VaultParametersValid(p) \/ Len(v) < 16
                THEN None
                ELSE IF Number(v, 8) # 0 \/ Number(v, 12) # 1 THEN No
                ELSE IF at + 4 > Len(v) THEN None
                ELSE IF Number(v, at) # 1 THEN No
                ELSE IF end # Len(v) THEN None
                ELSE Answer(swept)
    BY DEF VaultEvaluate
<1>11. Yes # No /\ Yes # None /\ \A b \in BOOLEAN : Answer(b) = Yes <=> b
    BY DEF Yes, No, None, Answer
<1> HIDE DEF tx, program, p, witness, v, count, payment, max_fee, length, n, m, answer, meant
<1>12. CASE ~(n = 1 /\ m = 1 /\ program = <<>> /\ witness = <<>> /\ VaultParametersValid(p))
  <2>1. ~SweepMeant(r)
      BY <1>8, <1>9, <1>12
  <2>2. answer # Yes
    <3>1. CASE program # <<>> \/ witness # <<>> \/ ~VaultParametersValid(p)
        BY <1>10, <1>11, <3>1
    <3>2. CASE n # 1
        BY <1>5, <1>10, <1>11, <3>2
    <3>3. CASE n = 1 /\ m # 1
      <4>1. at = count
          BY <1>5, <3>3 DEF count
      <4>2. Number(v, at) # 1
          BY <1>5, <3>3, <4>1
      <4> HIDE DEF at, end, swept
      <4> QED
          BY <1>10, <1>11, <4>2
    <3> QED
        BY <1>12, <3>1, <3>2, <3>3
  <2> QED
      BY <2>1, <2>2 DEF answer, program, p, v, witness, tx
<1>13. CASE n = 1 /\ m = 1 /\ program = <<>> /\ witness = <<>> /\ VaultParametersValid(p)
  <2>1. at = count
      BY <1>5, <1>13 DEF count
  <2>2. Number(v, 8) = 0 /\ Number(v, 12) = 1 /\ ~(Len(v) < 16)
      BY <1>5, <1>7, <1>13
  <2>3. ~(at + 4 > Len(v)) /\ Number(v, at) = 1
    <3> HIDE DEF at
    <3> QED
        BY <1>5, <1>13, <2>1
  <2>4. end = Len(v)
      BY <1>5, <1>13, <2>1
  <2>5. swept <=> meant /\ payment.value >= 330 /\ tx.inputs[1].value - payment.value \in 0..max_fee
    <3> DEFINE script == Len(payment.script)
    <3>1. Len(v) - count - 16 = script
      <4>1. Len(v) = count + 16 + script /\ count \in Nat /\ script \in Nat
          BY <1>5, <1>6, <1>13
      <4> HIDE DEF script
      <4> QED
          BY <4>1
    <3>2. Bytes(v, at + 16, Len(v) - at - 16) = payment.script
      <4>1. Bytes(v, count + 16, Len(v) - count - 16) = payment.script
          BY <1>5, <1>13, <3>1
      <4> HIDE DEF at
      <4> QED
          BY <2>1, <4>1
    <3>3. Number(v, 56) = tx.inputs[1].value /\ Number(v, at + 4) = payment.value
      <4> HIDE DEF at
      <4> QED
          BY <1>5, <1>13, <2>1
    <3>4. payment.script = Bytes(p, 12, Len(p) - 12) <=> meant
        BY <1>8, <1>13
    <3>5. SweepAllowed(tx.inputs[1].value, payment.value, max_fee)
             <=> payment.value >= 330 /\ tx.inputs[1].value - payment.value \in 0..max_fee
      <4> DEFINE x == tx.inputs[1].value
                 y == payment.value
      <4>1. x \in Nat /\ y \in Nat /\ max_fee \in Nat
          BY <1>2, <1>6, <1>7, <1>13
      <4> HIDE DEF x, y
      <4>2. SweepAllowed(x, y, max_fee) <=> y >= 330 /\ x - y \in 0..max_fee
          BY <4>1 DEF SweepAllowed
      <4> QED
          BY <4>2 DEF x, y
    <3> HIDE DEF at
    <3> QED
        BY <3>2, <3>3, <3>4, <3>5
  <2>6. answer = Answer(swept)
    <3> HIDE DEF at, end, swept
    <3> QED
        BY <1>10, <1>13, <2>2, <2>3, <2>4
  <2>7. answer = Yes <=> swept
    <3>1. swept \in BOOLEAN
        OBVIOUS
    <3> HIDE DEF swept
    <3> QED
        BY <1>11, <2>6, <3>1
  <2>8. answer = Yes <=> SweepMeant(r)
    <3> HIDE DEF swept
    <3> QED
        BY <1>9, <1>13, <2>5, <2>7
  <2> QED
      BY <2>8 DEF answer, program, p, v, witness, tx
<1> QED
    BY <1>12, <1>13

(* A signature of the vault is given for exactly the transactions that its *)
(* contract means: encode_view, the guest's decoder and the sweep rule of  *)
(* vault/predicate.rs agree with contract.rs for every request.            *)
THEOREM VaultVerdictExact == Spec => []VaultIsExact
<1>1. Init => VaultIsExact
    BY DEF Init, Begin, VaultIsExact
<1>2. ASSUME ExampleInv, VaultIsExact, [Next]_vars
      PROVE  VaultIsExact'
  <2>1. CASE Submit
      BY <2>1 DEF Submit, VaultIsExact
  <2>2. CASE Authenticate
    <3>1. CASE Authentic
        BY <2>2, <3>1 DEF Authenticate, VaultIsExact
    <3>2. CASE ~Authentic
      <4>1. steps' = steps
          BY <2>2 DEF Authenticate
      <4>2. ~Authentic'
          BY <3>2, <4>1 DEF Authentic, request
      <4> QED
          BY <4>2 DEF VaultIsExact
    <3> QED
        BY <3>1, <3>2
  <2>3. CASE Place
      BY <2>3 DEF Place, VaultIsExact
  <2>4. CASE Evaluate
    <3>1. /\ phase = "evaluate" /\ steps' = steps
          /\ phase' = IF GuestResult = Yes THEN "signed" ELSE "rejected"
        BY <2>4 DEF Evaluate
    <3>2. request' = request
        BY <3>1 DEF request
    <3> SUFFICES ASSUME request.instance.guest = "vault", InRange(request)
                 PROVE  phase' = "signed" <=> SweepMeant(request)
        BY <3>2 DEF VaultIsExact
    <3>3. /\ IsRequest(request) /\ WithinLimits(request) /\ view = EncodeView(1, request.tx)
          /\ Version(request.instance.guest) = 1
      <4>1. steps # <<>> /\ Evaluated
          BY <1>2, <3>1 DEF ExampleInv, TypeOK, ArenaInv, EvaluationInv
      <4>2. IsRequest(request)
          BY <1>2, <4>1, CurrentRequest DEF ExampleInv
      <4>3. WithinLimits(request)
          BY <4>1 DEF Evaluated, Authentic, WithinLimits
      <4>4. Version(request.instance.guest) = 1
          BY DEF Version, V2Guests
      <4> QED
          BY <4>1, <4>2, <4>3, <4>4 DEF Evaluated, Arguments, view
    <3>4. ArgumentsReadable(pointers, arguments, used)
        BY <1>2, <3>1, Readable DEF ArenaGuests
    <3>5. GuestResult = VaultEvaluate(request.instance.program, request.instance.parameters, view,
                                      request.witness)
        BY <3>4 DEF GuestResult
    <3>6. GuestResult = Yes <=> SweepMeant(request)
      <4> DEFINE r == request
      <4>1. VaultEvaluate(r.instance.program, r.instance.parameters, EncodeView(1, r.tx), r.witness)
              = Yes <=> SweepMeant(r)
        <5>1. IsRequest(r) /\ WithinLimits(r) /\ InRange(r) /\ Version(r.instance.guest) = 1
            BY <3>3
        <5> HIDE DEF r
        <5> QED
            BY <5>1, VaultAnswer
      <4> QED
          BY <3>3, <3>5, <4>1
    <3> QED
        BY <3>1, <3>6
  <2>5. CASE Verdict
      BY <2>5 DEF Verdict, VaultIsExact
  <2>6. CASE UNCHANGED vars
      BY <1>2, <2>6 DEF vars, VaultIsExact, Authentic, request
  <2> QED
      BY <1>2, <2>1, <2>2, <2>3, <2>4, <2>5, <2>6 DEF Next
<1> QED
    BY <1>1, <1>2, ExampleInvariant, PTL DEF Spec

-----------------------------------------------------------------------------
(* The template: what the two loops read is what the client flattens, the  *)
(* hash of it is the client's, and the hash determines what was hashed.    *)

(* A sequence of sequences and the concatenations of its beginnings.       *)
Flattens(flat, S, seqs) ==
    /\ flat \in [0..Len(seqs) -> Seq(S)] /\ flat[0] = <<>>
    /\ \A k \in 1..Len(seqs) : flat[k] = flat[k - 1] \o seqs[k]
    /\ FlattenSeq(seqs) = flat[Len(seqs)]

(* There are such concatenations.                                          *)
LEMMA FlattenExists ==
    ASSUME NEW S, NEW seqs \in Seq(Seq(S))
    PROVE  \E flat : Flattens(flat, S, seqs)
BY FlattenUnfolds DEF Flattens

(* Each sequence is found behind the ones before it.                       *)
LEMMA FlattenHolds ==
    ASSUME NEW S, NEW seqs \in Seq(Seq(S)), NEW flat, Flattens(flat, S, seqs),
           NEW k \in 1..Len(seqs)
    PROVE  /\ Holds(FlattenSeq(seqs), Len(flat[k - 1]), seqs[k])
           /\ Len(flat[k - 1]) \in Nat /\ Len(seqs[k]) \in Nat /\ seqs[k] \in Seq(S)
           /\ Len(flat[k]) = Len(flat[k - 1]) + Len(seqs[k])
           /\ flat[k] = flat[k - 1] \o seqs[k] /\ flat[k - 1] \in Seq(S)
<1> DEFINE n == Len(seqs)
           Q == Seq(S)
           at == Len(flat[k - 1])
           found == [j \in 0..n |-> IF j < k \/ Holds(flat[j], at, seqs[k]) THEN 1 ELSE 0]
           One == {1}
<1>1. n \in Nat /\ seqs \in Seq(Q) /\ k \in 1..n
    OBVIOUS
<1>2. \A i \in 1..n : seqs[i] \in Q
  <2> HIDE DEF Q
  <2> QED
      BY <1>1, ElementOfSeq
<1>3. flat \in [0..n -> Q] /\ (\A i \in 1..n : flat[i] = flat[i - 1] \o seqs[i])
      /\ FlattenSeq(seqs) = flat[n]
    BY DEF Flattens
<1> HIDE DEF n
<1>4. \A i \in 1..n : i - 1 \in 0..n /\ i \in 0..n
    BY <1>1
<1>5. \A i \in 1..n : flat[i - 1] \in Seq(S) /\ seqs[i] \in Seq(S)
    BY <1>2, <1>3, <1>4
<1>6. /\ Holds(flat[k], at, seqs[k]) /\ Len(flat[k]) = at + Len(seqs[k]) /\ at \in Nat
      /\ Len(seqs[k]) \in Nat
  <2>1. flat[k] = flat[k - 1] \o seqs[k] /\ flat[k - 1] \in Seq(S) /\ seqs[k] \in Seq(S)
      BY <1>1, <1>3, <1>5
  <2> QED
      BY <2>1, HoldsConcat, Concat
<1> HIDE DEF at
<1>7. found[0] \in One
    BY <1>1
<1>8. ASSUME NEW j \in 1..n, found[j - 1] \in One
      PROVE  found[j] \in One
  <2>1. j - 1 \in 0..n /\ j \in 0..n /\ j \in Nat /\ k \in Nat
      BY <1>1
  <2>2. j - 1 < k \/ Holds(flat[j - 1], at, seqs[k])
      BY <1>8, <2>1
  <2>3. CASE j < k
      BY <2>1, <2>3
  <2>4. CASE j = k
      BY <1>6, <2>1, <2>4
  <2>5. CASE j > k
    <3>1. Holds(flat[j - 1], at, seqs[k])
        BY <2>1, <2>2, <2>5
    <3>2. Holds(flat[j - 1] \o seqs[j], at, seqs[k])
        BY <1>5, <3>1, HoldsBefore
    <3>3. Holds(flat[j], at, seqs[k])
        BY <1>3, <3>2
    <3> QED
        BY <2>1, <3>3
  <2> QED
      BY <2>1, <2>3, <2>4, <2>5
<1>9. found[n] \in One
  <2>1. n \in 0..n
      BY <1>1
  <2> HIDE DEF found, One
  <2> QED
      BY <1>1, <1>7, <1>8, <2>1, PrefixInduction
<1>10. Holds(flat[n], at, seqs[k])
  <2>1. n \in 0..n /\ ~(n < k)
      BY <1>1
  <2> QED
      BY <1>9, <2>1
<1> QED
    BY <1>1, <1>3, <1>5, <1>6, <1>10 DEF at

(* The cells of an input and of an output.                                 *)
InputOver(S, input) ==
    /\ Nat \subseteq S /\ input.outpoint \in S /\ input.sequence \in Nat
    /\ input.value \in Nat /\ input.script \in Seq(S)
OutputOver(S, output) == Nat \subseteq S /\ output.value \in Nat /\ output.script \in Seq(S)

(* The guest has come to where the view holds the next item.               *)
Reaches(S, v, read, item) ==
    /\ v \in Seq(S) /\ Len(v) < NumberRange /\ Holds(v, read.at, item) /\ read.bytes \in Seq(S)

(* Where it is, and what it has, when it has read the input.               *)
AfterInput(read, input) ==
    [at |-> read.at + 52 + Len(input.script), bytes |-> read.bytes \o U32(input.sequence)]

(* What one turn of the guest's loop over the inputs reads.                *)
LEMMA InputRead ==
    ASSUME NEW S, NEW v, NEW input, NEW read, InputOver(S, input),
           Reaches(S, v, read, EncodeInput(input))
    PROVE  ReadInput(v, read) = AfterInput(read, input)
<1> DEFINE from == read.at
<1>1. v \in Seq(S) /\ Len(v) < NumberRange /\ Holds(v, from, EncodeInput(input))
    BY DEF Reaches
<1> HIDE DEF from
<1> USE DEF InputOver
<1>2. /\ Holds(EncodeInput(input), 36, U32(input.sequence))
      /\ Holds(EncodeInput(input), 48, U32(Len(input.script)))
    BY InputParts
<1>3. Holds(v, from + 36, U32(input.sequence)) /\ Holds(v, from + 48, U32(Len(input.script)))
    BY <1>1, <1>2, HoldsWithin
<1>4. /\ U32(input.sequence) \in Seq(S) /\ Len(U32(input.sequence)) = 4
    BY NumberCells
<1>5. Bytes(v, from + 36, 4) = U32(input.sequence)
  <2> DEFINE at == from + 36
             u == U32(input.sequence)
  <2>1. Holds(v, at, u) /\ u \in Seq(S) /\ Len(u) = 4
      BY <1>3, <1>4
  <2> HIDE DEF at, u
  <2>2. Bytes(v, at, Len(u)) = u
      BY <1>1, <2>1, HoldsBytes
  <2> QED
      BY <2>1, <2>2 DEF at, u
<1>6. Number(v, from + 48) = Len(input.script)
  <2> DEFINE l == Len(input.script)
             e == Len(EncodeInput(input))
             w == Len(v)
  <2>1. l \in Nat /\ e = 52 + l
      BY InputSize, LenProperties
  <2>2. from \in Nat /\ w \in Nat /\ from + e <= w /\ w < NumberRange
      BY <1>1 DEF Holds
  <2>3. Holds(v, from + 48, U32(l))
      BY <1>3
  <2> HIDE DEF l, e, w
  <2>4. l < NumberRange
      BY <2>1, <2>2, SMT DEF NumberRange
  <2>5. Number(v, from + 48) = l
      BY <2>1, <2>3, <2>4, HoldsNumber
  <2> QED
      BY <2>5 DEF l
<1> QED
    BY <1>5, <1>6 DEF ReadInput, AfterInput, from

(* What the client hashes of an output.                                    *)
ClientOutput(output) ==
    U64(output.value) \o ClientCompactSize(Len(output.script)) \o output.script

(* The guest's compactSize is the client's: one, three or five cells, the  *)
(* last only for a length above the limit of the three-byte form.          *)
LEMMA CompactCells ==
    ASSUME NEW S, Nat \subseteq S, NEW length \in Nat
    PROVE  /\ CompactSize(length) = ClientCompactSize(length) /\ CompactSize(length) \in Seq(S)
           /\ Len(CompactSize(length)) \in 1..5
           /\ Len(CompactSize(length)) <= 4 \/ length > ThreeByteMax
<1>1. OneByteMax \in Nat /\ ThreeByteMax \in Nat
    BY CompactSizeAssumption
<1> DEFINE two == LittleEndian(length, 2)
           four == U32(length)
<1>2. two \in Seq(Nat) /\ Len(two) = 2 /\ four \in Seq(Nat) /\ Len(four) = 4
    BY LittleEndianType DEF U32
<1>3. CompactSize(length) = IF length < OneByteMax THEN <<length>>
                            ELSE IF length <= ThreeByteMax THEN <<253>> \o two
                            ELSE <<254>> \o four
    BY DEF CompactSize
<1>4. ClientCompactSize(length) = CASE length < OneByteMax -> <<length>>
                                    [] length \in OneByteMax..ThreeByteMax -> <<253>> \o two
                                    [] OTHER -> <<254>> \o four
    BY DEF ClientCompactSize
<1> HIDE DEF two, four
<1>5. CompactSize(length) = ClientCompactSize(length)
  <2>1. CASE length < OneByteMax
    <3>1. ~(length \in OneByteMax..ThreeByteMax)
        BY <1>1, <2>1
    <3> QED
        BY <1>3, <1>4, <2>1, <3>1
  <2>2. CASE ~(length < OneByteMax) /\ length <= ThreeByteMax
    <3>1. length \in OneByteMax..ThreeByteMax
        BY <1>1, <2>2
    <3> QED
        BY <1>3, <1>4, <2>2, <3>1
  <2>3. CASE ~(length < OneByteMax) /\ ~(length <= ThreeByteMax)
    <3>1. ~(length \in OneByteMax..ThreeByteMax)
        BY <1>1, <2>3
    <3> QED
        BY <1>3, <1>4, <2>3, <3>1
  <2> QED
      BY <2>1, <2>2, <2>3
<1>6. /\ <<length>> \in Seq(Nat) /\ Len(<<length>>) = 1
      /\ <<253>> \in Seq(Nat) /\ Len(<<253>>) = 1 /\ <<254>> \in Seq(Nat) /\ Len(<<254>>) = 1
    OBVIOUS
<1>7. /\ <<253>> \o two \in Seq(Nat) /\ Len(<<253>> \o two) = 3
      /\ <<254>> \o four \in Seq(Nat) /\ Len(<<254>> \o four) = 5
  <2> DEFINE x == <<253>>
             y == <<254>>
  <2>1. x \in Seq(Nat) /\ Len(x) = 1 /\ y \in Seq(Nat) /\ Len(y) = 1
      BY <1>6
  <2> HIDE DEF x, y
  <2>2. x \o two \in Seq(Nat) /\ Len(x \o two) = Len(x) + Len(two)
      BY <1>2, <2>1, Concat
  <2>3. y \o four \in Seq(Nat) /\ Len(y \o four) = Len(y) + Len(four)
      BY <1>2, <2>1, Concat
  <2> QED
      BY <1>2, <2>1, <2>2, <2>3 DEF x, y
<1>8. /\ CompactSize(length) \in Seq(Nat) /\ Len(CompactSize(length)) \in 1..5
      /\ Len(CompactSize(length)) <= 4 \/ length > ThreeByteMax
  <2> DEFINE one == <<length>>
             three == <<253>> \o two
             five == <<254>> \o four
             c == CompactSize(length)
  <2>1. /\ one \in Seq(Nat) /\ Len(one) = 1 /\ three \in Seq(Nat) /\ Len(three) = 3
        /\ five \in Seq(Nat) /\ Len(five) = 5
      BY <1>6, <1>7
  <2>2. c = IF length < OneByteMax THEN one ELSE IF length <= ThreeByteMax THEN three ELSE five
      BY <1>3
  <2> HIDE DEF one, three, five, c
  <2>3. /\ c \in Seq(Nat) /\ Len(c) \in 1..5 /\ (Len(c) <= 4 \/ length > ThreeByteMax)
    <3>1. CASE length < OneByteMax
      <4>1. c \in Seq(Nat) /\ Len(c) = 1
          BY <2>1, <2>2, <3>1
      <4> QED
          BY <4>1
    <3>2. CASE ~(length < OneByteMax) /\ length <= ThreeByteMax
      <4>1. c \in Seq(Nat) /\ Len(c) = 3
          BY <2>1, <2>2, <3>2
      <4> QED
          BY <4>1
    <3>3. CASE ~(length < OneByteMax) /\ ~(length <= ThreeByteMax)
      <4>1. c = five /\ length > ThreeByteMax
          BY <1>1, <2>2, <3>3
      <4> QED
          BY <2>1, <4>1
    <3> QED
        BY <3>1, <3>2, <3>3
  <2> QED
      BY <2>3 DEF c
<1>9. CompactSize(length) \in Seq(S)
    BY <1>8, SeqMonotonic
<1> QED
    BY <1>5, <1>8, <1>9

(* What is hashed of an output is what the view holds of it, with a        *)
(* compactSize in place of the four-byte length.                           *)
LEMMA ClientOutputSize ==
    ASSUME NEW S, Nat \subseteq S, NEW output, output.value \in Nat, output.script \in Seq(S)
    PROVE  /\ ClientOutput(output) \in Seq(S) /\ Len(output.script) \in Nat
           /\ Len(ClientOutput(output))
                 = 8 + Len(ClientCompactSize(Len(output.script))) + Len(output.script)
           /\ Len(ClientCompactSize(Len(output.script))) \in 1..5
           /\ \/ Len(ClientCompactSize(Len(output.script))) <= 4
              \/ Len(output.script) > ThreeByteMax
           /\ Holds(ClientOutput(output), 0, U64(output.value))
           /\ Holds(ClientOutput(output), 8, ClientCompactSize(Len(output.script)))
           /\ Holds(ClientOutput(output), 8 + Len(ClientCompactSize(Len(output.script))),
                    output.script)
<1> DEFINE c == U64(output.value)
           e == output.script
           l == Len(e)
           d == ClientCompactSize(l)
<1>1. l \in Nat /\ e \in Seq(S)
    BY LenProperties
<1>2. c \in Seq(S) /\ Len(c) = 8
    BY NumberCells
<1>3. d \in Seq(S) /\ Len(d) \in 1..5 /\ (Len(d) <= 4 \/ l > ThreeByteMax)
  <2> HIDE DEF l
  <2> QED
      BY <1>1, CompactCells
<1>4. ClientOutput(output) = (c \o d) \o e
    BY DEF ClientOutput
<1>5. l = Len(e)
    OBVIOUS
<1> HIDE DEF c, d, e, l
<1> DEFINE cd == c \o d
<1>6. cd \in Seq(S) /\ Len(cd) = 8 + Len(d) /\ Holds(cd, 0, c) /\ Holds(cd, 8, d)
  <2>1. c \o d \in Seq(S) /\ Len(c \o d) = Len(c) + Len(d)
      BY <1>2, <1>3, Concat
  <2>2. Holds(c \o d, Len(c), d) /\ Holds(c \o d, 0, c)
      BY <1>2, <1>3, HoldsConcat
  <2> QED
      BY <1>2, <2>1, <2>2
<1>7. /\ cd \o e \in Seq(S) /\ Len(cd \o e) = 8 + Len(d) + l
      /\ Holds(cd \o e, 0, c) /\ Holds(cd \o e, 8, d) /\ Holds(cd \o e, 8 + Len(d), e)
  <2> HIDE DEF cd
  <2>1. Holds(cd \o e, Len(cd), e)
      BY <1>1, <1>6, HoldsConcat
  <2>2. Holds(cd \o e, 0, c) /\ Holds(cd \o e, 8, d)
      BY <1>1, <1>6, HoldsBefore
  <2>3. cd \o e \in Seq(S) /\ Len(cd \o e) = Len(cd) + Len(e)
      BY <1>1, <1>6, Concat
  <2> QED
      BY <1>5, <1>6, <2>1, <2>2, <2>3
<1> QED
    BY <1>1, <1>3, <1>4, <1>7 DEF c, d, e, l

(* Appending three sequences, or their concatenation.                      *)
Appends(b, c, d, e) == ((b \o c) \o d) \o e = b \o ((c \o d) \o e)

(* Both give the same.                                                     *)
LEMMA AppendThree ==
    ASSUME NEW S, NEW b, NEW c, NEW d, NEW e,
           b \in Seq(S), c \in Seq(S), d \in Seq(S), e \in Seq(S)
    PROVE  Appends(b, c, d, e)
<1>1. (b \o c) \o d = b \o (c \o d)
    OBVIOUS
<1> DEFINE cd == c \o d
<1>2. cd \in Seq(S)
    BY Concat
<1> HIDE DEF cd
<1>3. (b \o cd) \o e = b \o (cd \o e)
    BY <1>2
<1> QED
    BY <1>1, <1>3 DEF cd, Appends

(* Where it is, and what it has, when it has read the output.              *)
AfterOutput(read, output) ==
    [at |-> read.at + 12 + Len(output.script), bytes |-> read.bytes \o ClientOutput(output)]

(* What one turn of the guest's loop over the outputs reads and writes.    *)
LEMMA OutputRead ==
    ASSUME NEW S, NEW v, NEW output, NEW read, OutputOver(S, output),
           Reaches(S, v, read, EncodeOutput(output))
    PROVE  ReadOutput(v, read) = AfterOutput(read, output)
<1> DEFINE from == read.at
           bytes == read.bytes
           c == U64(output.value)
           e == output.script
           l == Len(e)
           d == ClientCompactSize(l)
<1>1. /\ v \in Seq(S) /\ Len(v) < NumberRange /\ Holds(v, from, EncodeOutput(output))
      /\ bytes \in Seq(S)
    BY DEF Reaches
<1> HIDE DEF from, bytes
<1> USE DEF OutputOver
<1>2. /\ Holds(EncodeOutput(output), 0, c) /\ Holds(EncodeOutput(output), 8, U32(l))
      /\ Holds(EncodeOutput(output), 12, e)
    BY OutputParts
<1>3. /\ Holds(v, from + 0, c) /\ Holds(v, from + 8, U32(l)) /\ Holds(v, from + 12, e)
    BY <1>1, <1>2, HoldsWithin
<1>4. from + 0 = from
    BY <1>1 DEF Holds
<1>5. l \in Nat /\ e \in Seq(S) /\ c \in Seq(S) /\ Len(c) = 8 /\ l = Len(e)
    BY NumberCells, LenProperties
<1>6. d \in Seq(S) /\ CompactSize(l) = d
  <2> HIDE DEF l
  <2> QED
      BY <1>5, CompactCells
<1>7. Number(v, from + 8) = l
  <2> DEFINE o == Len(EncodeOutput(output))
             w == Len(v)
  <2>1. o = 12 + l
      BY OutputSize
  <2>2. from \in Nat /\ w \in Nat /\ from + o <= w /\ w < NumberRange
      BY <1>1 DEF Holds
  <2> HIDE DEF l, o, w
  <2>3. l < NumberRange
      BY <1>5, <2>1, <2>2, SMT DEF NumberRange
  <2> QED
      BY <1>3, <1>5, <2>3, HoldsNumber
<1>8. ClientOutput(output) = (c \o d) \o e
    BY DEF ClientOutput
<1> HIDE DEF c, d, e, l
<1>9. Bytes(v, from, 8) = c
  <2>1. Bytes(v, from, Len(c)) = c
      BY <1>1, <1>3, <1>4, <1>5, HoldsBytes
  <2> QED
      BY <1>5, <2>1
<1>10. Bytes(v, from + 12, l) = e
  <2>1. Bytes(v, from + 12, Len(e)) = e
    <3> DEFINE at == from + 12
    <3>1. Holds(v, at, e)
        BY <1>3
    <3> HIDE DEF at
    <3>2. Bytes(v, at, Len(e)) = e
        BY <1>1, <1>5, <3>1, HoldsBytes
    <3> QED
        BY <3>2 DEF at
  <2> QED
      BY <1>5, <2>1
<1>11. ((bytes \o c) \o d) \o e = bytes \o ((c \o d) \o e)
  <2>1. Appends(bytes, c, d, e)
      BY <1>1, <1>5, <1>6, AppendThree
  <2> QED
      BY <2>1 DEF Appends
<1>12. ReadOutput(v, read) = [at |-> from + 12 + l, bytes |-> ((bytes \o c) \o d) \o e]
    BY <1>6, <1>7, <1>9, <1>10 DEF ReadOutput, from, bytes
<1> QED
    BY <1>8, <1>11, <1>12 DEF e, l, from, bytes, AfterOutput

(* A function on 1..n into sequences is a sequence of them.                *)
LEMMA Listing ==
    ASSUME NEW S, NEW n \in Nat, NEW f, f = [i \in 1..n |-> f[i]],
           \A i \in 1..n : f[i] \in Seq(S)
    PROVE  f \in Seq(Seq(S)) /\ Len(f) = n
<1> DEFINE Q == Seq(S)
<1>1. f \in [1..n -> Q]
    OBVIOUS
<1> HIDE DEF Q
<1>2. f \in Seq(Q) /\ Len(f) = n
    BY <1>1
<1> QED
    BY <1>2 DEF Q

(* Two functions that agree at zero, and at each number if they agree at   *)
(* the one before it, agree at the last.                                   *)
LEMMA SameValues ==
    ASSUME NEW n \in Nat, NEW f, NEW g, f[0] = g[0],
           \A k \in 1..n : f[k - 1] = g[k - 1] => f[k] = g[k]
    PROVE  f[n] = g[n]
<1> DEFINE same == [k \in 0..n |-> IF f[k] = g[k] THEN 1 ELSE 0]
           One == {1}
<1>1. same[0] \in One
    OBVIOUS
<1>2. ASSUME NEW k \in 1..n, same[k - 1] \in One
      PROVE  same[k] \in One
  <2>1. k - 1 \in 0..n /\ k \in 0..n
      OBVIOUS
  <2>2. f[k - 1] = g[k - 1]
      BY <1>2, <2>1
  <2> QED
      BY <2>1, <2>2
<1>3. same[n] \in One
  <2>1. n \in 0..n
      OBVIOUS
  <2> HIDE DEF same, One
  <2> QED
      BY <1>1, <1>2, <2>1, PrefixInduction
<1> QED
    BY <1>3

(* What is hashed of the inputs and of the outputs.                        *)
SequenceFields(tx) == [i \in DOMAIN tx.inputs |-> U32(tx.inputs[i].sequence)]
ClientOutputs(tx) == [i \in DOMAIN tx.outputs |-> ClientOutput(tx.outputs[i])]

(* The inputs in the view, and what is hashed of them.                     *)
InputList(S, tx, n, I) ==
    /\ I \in Seq(Seq(S)) /\ Len(I) = n /\ n \in Nat
    /\ EncodedInputs(tx) = FlattenSeq(I)
    /\ SequenceFields(tx) \in Seq(Seq(S)) /\ Len(SequenceFields(tx)) = n
    /\ \A i \in 1..n : /\ I[i] = EncodeInput(tx.inputs[i])
                       /\ Len(I[i]) = 52 + Len(tx.inputs[i].script)
                       /\ Len(tx.inputs[i].script) \in Nat
                       /\ SequenceFields(tx)[i] = U32(tx.inputs[i].sequence)

(* The lists of the transaction as sequences of sequences.                 *)
LEMMA InputLists ==
    ASSUME NEW tx, IsTransaction(tx), NEW S, Over(S, tx), NEW n, n = Len(tx.inputs)
    PROVE  \E I : InputList(S, tx, n, I)
<1> DEFINE I == [i \in 1..n |-> EncodeInput(tx.inputs[i])]
           Q == [i \in 1..n |-> U32(tx.inputs[i].sequence)]
<1>1. n \in Nat /\ DOMAIN tx.inputs = 1..n
    BY DEF IsTransaction, IsSequence
<1>2. ASSUME NEW i \in 1..n
      PROVE  /\ EncodeInput(tx.inputs[i]) \in Seq(S)
             /\ Len(EncodeInput(tx.inputs[i])) = 52 + Len(tx.inputs[i].script)
             /\ Len(tx.inputs[i].script) \in Nat /\ U32(tx.inputs[i].sequence) \in Seq(S)
  <2>1. tx.inputs[i].sequence \in Nat /\ tx.inputs[i].value \in Nat
      BY DEF IsTransaction
  <2>2. Nat \subseteq S /\ tx.inputs[i].outpoint \in S /\ tx.inputs[i].script \in Seq(S)
      BY DEF Over
  <2> QED
      BY <2>1, <2>2, InputSize, LenProperties, NumberCells
<1>3. /\ I = [i \in 1..n |-> I[i]] /\ \A i \in 1..n : I[i] = EncodeInput(tx.inputs[i])
      /\ Q = [i \in 1..n |-> Q[i]] /\ \A i \in 1..n : Q[i] = U32(tx.inputs[i].sequence)
    OBVIOUS
<1>4. EncodedInputs(tx) = FlattenSeq(I) /\ SequenceFields(tx) = Q
    BY <1>1 DEF EncodedInputs, SequenceFields
<1> HIDE DEF I, Q
<1>5. I \in Seq(Seq(S)) /\ Len(I) = n
  <2>1. n \in Nat /\ I = [i \in 1..n |-> I[i]] /\ \A i \in 1..n : I[i] \in Seq(S)
      BY <1>1, <1>2, <1>3
  <2> QED
      BY <2>1, Listing, Zenon
<1>6. Q \in Seq(Seq(S)) /\ Len(Q) = n
  <2>1. n \in Nat /\ Q = [i \in 1..n |-> Q[i]] /\ \A i \in 1..n : Q[i] \in Seq(S)
      BY <1>1, <1>2, <1>3
  <2> QED
      BY <2>1, Listing, Zenon
<1> QED
    BY <1>1, <1>2, <1>3, <1>4, <1>5, <1>6 DEF InputList

(* The outputs in the view, and what is hashed of them.                     *)
OutputList(S, tx, n, O) ==
    /\ O \in Seq(Seq(S)) /\ Len(O) = n /\ n \in Nat
    /\ EncodedOutputs(tx) = FlattenSeq(O)
    /\ ClientOutputs(tx) \in Seq(Seq(S)) /\ Len(ClientOutputs(tx)) = n
    /\ \A i \in 1..n : /\ O[i] = EncodeOutput(tx.outputs[i])
                       /\ Len(O[i]) = 12 + Len(tx.outputs[i].script)
                       /\ Len(tx.outputs[i].script) \in Nat
                       /\ ClientOutputs(tx)[i] = ClientOutput(tx.outputs[i])

(* The same for the outputs.                                               *)
LEMMA OutputLists ==
    ASSUME NEW tx, IsTransaction(tx), NEW S, Over(S, tx), NEW n, n = Len(tx.outputs)
    PROVE  \E O : OutputList(S, tx, n, O)
<1> DEFINE O == [i \in 1..n |-> EncodeOutput(tx.outputs[i])]
           Q == [i \in 1..n |-> ClientOutput(tx.outputs[i])]
<1>1. n \in Nat /\ DOMAIN tx.outputs = 1..n
    BY DEF IsTransaction, IsSequence
<1>2. ASSUME NEW i \in 1..n
      PROVE  /\ EncodeOutput(tx.outputs[i]) \in Seq(S)
             /\ Len(EncodeOutput(tx.outputs[i])) = 12 + Len(tx.outputs[i].script)
             /\ Len(tx.outputs[i].script) \in Nat /\ ClientOutput(tx.outputs[i]) \in Seq(S)
  <2>1. tx.outputs[i].value \in Nat
      BY DEF IsTransaction
  <2>2. Nat \subseteq S /\ tx.outputs[i].script \in Seq(S)
      BY DEF Over
  <2> DEFINE output == tx.outputs[i]
  <2>3. output.value \in Nat /\ output.script \in Seq(S)
      BY <2>1, <2>2
  <2> HIDE DEF output
  <2>4. /\ EncodeOutput(output) \in Seq(S) /\ Len(EncodeOutput(output)) = 12 + Len(output.script)
      BY <2>2, <2>3, OutputSize
  <2>5. ClientOutput(output) \in Seq(S) /\ Len(output.script) \in Nat
      BY <2>2, <2>3, ClientOutputSize
  <2> QED
      BY <2>4, <2>5 DEF output
<1>3. /\ O = [i \in 1..n |-> O[i]] /\ \A i \in 1..n : O[i] = EncodeOutput(tx.outputs[i])
      /\ Q = [i \in 1..n |-> Q[i]] /\ \A i \in 1..n : Q[i] = ClientOutput(tx.outputs[i])
    OBVIOUS
<1>4. EncodedOutputs(tx) = FlattenSeq(O) /\ ClientOutputs(tx) = Q
    BY <1>1 DEF EncodedOutputs, ClientOutputs
<1> HIDE DEF O, Q
<1>5. O \in Seq(Seq(S)) /\ Len(O) = n
  <2>1. n \in Nat /\ O = [i \in 1..n |-> O[i]] /\ \A i \in 1..n : O[i] \in Seq(S)
      BY <1>1, <1>2, <1>3
  <2> QED
      BY <2>1, Listing, Zenon
<1>6. Q \in Seq(Seq(S)) /\ Len(Q) = n
  <2>1. n \in Nat /\ Q = [i \in 1..n |-> Q[i]] /\ \A i \in 1..n : Q[i] \in Seq(S)
      BY <1>1, <1>2, <1>3
  <2> QED
      BY <2>1, Listing, Zenon
<1> QED
    BY <1>1, <1>2, <1>3, <1>4, <1>5, <1>6 DEF OutputList

(* The loop over the inputs ends where they end, with their sequences.     *)
LEMMA InputsRead ==
    ASSUME NEW tx, IsTransaction(tx), NEW S, Over(S, tx), NEW v \in Seq(S), Len(v) < NumberRange,
           Holds(v, 16, EncodedInputs(tx)), NEW n, n = Len(tx.inputs)
    PROVE  ReadInputs(v, n)
              = [at |-> 16 + Len(EncodedInputs(tx)), bytes |-> FlattenSeq(SequenceFields(tx))]
<1> DEFINE Q == SequenceFields(tx)
           inputs == tx.inputs
<1>1. PICK I : InputList(S, tx, n, I)
    BY InputLists, Zenon
<1>2. /\ I \in Seq(Seq(S)) /\ Len(I) = n /\ n \in Nat
      /\ EncodedInputs(tx) = FlattenSeq(I)
      /\ Q \in Seq(Seq(S)) /\ Len(Q) = n
      /\ \A i \in 1..n : /\ I[i] = EncodeInput(inputs[i])
                         /\ Len(I[i]) = 52 + Len(inputs[i].script)
                         /\ Len(inputs[i].script) \in Nat
                         /\ Q[i] = U32(inputs[i].sequence)
    BY <1>1 DEF InputList
<1>3. ASSUME NEW k \in 1..n
      PROVE  /\ Nat \subseteq S /\ inputs[k].outpoint \in S /\ inputs[k].sequence \in Nat
             /\ inputs[k].value \in Nat /\ inputs[k].script \in Seq(S)
    BY DEF IsTransaction, Over
<1>4. Holds(v, 16, FlattenSeq(I))
    BY <1>2
<1> HIDE DEF Q, inputs
<1>5. PICK fi : Flattens(fi, S, I)
    BY <1>2, FlattenExists
<1>6. PICK fq : Flattens(fq, S, Q)
    BY <1>2, FlattenExists
<1> DEFINE g == [k \in 0..n |-> [at |-> 16 + Len(fi[k]), bytes |-> fq[k]]]
           Step(h) == [k \in 0..n |-> IF k = 0 THEN [at |-> 16, bytes |-> <<>>]
                                      ELSE ReadInput(v, h[k - 1])]
           C == CHOOSE h : h = Step(h)
<1>7. /\ fi[0] = <<>> /\ fq[0] = <<>> /\ FlattenSeq(I) = fi[n] /\ FlattenSeq(Q) = fq[n]
      /\ Len(I) = n /\ Len(Q) = n
    BY <1>2, <1>5, <1>6 DEF Flattens
<1>8. ASSUME NEW k \in 1..n
      PROVE  g[k] = ReadInput(v, g[k - 1])
  <2> DEFINE input == inputs[k]
             from == 16 + Len(fi[k - 1])
             bytes == fq[k - 1]
  <2>1. k - 1 \in 0..n /\ k \in 0..n
      BY <1>2
  <2>2. k \in 1..Len(I) /\ k \in 1..Len(Q)
      BY <1>7
  <2>3. /\ Holds(FlattenSeq(I), Len(fi[k - 1]), I[k]) /\ Len(fi[k - 1]) \in Nat
        /\ Len(fi[k]) = Len(fi[k - 1]) + Len(I[k])
      BY <1>2, <1>5, <2>2, FlattenHolds
  <2>4. fq[k] = bytes \o Q[k] /\ bytes \in Seq(S)
      BY <1>2, <1>6, <2>2, FlattenHolds
  <2>5. Holds(v, from, I[k])
      BY <1>4, <2>3, HoldsWithin
  <2>6. Holds(v, from, EncodeInput(input))
      BY <1>2, <2>5
  <2>7. InputOver(S, input)
      BY <1>3 DEF InputOver
  <2>8. g[k - 1] = [at |-> from, bytes |-> bytes]
      BY <2>1
  <2>9. g[k] = [at |-> 16 + Len(fi[k]), bytes |-> fq[k]]
      BY <2>1
  <2>10. 16 + Len(fi[k]) = from + 52 + Len(input.script)
    <3> DEFINE a == Len(fi[k - 1])
               b == Len(input.script)
               c == Len(fi[k])
    <3>1. a \in Nat /\ b \in Nat /\ c = a + (52 + b)
        BY <1>2, <2>3
    <3>2. from = 16 + a
        OBVIOUS
    <3> HIDE DEF a, b, c, from
    <3>3. 16 + c = from + 52 + b
        BY <3>1, <3>2
    <3> QED
        BY <3>3 DEF b, c
  <2>11. Q[k] = U32(input.sequence)
      BY <1>2
  <2> HIDE DEF input, from, g, bytes
  <2> DEFINE read == g[k - 1]
  <2>12. read.at = from /\ read.bytes = bytes
      BY <2>8
  <2>13. g[k] = AfterInput(read, input)
      BY <2>4, <2>9, <2>10, <2>11, <2>12 DEF AfterInput
  <2>14. Reaches(S, v, read, EncodeInput(input))
      BY <2>4, <2>6, <2>12 DEF Reaches
  <2> HIDE DEF read
  <2>15. ReadInput(v, read) = AfterInput(read, input)
      BY <2>7, <2>14, InputRead
  <2> QED
      BY <2>13, <2>15 DEF read
<1>9. g[0] = [at |-> 16, bytes |-> <<>>]
  <2>1. 0 \in 0..n
      BY <1>2
  <2>2. Len(fi[0]) = 0 /\ fq[0] = <<>>
      BY <1>7
  <2>3. 16 + Len(fi[0]) = 16
      BY <2>2
  <2>4. g[0] = [at |-> 16 + Len(fi[0]), bytes |-> fq[0]]
      BY <2>1
  <2> HIDE DEF g
  <2> QED
      BY <2>2, <2>3, <2>4
<1>10. C = Step(C)
  <2>1. g = Step(g)
    <3>1. \A k \in 0..n : g[k] = IF k = 0 THEN [at |-> 16, bytes |-> <<>>]
                                 ELSE ReadInput(v, g[k - 1])
      <4>1. \A k \in 0..n : k = 0 \/ k \in 1..n
          BY <1>2
      <4> HIDE DEF g
      <4> QED
          BY <1>8, <1>9, <4>1
    <3>2. g = [k \in 0..n |-> g[k]]
        OBVIOUS
    <3> HIDE DEF g
    <3> QED
        BY <3>1, <3>2
  <2> HIDE DEF Step, g
  <2> QED
      BY <2>1
<1>11. ReadInputs(v, n) = C[n]
    BY DEF ReadInputs, C
<1> HIDE DEF C
<1>12. C[n] = g[n]
  <2>1. C[0] = [at |-> 16, bytes |-> <<>>]
    <3>1. 0 \in 0..n
        BY <1>2
    <3> QED
        BY <1>10, <3>1
  <2>2. ASSUME NEW k \in 1..n, C[k - 1] = g[k - 1]
        PROVE  C[k] = g[k]
    <3>1. k \in 0..n /\ k # 0
        BY <1>2
    <3>2. C[k] = ReadInput(v, C[k - 1])
        BY <1>10, <3>1
    <3> HIDE DEF g
    <3> QED
        BY <1>8, <2>2, <3>2
  <2>3. n \in Nat /\ C[0] = g[0] /\ \A k \in 1..n : C[k - 1] = g[k - 1] => C[k] = g[k]
      BY <1>2, <1>9, <2>1, <2>2
  <2> HIDE DEF g
  <2> QED
      BY <2>3, SameValues, Zenon
<1>13. g[n] = [at |-> 16 + Len(fi[n]), bytes |-> fq[n]]
    BY <1>2
<1> HIDE DEF g
<1> QED
    BY <1>2, <1>7, <1>11, <1>12, <1>13 DEF Q

(* The loop over the outputs ends where they end, with what is hashed.     *)
LEMMA OutputsRead ==
    ASSUME NEW tx, IsTransaction(tx), NEW S, Over(S, tx), NEW v \in Seq(S), Len(v) < NumberRange,
           NEW start \in Nat, Holds(v, start, EncodedOutputs(tx)), NEW n, n = Len(tx.outputs)
    PROVE  ReadOutputs(v, start, n)
              = [at |-> start + Len(EncodedOutputs(tx)), bytes |-> FlattenSeq(ClientOutputs(tx))]
<1> DEFINE Q == ClientOutputs(tx)
           outputs == tx.outputs
<1>1. PICK O : OutputList(S, tx, n, O)
    BY OutputLists, Zenon
<1>2. /\ O \in Seq(Seq(S)) /\ Len(O) = n /\ n \in Nat
      /\ EncodedOutputs(tx) = FlattenSeq(O)
      /\ Q \in Seq(Seq(S)) /\ Len(Q) = n
      /\ \A i \in 1..n : /\ O[i] = EncodeOutput(outputs[i])
                         /\ Len(O[i]) = 12 + Len(outputs[i].script)
                         /\ Len(outputs[i].script) \in Nat
                         /\ Q[i] = ClientOutput(outputs[i])
    BY <1>1 DEF OutputList
<1>3. ASSUME NEW k \in 1..n
      PROVE  Nat \subseteq S /\ outputs[k].value \in Nat /\ outputs[k].script \in Seq(S)
    BY DEF IsTransaction, Over
<1>4. Holds(v, start, FlattenSeq(O))
    BY <1>2
<1> HIDE DEF Q, outputs
<1>5. PICK fo : Flattens(fo, S, O)
    BY <1>2, FlattenExists
<1>6. PICK fq : Flattens(fq, S, Q)
    BY <1>2, FlattenExists
<1> DEFINE g == [k \in 0..n |-> [at |-> start + Len(fo[k]), bytes |-> fq[k]]]
           Step(h) == [k \in 0..n |-> IF k = 0 THEN [at |-> start, bytes |-> <<>>]
                                      ELSE ReadOutput(v, h[k - 1])]
           C == CHOOSE h : h = Step(h)
<1>7. /\ fo[0] = <<>> /\ fq[0] = <<>> /\ FlattenSeq(O) = fo[n] /\ FlattenSeq(Q) = fq[n]
      /\ Len(O) = n /\ Len(Q) = n
    BY <1>2, <1>5, <1>6 DEF Flattens
<1>8. ASSUME NEW k \in 1..n
      PROVE  g[k] = ReadOutput(v, g[k - 1])
  <2> DEFINE output == outputs[k]
             from == start + Len(fo[k - 1])
             bytes == fq[k - 1]
  <2>1. k - 1 \in 0..n /\ k \in 0..n
      BY <1>2
  <2>2. k \in 1..Len(O) /\ k \in 1..Len(Q)
      BY <1>7
  <2>3. /\ Holds(FlattenSeq(O), Len(fo[k - 1]), O[k]) /\ Len(fo[k - 1]) \in Nat
        /\ Len(fo[k]) = Len(fo[k - 1]) + Len(O[k])
      BY <1>2, <1>5, <2>2, FlattenHolds
  <2>4. fq[k] = bytes \o Q[k] /\ bytes \in Seq(S)
      BY <1>2, <1>6, <2>2, FlattenHolds
  <2>5. Holds(v, from, O[k])
      BY <1>4, <2>3, HoldsWithin
  <2>6. Holds(v, from, EncodeOutput(output))
      BY <1>2, <2>5
  <2>7. OutputOver(S, output)
      BY <1>3 DEF OutputOver
  <2>8. g[k - 1] = [at |-> from, bytes |-> bytes]
      BY <2>1
  <2>9. g[k] = [at |-> start + Len(fo[k]), bytes |-> fq[k]]
      BY <2>1
  <2>10. start + Len(fo[k]) = from + 12 + Len(output.script)
    <3> DEFINE a == Len(fo[k - 1])
               b == Len(output.script)
               c == Len(fo[k])
    <3>1. a \in Nat /\ b \in Nat /\ c = a + (12 + b)
        BY <1>2, <2>3
    <3>2. from = start + a
        OBVIOUS
    <3> HIDE DEF a, b, c, from
    <3>3. start + c = from + 12 + b
        BY <3>1, <3>2
    <3> QED
        BY <3>3 DEF b, c
  <2>11. Q[k] = ClientOutput(output)
      BY <1>2
  <2> HIDE DEF output, from, g, bytes
  <2> DEFINE read == g[k - 1]
  <2>12. read.at = from /\ read.bytes = bytes
      BY <2>8
  <2>13. g[k] = AfterOutput(read, output)
      BY <2>4, <2>9, <2>10, <2>11, <2>12 DEF AfterOutput
  <2>14. Reaches(S, v, read, EncodeOutput(output))
      BY <2>4, <2>6, <2>12 DEF Reaches
  <2> HIDE DEF read
  <2>15. ReadOutput(v, read) = AfterOutput(read, output)
      BY <2>7, <2>14, OutputRead
  <2> QED
      BY <2>13, <2>15 DEF read
<1>9. g[0] = [at |-> start, bytes |-> <<>>]
  <2>1. 0 \in 0..n
      BY <1>2
  <2>2. Len(fo[0]) = 0 /\ fq[0] = <<>>
      BY <1>7
  <2>3. start + Len(fo[0]) = start
      BY <2>2
  <2>4. g[0] = [at |-> start + Len(fo[0]), bytes |-> fq[0]]
      BY <2>1
  <2> HIDE DEF g
  <2> QED
      BY <2>2, <2>3, <2>4
<1>10. C = Step(C)
  <2>1. g = Step(g)
    <3>1. \A k \in 0..n : g[k] = IF k = 0 THEN [at |-> start, bytes |-> <<>>]
                                 ELSE ReadOutput(v, g[k - 1])
      <4>1. \A k \in 0..n : k = 0 \/ k \in 1..n
          BY <1>2
      <4> HIDE DEF g
      <4> QED
          BY <1>8, <1>9, <4>1
    <3>2. g = [k \in 0..n |-> g[k]]
        OBVIOUS
    <3> HIDE DEF g
    <3> QED
        BY <3>1, <3>2
  <2> HIDE DEF Step, g
  <2> QED
      BY <2>1
<1>11. ReadOutputs(v, start, n) = C[n]
    BY DEF ReadOutputs, C
<1> HIDE DEF C
<1>12. C[n] = g[n]
  <2>1. C[0] = [at |-> start, bytes |-> <<>>]
    <3>1. 0 \in 0..n
        BY <1>2
    <3> QED
        BY <1>10, <3>1
  <2>2. ASSUME NEW k \in 1..n, C[k - 1] = g[k - 1]
        PROVE  C[k] = g[k]
    <3>1. k \in 0..n /\ k # 0
        BY <1>2
    <3>2. C[k] = ReadOutput(v, C[k - 1])
        BY <1>10, <3>1
    <3> HIDE DEF g
    <3> QED
        BY <1>8, <2>2, <3>2
  <2>3. n \in Nat /\ C[0] = g[0] /\ \A k \in 1..n : C[k - 1] = g[k - 1] => C[k] = g[k]
      BY <1>2, <1>9, <2>1, <2>2
  <2> HIDE DEF g
  <2> QED
      BY <2>3, SameValues, Zenon
<1>13. g[n] = [at |-> start + Len(fo[n]), bytes |-> fq[n]]
    BY <1>2
<1> HIDE DEF g
<1> QED
    BY <1>2, <1>7, <1>11, <1>12, <1>13 DEF Q

(* One more excess byte for each length above the three-byte form.         *)
LEMMA OneMore ==
    ASSUME NEW d \in Nat, NEW w \in Nat
    PROVE  d * w \in Nat /\ (d + 1) * w = d * w + w
BY SMT

(* Few enough of them.                                                     *)
LEMMA FewEnough ==
    ASSUME NEW d \in Nat, NEW w \in Nat, d * w < 73 * w
    PROVE  d <= 72
<1> SUFFICES ASSUME d >= 73 PROVE FALSE
    OBVIOUS
<1> DEFINE x == d - 73
<1>1. x \in Nat /\ d = 73 + x
    BY SMT
<1> HIDE DEF x
<1>2. x * w \in Nat /\ (73 + x) * w = 73 * w + x * w
    BY <1>1, SMT
<1> QED
    BY <1>1, <1>2, SMT

(* The bytes that are hashed of the outputs fit a buffer of the length of  *)
(* the view: the one byte that a compactSize of five takes more than the   *)
(* four-byte length field needs a script too long to happen often.         *)
LEMMA HashedOutputsFit ==
    ASSUME NEW tx, IsTransaction(tx), NEW S, Over(S, tx),
           NEW e, e = Len(EncodedOutputs(tx)), 72 + e <= MaxView
    PROVE  Len(FlattenSeq(ClientOutputs(tx))) <= 72 + e
<1> DEFINE Q == ClientOutputs(tx)
           outputs == tx.outputs
           n == Len(tx.outputs)
           W == 13 + ThreeByteMax
<1>1. PICK O : OutputList(S, tx, n, O)
  <2>1. n = Len(tx.outputs)
      OBVIOUS
  <2> HIDE DEF n
  <2> QED
      BY <2>1, OutputLists, Zenon
<1>2. /\ O \in Seq(Seq(S)) /\ Len(O) = n /\ n \in Nat /\ EncodedOutputs(tx) = FlattenSeq(O)
      /\ Q \in Seq(Seq(S)) /\ Len(Q) = n
      /\ \A i \in 1..n : /\ Len(O[i]) = 12 + Len(outputs[i].script)
                         /\ Len(outputs[i].script) \in Nat
                         /\ Q[i] = ClientOutput(outputs[i])
    BY <1>1 DEF OutputList
<1>3. ASSUME NEW k \in 1..n
      PROVE  \E c \in 1..5 : /\ Len(Q[k]) = 8 + c + Len(outputs[k].script)
                             /\ c <= 4 \/ Len(outputs[k].script) > ThreeByteMax
  <2> DEFINE output == outputs[k]
             c == Len(ClientCompactSize(Len(output.script)))
  <2>1. Nat \subseteq S /\ output.value \in Nat /\ output.script \in Seq(S)
      BY DEF IsTransaction, Over
  <2>2. Q[k] = ClientOutput(output)
      BY <1>2
  <2> HIDE DEF output
  <2>3. /\ Len(ClientOutput(output)) = 8 + c + Len(output.script)
        /\ c \in 1..5 /\ (c <= 4 \/ Len(output.script) > ThreeByteMax)
      BY <2>1, ClientOutputSize
  <2> HIDE DEF c, Q
  <2> QED
      BY <2>2, <2>3 DEF output
<1>4. W \in Nat /\ ThreeByteMax \in Nat /\ MaxView \in Nat /\ MaxView < 72 + 73 * W
    BY CompactSizeAssumption, ArenaAssumption
<1> HIDE DEF Q, outputs, n
<1>5. PICK fo : Flattens(fo, S, O)
    BY <1>2, FlattenExists
<1>6. PICK fq : Flattens(fq, S, Q)
    BY <1>2, FlattenExists
<1>7. /\ fo[0] = <<>> /\ fq[0] = <<>> /\ FlattenSeq(O) = fo[n] /\ FlattenSeq(Q) = fq[n]
      /\ Len(O) = n /\ Len(Q) = n /\ n \in Nat
    BY <1>2, <1>5, <1>6 DEF Flattens
<1> DEFINE Bound(k) == \E d \in Nat : Len(fq[k]) <= Len(fo[k]) + d /\ d * W <= Len(fo[k])
           bounded == [k \in 0..n |-> IF Bound(k) THEN 1 ELSE 0]
           One == {1}
<1>8. Bound(0)
  <2>1. Len(fq[0]) = 0 /\ Len(fo[0]) = 0
      BY <1>7
  <2>2. 0 * W = 0
      BY <1>4
  <2> HIDE DEF W
  <2>3. Len(fq[0]) <= Len(fo[0]) + 0 /\ 0 * W <= Len(fo[0])
      BY <2>1, <2>2
  <2> QED
      BY <2>3
<1>9. ASSUME NEW k \in 1..n, Bound(k - 1)
      PROVE  Bound(k)
  <2> DEFINE a == Len(fo[k - 1])
             b == Len(fq[k - 1])
             l == Len(outputs[k].script)
             aa == Len(fo[k])
             bb == Len(fq[k])
  <2>1. PICK d \in Nat : b <= a + d /\ d * W <= a
      BY <1>9
  <2>2. PICK c \in 1..5 : Len(Q[k]) = 8 + c + l /\ (c <= 4 \/ l > ThreeByteMax)
      BY <1>3
  <2>3. k \in 1..Len(O) /\ k \in 1..Len(Q)
      BY <1>7
  <2>4. a \in Nat /\ aa = a + Len(O[k])
      BY <1>2, <1>5, <2>3, FlattenHolds
  <2>5. b \in Nat /\ bb = b + Len(Q[k])
      BY <1>2, <1>6, <2>3, FlattenHolds
  <2>6. l \in Nat /\ Len(O[k]) = 12 + l
      BY <1>2
  <2>7. aa = a + (12 + l) /\ bb = b + (8 + c + l)
      BY <2>2, <2>4, <2>5, <2>6
  <2> HIDE DEF a, b, l, aa, bb
  <2> DEFINE p == d * W
  <2>8. p \in Nat /\ (d + 1) * W = p + W
    <3> HIDE DEF W
    <3> QED
        BY <1>4, OneMore
  <2>9. p <= a
      BY <2>1
  <2> HIDE DEF p
  <2>10. CASE c <= 4
    <3>1. bb <= aa + d /\ p <= aa
      <4> HIDE DEF W
      <4> QED
          BY <2>1, <2>4, <2>5, <2>6, <2>7, <2>8, <2>9, <2>10
    <3> QED
        BY <3>1 DEF aa, bb, p
  <2>11. CASE ~(c <= 4)
    <3>1. l > ThreeByteMax
        BY <2>2, <2>11
    <3>2. bb <= aa + (d + 1) /\ p + W <= aa /\ d + 1 \in Nat
        BY <1>4, <2>1, <2>4, <2>5, <2>6, <2>7, <2>8, <2>9, <3>1
    <3>3. bb <= aa + (d + 1) /\ (d + 1) * W <= aa
      <4> HIDE DEF W
      <4> QED
          BY <2>8, <3>2
    <3> QED
        BY <3>2, <3>3 DEF aa, bb
  <2> QED
      BY <2>10, <2>11
<1>10. bounded[n] \in One
  <2>1. bounded[0] \in One
    <3>1. 0 \in 0..n
        BY <1>7
    <3> HIDE DEF Bound
    <3> QED
        BY <1>8, <3>1
  <2>2. ASSUME NEW k \in 1..n, bounded[k - 1] \in One
        PROVE  bounded[k] \in One
    <3>1. k - 1 \in 0..n /\ k \in 0..n
        BY <1>7
    <3> HIDE DEF Bound
    <3>2. Bound(k - 1)
        BY <2>2, <3>1
    <3>3. Bound(k)
        BY <1>9, <3>2
    <3> QED
        BY <3>1, <3>3
  <2>3. n \in 0..n
      BY <1>7
  <2> HIDE DEF bounded, One
  <2> QED
      BY <1>7, <2>1, <2>2, <2>3, PrefixInduction
<1>11. Bound(n)
  <2>1. n \in 0..n
      BY <1>7
  <2> HIDE DEF Bound
  <2> QED
      BY <1>10, <2>1
<1>12. PICK d \in Nat : Len(fq[n]) <= Len(fo[n]) + d /\ d * W <= Len(fo[n])
    BY <1>11
<1>13. e = Len(fo[n]) /\ e \in Nat
  <2>1. EncodedOutputs(tx) \in Seq(S)
      BY ItemsSize
  <2> QED
      BY <1>2, <1>7, <2>1, LenProperties
<1>14. d <= 72
  <2> DEFINE p == d * W
             q == 73 * W
  <2>1. p \in Nat /\ q \in Nat
    <3> HIDE DEF W
    <3> QED
        BY <1>4, OneMore
  <2>2. p <= e /\ MaxView < 72 + q
      BY <1>4, <1>12, <1>13
  <2>3. p < q
    <3> HIDE DEF p, q
    <3> QED
        BY <1>4, <1>13, <2>1, <2>2
  <2> HIDE DEF W
  <2> QED
      BY <1>4, <2>3, FewEnough
<1>15. Len(fq[n]) <= 72 + e
  <2> DEFINE b == Len(fq[n])
  <2>1. b <= e + d /\ b \in Nat
    <3>1. fq[n] \in Seq(S)
      <4>1. n \in 0..n
          BY <1>7
      <4>2. fq \in [0..n -> Seq(S)]
          BY <1>6, <1>7 DEF Flattens
      <4> QED
          BY <4>1, <4>2
    <3>2. b \in Nat
        BY <3>1, LenProperties
    <3> HIDE DEF W
    <3> QED
        BY <1>12, <1>13, <3>2
  <2> HIDE DEF b
  <2>2. b <= 72 + e
      BY <1>13, <1>14, <2>1
  <2> QED
      BY <2>2 DEF b
<1> QED
    BY <1>7, <1>15 DEF Q

(* What the template guest reads in the view of a transaction.             *)
TemplateReads(tx, v, size) ==
    /\ Len(v) \in Nat /\ Len(v) >= 72 /\ Len(v) = ViewSize(1, tx)
    /\ Number(v, 8) = tx.index /\ Number(v, 12) = Len(tx.inputs)
    /\ ReadInputs(v, Len(tx.inputs))
          = [at |-> 16 + size, bytes |-> FlattenSeq(SequenceFields(tx))]
    /\ Number(v, 16 + size) = Len(tx.outputs)
    /\ ReadOutputs(v, 16 + size + 4, Len(tx.outputs))
          = [at |-> Len(v), bytes |-> FlattenSeq(ClientOutputs(tx))]
    /\ Len(FlattenSeq(ClientOutputs(tx))) \in 0..Len(v)
    /\ Bytes(v, 0, 8) = U32(tx.version) \o U32(tx.lock_time)
    /\ Bytes(v, 8, 4) = U32(tx.index)

(* Two fields that follow each other are one.                              *)
LEMMA HoldsBoth ==
    ASSUME NEW S, NEW s, NEW t \in Seq(S), NEW u \in Seq(S), NEW at,
           Holds(s, at, t), Holds(s, at + Len(t), u)
    PROVE  Holds(s, at, t \o u)
<1> DEFINE tu == t \o u
<1>1. /\ at \in Nat /\ Len(s) \in Nat /\ Len(t) \in Nat /\ Len(u) \in Nat
      /\ (at + Len(t)) + Len(u) <= Len(s)
    BY DEF Holds
<1>2. Len(tu) = Len(t) + Len(u)
    BY Concat
<1>3. /\ \A i \in 1..Len(t) : tu[i] = t[i]
      /\ \A i \in 1..Len(u) : tu[Len(t) + i] = u[i]
    BY ConcatElements
<1> HIDE DEF tu
<1>4. ASSUME NEW i \in 1..Len(tu)
      PROVE  s[at + i] = tu[i]
  <2>1. CASE i <= Len(t)
    <3>1. i \in 1..Len(t)
        BY <1>1, <1>2, <2>1
    <3> QED
        BY <1>3, <3>1 DEF Holds
  <2>2. CASE ~(i <= Len(t))
    <3> DEFINE j == i - Len(t)
    <3>1. j \in 1..Len(u) /\ Len(t) + j = i /\ (at + Len(t)) + j = at + i
        BY <1>1, <1>2, <2>2
    <3> HIDE DEF j
    <3>2. tu[Len(t) + j] = u[j]
        BY <1>3, <3>1
    <3>3. s[(at + Len(t)) + j] = u[j]
        BY <3>1 DEF Holds
    <3> QED
        BY <3>1, <3>2, <3>3
  <2> QED
      BY <2>1, <2>2
<1>5. at + Len(tu) <= Len(s) /\ Len(tu) \in Nat
    BY <1>1, <1>2
<1>6. Holds(s, at, tu)
    BY <1>1, <1>4, <1>5 DEF Holds
<1> QED
    BY <1>6 DEF tu

(* A transaction has an input, which takes 52 cells or more.               *)
LEMMA InputsLength ==
    ASSUME NEW tx, IsTransaction(tx), NEW S, Over(S, tx)
    PROVE  Len(EncodedInputs(tx)) \in Nat /\ Len(EncodedInputs(tx)) >= 52
<1> DEFINE n == Len(tx.inputs)
<1>1. n = Len(tx.inputs) /\ tx.index \in Nat /\ tx.index < n
    BY DEF IsTransaction
<1> HIDE DEF n
<1>2. PICK I : InputList(S, tx, n, I)
    BY <1>1, InputLists, Zenon
<1>3. /\ I \in Seq(Seq(S)) /\ Len(I) = n /\ n \in Nat /\ EncodedInputs(tx) = FlattenSeq(I)
      /\ \A i \in 1..n : Len(I[i]) = 52 + Len(tx.inputs[i].script)
                         /\ Len(tx.inputs[i].script) \in Nat
    BY <1>2 DEF InputList
<1>4. 1 \in 1..n /\ 1 \in 1..Len(I)
    BY <1>1, <1>3
<1>5. PICK flat : Flattens(flat, S, I)
    BY <1>3, FlattenExists
<1> DEFINE at == Len(flat[1 - 1])
<1>6. Holds(FlattenSeq(I), at, I[1])
    BY <1>3, <1>4, <1>5, FlattenHolds
<1> HIDE DEF at
<1>7. at \in Nat /\ Len(FlattenSeq(I)) \in Nat /\ at + Len(I[1]) <= Len(FlattenSeq(I))
    BY <1>6 DEF Holds
<1>8. Len(I[1]) \in Nat /\ Len(I[1]) >= 52
  <2> DEFINE b == Len(I[1])
             c == Len(tx.inputs[1].script)
  <2>1. b = 52 + c /\ c \in Nat
      BY <1>3, <1>4
  <2> HIDE DEF b, c
  <2>2. b \in Nat /\ b >= 52
      BY <2>1
  <2> QED
      BY <2>2 DEF b
<1>9. Len(FlattenSeq(I)) >= 52
  <2> DEFINE a == Len(FlattenSeq(I))
             b == Len(I[1])
  <2>1. a \in Nat /\ b \in Nat /\ at + b <= a /\ b >= 52
      BY <1>7, <1>8
  <2> HIDE DEF a, b
  <2>2. a >= 52
      BY <1>7, <2>1
  <2> QED
      BY <2>2 DEF a
<1> QED
    BY <1>3, <1>7, <1>9

(* The guest's loops find the fields where they are.                       *)
LEMMA TemplateView ==
    ASSUME NEW tx, IsTransaction(tx), NEW v, v = EncodeView(1, tx), Len(v) <= MaxView,
           NEW size, size = Len(EncodedInputs(tx))
    PROVE  TemplateReads(tx, v, size)
<1>1. PICK S : Over(S, tx)
    BY Alphabet
<1> DEFINE rest == Len(EncodedOutputs(tx))
           n == Len(tx.inputs)
           m == Len(tx.outputs)
           l == Len(v)
<1>2. /\ v \in Seq(S) /\ l = ViewSize(1, tx) /\ size \in Nat /\ rest \in Nat
      /\ l = 20 + size + rest
      /\ Holds(v, 0, U32(tx.version)) /\ Holds(v, 4, U32(tx.lock_time))
      /\ Holds(v, 8, U32(tx.index)) /\ Holds(v, 12, U32(n))
      /\ Holds(v, 16, EncodedInputs(tx)) /\ Holds(v, 16 + size, U32(m))
      /\ Holds(v, 20 + size, EncodedOutputs(tx))
    BY <1>1, ViewParts
<1>3. n \in Nat /\ m \in Nat /\ tx.index \in Nat /\ tx.index < n
    BY DEF IsTransaction, IsSequence
<1>4. n <= size /\ m <= rest /\ size >= 52
    BY <1>1, ItemsSize, InputsLength
<1>5. l \in Nat /\ l >= 72 /\ l < NumberRange /\ n < NumberRange /\ m < NumberRange
      /\ tx.index < NumberRange /\ 72 + rest <= MaxView
  <2> DEFINE k == tx.index
  <2>1. k \in Nat /\ k < n /\ l <= MaxView /\ l = 20 + size + rest
      BY <1>2, <1>3
  <2>2. MaxView \in Nat /\ MaxView < NumberRange /\ NumberRange \in Nat
      BY ArenaAssumption, SMT DEF NumberRange
  <2> HIDE DEF k, n, m, l, rest
  <2>3. /\ l \in Nat /\ l >= 72 /\ l < NumberRange /\ n < NumberRange /\ m < NumberRange
        /\ k < NumberRange /\ 72 + rest <= MaxView
      BY <1>2, <1>3, <1>4, <2>1, <2>2, SMT
  <2> QED
      BY <2>3 DEF k
<1>6. Number(v, 8) = tx.index /\ Number(v, 12) = n /\ Number(v, 16 + size) = m
  <2>1. Number(v, 8) = tx.index
      BY <1>2, <1>3, <1>5, HoldsNumber
  <2>2. Number(v, 12) = n
      BY <1>2, <1>3, <1>5, HoldsNumber
  <2>3. Number(v, 16 + size) = m
    <3> DEFINE at == 16 + size
    <3>1. Holds(v, at, U32(m))
        BY <1>2
    <3> HIDE DEF at, m
    <3>2. Number(v, at) = m
        BY <1>3, <1>5, <3>1, HoldsNumber
    <3> QED
        BY <3>2 DEF at
  <2> QED
      BY <2>1, <2>2, <2>3
<1>7. ReadInputs(v, n) = [at |-> 16 + size, bytes |-> FlattenSeq(SequenceFields(tx))]
  <2>1. n = Len(tx.inputs) /\ Len(v) < NumberRange /\ v \in Seq(S)
        /\ Holds(v, 16, EncodedInputs(tx))
      BY <1>2, <1>5
  <2> HIDE DEF n
  <2>2. ReadInputs(v, n)
           = [at |-> 16 + Len(EncodedInputs(tx)), bytes |-> FlattenSeq(SequenceFields(tx))]
      BY <1>1, <2>1, InputsRead
  <2> QED
      BY <2>2
<1>8. ReadOutputs(v, 16 + size + 4, m) = [at |-> l, bytes |-> FlattenSeq(ClientOutputs(tx))]
  <2> DEFINE start == 20 + size
  <2>1. /\ m = Len(tx.outputs) /\ Len(v) < NumberRange /\ v \in Seq(S)
        /\ Holds(v, start, EncodedOutputs(tx)) /\ start \in Nat
      BY <1>2, <1>5
  <2>2. 16 + size + 4 = start /\ start + Len(EncodedOutputs(tx)) = l
      BY <1>2
  <2> HIDE DEF m, start, l
  <2>3. ReadOutputs(v, start, m)
           = [at |-> start + Len(EncodedOutputs(tx)), bytes |-> FlattenSeq(ClientOutputs(tx))]
      BY <1>1, <2>1, OutputsRead
  <2> QED
      BY <2>2, <2>3
<1>9. Len(FlattenSeq(ClientOutputs(tx))) \in 0..l
  <2> DEFINE b == Len(FlattenSeq(ClientOutputs(tx)))
  <2>1. b <= 72 + rest
      BY <1>1, <1>5, HashedOutputsFit
  <2>2. b \in Nat
    <3>1. m = Len(tx.outputs)
        OBVIOUS
    <3> HIDE DEF m
    <3>2. PICK O : OutputList(S, tx, m, O)
        BY <1>1, <3>1, OutputLists, Zenon
    <3>3. ClientOutputs(tx) \in Seq(Seq(S))
        BY <3>2 DEF OutputList
    <3> DEFINE Q == ClientOutputs(tx)
    <3>4. Q \in Seq(Seq(S))
        BY <3>3
    <3> HIDE DEF Q
    <3>5. PICK flat : Flattens(flat, S, Q)
        BY <3>4, FlattenExists
    <3>6. FlattenSeq(Q) = flat[Len(Q)] /\ flat \in [0..Len(Q) -> Seq(S)] /\ Len(Q) \in 0..Len(Q)
        BY <3>4, <3>5 DEF Flattens
    <3>7. FlattenSeq(Q) \in Seq(S)
        BY <3>6
    <3> QED
        BY <3>7, LenProperties DEF Q
  <2> HIDE DEF b, rest, l
  <2>3. b \in 0..l
      BY <1>2, <1>4, <2>1, <2>2
  <2> QED
      BY <2>3 DEF b
<1>10. Nat \subseteq S
    BY <1>1 DEF Over
<1>11. Bytes(v, 8, 4) = U32(tx.index)
  <2> DEFINE u == U32(tx.index)
  <2>1. u \in Seq(S) /\ Len(u) = 4 /\ Holds(v, 8, u) /\ v \in Seq(S)
      BY <1>2, <1>3, <1>10, NumberCells
  <2> HIDE DEF u
  <2>2. Bytes(v, 8, Len(u)) = u
      BY <2>1, HoldsBytes
  <2> QED
      BY <2>1, <2>2 DEF u
<1>12. Bytes(v, 0, 8) = U32(tx.version) \o U32(tx.lock_time)
  <2> DEFINE a == U32(tx.version)
             b == U32(tx.lock_time)
             ab == a \o b
  <2>1. /\ a \in Seq(S) /\ Len(a) = 4 /\ b \in Seq(S) /\ Len(b) = 4
    <3>1. tx.version \in Nat /\ tx.lock_time \in Nat
        BY DEF IsTransaction
    <3> QED
        BY <1>10, <3>1, NumberCells
  <2>2. Holds(v, 0, a) /\ Holds(v, 0 + Len(a), b) /\ v \in Seq(S)
    <3>1. 0 + Len(a) = 4
        BY <2>1
    <3> QED
        BY <1>2, <3>1
  <2> HIDE DEF a, b
  <2>3. Holds(v, 0, ab)
      BY <2>1, <2>2, HoldsBoth
  <2>4. ab \in Seq(S) /\ Len(ab) = 8
    <3>1. a \o b \in Seq(S) /\ Len(a \o b) = Len(a) + Len(b)
        BY <2>1, Concat
    <3> QED
        BY <2>1, <3>1
  <2> HIDE DEF ab
  <2>5. Bytes(v, 0, Len(ab)) = ab
      BY <2>2, <2>3, <2>4, HoldsBytes
  <2> QED
      BY <2>4, <2>5 DEF ab, a, b
<1> QED
    BY <1>2, <1>5, <1>6, <1>7, <1>8, <1>9, <1>11, <1>12 DEF TemplateReads

(* A sequence in front of four others, or of their concatenation.          *)
InFront(t, h, a, b, c, d) ==
    ((((t \o h) \o a) \o b) \o c) \o d = t \o ((((h \o a) \o b) \o c) \o d)

(* They are equal.                                                         *)
LEMMA PutInFront ==
    ASSUME NEW S, NEW t \in Seq(S), NEW h \in Seq(S), NEW a \in Seq(S), NEW b \in Seq(S),
           NEW c \in Seq(S), NEW d \in Seq(S)
    PROVE  InFront(t, h, a, b, c, d)
<1>1. ASSUME NEW s \in Seq(S), NEW u \in Seq(S)
      PROVE  (t \o s) \o u = t \o (s \o u) /\ s \o u \in Seq(S)
    OBVIOUS
<1> DEFINE ha == h \o a
           hab == ha \o b
           habc == hab \o c
<1>2. (t \o h) \o a = t \o ha /\ ha \in Seq(S)
    BY <1>1
<1> HIDE DEF ha
<1>3. (t \o ha) \o b = t \o hab /\ hab \in Seq(S)
    BY <1>1, <1>2, Zenon
<1> HIDE DEF hab
<1>4. (t \o hab) \o c = t \o habc /\ habc \in Seq(S)
    BY <1>1, <1>3, Zenon
<1> HIDE DEF habc
<1>5. (t \o habc) \o d = t \o (habc \o d)
    BY <1>1, <1>4, Zenon
<1>6. ((((t \o h) \o a) \o b) \o c) \o d = t \o (habc \o d)
    BY <1>2, <1>3, <1>4, <1>5, Zenon
<1> QED
    BY <1>6, Zenon DEF InFront, ha, hab, habc

(* The message of a template: what the client hashes after the tags.       *)
Hashed(tx, index) ==
    ((((U32(tx.version) \o U32(tx.lock_time)) \o ShaSequences(tx)) \o ShaOutputs(tx)) \o <<0>>)
        \o U32(index)
Tags == TagHash \o TagHash

(* The cells of a message.                                                 *)
Message(S, tx, index) ==
    /\ Nat \subseteq S /\ Tags \in Seq(S) /\ Len(Tags) = 2
    /\ U32(tx.version) \o U32(tx.lock_time) \in Seq(S) /\ ShaSequences(tx) \in Seq(S)
    /\ ShaOutputs(tx) \in Seq(S) /\ <<0>> \in Seq(S) /\ U32(index) \in Seq(S)

(* They are in some set.                                                   *)
LEMMA MessageCells ==
    ASSUME NEW tx, tx.version \in Nat, tx.lock_time \in Nat, NEW index \in Nat
    PROVE  \E S : Message(S, tx, index)
<1> DEFINE x == [sha256 |-> <<"TemplateHash">>]
           y == ShaSequences(tx)[1]
           z == ShaOutputs(tx)[1]
           S == Nat \cup {x, y, z}
<1>1. TagHash = <<x>>
    BY DEF TagHash, Sha256
<1>2. ShaSequences(tx) = <<y>> /\ ShaOutputs(tx) = <<z>>
    BY DEF ShaSequences, ShaOutputs, Sha256
<1> HIDE DEF x, y, z
<1>3. Nat \subseteq S /\ x \in S /\ y \in S /\ z \in S /\ 0 \in S
    OBVIOUS
<1> HIDE DEF S
<1>4. /\ <<x>> \in Seq(S) /\ Len(<<x>>) = 1 /\ <<y>> \in Seq(S) /\ <<z>> \in Seq(S)
      /\ <<0>> \in Seq(S)
    BY <1>3
<1>5. Tags \in Seq(S) /\ Len(Tags) = 2
  <2> DEFINE t == TagHash
  <2>1. t \in Seq(S) /\ Len(t) = 1
      BY <1>1, <1>4
  <2> HIDE DEF t
  <2>2. t \o t \in Seq(S) /\ Len(t \o t) = Len(t) + Len(t)
      BY <2>1, Concat
  <2>3. Len(t \o t) = 2
      BY <2>1, <2>2
  <2> QED
      BY <2>2, <2>3 DEF Tags, t
<1>6. U32(tx.version) \o U32(tx.lock_time) \in Seq(S) /\ U32(index) \in Seq(S)
  <2> DEFINE a == U32(tx.version)
             b == U32(tx.lock_time)
  <2>1. a \in Seq(S) /\ b \in Seq(S) /\ U32(index) \in Seq(S)
      BY <1>3, NumberCells
  <2> HIDE DEF a, b
  <2>2. a \o b \in Seq(S)
      BY <2>1, Concat
  <2> QED
      BY <2>1, <2>2 DEF a, b
<1> QED
    BY <1>2, <1>3, <1>4, <1>5, <1>6 DEF Message

(* What the guest hashes of these fields is what the client hashes.        *)
LEMMA SameHash ==
    ASSUME NEW tx, tx.version \in Nat, tx.lock_time \in Nat, NEW index \in Nat,
           NEW message, message = TemplateMessage(U32(tx.version) \o U32(tx.lock_time),
              FlattenSeq(SequenceFields(tx)), FlattenSeq(ClientOutputs(tx)), U32(index))
    PROVE  /\ TemplateHash(tx, index) = Sha256(Tags \o Hashed(tx, index))
           /\ Sha256(message) = TemplateHash(tx, index)
<1> DEFINE h == U32(tx.version) \o U32(tx.lock_time)
           a == ShaSequences(tx)
           b == ShaOutputs(tx)
           c == <<0>>
           d == U32(index)
<1>1. Sha256(FlattenSeq(SequenceFields(tx))) = a /\ Sha256(FlattenSeq(ClientOutputs(tx))) = b
    BY DEF ShaSequences, ShaOutputs, SequenceFields, ClientOutputs, ClientOutput
<1>2. message = ((((Tags \o h) \o a) \o b) \o c) \o d
    BY <1>1 DEF TemplateMessage, Tags
<1>3. TemplateHash(tx, index) = Sha256(Tags \o ((((h \o a) \o b) \o c) \o d))
    BY DEF TemplateHash, TaggedHash, Tags, TagHash
<1>4. Hashed(tx, index) = (((h \o a) \o b) \o c) \o d
    BY DEF Hashed
<1>5. PICK S : Message(S, tx, index)
    BY MessageCells
<1>6. /\ Tags \in Seq(S) /\ h \in Seq(S) /\ a \in Seq(S) /\ b \in Seq(S) /\ c \in Seq(S)
      /\ d \in Seq(S)
    BY <1>5 DEF Message
<1> HIDE DEF h, a, b, c, d
<1>7. InFront(Tags, h, a, b, c, d)
    BY <1>6, PutInFront
<1>8. ((((Tags \o h) \o a) \o b) \o c) \o d = Tags \o ((((h \o a) \o b) \o c) \o d)
    BY <1>7 DEF InFront
<1> QED
    BY <1>2, <1>3, <1>4, <1>8

(* One of the two scratch areas is refused when they do not fit together.  *)
LEMMA ScratchRoom ==
    ASSUME NEW v, NEW from \in Nat, NEW count \in Nat, NEW length \in Nat,
           Number(v, 12) = count, Len(v) = length
    PROVE  (\E i \in 1..2 : Scratch(v, from)[i].pointer = 0)
              <=> from + 4 * count + length > Capacity
<1> DEFINE four == 4 * count
           one == Alloc(from, four)
           two == Alloc(one.used, length)
<1>1. Capacity \in Nat /\ ArenaBase \in Nat /\ ArenaBase > 0 /\ four \in Nat
    BY ArenaAssumption DEF Capacity
<1>2. Scratch(v, from) = <<one, two>>
    BY DEF Scratch
<1>3. (\E i \in 1..2 : Scratch(v, from)[i].pointer = 0) <=> one.pointer = 0 \/ two.pointer = 0
  <2>1. Scratch(v, from)[1] = one /\ Scratch(v, from)[2] = two
    <3> HIDE DEF one, two
    <3> QED
        BY <1>2
  <2> HIDE DEF one, two
  <2> QED
      BY <2>1
<1> HIDE DEF four
<1>4. CASE from + four > Capacity
  <2>1. one.pointer = 0
      BY <1>4 DEF Alloc
  <2>2. from + four + length > Capacity
      BY <1>1, <1>4
  <2> QED
      BY <1>3, <2>1, <2>2 DEF four
<1>5. CASE ~(from + four > Capacity)
  <2>1. one = [pointer |-> ArenaBase + from, used |-> from + four]
      BY <1>5 DEF Alloc
  <2>2. one.pointer # 0 /\ one.used = from + four
    <3>1. one.pointer = ArenaBase + from /\ one.used = from + four
        BY <2>1
    <3> HIDE DEF one
    <3> QED
        BY <1>1, <3>1
  <2>3. two = Alloc(from + four, length)
      BY <2>2
  <2> HIDE DEF one, two
  <2>4. CASE from + four + length > Capacity
      BY <1>3, <2>2, <2>3, <2>4 DEF Alloc, four
  <2>5. CASE ~(from + four + length > Capacity)
    <3>1. two.pointer = ArenaBase + (from + four)
        BY <2>3, <2>5 DEF Alloc
    <3>2. two.pointer # 0
        BY <1>1, <3>1
    <3> QED
        BY <1>3, <2>2, <2>5, <3>2 DEF four
  <2> QED
      BY <2>4, <2>5
<1> QED
    BY <1>4, <1>5

(* The template's predicate answers yes for the hash of the transaction    *)
(* it is asked about, when the scratch areas fit, and for nothing else.    *)
LEMMA TemplateAnswer ==
    ASSUME NEW r, IsRequest(r), WithinLimits(r), Version(r.instance.guest) = 1,
           NEW from, from = Len(r.instance.program) + Len(r.instance.parameters)
                            + Len(EncodeView(1, r.tx)) + Len(r.witness)
    PROVE  TemplateEvaluate(r.instance.program, r.instance.parameters, EncodeView(1, r.tx),
                            r.witness, from) = Yes <=> TemplateMeant(r)
<1> DEFINE tx == r.tx
           program == r.instance.program
           p == r.instance.parameters
           witness == r.witness
           v == EncodeView(1, tx)
           size == Len(EncodedInputs(tx))
           n == Len(tx.inputs)
           hash == TemplateHash(tx, tx.index)
<1>1. /\ IsTransaction(tx) /\ IsSequence(p) /\ IsSequence(program) /\ IsSequence(witness)
    BY DEF IsRequest
<1>2. Len(v) <= MaxView
  <2>1. Len(v) = ViewSize(1, tx)
    <3> HIDE DEF tx
    <3> QED
        BY <1>1, ViewLength
  <2> QED
      BY <2>1 DEF WithinLimits
<1>3. TemplateReads(tx, v, size)
  <2>1. v = EncodeView(1, tx) /\ size = Len(EncodedInputs(tx))
      OBVIOUS
  <2> HIDE DEF tx, v, size
  <2> QED
      BY <1>1, <1>2, <2>1, TemplateView, Zenon
<1>4. tx.version \in Nat /\ tx.lock_time \in Nat /\ tx.index \in Nat /\ tx.index < n /\ n \in Nat
    BY <1>1 DEF IsTransaction, IsSequence
<1> DEFINE count == Number(v, 12)
           inputs == ReadInputs(v, count)
           outputs == ReadOutputs(v, inputs.at + 4, Number(v, inputs.at))
           message == TemplateMessage(Bytes(v, 0, 8), inputs.bytes, outputs.bytes, Bytes(v, 8, 4))
           answer == TemplateEvaluate(program, p, v, witness, from)
           full == \E i \in 1..2 : Scratch(v, from)[i].pointer = 0
<1>5. answer = IF \/ program # <<>> \/ witness # <<>> \/ Len(p) # DIGEST
                  \/ Len(v) < 16 \/ Number(v, 8) >= count \/ full
                  \/ outputs.at # Len(v) \/ Len(outputs.bytes) > Len(v)
               THEN None ELSE Answer(p = Sha256(message))
    BY DEF TemplateEvaluate
<1>6. /\ count = n /\ inputs = [at |-> 16 + size, bytes |-> FlattenSeq(SequenceFields(tx))]
      /\ Number(v, 8) = tx.index /\ Len(v) \in Nat /\ Len(v) >= 72
    BY <1>3 DEF TemplateReads
<1>7. outputs = [at |-> Len(v), bytes |-> FlattenSeq(ClientOutputs(tx))]
  <2>1. inputs.at = 16 + size
      BY <1>6
  <2>2. Number(v, 16 + size) = Len(tx.outputs)
        /\ ReadOutputs(v, 16 + size + 4, Len(tx.outputs))
              = [at |-> Len(v), bytes |-> FlattenSeq(ClientOutputs(tx))]
      BY <1>3 DEF TemplateReads
  <2> HIDE DEF inputs, v, size, tx
  <2> QED
      BY <2>1, <2>2
<1>8. Sha256(message) = hash
  <2>1. message = TemplateMessage(U32(tx.version) \o U32(tx.lock_time),
              FlattenSeq(SequenceFields(tx)), FlattenSeq(ClientOutputs(tx)), U32(tx.index))
    <3>1. /\ Bytes(v, 0, 8) = U32(tx.version) \o U32(tx.lock_time) /\ Bytes(v, 8, 4) = U32(tx.index)
        BY <1>3 DEF TemplateReads
    <3>2. /\ inputs.bytes = FlattenSeq(SequenceFields(tx))
          /\ outputs.bytes = FlattenSeq(ClientOutputs(tx))
        BY <1>6, <1>7
    <3> HIDE DEF inputs, outputs, v, tx
    <3> QED
        BY <3>1, <3>2
  <2> HIDE DEF message, tx
  <2> QED
      BY <1>4, <2>1, SameHash
<1>9. ~(Len(v) < 16) /\ ~(Number(v, 8) >= count) /\ outputs.at = Len(v)
      /\ ~(Len(outputs.bytes) > Len(v))
  <2>1. outputs.at = Len(v) /\ outputs.bytes = FlattenSeq(ClientOutputs(tx))
      BY <1>7
  <2>2. Len(FlattenSeq(ClientOutputs(tx))) \in 0..Len(v)
      BY <1>3 DEF TemplateReads
  <2>3. Len(outputs.bytes) \in 0..Len(v)
    <3> HIDE DEF outputs, v
    <3> QED
        BY <2>1, <2>2
  <2>4. ~(Len(outputs.bytes) > Len(v))
    <3> DEFINE b == Len(outputs.bytes)
               l == Len(v)
    <3>1. b \in 0..l /\ l \in Nat
        BY <1>6, <2>3
    <3> HIDE DEF b, l
    <3>2. ~(b > l)
        BY <3>1
    <3> QED
        BY <3>2 DEF b, l
  <2>5. ~(Len(v) < 16) /\ ~(Number(v, 8) >= count)
    <3> DEFINE l == Len(v)
               i == Number(v, 8)
    <3>1. l \in Nat /\ l >= 72 /\ i = tx.index /\ count = n
        BY <1>6
    <3> HIDE DEF l, i, count, n
    <3>2. ~(l < 16) /\ ~(i >= count)
        BY <1>4, <3>1
    <3> QED
        BY <3>2 DEF l, i
  <2> QED
      BY <2>1, <2>4, <2>5
<1>10. Len(hash) = DIGEST
  <2>1. Len(Sha256(message)) = 1
      BY DEF Sha256
  <2> HIDE DEF message, hash
  <2> QED
      BY <1>8, <2>1 DEF DIGEST
<1>11. program = <<>> /\ witness = <<>> /\ Len(p) = DIGEST =>
          (full <=> ~(DIGEST + 2 * ViewSize(1, tx) + 4 * n <= Capacity))
  <2> SUFFICES ASSUME program = <<>>, witness = <<>>, Len(p) = DIGEST
               PROVE  full <=> ~(DIGEST + 2 * ViewSize(1, tx) + 4 * n <= Capacity)
      OBVIOUS
  <2> DEFINE l == Len(v)
  <2>1. Len(program) = 0 /\ Len(witness) = 0 /\ Len(p) = 1
      BY DEF DIGEST
  <2>2. l \in Nat /\ ViewSize(1, tx) = l /\ count = n
      BY <1>3, <1>6 DEF TemplateReads
  <2>3. from = Len(program) + Len(p) + l + Len(witness)
      OBVIOUS
  <2>4. from = 1 + l /\ from \in Nat
    <3> DEFINE a == Len(program)
               b == Len(p)
               c == Len(witness)
    <3>1. a = 0 /\ b = 1 /\ c = 0 /\ from = a + b + l + c
        BY <2>1, <2>3
    <3> HIDE DEF a, b, c, l
    <3> QED
        BY <2>2, <3>1
  <2>5. full <=> from + 4 * n + l > Capacity
    <3>1. Number(v, 12) = n /\ Len(v) = l
        BY <2>2
    <3> HIDE DEF v, n, l
    <3> QED
        BY <1>4, <2>2, <2>4, <3>1, ScratchRoom
  <2>6. (from + 4 * n + l > Capacity) <=> ~(1 + 2 * l + 4 * n <= Capacity)
    <3>1. Capacity \in Nat
        BY Empty
    <3> HIDE DEF l, n
    <3> QED
        BY <1>4, <2>2, <2>4, <3>1
  <2> HIDE DEF l, n, full
  <2> QED
      BY <2>2, <2>5, <2>6 DEF DIGEST
<1>12. TemplateMeant(r) <=> /\ program = <<>> /\ witness = <<>> /\ p = hash
                            /\ DIGEST + 2 * ViewSize(1, tx) + 4 * n <= Capacity
    BY DEF TemplateMeant
<1>13. Yes # No /\ Yes # None /\ \A b \in BOOLEAN : Answer(b) = Yes <=> b
    BY DEF Yes, No, None, Answer
<1>14. answer = Yes <=>
          program = <<>> /\ witness = <<>> /\ Len(p) = DIGEST /\ ~full /\ p = hash
  <2> HIDE DEF answer, full, outputs, message, hash, count, v, p, program, witness
  <2> QED
      BY <1>5, <1>8, <1>9, <1>13
<1> DEFINE room == DIGEST + 2 * ViewSize(1, tx) + 4 * n <= Capacity
<1>15. /\ program = <<>> /\ witness = <<>> /\ Len(p) = DIGEST => (full <=> ~room)
       /\ TemplateMeant(r) <=> program = <<>> /\ witness = <<>> /\ p = hash /\ room
    BY <1>11, <1>12
<1>16. answer = Yes <=> TemplateMeant(r)
  <2> HIDE DEF answer, full, hash, room, p, program, witness
  <2> QED
      BY <1>10, <1>14, <1>15
<1> QED
    BY <1>16

(* Sequences of the same length at the same place are the same.            *)
LEMMA HoldsUnique ==
    ASSUME NEW s, NEW t, NEW u, NEW at, IsSequence(t), IsSequence(u), Len(t) = Len(u),
           Holds(s, at, t), Holds(s, at, u)
    PROVE  t = u
<1>1. \A i \in 1..Len(t) : t[i] = u[i]
    BY DEF Holds
<1>2. t = [i \in 1..Len(t) |-> t[i]] /\ u = [i \in 1..Len(t) |-> u[i]]
    BY DEF IsSequence
<1> QED
    BY <1>1, <1>2

(* The two lower bytes of a number below 65536 are the number.             *)
LEMMA TwoDigits ==
    ASSUME NEW n \in Nat, n < 65536
    PROVE  n = (n % 256) + 256 * ((n \div 256) % 256)
<1> DEFINE q == n \div 256
           r == n % 256
<1>1. q \in Nat /\ r \in Nat /\ q < 256
    BY SMT
<1>2. n = 256 * q + r
    BY <1>1, Digit, SMT
<1>3. q % 256 = q
    BY <1>1, SMT
<1> HIDE DEF q, r
<1>4. n = r + 256 * (q % 256)
    BY <1>1, <1>2, <1>3, SMT
<1> QED
    BY <1>4 DEF q, r

(* A sequence with one cell in front.                                      *)
Prefixed(x, t, c) ==
    Len(c) = 1 + Len(t) /\ c[1] = x /\ \A i \in 1..Len(t) : c[1 + i] = t[i]

(* Where its cells are.                                                    *)
LEMMA PrefixedCells ==
    ASSUME NEW x \in Nat, NEW t, t \in Seq(Nat), NEW c, c = <<x>> \o t
    PROVE  Prefixed(x, t, c)
<1> DEFINE s == <<x>>
<1>1. s \in Seq(Nat) /\ Len(s) = 1 /\ s[1] = x /\ c = s \o t
    OBVIOUS
<1> HIDE DEF s
<1>2. Len(s \o t) = Len(s) + Len(t)
    BY <1>1, Concat
<1>3. /\ \A i \in 1..Len(s) : (s \o t)[i] = s[i]
      /\ \A i \in 1..Len(t) : (s \o t)[Len(s) + i] = t[i]
    BY <1>1, ConcatElements
<1>4. (s \o t)[1] = x
    BY <1>1, <1>3
<1> QED
    BY <1>1, <1>2, <1>3, <1>4 DEF Prefixed

(* The length that a compactSize stands for.                               *)
CompactNumber(s, at) ==
    IF s[at + 1] = 254 THEN s[at + 2] + 256 * s[at + 3] + 65536 * s[at + 4]
    ELSE IF s[at + 1] = 253 THEN s[at + 2] + 256 * s[at + 3]
    ELSE s[at + 1]

(* Its first byte tells its form, so no two lengths have the same.         *)
LEMMA CompactDetermined ==
    ASSUME NEW s, NEW at, NEW length \in Nat, length < NumberRange,
           Holds(s, at, ClientCompactSize(length))
    PROVE  CompactNumber(s, at) = length
<1> DEFINE c == ClientCompactSize(length)
           two == LittleEndian(length, 2)
           four == U32(length)
<1>1. CompactSize(length) = c
  <2>1. Nat \subseteq Nat
      OBVIOUS
  <2> QED
      BY <2>1, CompactCells
<1>2. c = IF length < OneByteMax THEN <<length>>
          ELSE IF length <= ThreeByteMax THEN <<253>> \o two
          ELSE <<254>> \o four
    BY <1>1 DEF CompactSize
<1>3. OneByteMax \in 0..253 /\ ThreeByteMax \in Nat /\ ThreeByteMax < 65536
    BY CompactSizeAssumption
<1>4. /\ at \in Nat /\ \A i \in 1..Len(c) : s[at + i] = c[i]
    BY DEF Holds
<1>5. /\ two \in Seq(Nat) /\ Len(two) = 2 /\ four \in Seq(Nat) /\ Len(four) = 4
    BY LittleEndianType DEF U32
<1>6. /\ two[1] = length % 256 /\ two[2] = (length \div 256) % 256
      /\ four[1] = length % 256 /\ four[2] = (length \div 256) % 256
      /\ four[3] = (length \div 65536) % 256
    BY DEF LittleEndian, U32
<1> HIDE DEF c, two, four
<1>7. CASE length < OneByteMax
  <2>1. c = <<length>>
      BY <1>2, <1>7
  <2>2. Len(c) = 1 /\ c[1] = length
      BY <2>1
  <2>3. s[at + 1] = length
      BY <1>4, <2>2
  <2>4. length # 253 /\ length # 254
      BY <1>3, <1>7
  <2> QED
      BY <2>3, <2>4 DEF CompactNumber
<1>8. CASE ~(length < OneByteMax) /\ length <= ThreeByteMax
  <2>1. c = <<253>> \o two
      BY <1>2, <1>8
  <2>2. Prefixed(253, two, c)
    <3>1. 253 \in Nat /\ two \in Seq(Nat)
        BY <1>5
    <3> QED
        BY <2>1, <3>1, PrefixedCells, Zenon
  <2>3. Len(c) = 3 /\ c[1] = 253 /\ c[2] = two[1] /\ c[3] = two[2]
      BY <1>5, <2>2 DEF Prefixed
  <2>4. s[at + 1] = 253 /\ s[at + 2] = two[1] /\ s[at + 3] = two[2]
      BY <1>4, <2>3
  <2>5. CompactNumber(s, at) = two[1] + 256 * two[2]
      BY <2>4 DEF CompactNumber
  <2>6. length < 65536
      BY <1>3, <1>8
  <2> QED
      BY <1>6, <2>5, <2>6, TwoDigits
<1>9. CASE ~(length < OneByteMax) /\ ~(length <= ThreeByteMax)
  <2>1. c = <<254>> \o four
      BY <1>2, <1>9
  <2>2. Prefixed(254, four, c)
    <3>1. 254 \in Nat /\ four \in Seq(Nat)
        BY <1>5
    <3> QED
        BY <2>1, <3>1, PrefixedCells, Zenon
  <2>3. Len(c) = 5 /\ c[1] = 254 /\ c[2] = four[1] /\ c[3] = four[2] /\ c[4] = four[3]
      BY <1>5, <2>2 DEF Prefixed
  <2>4. s[at + 1] = 254 /\ s[at + 2] = four[1] /\ s[at + 3] = four[2] /\ s[at + 4] = four[3]
      BY <1>4, <2>3
  <2>5. CompactNumber(s, at) = four[1] + 256 * four[2] + 65536 * four[3]
      BY <2>4 DEF CompactNumber
  <2> QED
      BY <1>6, <2>5, ThreeDigits
<1> QED
    BY <1>7, <1>8, <1>9

(* The numbers of an output are below NumberRange.                         *)
OutputInRange(output) == output.value < NumberRange /\ Len(output.script) < NumberRange

(* Where one output is hashed there is no other.                           *)
LEMMA OutputDetermined ==
    ASSUME NEW S, NEW T, NEW x, NEW y, OutputOver(S, x), OutputOver(T, y),
           OutputInRange(x), OutputInRange(y),
           NEW s, NEW at, Holds(s, at, ClientOutput(x)), Holds(s, at, ClientOutput(y))
    PROVE  /\ x.value = y.value /\ x.script = y.script
           /\ Len(ClientOutput(x)) = Len(ClientOutput(y))
<1> DEFINE l == Len(x.script)
           m == Len(y.script)
           c == Len(ClientCompactSize(l))
           d == Len(ClientCompactSize(m))
<1>1. /\ x.value \in Nat /\ x.script \in Seq(S) /\ y.value \in Nat /\ y.script \in Seq(T)
      /\ Nat \subseteq S /\ Nat \subseteq T
      /\ x.value < NumberRange /\ l < NumberRange /\ y.value < NumberRange /\ m < NumberRange
    BY DEF OutputOver, OutputInRange
<1>2. /\ l \in Nat /\ c \in 1..5 /\ Len(ClientOutput(x)) = 8 + c + l
      /\ Holds(ClientOutput(x), 0, U64(x.value)) /\ Holds(ClientOutput(x), 8, ClientCompactSize(l))
      /\ Holds(ClientOutput(x), 8 + c, x.script)
    BY <1>1, ClientOutputSize
<1>3. /\ m \in Nat /\ d \in 1..5 /\ Len(ClientOutput(y)) = 8 + d + m
      /\ Holds(ClientOutput(y), 0, U64(y.value)) /\ Holds(ClientOutput(y), 8, ClientCompactSize(m))
      /\ Holds(ClientOutput(y), 8 + d, y.script)
    BY <1>1, ClientOutputSize
<1>4. IsSequence(x.script) /\ IsSequence(y.script)
    BY <1>1, SequenceOf
<1>5. x.value = y.value
  <2>1. Holds(s, at + 0, U64(x.value)) /\ Holds(s, at + 0, U64(y.value))
      BY <1>2, <1>3, HoldsWithin
  <2> DEFINE k == at + 0
  <2> HIDE DEF k
  <2>2. Holds(s, k, U64(x.value)) /\ Holds(s, k, U64(y.value))
      BY <2>1 DEF k
  <2>3. Number(s, k) = x.value
      BY <1>1, <2>2, HoldsNumber
  <2>4. Number(s, k) = y.value
      BY <1>1, <2>2, HoldsNumber
  <2> QED
      BY <2>3, <2>4
<1>6. l = m
  <2> DEFINE k == at + 8
  <2>1. Holds(s, k, ClientCompactSize(l)) /\ Holds(s, k, ClientCompactSize(m))
      BY <1>2, <1>3, HoldsWithin
  <2> HIDE DEF k, l, m
  <2>2. CompactNumber(s, k) = l
      BY <1>1, <1>2, <2>1, CompactDetermined
  <2>3. CompactNumber(s, k) = m
      BY <1>1, <1>3, <2>1, CompactDetermined
  <2> QED
      BY <2>2, <2>3
<1>7. x.script = y.script
  <2> DEFINE k == at + (8 + c)
             t == x.script
             u == y.script
  <2>1. c = d
    <3> HIDE DEF l, m
    <3> QED
        BY <1>6
  <2>2. Holds(s, at + (8 + c), t) /\ Holds(s, at + (8 + d), u)
      BY <1>2, <1>3, HoldsWithin
  <2>3. Holds(s, k, t) /\ Holds(s, k, u)
    <3> HIDE DEF c, d, t, u
    <3> QED
        BY <2>1, <2>2
  <2>4. IsSequence(t) /\ IsSequence(u) /\ Len(t) = Len(u)
      BY <1>4, <1>6
  <2> HIDE DEF k, t, u
  <2>5. t = u
      BY <2>3, <2>4, HoldsUnique
  <2> QED
      BY <2>5 DEF t, u
<1> QED
  <2>1. ClientOutput(x) = ClientOutput(y)
      BY <1>5, <1>7 DEF ClientOutput
  <2> QED
      BY <1>5, <1>7, <2>1

(* The sequences that are hashed are four cells each, one after the other. *)
LEMMA SequencesAt ==
    ASSUME NEW tx, IsTransaction(tx), NEW n, n = Len(tx.inputs)
    PROVE  /\ n \in Nat /\ Len(FlattenSeq(SequenceFields(tx))) = 4 * n
           /\ \A k \in 1..n : /\ tx.inputs[k].sequence \in Nat
                              /\ Holds(FlattenSeq(SequenceFields(tx)), 4 * (k - 1),
                                       U32(tx.inputs[k].sequence))
<1> DEFINE Q == SequenceFields(tx)
           inputs == tx.inputs
<1>1. PICK S : Over(S, tx)
    BY Alphabet
<1>2. PICK I : InputList(S, tx, n, I)
    BY <1>1, InputLists, Zenon
<1>3. /\ n \in Nat /\ Q \in Seq(Seq(S)) /\ Len(Q) = n
      /\ \A i \in 1..n : Q[i] = U32(inputs[i].sequence)
    BY <1>2 DEF InputList
<1>4. \A i \in 1..n : inputs[i].sequence \in Nat
    BY DEF IsTransaction
<1>5. \A i \in 1..n : Len(Q[i]) = 4
  <2> SUFFICES ASSUME NEW i \in 1..n PROVE Len(Q[i]) = 4
      OBVIOUS
  <2>1. Nat \subseteq Nat /\ inputs[i].sequence \in Nat
      BY <1>4
  <2> DEFINE number == inputs[i].sequence
  <2> HIDE DEF number
  <2>2. Len(U32(number)) = 4
      BY <2>1, NumberCells DEF number
  <2>3. Q[i] = U32(number)
      BY <1>3 DEF number
  <2> HIDE DEF Q
  <2> QED
      BY <2>2, <2>3
<1> HIDE DEF Q, inputs
<1>6. PICK flat : Flattens(flat, S, Q)
    BY <1>3, FlattenExists
<1>7. flat[0] = <<>> /\ FlattenSeq(Q) = flat[n]
    BY <1>3, <1>6 DEF Flattens
<1>8. ASSUME NEW k \in 1..n
      PROVE  /\ Holds(FlattenSeq(Q), Len(flat[k - 1]), Q[k]) /\ Len(flat[k - 1]) \in Nat
             /\ Len(flat[k]) = Len(flat[k - 1]) + 4
  <2>1. k \in 1..Len(Q)
      BY <1>3
  <2>2. /\ Holds(FlattenSeq(Q), Len(flat[k - 1]), Q[k]) /\ Len(flat[k - 1]) \in Nat
        /\ Len(flat[k]) = Len(flat[k - 1]) + Len(Q[k])
      BY <1>3, <1>6, <2>1, FlattenHolds
  <2>3. Len(Q[k]) = 4
      BY <1>5
  <2> QED
      BY <2>2, <2>3
<1> DEFINE fours == [k \in 0..n |-> IF Len(flat[k]) = 4 * k THEN 1 ELSE 0]
           One == {1}
<1>9. fours[0] \in One
  <2>1. Len(flat[0]) = 4 * 0 /\ 0 \in 0..n
      BY <1>3, <1>7
  <2> QED
      BY <2>1
<1>10. ASSUME NEW k \in 1..n, fours[k - 1] \in One
       PROVE  fours[k] \in One
  <2>1. k - 1 \in 0..n /\ k \in 0..n /\ k \in Nat
      BY <1>3
  <2>2. Len(flat[k - 1]) = 4 * (k - 1)
      BY <1>10, <2>1
  <2>3. Len(flat[k]) = 4 * k
    <3> DEFINE x == Len(flat[k - 1])
               y == Len(flat[k])
    <3>1. x = 4 * (k - 1) /\ y = x + 4
        BY <1>8, <2>2
    <3> HIDE DEF x, y
    <3>2. y = 4 * k
        BY <2>1, <3>1
    <3> QED
        BY <3>2 DEF y
  <2> QED
      BY <2>1, <2>3
<1>11. \A k \in 0..n : fours[k] \in One
  <2> HIDE DEF fours, One
  <2> QED
      BY <1>3, <1>9, <1>10, PrefixInduction
<1>12. ASSUME NEW k \in 0..n
       PROVE  Len(flat[k]) = 4 * k
  <2>1. fours[k] = IF Len(flat[k]) = 4 * k THEN 1 ELSE 0
      OBVIOUS
  <2>2. fours[k] = 1
      BY <1>11
  <2> HIDE DEF fours
  <2> QED
      BY <2>1, <2>2
<1>13. ASSUME NEW k \in 1..n
       PROVE  Holds(FlattenSeq(Q), 4 * (k - 1), Q[k])
  <2>1. k - 1 \in 0..n
      BY <1>3
  <2>2. Len(flat[k - 1]) = 4 * (k - 1)
      BY <1>12, <2>1
  <2>3. Holds(FlattenSeq(Q), Len(flat[k - 1]), Q[k])
      BY <1>8
  <2> QED
      BY <2>2, <2>3
<1>14. Len(FlattenSeq(Q)) = 4 * n
  <2>1. n \in 0..n
      BY <1>3
  <2> QED
      BY <1>7, <1>12, <2>1
<1> QED
    BY <1>3, <1>4, <1>13, <1>14 DEF Q, inputs

(* So the bytes that are hashed of the inputs determine their sequences.   *)
LEMMA SequencesDetermined ==
    ASSUME NEW a, NEW b, IsTransaction(a), IsTransaction(b),
           TemplateInRange(a), TemplateInRange(b),
           FlattenSeq(SequenceFields(a)) = FlattenSeq(SequenceFields(b))
    PROVE  /\ Len(a.inputs) = Len(b.inputs)
           /\ \A k \in 1..Len(a.inputs) : a.inputs[k].sequence = b.inputs[k].sequence
<1> DEFINE F == FlattenSeq(SequenceFields(a))
           n == Len(a.inputs)
           m == Len(b.inputs)
<1>1. /\ n \in Nat /\ Len(F) = 4 * n
      /\ \A k \in 1..n : /\ a.inputs[k].sequence \in Nat
                         /\ Holds(F, 4 * (k - 1), U32(a.inputs[k].sequence))
    BY SequencesAt
<1>2. /\ m \in Nat /\ Len(F) = 4 * m
      /\ \A k \in 1..m : /\ b.inputs[k].sequence \in Nat
                         /\ Holds(F, 4 * (k - 1), U32(b.inputs[k].sequence))
    BY SequencesAt
<1>3. /\ \A k \in 1..n : a.inputs[k].sequence < NumberRange
      /\ \A k \in 1..m : b.inputs[k].sequence < NumberRange
    BY DEF TemplateInRange
<1> HIDE DEF F, n, m
<1>4. n = m
  <2>1. 4 * n = 4 * m
      BY <1>1, <1>2
  <2> QED
      BY <1>1, <1>2, <2>1
<1>5. ASSUME NEW k \in 1..n
      PROVE  a.inputs[k].sequence = b.inputs[k].sequence
  <2> DEFINE x == a.inputs[k].sequence
             y == b.inputs[k].sequence
             at == 4 * (k - 1)
  <2>1. /\ x \in Nat /\ x < NumberRange /\ y \in Nat /\ y < NumberRange
        /\ Holds(F, at, U32(x)) /\ Holds(F, at, U32(y))
      BY <1>1, <1>2, <1>3, <1>4
  <2> HIDE DEF x, y, at
  <2>2. Number(F, at) = x
      BY <2>1, HoldsNumber
  <2>3. Number(F, at) = y
      BY <2>1, HoldsNumber
  <2> QED
      BY <2>2, <2>3 DEF x, y
<1> QED
    BY <1>4, <1>5 DEF n, m

(* The outputs of a transaction as they are hashed, one after the other.   *)
HashedAt(S, tx, flat, F, n) ==
    /\ n = Len(tx.outputs) /\ n \in Nat /\ flat[0] = <<>> /\ F = flat[n] /\ Len(F) \in Nat
    /\ \A k \in 1..n :
          /\ OutputOver(S, tx.outputs[k]) /\ OutputInRange(tx.outputs[k])
          /\ Holds(F, Len(flat[k - 1]), ClientOutput(tx.outputs[k]))
          /\ Len(ClientOutput(tx.outputs[k])) \in Nat /\ Len(ClientOutput(tx.outputs[k])) >= 9
          /\ Len(flat[k - 1]) \in Nat
          /\ Len(flat[k]) = Len(flat[k - 1]) + Len(ClientOutput(tx.outputs[k]))

(* There is such a sequence of prefixes.                                   *)
LEMMA OutputsAt ==
    ASSUME NEW tx, IsTransaction(tx), TemplateInRange(tx), NEW n, n = Len(tx.outputs),
           NEW F, F = FlattenSeq(ClientOutputs(tx))
    PROVE  \E S, flat : HashedAt(S, tx, flat, F, n)
<1> DEFINE Q == ClientOutputs(tx)
           outputs == tx.outputs
<1>1. PICK S : Over(S, tx)
    BY Alphabet
<1>2. PICK O : OutputList(S, tx, n, O)
    BY <1>1, OutputLists, Zenon
<1>3. /\ n \in Nat /\ Q \in Seq(Seq(S)) /\ Len(Q) = n
      /\ \A i \in 1..n : Q[i] = ClientOutput(outputs[i])
    BY <1>2 DEF OutputList
<1>4. ASSUME NEW k \in 1..n
      PROVE  OutputOver(S, outputs[k]) /\ OutputInRange(outputs[k])
    BY <1>1 DEF OutputOver, Over, IsTransaction, OutputInRange, TemplateInRange
<1>5. F = FlattenSeq(Q)
    OBVIOUS
<1> HIDE DEF Q, outputs
<1>6. PICK flat : Flattens(flat, S, Q)
    BY <1>3, FlattenExists
<1>7. flat[0] = <<>> /\ F = flat[n] /\ Len(F) \in Nat
  <2>1. flat[0] = <<>> /\ F = flat[n] /\ flat \in [0..n -> Seq(S)] /\ n \in 0..n
      BY <1>3, <1>5, <1>6 DEF Flattens
  <2>2. F \in Seq(S)
      BY <2>1
  <2> QED
      BY <2>1, <2>2, LenProperties
<1>8. ASSUME NEW k \in 1..n
      PROVE  /\ Holds(F, Len(flat[k - 1]), ClientOutput(outputs[k]))
             /\ Len(ClientOutput(outputs[k])) \in Nat /\ Len(ClientOutput(outputs[k])) >= 9
             /\ Len(flat[k - 1]) \in Nat
             /\ Len(flat[k]) = Len(flat[k - 1]) + Len(ClientOutput(outputs[k]))
  <2>1. k \in 1..Len(Q)
      BY <1>3
  <2>2. /\ Holds(FlattenSeq(Q), Len(flat[k - 1]), Q[k]) /\ Len(flat[k - 1]) \in Nat
        /\ Len(flat[k]) = Len(flat[k - 1]) + Len(Q[k])
      BY <1>3, <1>6, <2>1, FlattenHolds
  <2>3. Q[k] = ClientOutput(outputs[k])
      BY <1>3
  <2>4. Len(ClientOutput(outputs[k])) \in Nat /\ Len(ClientOutput(outputs[k])) >= 9
    <3> DEFINE output == outputs[k]
               c == Len(ClientCompactSize(Len(output.script)))
               l == Len(output.script)
               w == Len(ClientOutput(output))
    <3>1. Nat \subseteq S /\ output.value \in Nat /\ output.script \in Seq(S)
        BY <1>4 DEF OutputOver
    <3> HIDE DEF output
    <3>2. w = 8 + c + l /\ c \in 1..5 /\ l \in Nat
        BY <3>1, ClientOutputSize
    <3> HIDE DEF c, l, w
    <3>3. w \in Nat /\ w >= 9
        BY <3>2
    <3> QED
        BY <3>3 DEF w, output
  <2> QED
      BY <1>5, <2>2, <2>3, <2>4
<1>9. HashedAt(S, tx, flat, F, n)
    BY <1>3, <1>4, <1>7, <1>8 DEF HashedAt, outputs
<1> QED
    BY <1>9

(* Two lists of outputs with the same bytes agree as far as both go.       *)
LEMMA OutputsAgree ==
    ASSUME NEW S, NEW T, NEW a, NEW b, NEW f, NEW g, NEW F, NEW n, NEW m,
           HashedAt(S, a, f, F, n), HashedAt(T, b, g, F, m), n <= m
    PROVE  /\ Len(f[n]) = Len(g[n])
           /\ \A k \in 1..n : /\ a.outputs[k].value = b.outputs[k].value
                              /\ a.outputs[k].script = b.outputs[k].script
<1>1. n \in Nat /\ m \in Nat /\ f[0] = <<>> /\ g[0] = <<>>
    BY DEF HashedAt
<1>2. ASSUME NEW k \in 1..n, Len(f[k - 1]) = Len(g[k - 1])
      PROVE  /\ Len(f[k]) = Len(g[k]) /\ a.outputs[k].value = b.outputs[k].value
             /\ a.outputs[k].script = b.outputs[k].script
  <2> DEFINE x == a.outputs[k]
             y == b.outputs[k]
             at == Len(f[k - 1])
  <2>1. k \in 1..m
      BY <1>1
  <2>2. /\ OutputOver(S, x) /\ OutputInRange(x) /\ Holds(F, at, ClientOutput(x))
        /\ Len(f[k]) = at + Len(ClientOutput(x))
      BY DEF HashedAt
  <2>3. /\ OutputOver(T, y) /\ OutputInRange(y) /\ Holds(F, Len(g[k - 1]), ClientOutput(y))
        /\ Len(g[k]) = Len(g[k - 1]) + Len(ClientOutput(y))
      BY <2>1 DEF HashedAt
  <2>4. Holds(F, at, ClientOutput(y)) /\ Len(g[k]) = at + Len(ClientOutput(y))
      BY <1>2, <2>3
  <2> HIDE DEF x, y, at
  <2>5. /\ x.value = y.value /\ x.script = y.script
        /\ Len(ClientOutput(x)) = Len(ClientOutput(y))
      BY <2>2, <2>3, <2>4, OutputDetermined
  <2> QED
      BY <2>2, <2>4, <2>5 DEF x, y
<1> DEFINE same == [k \in 0..n |-> IF Len(f[k]) = Len(g[k]) THEN 1 ELSE 0]
           One == {1}
<1>3. same[0] \in One
  <2>1. 0 \in 0..n
      BY <1>1
  <2> QED
      BY <1>1, <2>1
<1>4. ASSUME NEW k \in 1..n, same[k - 1] \in One
      PROVE  same[k] \in One
  <2>1. k - 1 \in 0..n /\ k \in 0..n
      BY <1>1
  <2>2. Len(f[k - 1]) = Len(g[k - 1])
      BY <1>4, <2>1
  <2>3. Len(f[k]) = Len(g[k])
      BY <1>2, <2>2
  <2> QED
      BY <2>1, <2>3
<1>5. \A k \in 0..n : same[k] \in One
  <2> HIDE DEF same, One
  <2> QED
      BY <1>1, <1>3, <1>4, PrefixInduction
<1>6. \A k \in 0..n : Len(f[k]) = Len(g[k])
    BY <1>5
<1>7. n \in 0..n /\ \A k \in 1..n : k - 1 \in 0..n
    BY <1>1
<1> QED
    BY <1>2, <1>6, <1>7

(* And neither goes further than the other.                                *)
LEMMA OutputsEnd ==
    ASSUME NEW S, NEW T, NEW a, NEW b, NEW f, NEW g, NEW F, NEW n, NEW m,
           HashedAt(S, a, f, F, n), HashedAt(T, b, g, F, m), n <= m
    PROVE  n = m
<1> SUFFICES ASSUME n # m PROVE FALSE
    OBVIOUS
<1>1. n \in Nat /\ m \in Nat /\ F = f[n] /\ Len(F) \in Nat
    BY DEF HashedAt
<1> DEFINE k == n + 1
           at == Len(g[k - 1])
           w == Len(ClientOutput(b.outputs[k]))
<1>2. k \in 1..m /\ k - 1 = n
    BY <1>1
<1>3. Holds(F, at, ClientOutput(b.outputs[k])) /\ w \in Nat /\ w >= 9
  <2> HIDE DEF k
  <2> QED
      BY <1>2 DEF HashedAt
<1>4. Len(F) = at
  <2>1. Len(f[n]) = Len(g[n])
      BY OutputsAgree
  <2> HIDE DEF k
  <2> QED
      BY <1>1, <1>2, <2>1
<1>5. at + w <= Len(F) /\ at \in Nat
    BY <1>3 DEF Holds
<1> HIDE DEF at, w
<1> QED
    BY <1>1, <1>3, <1>4, <1>5

(* So the bytes that are hashed of the outputs determine them.             *)
LEMMA OutputsDetermined ==
    ASSUME NEW a, NEW b, IsTransaction(a), IsTransaction(b),
           TemplateInRange(a), TemplateInRange(b),
           FlattenSeq(ClientOutputs(a)) = FlattenSeq(ClientOutputs(b))
    PROVE  /\ Len(a.outputs) = Len(b.outputs)
           /\ \A k \in 1..Len(a.outputs) : /\ a.outputs[k].value = b.outputs[k].value
                                           /\ a.outputs[k].script = b.outputs[k].script
<1> DEFINE F == FlattenSeq(ClientOutputs(a))
           n == Len(a.outputs)
           m == Len(b.outputs)
<1>1. /\ F = FlattenSeq(ClientOutputs(a)) /\ F = FlattenSeq(ClientOutputs(b))
      /\ n = Len(a.outputs) /\ m = Len(b.outputs)
    OBVIOUS
<1> HIDE DEF F, n, m
<1>2. PICK S, f : HashedAt(S, a, f, F, n)
    BY <1>1, OutputsAt
<1>3. PICK T, g : HashedAt(T, b, g, F, m)
    BY <1>1, OutputsAt
<1>4. n \in Nat /\ m \in Nat
    BY <1>2, <1>3 DEF HashedAt
<1>5. n = m
  <2>1. CASE n <= m
      BY <1>2, <1>3, <2>1, OutputsEnd
  <2>2. CASE m <= n
    <3>1. m = n
        BY <1>2, <1>3, <2>2, OutputsEnd
    <3> QED
        BY <3>1
  <2> QED
      BY <1>4, <2>1, <2>2
<1>6. n <= m
    BY <1>4, <1>5
<1>7. \A k \in 1..n : /\ a.outputs[k].value = b.outputs[k].value
                      /\ a.outputs[k].script = b.outputs[k].script
    BY <1>2, <1>3, <1>6, OutputsAgree
<1> QED
    BY <1>1, <1>5, <1>7

(* Where the fields of a template's message are.                           *)
MessageFields(w, tx, index) ==
    /\ Holds(w, 0, U32(tx.version)) /\ Holds(w, 4, U32(tx.lock_time))
    /\ Holds(w, 8, ShaSequences(tx)) /\ Holds(w, 9, ShaOutputs(tx))
    /\ Holds(w, 11, U32(index))

(* They are there.                                                         *)
LEMMA MessageParts ==
    ASSUME NEW tx, tx.version \in Nat, tx.lock_time \in Nat, NEW index \in Nat
    PROVE  MessageFields(Hashed(tx, index), tx, index)
<1> DEFINE a == U32(tx.version)
           b == U32(tx.lock_time)
           c == ShaSequences(tx)
           d == ShaOutputs(tx)
           z == <<0>>
           i == U32(index)
<1>1. PICK S : Message(S, tx, index)
    BY MessageCells
<1>2. Nat \subseteq S /\ c \in Seq(S) /\ d \in Seq(S) /\ z \in Seq(S)
    BY <1>1 DEF Message
<1>3. Len(c) = 1 /\ Len(d) = 1 /\ Len(z) = 1
    BY DEF ShaSequences, ShaOutputs, Sha256
<1>4. a \in Seq(S) /\ Len(a) = 4 /\ b \in Seq(S) /\ Len(b) = 4 /\ i \in Seq(S) /\ Len(i) = 4
    BY <1>2, NumberCells
<1>5. Hashed(tx, index) = ((((a \o b) \o c) \o d) \o z) \o i
    BY DEF Hashed
<1> HIDE DEF a, b, c, d, z, i
<1> DEFINE ab == a \o b
           abc == ab \o c
           abcd == abc \o d
           abcdz == abcd \o z
           w == abcdz \o i
<1>6. ab \in Seq(S) /\ Len(ab) = 8 /\ Holds(ab, 0, a) /\ Holds(ab, 4, b)
  <2>1. a \o b \in Seq(S) /\ Len(a \o b) = Len(a) + Len(b)
      BY <1>4, Concat
  <2>2. Holds(a \o b, Len(a), b) /\ Holds(a \o b, 0, a)
      BY <1>4, HoldsConcat
  <2> QED
      BY <1>4, <2>1, <2>2
<1> HIDE DEF ab
<1>7. abc \in Seq(S) /\ Len(abc) = 9 /\ Holds(abc, 0, a) /\ Holds(abc, 4, b) /\ Holds(abc, 8, c)
  <2>1. ab \o c \in Seq(S) /\ Len(ab \o c) = Len(ab) + Len(c)
      BY <1>2, <1>6, Concat
  <2>2. Holds(ab \o c, Len(ab), c)
      BY <1>2, <1>6, HoldsConcat
  <2>3. Holds(ab \o c, 0, a) /\ Holds(ab \o c, 4, b)
      BY <1>2, <1>6, HoldsBefore
  <2> QED
      BY <1>3, <1>6, <2>1, <2>2, <2>3
<1> HIDE DEF abc
<1>8. /\ abcd \in Seq(S) /\ Len(abcd) = 10 /\ Holds(abcd, 0, a) /\ Holds(abcd, 4, b)
      /\ Holds(abcd, 8, c) /\ Holds(abcd, 9, d)
  <2>1. abc \o d \in Seq(S) /\ Len(abc \o d) = Len(abc) + Len(d)
      BY <1>2, <1>7, Concat
  <2>2. Holds(abc \o d, Len(abc), d)
      BY <1>2, <1>7, HoldsConcat
  <2>3. Holds(abc \o d, 0, a) /\ Holds(abc \o d, 4, b) /\ Holds(abc \o d, 8, c)
      BY <1>2, <1>7, HoldsBefore
  <2> QED
      BY <1>3, <1>7, <2>1, <2>2, <2>3
<1> HIDE DEF abcd
<1>9. /\ abcdz \in Seq(S) /\ Len(abcdz) = 11 /\ Holds(abcdz, 0, a) /\ Holds(abcdz, 4, b)
      /\ Holds(abcdz, 8, c) /\ Holds(abcdz, 9, d)
  <2>1. abcd \o z \in Seq(S) /\ Len(abcd \o z) = Len(abcd) + Len(z)
      BY <1>2, <1>8, Concat
  <2>2. /\ Holds(abcd \o z, 0, a) /\ Holds(abcd \o z, 4, b) /\ Holds(abcd \o z, 8, c)
        /\ Holds(abcd \o z, 9, d)
      BY <1>2, <1>8, HoldsBefore
  <2> QED
      BY <1>3, <1>8, <2>1, <2>2
<1> HIDE DEF abcdz
<1>10. /\ Holds(w, 0, a) /\ Holds(w, 4, b) /\ Holds(w, 8, c) /\ Holds(w, 9, d) /\ Holds(w, 11, i)
  <2>1. Holds(abcdz \o i, Len(abcdz), i)
      BY <1>4, <1>9, HoldsConcat
  <2>2. /\ Holds(abcdz \o i, 0, a) /\ Holds(abcdz \o i, 4, b) /\ Holds(abcdz \o i, 8, c)
        /\ Holds(abcdz \o i, 9, d)
      BY <1>4, <1>9, HoldsBefore
  <2> QED
      BY <1>9, <2>1, <2>2
<1>11. Hashed(tx, index) = w
    BY <1>5 DEF ab, abc, abcd, abcdz
<1> HIDE DEF w
<1> QED
    BY <1>10, <1>11 DEF MessageFields, a, b, c, d, i

(* What is hashed behind the tags is there to be read.                     *)
LEMMA HashedHeld ==
    ASSUME NEW tx, tx.version \in Nat, tx.lock_time \in Nat, NEW index \in Nat
    PROVE  Holds(Tags \o Hashed(tx, index), 2, Hashed(tx, index))
<1> DEFINE h == U32(tx.version) \o U32(tx.lock_time)
           c == ShaSequences(tx)
           d == ShaOutputs(tx)
           z == <<0>>
           i == U32(index)
           m == Hashed(tx, index)
<1>1. PICK S : Message(S, tx, index)
    BY MessageCells
<1>2. /\ Tags \in Seq(S) /\ Len(Tags) = 2 /\ h \in Seq(S) /\ c \in Seq(S) /\ d \in Seq(S)
      /\ z \in Seq(S) /\ i \in Seq(S)
    BY <1>1 DEF Message
<1>3. m = (((h \o c) \o d) \o z) \o i
    BY DEF Hashed
<1> HIDE DEF h, c, d, z, i, m
<1>4. h \o c \in Seq(S)
    BY <1>2, Concat
<1>5. (h \o c) \o d \in Seq(S)
    BY <1>2, <1>4, Concat
<1>6. ((h \o c) \o d) \o z \in Seq(S)
    BY <1>2, <1>5, Concat
<1>7. m \in Seq(S)
    BY <1>2, <1>3, <1>6, Concat
<1>8. Holds(Tags \o m, Len(Tags), m)
    BY <1>2, <1>7, HoldsConcat
<1> QED
    BY <1>2, <1>8 DEF m

(* The same hash is of the same message.                                   *)
LEMMA HashDetermines ==
    ASSUME NEW a, NEW b, NEW i, NEW j, TemplateHash(a, i) = TemplateHash(b, j)
    PROVE  Tags \o Hashed(a, i) = Tags \o Hashed(b, j)
<1> DEFINE x == Tags \o Hashed(a, i)
           y == Tags \o Hashed(b, j)
<1>1. TemplateHash(a, i) = Sha256(x) /\ TemplateHash(b, j) = Sha256(y)
    BY DEF TemplateHash, TaggedHash, Tags, TagHash, Hashed
<1>2. x = y
  <2>1. Sha256(x) = Sha256(y)
      BY <1>1
  <2>2. Sha256(x)[1].sha256 = x /\ Sha256(y)[1].sha256 = y
    <3> HIDE DEF x, y
    <3> QED
        BY DEF Sha256
  <2> HIDE DEF x, y
  <2> QED
      BY <2>1, <2>2
<1> QED
    BY <1>2

(* A number below NumberRange has one place where it can be.               *)
LEMMA NumberUnique ==
    ASSUME NEW s, NEW at, NEW m \in Nat, NEW n \in Nat, m < NumberRange, n < NumberRange,
           Holds(s, at, U32(m)), Holds(s, at, U32(n))
    PROVE  m = n
<1>1. Number(s, at) = m
    BY HoldsNumber
<1>2. Number(s, at) = n
    BY HoldsNumber
<1> QED
    BY <1>1, <1>2

(* Where one digest is there is no other, and a digest is of one sequence. *)
LEMMA DigestUnique ==
    ASSUME NEW s, NEW at, NEW x, NEW y, Holds(s, at, Sha256(x)), Holds(s, at, Sha256(y))
    PROVE  x = y
<1>1. /\ Len(Sha256(x)) = 1 /\ Len(Sha256(y)) = 1
      /\ Sha256(x)[1].sha256 = x /\ Sha256(y)[1].sha256 = y
    BY DEF Sha256
<1>2. s[at + 1] = Sha256(x)[1] /\ s[at + 1] = Sha256(y)[1]
  <2>1. 1 \in 1..1
      OBVIOUS
  <2> QED
      BY <1>1, <2>1 DEF Holds
<1> QED
    BY <1>1, <1>2

(* The fields of a template's message, behind the tags.                    *)
CommittedFields(w, tx, index) ==
    /\ Holds(w, 2, U32(tx.version)) /\ Holds(w, 6, U32(tx.lock_time))
    /\ Holds(w, 10, Sha256(FlattenSeq(SequenceFields(tx))))
    /\ Holds(w, 11, Sha256(FlattenSeq(ClientOutputs(tx)))) /\ Holds(w, 13, U32(index))

(* They are there.                                                         *)
LEMMA FieldsCommitted ==
    ASSUME NEW tx, tx.version \in Nat, tx.lock_time \in Nat, NEW index \in Nat,
           NEW w, w = Tags \o Hashed(tx, index)
    PROVE  CommittedFields(w, tx, index)
<1> DEFINE m == Hashed(tx, index)
<1>1. Holds(w, 2, m)
    BY HashedHeld
<1>2. MessageFields(m, tx, index)
    BY MessageParts
<1>3. ShaSequences(tx) = Sha256(FlattenSeq(SequenceFields(tx)))
    BY DEF ShaSequences, SequenceFields
<1>4. ShaOutputs(tx) = Sha256(FlattenSeq(ClientOutputs(tx)))
    BY DEF ShaOutputs, ClientOutputs, ClientOutput
<1> HIDE DEF m
<1> DEFINE c == ShaSequences(tx)
           d == ShaOutputs(tx)
           v == U32(tx.version)
           l == U32(tx.lock_time)
           i == U32(index)
<1>5. Holds(m, 0, v) /\ Holds(m, 4, l) /\ Holds(m, 8, c) /\ Holds(m, 9, d) /\ Holds(m, 11, i)
    BY <1>2 DEF MessageFields
<1> HIDE DEF c, d, v, l, i
<1>6. Holds(w, 2 + 0, v) /\ Holds(w, 2 + 4, l) /\ Holds(w, 2 + 8, c)
    BY <1>1, <1>5, HoldsWithin
<1>7. Holds(w, 2 + 9, d) /\ Holds(w, 2 + 11, i)
    BY <1>1, <1>5, HoldsWithin
<1>8. Holds(w, 2, v) /\ Holds(w, 6, l) /\ Holds(w, 10, c) /\ Holds(w, 11, d) /\ Holds(w, 13, i)
    BY <1>6, <1>7
<1> QED
    BY <1>3, <1>4, <1>8 DEF CommittedFields, c, d, v, l, i

(* Equal template hashes commit to equal fields: the encoding of the       *)
(* client (TemplateHash of contract.rs) confuses no two transactions.      *)
THEOREM TemplateCommits ==
    ASSUME NEW a, NEW b, IsTransaction(a), IsTransaction(b),
           TemplateInRange(a), TemplateInRange(b),
           NEW i \in 0..(Len(a.inputs) - 1), NEW j \in 0..(Len(b.inputs) - 1),
           TemplateHash(a, i) = TemplateHash(b, j)
    PROVE  TemplateFields(a, i) = TemplateFields(b, j)
<1>1. /\ a.version \in Nat /\ a.lock_time \in Nat /\ b.version \in Nat /\ b.lock_time \in Nat
      /\ Len(a.inputs) \in Nat /\ Len(b.inputs) \in Nat
      /\ Len(a.outputs) \in Nat /\ Len(b.outputs) \in Nat
    BY DEF IsTransaction, IsSequence
<1>2. /\ a.version < NumberRange /\ a.lock_time < NumberRange /\ Len(a.inputs) < NumberRange
      /\ b.version < NumberRange /\ b.lock_time < NumberRange /\ Len(b.inputs) < NumberRange
    BY DEF TemplateInRange
<1>3. NumberRange \in Nat
    BY DEF NumberRange
<1>4. i \in Nat /\ j \in Nat /\ i < NumberRange /\ j < NumberRange
    BY <1>1, <1>2, <1>3
<1> DEFINE w == Tags \o Hashed(a, i)
<1>5. w = Tags \o Hashed(b, j)
    BY HashDetermines
<1>6. CommittedFields(w, a, i) /\ CommittedFields(w, b, j)
    BY <1>1, <1>4, <1>5, FieldsCommitted
<1> HIDE DEF w
<1>7. /\ Holds(w, 2, U32(a.version)) /\ Holds(w, 2, U32(b.version))
      /\ Holds(w, 6, U32(a.lock_time)) /\ Holds(w, 6, U32(b.lock_time))
      /\ Holds(w, 13, U32(i)) /\ Holds(w, 13, U32(j))
    BY <1>6 DEF CommittedFields
<1>8. a.version = b.version
    BY <1>1, <1>2, <1>7, NumberUnique
<1>9. a.lock_time = b.lock_time
    BY <1>1, <1>2, <1>7, NumberUnique
<1>10. i = j
    BY <1>4, <1>7, NumberUnique
<1>11. FlattenSeq(SequenceFields(a)) = FlattenSeq(SequenceFields(b))
  <2> DEFINE x == FlattenSeq(SequenceFields(a))
             y == FlattenSeq(SequenceFields(b))
  <2>1. Holds(w, 10, Sha256(x)) /\ Holds(w, 10, Sha256(y))
      BY <1>6 DEF CommittedFields
  <2> HIDE DEF x, y
  <2>2. x = y
      BY <2>1, DigestUnique
  <2> QED
      BY <2>2 DEF x, y
<1>12. FlattenSeq(ClientOutputs(a)) = FlattenSeq(ClientOutputs(b))
  <2> DEFINE x == FlattenSeq(ClientOutputs(a))
             y == FlattenSeq(ClientOutputs(b))
  <2>1. Holds(w, 11, Sha256(x)) /\ Holds(w, 11, Sha256(y))
      BY <1>6 DEF CommittedFields
  <2> HIDE DEF x, y
  <2>2. x = y
      BY <2>1, DigestUnique
  <2> QED
      BY <2>2 DEF x, y
<1>13. /\ Len(a.inputs) = Len(b.inputs)
       /\ \A k \in 1..Len(a.inputs) : a.inputs[k].sequence = b.inputs[k].sequence
    BY <1>11, SequencesDetermined
<1>14. /\ Len(a.outputs) = Len(b.outputs)
       /\ \A k \in 1..Len(a.outputs) : /\ a.outputs[k].value = b.outputs[k].value
                                       /\ a.outputs[k].script = b.outputs[k].script
    BY <1>12, OutputsDetermined
<1>15. /\ DOMAIN a.inputs = 1..Len(a.inputs) /\ DOMAIN b.inputs = 1..Len(b.inputs)
       /\ DOMAIN a.outputs = 1..Len(a.outputs) /\ DOMAIN b.outputs = 1..Len(b.outputs)
  <2>1. \A s : IsSequence(s) => DOMAIN s = 1..Len(s)
      BY DEF IsSequence
  <2> QED
      BY <2>1 DEF IsTransaction
<1>16. [k \in DOMAIN a.inputs |-> a.inputs[k].sequence]
          = [k \in DOMAIN b.inputs |-> b.inputs[k].sequence]
    BY <1>13, <1>15
<1>17. [k \in DOMAIN a.outputs |-> <<a.outputs[k].value, a.outputs[k].script>>]
          = [k \in DOMAIN b.outputs |-> <<b.outputs[k].value, b.outputs[k].script>>]
    BY <1>14, <1>15
<1> QED
    BY <1>8, <1>9, <1>10, <1>16, <1>17 DEF TemplateFields

(* What the template's guest answers when it is called.                    *)
LEMMA TemplateResult ==
    ASSUME ExampleInv, phase = "evaluate", request.instance.guest = "template"
    PROVE  IsRequest(request) /\ (GuestResult = Yes <=> TemplateMeant(request))
<1> DEFINE r == request
           from == Len(r.instance.program) + Len(r.instance.parameters)
                   + Len(EncodeView(1, r.tx)) + Len(r.witness)
<1>1. r.instance.guest \in ArenaGuests /\ Version(r.instance.guest) = 1
    BY DEF ArenaGuests, Version, V2Guests
<1>2. steps # <<>> /\ Evaluated /\ Placed /\ Len(pointers) = 4
    BY <1>1 DEF ExampleInv, TypeOK, ArenaInv, EvaluationInv
<1>3. IsRequest(r)
    BY <1>2, CurrentRequest DEF ExampleInv
<1>4. WithinLimits(r)
    BY <1>2 DEF Evaluated, Authentic, WithinLimits
<1>5. arguments = <<r.instance.program, r.instance.parameters, EncodeView(1, r.tx), r.witness>>
    BY <1>1, <1>2 DEF Evaluated, Arguments
<1>6. used = from
  <2>1. used = Offset(arguments, 5)
      BY <1>2 DEF Placed
  <2>2. Offset(arguments, 5) = Len(arguments[1]) + Len(arguments[2]) + Len(arguments[3])
                               + Len(arguments[4])
      BY DEF Offset
  <2>3. /\ arguments[1] = r.instance.program /\ arguments[2] = r.instance.parameters
        /\ arguments[3] = EncodeView(1, r.tx) /\ arguments[4] = r.witness
    <3> DEFINE a == r.instance.program
               b == r.instance.parameters
               c == EncodeView(1, r.tx)
               d == r.witness
    <3>1. arguments = <<a, b, c, d>>
        BY <1>5
    <3> HIDE DEF a, b, c, d
    <3>2. arguments[1] = a /\ arguments[2] = b /\ arguments[3] = c /\ arguments[4] = d
        BY <3>1
    <3> QED
        BY <3>2 DEF a, b, c, d
  <2> QED
      BY <2>1, <2>2, <2>3
<1>7. view = EncodeView(1, r.tx)
    BY <1>5 DEF view
<1>8. ArgumentsReadable(pointers, arguments, used)
    BY <1>1, Readable
<1>9. GuestResult = TemplateEvaluate(r.instance.program, r.instance.parameters, view, r.witness,
                                     used)
    BY <1>8 DEF GuestResult
<1>10. TemplateEvaluate(r.instance.program, r.instance.parameters, EncodeView(1, r.tx), r.witness,
                        from) = Yes <=> TemplateMeant(r)
  <2> HIDE DEF r
  <2> QED
      BY <1>1, <1>3, <1>4, TemplateAnswer
<1> HIDE DEF from
<1> QED
    BY <1>3, <1>6, <1>7, <1>9, <1>10

(* A template that is signed has the fields of every committed transaction *)
(* with its hash.                                                          *)
LEMMA CommittedAgree ==
    ASSUME NEW r, IsRequest(r), TemplateMeant(r), TemplateInRange(r.tx),
           NEW tx \in Committed, NEW index \in 0..(Len(tx.inputs) - 1),
           r.instance.parameters = TemplateHash(tx, index)
    PROVE  TemplateFields(tx, index) = TemplateFields(r.tx, r.tx.index)
<1>1. IsTransaction(r.tx) /\ IsTransaction(tx) /\ TemplateInRange(tx)
    BY CommittedAssumption DEF IsRequest
<1>2. r.tx.index \in 0..(Len(r.tx.inputs) - 1)
  <2> DEFINE n == Len(r.tx.inputs)
             i == r.tx.index
  <2>1. n \in Nat /\ i \in Nat /\ i < n
      BY <1>1 DEF IsTransaction, IsSequence
  <2> HIDE DEF n, i
  <2>2. i \in 0..(n - 1)
      BY <2>1
  <2> QED
      BY <2>2 DEF n, i
<1>3. TemplateHash(tx, index) = TemplateHash(r.tx, r.tx.index)
    BY DEF TemplateMeant
<1> QED
    BY <1>1, <1>2, <1>3, TemplateCommits

(* The template gets a signature exactly for the transactions that carry   *)
(* the client's hash: encode_view, the guest's decoder, its compactSize    *)
(* and its scratch memory (templatehash/predicate.rs) agree with           *)
(* contract.rs for every request, and the hash confuses no two             *)
(* transactions that differ in a field BIP-446 commits to.                 *)
THEOREM TemplateVerdictExact == Spec => []TemplateIsExact
<1>1. Init => TemplateIsExact
    BY DEF Init, Begin, TemplateIsExact
<1>2. ASSUME ExampleInv, TemplateIsExact, [Next]_vars
      PROVE  TemplateIsExact'
  <2>1. CASE Submit
      BY <2>1 DEF Submit, TemplateIsExact
  <2>2. CASE Authenticate
    <3>1. CASE Authentic
        BY <2>2, <3>1 DEF Authenticate, TemplateIsExact
    <3>2. CASE ~Authentic
      <4>1. steps' = steps
          BY <2>2 DEF Authenticate
      <4>2. ~Authentic'
          BY <3>2, <4>1 DEF Authentic, request
      <4> QED
          BY <4>2 DEF TemplateIsExact
    <3> QED
        BY <3>1, <3>2
  <2>3. CASE Place
      BY <2>3 DEF Place, TemplateIsExact
  <2>4. CASE Evaluate
    <3>1. /\ phase = "evaluate" /\ steps' = steps
          /\ phase' = IF GuestResult = Yes THEN "signed" ELSE "rejected"
        BY <2>4 DEF Evaluate
    <3>2. request' = request
        BY <3>1 DEF request
    <3> SUFFICES ASSUME request.instance.guest = "template"
                 PROVE  /\ phase' = "signed" <=> TemplateMeant(request)
                        /\ phase' = "signed" /\ TemplateInRange(request.tx) =>
                              \A tx \in Committed : \A index \in 0..(Len(tx.inputs) - 1) :
                                 request.instance.parameters = TemplateHash(tx, index) =>
                                    TemplateFields(tx, index)
                                       = TemplateFields(request.tx, request.tx.index)
        BY <3>2 DEF TemplateIsExact
    <3>3. IsRequest(request) /\ (GuestResult = Yes <=> TemplateMeant(request))
        BY <1>2, <3>1, TemplateResult
    <3>4. phase' = "signed" <=> TemplateMeant(request)
        BY <3>1, <3>3
    <3> QED
        BY <3>3, <3>4, CommittedAgree
  <2>5. CASE Verdict
      BY <2>5 DEF Verdict, TemplateIsExact
  <2>6. CASE UNCHANGED vars
    <3>1. phase' = phase /\ steps' = steps
        BY <2>6 DEF vars
    <3>2. request' = request /\ Authentic' = Authentic
        BY <3>1 DEF request, Authentic
    <3> QED
        BY <1>2, <3>1, <3>2 DEF TemplateIsExact
  <2> QED
      BY <1>2, <2>1, <2>2, <2>3, <2>4, <2>5, <2>6 DEF Next
<1> QED
    BY <1>1, <1>2, ExampleInvariant, PTL DEF Spec

-----------------------------------------------------------------------------
(* Regions that start at the offsets of an increasing list, each ending    *)
(* before the next starts.                                                 *)
InOrder(regions, offset, n) ==
    /\ \A i \in 1..n : InUse(regions[i]) =>
          /\ regions[i].from = ArenaBase + offset[i]
          /\ offset[i] \in Nat /\ regions[i].length \in Nat
          /\ offset[i] + regions[i].length <= Capacity
    /\ \A i, j \in 1..n : i < j /\ InUse(regions[i]) =>
          offset[i] + regions[i].length <= offset[j]

(* Such regions are in the arena and apart.                                *)
LEMMA OrderedRegions ==
    ASSUME NEW n \in Nat, NEW regions, NEW offset, InOrder(regions, offset, n),
           NEW i \in 1..n, InUse(regions[i])
    PROVE  /\ Within(regions[i])
           /\ \A j \in 1..n : i # j /\ InUse(regions[j]) => Apart(regions[i], regions[j])
<1>1. ASSUME NEW k \in 1..n, InUse(regions[k])
      PROVE  /\ regions[k].from = ArenaBase + offset[k]
             /\ offset[k] \in Nat /\ regions[k].length \in Nat
             /\ offset[k] + regions[k].length <= Capacity
    BY <1>1 DEF InOrder
<1>2. ArenaBase \in Nat /\ Capacity \in Nat
    BY ArenaAssumption, Empty
<1>3. Within(regions[i])
    BY <1>1, <1>2 DEF Within
<1>4. ASSUME NEW j \in 1..n, i # j, InUse(regions[j])
      PROVE  Apart(regions[i], regions[j])
  <2>1. i < j \/ j < i
      BY <1>4
  <2>2. CASE i < j
    <3>1. offset[i] + regions[i].length <= offset[j]
        BY <2>2 DEF InOrder
    <3> QED
        BY <1>1, <1>2, <1>4, <3>1 DEF Apart
  <2>3. CASE j < i
    <3>1. offset[j] + regions[j].length <= offset[i]
        BY <1>4, <2>3 DEF InOrder
    <3> QED
        BY <1>1, <1>2, <1>4, <3>1 DEF Apart
  <2> QED
      BY <2>1, <2>2, <2>3
<1> QED
    BY <1>3, <1>4

(* The placed arguments are regions in order.                              *)
LEMMA PlacedInOrder ==
    ASSUME Fits(arguments), Placed, pointers \in Seq(Nat), Len(pointers) <= 4,
           NEW regions,
           \A i \in 1..Len(pointers) : regions[i] = Region(pointers[i], Len(arguments[i])),
           NEW offset, \A i \in 1..Len(pointers) : offset[i] = Offset(arguments, i)
    PROVE  InOrder(regions, offset, Len(pointers))
<1> DEFINE n == Len(pointers)
<1>1. n \in 0..4
  <2>1. Len(pointers) \in Nat
      BY LenProperties
  <2>2. \A k \in Nat : k <= 4 => k \in 0..4
      OBVIOUS
  <2> QED
      BY <2>1, <2>2, Zenon
<1>2. ASSUME NEW i \in 1..n
      PROVE  /\ regions[i].from = pointers[i] /\ regions[i].length = Len(arguments[i])
             /\ offset[i] = Offset(arguments, i) /\ i \in 1..5 /\ i \in 1..4
             /\ Len(arguments[i]) \in Nat /\ offset[i] \in Nat
             /\ pointers[i] # 0 => pointers[i] = ArenaBase + offset[i]
             /\ offset[i] + Len(arguments[i]) <= Capacity
  <2>1. i \in 1..4 /\ i \in 1..5 /\ i + 1 \in 1..5
      BY <1>1
  <2>2. regions[i].from = pointers[i] /\ regions[i].length = Len(arguments[i])
    <3>1. regions[i] = Region(pointers[i], Len(arguments[i]))
        OBVIOUS
    <3>2. regions[i] = [from |-> pointers[i], length |-> Len(arguments[i])]
        BY <3>1 DEF Region
    <3> QED
        BY <3>2
  <2>3. /\ Len(arguments[i]) \in Nat /\ Offset(arguments, i) \in 0..Capacity
        /\ Offset(arguments, i + 1) = Offset(arguments, i) + Len(arguments[i])
        /\ Offset(arguments, i + 1) \in 0..Capacity
      BY <2>1, Offsets
  <2>4. offset[i] = Offset(arguments, i)
      OBVIOUS
  <2>5. pointers[i] # 0 => pointers[i] = ArenaBase + offset[i]
      BY <2>4 DEF Placed
  <2> QED
      BY <2>1, <2>2, <2>3, <2>4, <2>5, Empty
<1>3. ASSUME NEW i \in 1..n, NEW j \in 1..n, i < j
      PROVE  offset[i] + regions[i].length <= offset[j]
  <2>1. Offset(arguments, i) + Len(arguments[i]) <= Offset(arguments, j)
      BY <1>2, <1>3, Offsets
  <2> QED
      BY <1>2, <2>1
<1>4. ASSUME NEW i \in 1..n, InUse(regions[i])
      PROVE  /\ regions[i].from = ArenaBase + offset[i]
             /\ offset[i] \in Nat /\ regions[i].length \in Nat
             /\ offset[i] + regions[i].length <= Capacity
    BY <1>2, <1>4 DEF InUse
<1> QED
    BY <1>3, <1>4 DEF InOrder

(* The regions are those of the placed arguments, then those of the        *)
(* scratch space.                                                          *)
LEMMA RegionList ==
    ASSUME pointers \in Seq(Nat)
    PROVE  /\ \A i \in 1..Len(pointers) : Regions[i] = Region(pointers[i], Len(arguments[i]))
           /\ scratch = <<>> => DOMAIN Regions = 1..Len(pointers)
           /\ scratch # <<>> =>
                 /\ DOMAIN Regions = 1..(Len(pointers) + 2)
                 /\ Regions[Len(pointers) + 1]
                       = Region(scratch[1].pointer, 4 * Len(request.tx.inputs))
                 /\ Regions[Len(pointers) + 2] = Region(scratch[2].pointer, Len(view))
<1> DEFINE n == Len(pointers)
           placed == [i \in 1..n |-> Region(pointers[i], Len(arguments[i]))]
           one == Region(scratch[1].pointer, 4 * Len(request.tx.inputs))
           two == Region(scratch[2].pointer, Len(view))
           T == {Region(pointers[i], Len(arguments[i])) : i \in 1..n} \cup {one, two}
           more == IF scratch = <<>> THEN <<>> ELSE <<one, two>>
<1>1. n \in Nat /\ DOMAIN pointers = 1..n
    BY LenProperties
<1>2. Regions = placed \o more
    BY <1>1 DEF Regions
<1>3. placed \in Seq(T) /\ Len(placed) = n
  <2>1. \A i \in 1..n : Region(pointers[i], Len(arguments[i])) \in T
      OBVIOUS
  <2>2. placed \in [1..n -> T]
    <3> HIDE DEF T, n
    <3> QED
        BY <2>1
  <2> HIDE DEF T, n, placed
  <2> QED
      BY <1>1, <2>2
<1>4. \A i \in 1..n : placed[i] = Region(pointers[i], Len(arguments[i]))
    OBVIOUS
<1>5. one \in T /\ two \in T
    OBVIOUS
<1>6. one = Region(scratch[1].pointer, 4 * Len(request.tx.inputs))
      /\ two = Region(scratch[2].pointer, Len(view))
    OBVIOUS
<1> HIDE DEF T, n, placed, one, two
<1>7. more \in Seq(T) /\ (scratch = <<>> => Len(more) = 0)
      /\ (scratch # <<>> => Len(more) = 2 /\ more[1] = one /\ more[2] = two)
  <2>1. CASE scratch = <<>>
      BY <2>1
  <2>2. CASE scratch # <<>>
    <3>1. more = <<one, two>>
        BY <2>2
    <3> QED
        BY <1>5, <2>2, <3>1
  <2> QED
      BY <2>1, <2>2
<1> HIDE DEF more
<1>8. /\ placed \o more \in Seq(T) /\ Len(placed \o more) = Len(placed) + Len(more)
      /\ \A i \in 1..Len(placed) : (placed \o more)[i] = placed[i]
      /\ \A i \in 1..Len(more) : (placed \o more)[Len(placed) + i] = more[i]
  <2>1. placed \in Seq(T) /\ more \in Seq(T)
      BY <1>3, <1>7
  <2>2. placed \o more \in Seq(T) /\ Len(placed \o more) = Len(placed) + Len(more)
      BY <2>1, Concat
  <2>3. /\ \A i \in 1..Len(placed) : (placed \o more)[i] = placed[i]
        /\ \A i \in 1..Len(more) : (placed \o more)[Len(placed) + i] = more[i]
      BY <2>1, ConcatElements
  <2> QED
      BY <2>2, <2>3
<1>9. \A i \in 1..n : Regions[i] = Region(pointers[i], Len(arguments[i]))
    BY <1>2, <1>3, <1>4, <1>8
<1>10. Regions \in Seq(T) /\ Len(Regions) = n + Len(more)
    BY <1>2, <1>3, <1>8
<1>11. DOMAIN Regions = 1..(n + Len(more))
    BY <1>10, LenProperties
<1>12. ASSUME scratch = <<>>
       PROVE  DOMAIN Regions = 1..n
    BY <1>1, <1>7, <1>11, <1>12
<1>13. ASSUME scratch # <<>>
       PROVE  /\ DOMAIN Regions = 1..(n + 2)
              /\ Regions[n + 1] = one /\ Regions[n + 2] = two
  <2>1. Len(more) = 2 /\ more[1] = one /\ more[2] = two
      BY <1>7, <1>13
  <2>2. 1 \in 1..Len(more) /\ 2 \in 1..Len(more)
      BY <2>1
  <2>3. (placed \o more)[n + 1] = more[1] /\ (placed \o more)[n + 2] = more[2]
      BY <1>3, <1>8, <2>2
  <2> QED
      BY <1>2, <1>11, <2>1, <2>3
<1> QED
    BY <1>6, <1>9, <1>12, <1>13 DEF n

(* With scratch space: six regions in order.                               *)
LEMMA ScratchInOrder ==
    ASSUME Fits(arguments), Placed, pointers \in Seq(Nat), Len(pointers) = 4,
           used \in 0..Capacity, NEW v, NEW count \in Nat, Number(v, 12) = count, Len(v) \in Nat,
           NEW regions,
           \A i \in 1..4 : regions[i] = Region(pointers[i], Len(arguments[i])),
           regions[5] = Region(Scratch(v, used)[1].pointer, 4 * count),
           regions[6] = Region(Scratch(v, used)[2].pointer, Len(v))
    PROVE  \E offset : InOrder(regions, offset, 6)
<1> DEFINE one == Alloc(used, 4 * count)
           two == Alloc(one.used, Len(v))
           offset == [i \in 1..6 |-> IF i <= 4 THEN Offset(arguments, i)
                                     ELSE IF i = 5 THEN used ELSE one.used]
<1>1. /\ one.used \in used..Capacity
      /\ one.pointer # 0 => one.pointer = ArenaBase + used /\ one.used = used + 4 * count
  <2>1. 4 * count \in Nat
      OBVIOUS
  <2> QED
      BY <2>1, Allocated
<1>2. one.used \in 0..Capacity
    BY <1>1, Empty
<1>3. /\ two.used \in one.used..Capacity
      /\ two.pointer # 0 => two.pointer = ArenaBase + one.used /\ two.used = one.used + Len(v)
  <2> HIDE DEF one
  <2> QED
      BY <1>2, Allocated
<1>4. Scratch(v, used) = <<one, two>>
    BY DEF Scratch
<1>5. regions[5] = Region(one.pointer, 4 * count) /\ regions[6] = Region(two.pointer, Len(v))
  <2> HIDE DEF one, two
  <2> QED
      BY <1>4
<1>6. /\ \A i \in 1..4 : offset[i] = Offset(arguments, i)
      /\ offset[5] = used /\ offset[6] = one.used
  <2> HIDE DEF one
  <2> QED
      OBVIOUS
<1> HIDE DEF one, two, offset
<1>7. InOrder(regions, offset, 4)
  <2>1. \A i \in 1..Len(pointers) : regions[i] = Region(pointers[i], Len(arguments[i]))
      OBVIOUS
  <2>2. \A i \in 1..Len(pointers) : offset[i] = Offset(arguments, i)
      BY <1>6
  <2>3. InOrder(regions, offset, Len(pointers))
      BY <2>1, <2>2, PlacedInOrder
  <2> QED
      BY <2>3
<1>8. /\ regions[5].from = one.pointer /\ regions[5].length = 4 * count
      /\ regions[6].from = two.pointer /\ regions[6].length = Len(v)
    BY <1>5 DEF Region
<1>9. ASSUME NEW i \in 1..4
      PROVE  offset[i] \in Nat /\ offset[i] + regions[i].length <= used /\ regions[i].length \in Nat
  <2>1. regions[i].length = Len(arguments[i])
    <3>1. regions[i] = Region(pointers[i], Len(arguments[i]))
        OBVIOUS
    <3> QED
        BY <3>1 DEF Region
  <2>2. used = Offset(arguments, 5)
      BY DEF Placed
  <2>3. i \in 1..5 /\ 5 \in 1..5 /\ i < 5
      OBVIOUS
  <2>4. /\ Offset(arguments, i) + Len(arguments[i]) <= Offset(arguments, 5)
        /\ Offset(arguments, i) \in 0..Capacity /\ Len(arguments[i]) \in Nat
      BY <2>3, Offsets
  <2> QED
      BY <1>6, <2>1, <2>2, <2>4
<1>10. ASSUME NEW i \in 1..6, InUse(regions[i])
       PROVE  /\ regions[i].from = ArenaBase + offset[i]
              /\ offset[i] \in Nat /\ regions[i].length \in Nat
              /\ offset[i] + regions[i].length <= Capacity
  <2>1. i \in 1..4 \/ i = 5 \/ i = 6
      OBVIOUS
  <2>2. CASE i \in 1..4
      BY <1>7, <1>10, <2>2 DEF InOrder
  <2>3. CASE i = 5
    <3>1. one.pointer # 0
        BY <1>8, <1>10, <2>3 DEF InUse
    <3>2. one.pointer = ArenaBase + used /\ one.used = used + 4 * count
        BY <1>1, <3>1
    <3>3. used \in Nat /\ used + 4 * count <= Capacity /\ 4 * count \in Nat
        BY <1>2, <3>2
    <3>4. regions[i].from = one.pointer /\ regions[i].length = 4 * count /\ offset[i] = used
        BY <1>6, <1>8, <2>3
    <3> QED
        BY <3>2, <3>3, <3>4
  <2>4. CASE i = 6
    <3>1. two.pointer # 0
        BY <1>8, <1>10, <2>4 DEF InUse
    <3>2. two.pointer = ArenaBase + one.used /\ two.used = one.used + Len(v)
        BY <1>3, <3>1
    <3>3. one.used \in Nat /\ one.used + Len(v) <= Capacity
        BY <1>2, <1>3, <3>2
    <3>4. regions[i].from = two.pointer /\ regions[i].length = Len(v) /\ offset[i] = one.used
        BY <1>6, <1>8, <2>4
    <3> QED
        BY <3>2, <3>3, <3>4
  <2> QED
      BY <2>1, <2>2, <2>3, <2>4
<1>11. ASSUME NEW i \in 1..6, NEW j \in 1..6, i < j, InUse(regions[i])
       PROVE  offset[i] + regions[i].length <= offset[j]
  <2>1. i \in 1..4 \/ i = 5
      BY <1>11
  <2>2. CASE i \in 1..4 /\ j \in 1..4
      BY <1>7, <1>11, <2>2 DEF InOrder
  <2>3. CASE i \in 1..4 /\ j = 5
      BY <1>6, <1>9, <2>3
  <2>4. CASE i \in 1..4 /\ j = 6
    <3>1. offset[i] + regions[i].length <= used /\ offset[i] \in Nat /\ regions[i].length \in Nat
        BY <1>9, <2>4
    <3>2. used \in Nat /\ one.used \in Nat /\ used <= one.used /\ offset[j] = one.used
        BY <1>1, <1>6, <2>4
    <3>3. \A x, y, z \in Nat : x <= y /\ y <= z => x <= z
        OBVIOUS
    <3>4. offset[i] + regions[i].length \in Nat
      <4>1. \A x, y \in Nat : x + y \in Nat
          OBVIOUS
      <4> QED
          BY <3>1, <4>1, Zenon
    <3> QED
        BY <3>1, <3>2, <3>3, <3>4, Zenon
  <2>5. CASE i = 5
    <3>1. one.pointer # 0 /\ j = 6
        BY <1>8, <1>11, <2>5 DEF InUse
    <3> QED
        BY <1>1, <1>6, <1>8, <2>5, <3>1
  <2>6. j \in 1..4 \/ j = 5 \/ j = 6
      OBVIOUS
  <2> QED
      BY <2>1, <2>2, <2>3, <2>4, <2>5, <2>6
<1>12. InOrder(regions, offset, 6)
    BY <1>10, <1>11 DEF InOrder
<1> QED
    BY <1>12

(* The arguments and the scratch space of a guest never overlap and never  *)
(* leave the arena, for every request and every size of the arena.         *)
THEOREM ArenaRegionsDisjoint == Spec => []RegionsDisjoint
<1>1. ExampleInv => RegionsDisjoint
  <2> SUFFICES ASSUME ExampleInv, phase \in {"place", "evaluate", "signed", "rejected"}
               PROVE  \A i \in DOMAIN Regions : InUse(Regions[i]) =>
                         /\ Within(Regions[i])
                         /\ \A j \in DOMAIN Regions :
                               i # j /\ InUse(Regions[j]) => Apart(Regions[i], Regions[j])
      BY DEF RegionsDisjoint
  <2>1. /\ steps # <<>> /\ pointers \in Seq(Nat) /\ Len(pointers) <= Len(arguments)
        /\ used \in 0..Capacity /\ IsRequest(request)
      BY CurrentRequest DEF ExampleInv, TypeOK
  <2>2. \E n \in Nat : \E offset : DOMAIN Regions = 1..n /\ InOrder(Regions, offset, n)
    <3>1. CASE pointers = <<>> /\ scratch = <<>>
      <4>1. DOMAIN Regions = 1..0
          BY <2>1, <3>1, RegionList, Empty
      <4>2. InOrder(Regions, <<>>, 0)
          BY DEF InOrder
      <4> QED
          BY <4>1, <4>2
    <3>2. CASE arguments # <<>> /\ request.instance.guest \in ArenaGuests /\ scratch = <<>>
      <4> DEFINE n == Len(pointers)
                 offset == [i \in 1..n |-> Offset(arguments, i)]
      <4>1. Fits(arguments) /\ Placed
          BY <2>1, <3>2, EvaluatedFits DEF ExampleInv, ArenaInv, EvaluationInv
      <4>2. n \in Nat /\ n <= 4
          BY <2>1, <4>1, LenProperties DEF Fits
      <4>3. DOMAIN Regions = 1..n
          BY <2>1, <3>2, RegionList
      <4>4. \A i \in 1..n : offset[i] = Offset(arguments, i)
          OBVIOUS
      <4>5. \A i \in 1..n : Regions[i] = Region(pointers[i], Len(arguments[i]))
          BY <2>1, RegionList
      <4>6. InOrder(Regions, offset, n)
        <5> HIDE DEF offset
        <5> QED
            BY <2>1, <4>1, <4>2, <4>4, <4>5, PlacedInOrder
      <4> QED
          BY <4>2, <4>3, <4>6
    <3>3. CASE scratch # <<>>
      <4> DEFINE v == view
                 count == Len(request.tx.inputs)
                 regions == Regions
      <4>1. arguments # <<>> /\ EvaluationInv
          BY <3>3 DEF ExampleInv, ArenaInv
      <4>2. /\ request.instance.guest \in ArenaGuests /\ phase # "place"
            /\ scratch = Scratch(v, used)
          BY <3>3, <4>1 DEF EvaluationInv, ScratchInv, ArenaGuests
      <4>3. Placed /\ Len(pointers) = 4
          BY <4>1, <4>2 DEF EvaluationInv
      <4>4. Fits(arguments) /\ count \in Nat /\ Number(v, 12) = count /\ Len(v) \in Nat
          BY <2>1, <4>1, EvaluatedFits DEF EvaluationInv
      <4>5. /\ \A i \in 1..4 : regions[i] = Region(pointers[i], Len(arguments[i]))
            /\ regions[4 + 1] = Region(scratch[1].pointer, 4 * count)
            /\ regions[4 + 2] = Region(scratch[2].pointer, Len(v))
            /\ DOMAIN regions = 1..(4 + 2)
          BY <2>1, <3>3, <4>3, RegionList
      <4>6. /\ regions[5] = Region(Scratch(v, used)[1].pointer, 4 * count)
            /\ regions[6] = Region(Scratch(v, used)[2].pointer, Len(v))
            /\ DOMAIN regions = 1..6
        <5>1. 4 + 1 = 5 /\ 4 + 2 = 6
            OBVIOUS
        <5> HIDE DEF v, count, regions
        <5> QED
            BY <4>2, <4>5, <5>1
      <4>7. \E offset : InOrder(regions, offset, 6)
        <5> HIDE DEF v, count, regions
        <5> QED
            BY <2>1, <4>3, <4>4, <4>5, <4>6, ScratchInOrder
      <4> QED
          BY <4>6, <4>7
    <3>4. arguments = <<>> => pointers = <<>> /\ scratch = <<>>
      <4>1. arguments = <<>> => Len(pointers) = 0
          BY <2>1, Empty, LenProperties
      <4>2. arguments = <<>> => scratch = <<>>
          BY DEF ExampleInv, ArenaInv
      <4> QED
          BY <2>1, <4>1, <4>2, EmptySeq
    <3>5. arguments # <<>> /\ request.instance.guest \notin ArenaGuests
             => pointers = <<>> /\ scratch = <<>>
        BY DEF ExampleInv, ArenaInv, EvaluationInv, ScratchInv, ArenaGuests
    <3> QED
        BY <3>1, <3>2, <3>3, <3>4, <3>5
  <2>3. PICK n \in Nat : \E offset : DOMAIN Regions = 1..n /\ InOrder(Regions, offset, n)
      BY <2>2
  <2>4. PICK offset : DOMAIN Regions = 1..n /\ InOrder(Regions, offset, n)
      BY <2>3
  <2> DEFINE regions == Regions
  <2>5. DOMAIN regions = 1..n /\ InOrder(regions, offset, n)
      BY <2>4
  <2>6. \A i \in 1..n : InUse(regions[i]) =>
           /\ Within(regions[i])
           /\ \A j \in 1..n : i # j /\ InUse(regions[j]) => Apart(regions[i], regions[j])
    <3> HIDE DEF regions
    <3> QED
        BY <2>5, OrderedRegions
  <2> QED
      BY <2>5, <2>6
<1> QED
    BY <1>1, ExampleInvariant, PTL
=============================================================================
