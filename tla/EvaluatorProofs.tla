--------------------------- MODULE EvaluatorProofs --------------------------
(***************************************************************************)
(* Proofs about the two halves of the evaluator.  GuestMemory: whatever    *)
(* the guest's allocator answers, the predicate sees its four inputs as    *)
(* the host holds them, for every size of the address space, every memory  *)
(* and every length of the inputs.  ModuleBudget: for modules of any       *)
(* length the scan's verdict is the one its reference definition gives.    *)
(***************************************************************************)
EXTENDS ModuleBudget, GuestMemory, FiniteSetTheorems, Induction


Cell == (0..4) \X Nat

(* An input has a place: a range of its length inside the memory.          *)
Placed(i) ==
    /\ ranges[i].end = ranges[i].start + lengths[i]
    /\ ranges[i].end <= Size

Apart(i, j) ==
    lengths[i] > 0 /\ lengths[j] > 0 =>
        ranges[i].end <= ranges[j].start \/ ranges[j].end <= ranges[i].start

(* The inputs that have a place, and those that are in it.                 *)
PlacedInputs ==
    CASE pc = "allocating" -> 0..(index - 1)
      [] pc \in {"copying", "calling"} -> Inputs
      [] OTHER -> {}

CopiedInputs ==
    CASE pc = "copying" -> 0..(index - 1) [] pc = "calling" -> Inputs [] OTHER -> {}

Copied(i) == \A k \in 0..(lengths[i] - 1) : memory[ranges[i].start + k] = <<i, k>>

PlaceInv ==
    /\ \A i \in PlacedInputs : Placed(i)
    /\ \A i, j \in PlacedInputs : i # j => Apart(i, j)
    /\ pc = "allocating" => \A i \in index..3 : ranges[i] = EmptyRange

CopyInv == \A i \in CopiedInputs : Copied(i)

MemoryInv == MemoryTypeOK /\ Size \in Nat /\ PlaceInv /\ CopyInv

-----------------------------------------------------------------------------
(* The size of a memory of n cells is n.                                   *)
LEMMA SizeOfMemory ==
    ASSUME NEW n \in Nat, NEW f, DOMAIN f = 0..(n - 1)
    PROVE  Cardinality(DOMAIN f) = n
<1>1. Cardinality(0..(n - 1)) = IF 0 > n - 1 THEN 0 ELSE (n - 1) - 0 + 1
    BY FS_Interval
<1> QED
    BY <1>1

(* A call of the guest leaves a memory that is no smaller.                 *)
LEMMA GuestType ==
    ASSUME MemoryTypeOK, Size \in Nat, GuestRuns
    PROVE  /\ Size' \in Nat /\ Size <= Size'
           /\ memory' \in [0..(Size' - 1) -> Cell]
<1>1. PICK size \in Size..AddressRange, clobber \in BOOLEAN :
        memory' = [a \in 0..(size - 1) |->
                     IF clobber \/ a >= Size THEN GuestByte ELSE memory[a]]
    BY DEF GuestRuns
<1>2. size \in Nat /\ Size <= size
    OBVIOUS
<1>3. Size' = size
    BY <1>1, <1>2, SizeOfMemory DEF Size
<1>4. ASSUME NEW a \in 0..(size - 1)
      PROVE  (IF clobber \/ a >= Size THEN GuestByte ELSE memory[a]) \in Cell
  <2>1. GuestByte \in Cell
      BY DEF GuestByte, Cell
  <2>2. CASE a < Size
      BY <2>1, <2>2 DEF MemoryTypeOK, Cell
  <2>3. CASE ~(a < Size)
      BY <2>1, <2>3
  <2> QED
      BY <2>2, <2>3
<1> QED
    BY <1>1, <1>2, <1>3, <1>4

(* A step that leaves the memory alone, or rewrites cells of it in place,  *)
(* keeps its size.                                                         *)
LEMMA SameDomain ==
    ASSUME DOMAIN memory' = DOMAIN memory
    PROVE  Size' = Size
BY DEF Size

(* A step to an outcome has nothing to keep but the types.                 *)
LEMMA Over ==
    ASSUME MemoryTypeOK', Size' \in Nat, pc' \in Outcomes
    PROVE  MemoryInv'
<1>1. PlacedInputs' = {} /\ CopiedInputs' = {}
    BY DEF PlacedInputs, CopiedInputs, Outcomes
<1> QED
    BY <1>1 DEF MemoryInv, PlaceInv, CopyInv, Outcomes

-----------------------------------------------------------------------------
(* Every step preserves the invariant.                                     *)
LEMMA MemoryStep ==
    ASSUME MemoryInv, [MemoryNext]_memoryVars
    PROVE  MemoryInv'
<1> USE DEF MemoryInv
<1>1. CASE UNCHANGED memoryVars
  <2>1. Size' = Size
      BY <1>1 DEF memoryVars, Size
  <2> QED
      BY <1>1, <2>1 DEF memoryVars, MemoryTypeOK, PlaceInv, CopyInv, PlacedInputs, CopiedInputs,
                        Placed, Apart, Copied
<1>2. CASE AllocateEmpty
  <2> USE <1>2 DEF AllocateEmpty
  <2>1. Size' = Size
      BY SameDomain
  <2>2. MemoryTypeOK'
    <3>1. index \in 0..4 /\ index < 4
        BY DEF MemoryTypeOK
    <3>2. index' \in 0..4
        BY <3>1
    <3> HIDE DEF MemoryInv
    <3> QED
        BY <2>1, <3>2 DEF MemoryInv, MemoryTypeOK
  <2>3. PlacedInputs' = PlacedInputs \cup {index} /\ CopiedInputs' = {}
      BY DEF MemoryTypeOK, PlacedInputs, CopiedInputs
  <2>4. ranges[index] = EmptyRange
      BY DEF MemoryTypeOK, PlaceInv
  <2>5. \A i \in PlacedInputs' : Placed(i)'
      BY <2>1, <2>3, <2>4 DEF PlaceInv, Placed, EmptyRange
  <2>6. \A i, j \in PlacedInputs' : i # j => Apart(i, j)'
      BY <2>3 DEF PlaceInv, Apart
  <2>7. \A i \in index'..3 : ranges'[i] = EmptyRange
      BY DEF MemoryTypeOK, PlaceInv
  <2> QED
      BY <2>1, <2>2, <2>3, <2>5, <2>6, <2>7 DEF PlaceInv, CopyInv
<1>3. CASE Allocate
  <2>1. pc = "allocating" /\ index \in Inputs /\ lengths[index] \in Nat \ {0}
    <3>1. pc = "allocating" /\ index < 4 /\ lengths[index] > 0
        BY <1>3 DEF Allocate
    <3>2. index \in 0..4 /\ lengths \in [Inputs -> Nat]
        BY DEF MemoryTypeOK
    <3>3. index \in Inputs
        BY <3>1, <3>2 DEF Inputs
    <3>4. lengths[index] \in Nat
        BY <3>2, <3>3
    <3> QED
        BY <3>1, <3>3, <3>4
  <2>2. Size' \in Nat /\ Size <= Size' /\ memory' \in [0..(Size' - 1) -> Cell]
      BY <1>3, GuestType DEF Allocate
  <2>3. PICK pointer \in 0..(AddressRange - 1) :
           LET range == RangeAt(pointer, lengths[index])
           IN  IF InBounds(range) /\ ~Overlaps(range, index)
               THEN /\ ranges' = [ranges EXCEPT ![index] = range]
                    /\ index' = index + 1
                    /\ UNCHANGED <<lengths, pc>>
               ELSE Fail
      BY <1>3 DEF Allocate
  <2> DEFINE range == RangeAt(pointer, lengths[index])
  <2>4. CASE InBounds(range) /\ ~Overlaps(range, index)
    <3>1. /\ ranges' = [ranges EXCEPT ![index] = range] /\ index' = index + 1
          /\ UNCHANGED <<lengths, pc>>
        BY <2>3, <2>4
    <3>2. /\ range = [start |-> pointer, end |-> pointer + lengths[index]]
          /\ range.end <= Size'
        BY <2>4 DEF RangeAt, InBounds, Size
    <3> HIDE DEF range
    <3>3. MemoryTypeOK'
      <4>1. range \in [start : Nat, end : Nat] /\ index' \in 0..4
          BY <2>1, <3>1, <3>2 DEF Inputs
      <4>2. ranges' \in [Inputs -> [start : Nat, end : Nat]]
          BY <3>1, <4>1 DEF MemoryTypeOK
      <4> QED
          BY <2>2, <3>1, <4>1, <4>2 DEF MemoryTypeOK, Cell
    <3>4. /\ PlacedInputs = 0..(index - 1) /\ PlacedInputs' = PlacedInputs \cup {index}
          /\ CopiedInputs' = {} /\ index \notin PlacedInputs /\ PlacedInputs \subseteq Inputs
        BY <2>1, <3>1 DEF PlacedInputs, CopiedInputs, Inputs
    <3>5. ranges'[index] = range /\ \A i \in Inputs \ {index} : ranges'[i] = ranges[i]
        BY <2>1, <3>1 DEF MemoryTypeOK
    <3>6. ASSUME NEW i \in PlacedInputs'
          PROVE  Placed(i)'
      <4>1. CASE i = index
          BY <3>1, <3>2, <3>5, <4>1 DEF Placed
      <4>2. CASE i # index
        <5>1. i \in Inputs \ {index} /\ Placed(i) /\ ranges[i].end \in Nat
            BY <3>4, <4>2 DEF PlaceInv, MemoryTypeOK
        <5> QED
            BY <2>2, <3>1, <3>5, <5>1 DEF Placed
      <4> QED
          BY <4>1, <4>2
    <3>7. ASSUME NEW i \in PlacedInputs, lengths[i] > 0
          PROVE  range.end <= ranges[i].start \/ ranges[i].end <= range.start
      <4>1. Placed(i) /\ ranges[i] \in [start : Nat, end : Nat] /\ lengths[i] \in Nat
          BY <3>4 DEF PlaceInv, MemoryTypeOK
      <4>2. ~IsEmpty(ranges[i])
          BY <3>7, <4>1 DEF Placed, IsEmpty
      <4> QED
          BY <2>1, <2>4, <3>2, <3>4, <4>1, <4>2 DEF Overlaps
    <3>8. ASSUME NEW i \in PlacedInputs', NEW j \in PlacedInputs', i # j
          PROVE  Apart(i, j)'
      <4>1. CASE i = index
          BY <3>1, <3>4, <3>5, <3>7, <3>8, <4>1 DEF Apart
      <4>2. CASE j = index
          BY <3>1, <3>4, <3>5, <3>7, <3>8, <4>2 DEF Apart
      <4>3. CASE i # index /\ j # index
          BY <3>1, <3>4, <3>5, <3>8, <4>3 DEF Apart, PlaceInv
      <4> QED
          BY <4>1, <4>2, <4>3
    <3>9. \A i \in index'..3 : ranges'[i] = EmptyRange
        BY <2>1, <3>1, <3>5 DEF PlaceInv, Inputs
    <3> QED
        BY <2>2, <3>3, <3>4, <3>6, <3>8, <3>9 DEF PlaceInv, CopyInv
  <2>5. CASE ~(InBounds(range) /\ ~Overlaps(range, index))
    <3>1. Fail
        BY <2>3, <2>5
    <3>2. MemoryTypeOK' /\ pc' \in Outcomes
        BY <2>2, <3>1 DEF Fail, MemoryTypeOK, Outcomes, Cell
    <3> QED
        BY <2>2, <3>2, Over
  <2> QED
      BY <2>4, <2>5
<1>4. CASE Trap
  <2>1. Size' = Size /\ pc' \in Outcomes
      BY <1>4, SameDomain DEF Trap, Fail, Outcomes
  <2>2. MemoryTypeOK'
      BY <1>4, <2>1 DEF Trap, Fail, MemoryTypeOK
  <2> QED
      BY <2>1, <2>2, Over
<1>5. CASE StartCopy
  <2>1. Size' = Size
      BY <1>5, SameDomain DEF StartCopy
  <2>2. MemoryTypeOK'
      BY <1>5, <2>1 DEF StartCopy, MemoryTypeOK
  <2>3. PlacedInputs' = PlacedInputs /\ CopiedInputs' = {}
      BY <1>5 DEF StartCopy, PlacedInputs, CopiedInputs, Inputs
  <2> QED
      BY <1>5, <2>1, <2>2, <2>3 DEF StartCopy, PlaceInv, CopyInv, Placed, Apart
<1>6. CASE Copy
  <2>1. pc = "copying" /\ index \in Inputs /\ UNCHANGED <<lengths, ranges>>
      BY <1>6 DEF Copy, MemoryTypeOK, Inputs, Fail
  <2>2. PlacedInputs = Inputs /\ CopiedInputs = 0..(index - 1)
      BY <2>1 DEF PlacedInputs, CopiedInputs
  <2>3. \A i \in Inputs : /\ Placed(i)
                          /\ ranges[i] \in [start : Nat, end : Nat] /\ lengths[i] \in Nat
      BY <2>2 DEF PlaceInv, MemoryTypeOK
  <2>4. /\ memory' = [a \in DOMAIN memory |->
              IF ranges[index].start <= a /\ a < ranges[index].start + lengths[index]
              THEN <<index, a - ranges[index].start>> ELSE memory[a]]
        /\ index' = index + 1 /\ UNCHANGED pc
      BY <1>6, <2>1, <2>3 DEF Copy, Placed
  <2>5. Size' = Size /\ DOMAIN memory = 0..(Size - 1)
      BY <2>4, SameDomain DEF MemoryTypeOK
  <2>6. MemoryTypeOK'
    <3>1. ASSUME NEW a \in DOMAIN memory
          PROVE  (IF ranges[index].start <= a /\ a < ranges[index].start + lengths[index]
                  THEN <<index, a - ranges[index].start>> ELSE memory[a]) \in (0..4) \X Nat
      <4>1. CASE ranges[index].start <= a /\ a < ranges[index].start + lengths[index]
        <5>1. a \in Nat /\ ranges[index].start \in Nat
            BY <2>1, <2>3, <2>5
        <5>2. a - ranges[index].start \in Nat /\ index \in 0..4
            BY <2>1, <4>1, <5>1 DEF Inputs
        <5> QED
            BY <4>1, <5>2
      <4>2. CASE ~(ranges[index].start <= a /\ a < ranges[index].start + lengths[index])
          BY <2>5, <4>2 DEF MemoryTypeOK
      <4> QED
          BY <4>1, <4>2
    <3>2. memory' \in [0..(Size' - 1) -> (0..4) \X Nat]
        BY <2>4, <2>5, <3>1
    <3> QED
      <4>1. index' \in 0..4
          BY <2>1, <2>4 DEF Inputs
      <4> QED
          BY <2>1, <2>4, <3>2, <4>1 DEF MemoryTypeOK
  <2>7. PlacedInputs' = Inputs /\ CopiedInputs' = CopiedInputs \cup {index}
      BY <2>1, <2>2, <2>4 DEF PlacedInputs, CopiedInputs, Inputs
  <2>8. PlaceInv'
      BY <2>1, <2>2, <2>4, <2>5, <2>7 DEF PlaceInv, Placed, Apart
  <2>9. ASSUME NEW i \in CopiedInputs', NEW k \in 0..(lengths[i] - 1)
        PROVE  memory'[ranges[i].start + k] = <<i, k>>
    <3>1. i \in Inputs /\ lengths[i] > 0
      <4>1. i \in Inputs
          BY <2>1, <2>2, <2>7 DEF Inputs
      <4> QED
          BY <2>3, <4>1
    <3>2. ranges[i].start + k \in DOMAIN memory
        BY <2>3, <2>5, <3>1 DEF Placed
    <3>3. CASE i = index
        BY <2>3, <2>4, <3>1, <3>2, <3>3
    <3>4. CASE i # index
      <4>1. memory[ranges[i].start + k] = <<i, k>>
          BY <2>7, <3>4 DEF CopyInv, Copied
      <4>2. Apart(i, index)
          BY <2>1, <2>2, <3>1, <3>4 DEF PlaceInv
      <4>3. ~(/\ ranges[index].start <= ranges[i].start + k
              /\ ranges[i].start + k < ranges[index].start + lengths[index])
          BY <2>1, <2>3, <3>1, <4>2 DEF Apart, Placed
      <4> QED
          BY <2>4, <3>2, <4>1, <4>3
    <3> QED
        BY <3>3, <3>4
  <2>10. CopyInv'
      BY <2>1, <2>9 DEF CopyInv, Copied
  <2> QED
      BY <2>5, <2>6, <2>8, <2>10
<1>7. CASE StartCall
  <2>1. Size' = Size
      BY <1>7, SameDomain DEF StartCall
  <2>2. MemoryTypeOK'
      BY <1>7, <2>1 DEF StartCall, MemoryTypeOK
  <2>3. PlacedInputs' = PlacedInputs /\ CopiedInputs' = CopiedInputs
      BY <1>7 DEF StartCall, PlacedInputs, CopiedInputs, Inputs
  <2> QED
      BY <1>7, <2>1, <2>2, <2>3 DEF StartCall, PlaceInv, CopyInv, Placed, Apart, Copied
<1>8. CASE Call
  <2>1. pc' \in Outcomes
      BY <1>8 DEF Call, Verdict, Outcomes
  <2>2. MemoryTypeOK' /\ Size' \in Nat
      BY <1>8, <2>1, GuestType DEF Call, MemoryTypeOK, Cell
  <2> QED
      BY <2>1, <2>2, Over
<1> QED
    BY <1>1, <1>2, <1>3, <1>4, <1>5, <1>6, <1>7, <1>8 DEF MemoryNext

(* Before the first allocation no input has a place.                       *)
LEMMA MemoryStart ==
    ASSUME MemoryInit
    PROVE  MemoryInv
<1>1. PICK size \in 0..AddressRange : memory = [a \in 0..(size - 1) |-> GuestByte]
    BY DEF MemoryInit
<1>2. size \in Nat /\ Size = size
    BY <1>1, SizeOfMemory DEF Size
<1>3. memory \in [0..(Size - 1) -> (0..4) \X Nat]
    BY <1>1, <1>2 DEF GuestByte
<1>4. MemoryTypeOK
    BY <1>3 DEF MemoryInit, MemoryTypeOK, EmptyRange, Outcomes
<1>5. PlacedInputs = {} /\ CopiedInputs = {}
    BY DEF MemoryInit, PlacedInputs, CopiedInputs
<1> QED
    BY <1>2, <1>4, <1>5 DEF MemoryInit, MemoryInv, PlaceInv, CopyInv, Inputs

(* So the invariant always holds.                                          *)
LEMMA MemoryAlways == MemorySpec => []MemoryInv
<1> QED
    BY MemoryStart, MemoryStep, PTL DEF MemorySpec

-----------------------------------------------------------------------------
(* Cells hold guest bytes or input bytes, and ranges are unsigned.         *)
THEOREM MemoryTypes == MemorySpec => []MemoryTypeOK
<1>1. MemoryInv => MemoryTypeOK
    BY DEF MemoryInv
<1> QED
    BY <1>1, MemoryAlways, PTL

(* evaluate calls the predicate only with every input where the pointers   *)
(* say it is, byte for byte.                                               *)
LEMMA IntactNow ==
    ASSUME MemoryInv
    PROVE  InputsIntact
<1>1. ASSUME pc = "calling", NEW i \in Inputs, NEW k \in 0..(lengths[i] - 1)
      PROVE  ranges[i].start + k \in DOMAIN memory /\ memory[ranges[i].start + k] = <<i, k>>
  <2>1. PlacedInputs = Inputs /\ CopiedInputs = Inputs
      BY <1>1 DEF PlacedInputs, CopiedInputs
  <2>2. Placed(i) /\ Copied(i)
      BY <1>1, <2>1 DEF MemoryInv, PlaceInv, CopyInv
  <2>3. /\ ranges[i] \in [start : Nat, end : Nat] /\ lengths[i] \in Nat /\ Size \in Nat
        /\ DOMAIN memory = 0..(Size - 1)
      BY <1>1 DEF MemoryInv, MemoryTypeOK
  <2> QED
      BY <2>2, <2>3 DEF Placed, Copied
<1> QED
    BY <1>1 DEF InputsIntact

(* The same for every behaviour of the evaluation.                         *)
THEOREM InputsStayIntact == MemorySpec => []InputsIntact
<1> QED
    BY IntactNow, MemoryAlways, PTL

(* Only the call of the predicate approves.                                *)
LEMMA OnlyCallApproves ==
    ASSUME MemoryNext, pc' = "approved"
    PROVE  pc = "calling"
BY DEF MemoryNext, AllocateEmpty, Allocate, Trap, StartCopy, Copy, StartCall, Call, Fail

(* Once evaluate has accepted the four pointers, no write into the memory  *)
(* fails, although the guest ran after each of them was checked.           *)
THEOREM CopiesSucceed == MemorySpec => []CopyNeverFails
<1>1. ASSUME MemoryInv, pc = "copying", NEW i \in Inputs
      PROVE  ranges[i].start + lengths[i] <= Size
  <2>1. PlacedInputs = Inputs
      BY <1>1 DEF PlacedInputs
  <2> QED
      BY <1>1, <2>1 DEF MemoryInv, PlaceInv, Placed
<1>2. MemoryInv => CopyNeverFails
    BY <1>1 DEF CopyNeverFails
<1> QED
    BY <1>2, MemoryAlways, PTL

-----------------------------------------------------------------------------
(* The fields that each kind of payload has.                               *)
LEMMA PayloadFields ==
    ASSUME NEW p \in PayloadType
    PROVE  /\ p.kind \in {"types", "import", "function", "locals", "start", "malformed", "other"}
           /\ p.kind = "types" => p.types \in Seq(FunctionType)
           /\ p.kind = "import" => /\ p.index \in Nat /\ p.arity \in Nat
                                   /\ p.is_function \in BOOLEAN
           /\ p.kind = "function" => p.index \in Nat
           /\ p.kind = "locals" => p.count \in 0..(CountRange - 1)
BY DEF PayloadType

(* The types a payload declares.                                           *)
Declares(p) == IF p.kind = "types" THEN p.types ELSE <<>>

(* KnownTypes is the function its recursive definition describes.          *)
LEMMA KnownUnfolds ==
    ASSUME NEW payloads \in Seq(PayloadType)
    PROVE  /\ KnownTypes(payloads) \in [0..Len(payloads) -> Seq(FunctionType)]
           /\ KnownTypes(payloads)[0] = <<>>
           /\ \A k \in 1..Len(payloads) :
                 KnownTypes(payloads)[k] = KnownTypes(payloads)[k - 1] \o Declares(payloads[k])
<1> DEFINE n == Len(payloads)
           S == Seq(FunctionType)
           F == [t \in (1..n) \X S |-> t[2] \o Declares(payloads[t[1]])]
           Step(g) == [k \in 0..Len(payloads) |->
                         IF k = 0 THEN <<>>
                         ELSE g[k - 1] \o (IF payloads[k].kind = "types"
                                           THEN payloads[k].types ELSE <<>>)]
<1>1. \A k \in 1..n : Declares(payloads[k]) \in S
  <2> TAKE k \in 1..n
  <2>1. payloads[k] \in PayloadType
      OBVIOUS
  <2> QED
      BY <2>1, PayloadFields DEF Declares
<1>2. StepFunction(F, n, S) /\ n \in Nat /\ <<>> \in S
    BY <1>1 DEF StepFunction
<1>3. PICK g : Iterates(g, F, n, S, <<>>)
  <2> HIDE DEF F, n, S
  <2> QED
      BY <1>2, FiniteRecursion
<1>4. ASSUME NEW k \in 1..n
      PROVE  g[k - 1] \in S /\ g[k] = g[k - 1] \o Declares(payloads[k])
  <2>1. k - 1 \in 0..n
      OBVIOUS
  <2>2. g[k - 1] \in S
      BY <1>3, <2>1 DEF Iterates
  <2>3. F[<<k, g[k - 1]>>] = g[k - 1] \o Declares(payloads[k])
    <3> HIDE DEF n, S
    <3> QED
        BY <2>2
  <2> QED
      BY <1>3, <2>2, <2>3 DEF Iterates
<1>5. g = Step(g)
    BY <1>3, <1>4 DEF Declares, Iterates
<1>6. KnownTypes(payloads) = CHOOSE h : h = Step(h)
    BY DEF KnownTypes
<1>7. KnownTypes(payloads) = Step(KnownTypes(payloads))
  <2> HIDE DEF Step
  <2> QED
      BY <1>5, <1>6
<1> DEFINE K == KnownTypes(payloads)
<1>8. K = [k \in 0..n |-> K[k]] /\ K[0] = <<>>
  <2>1. Step(K) = [k \in 0..n |-> Step(K)[k]] /\ Step(K)[0] = <<>>
    <3> HIDE DEF K
    <3> QED
        OBVIOUS
  <2> HIDE DEF Step
  <2> QED
      BY <1>7, <2>1
<1>9. ASSUME NEW k \in 1..n
      PROVE  K[k] = K[k - 1] \o Declares(payloads[k])
    BY <1>7 DEF Declares
<1>10. \A k \in 0..n : K[k] \in S
  <2>1. ASSUME NEW k \in 1..n, K[k - 1] \in S
        PROVE  K[k] \in S
    <3>1. Declares(payloads[k]) \in S
        BY <1>1
    <3>2. K[k - 1] \o Declares(payloads[k]) \in S
        BY <2>1, <3>1
    <3> QED
        BY <1>9, <3>2
  <2>2. K[0] \in S
      BY <1>2, <1>8
  <2> HIDE DEF K, S, n
  <2> QED
      BY <1>2, <2>1, <2>2, PrefixInduction
<1> HIDE DEF Step
<1> QED
    BY <1>8, <1>9, <1>10

(* A payload costs a number of slots, although its index may be unknown.   *)
LEMMA CostIsNat ==
    ASSUME NEW payloads \in Seq(PayloadType), NEW k \in 1..Len(payloads)
    PROVE  Cost(payloads, k) \in Nat
<1> DEFINE p == payloads[k]
           known == KnownTypes(payloads)[k - 1]
<1>1. p \in PayloadType /\ known \in Seq(FunctionType)
  <2>1. k - 1 \in 0..Len(payloads) /\ payloads[k] \in PayloadType
      OBVIOUS
  <2>2. KnownTypes(payloads) \in [0..Len(payloads) -> Seq(FunctionType)]
      BY KnownUnfolds
  <2> QED
      BY <2>1, <2>2
<1>2. /\ p.kind = "function" => p.index \in Nat
      /\ p.kind = "locals" => p.count \in Nat
    BY <1>1, PayloadFields, BudgetAssumption
<1>3. Cost(payloads, k) = CASE p.kind = "function" ->
                                 IF p.index < Len(known) THEN known[p.index + 1].params ELSE 0
                            [] p.kind = "locals" -> p.count
                            [] OTHER -> 0
    BY DEF Cost
<1> HIDE DEF p, known
<1>4. p.kind = "function" /\ p.index < Len(known) => known[p.index + 1].params \in Nat
  <2> SUFFICES ASSUME p.kind = "function", p.index < Len(known)
               PROVE  known[p.index + 1].params \in Nat
      OBVIOUS
  <2>1. p.index + 1 \in 1..Len(known)
      BY <1>1, <1>2
  <2>2. known[p.index + 1] \in FunctionType
      BY <1>1, <2>1
  <2> QED
      BY <2>2 DEF FunctionType
<1> QED
    BY <1>2, <1>3, <1>4

(* TotalCost is the function its recursive definition describes.           *)
LEMMA TotalUnfolds ==
    ASSUME NEW payloads \in Seq(PayloadType)
    PROVE  /\ TotalCost(payloads) \in [0..Len(payloads) -> Nat]
           /\ TotalCost(payloads)[0] = 0
           /\ \A k \in 1..Len(payloads) :
                 TotalCost(payloads)[k] = TotalCost(payloads)[k - 1] + Cost(payloads, k)
<1> DEFINE n == Len(payloads)
           F == [t \in (1..n) \X Nat |-> t[2] + Cost(payloads, t[1])]
           Step(g) == [k \in 0..Len(payloads) |->
                         IF k = 0 THEN 0 ELSE g[k - 1] + Cost(payloads, k)]
<1>1. \A k \in 1..n : Cost(payloads, k) \in Nat
    BY CostIsNat
<1>2. StepFunction(F, n, Nat) /\ n \in Nat
    BY <1>1 DEF StepFunction
<1>3. PICK g : Iterates(g, F, n, Nat, 0)
  <2> HIDE DEF F, n
  <2> QED
      BY <1>2, FiniteRecursion
<1>4. ASSUME NEW k \in 1..n
      PROVE  g[k - 1] \in Nat /\ g[k] = g[k - 1] + Cost(payloads, k)
  <2>1. k - 1 \in 0..n
      OBVIOUS
  <2>2. g[k - 1] \in Nat
      BY <1>3, <2>1 DEF Iterates
  <2>3. F[<<k, g[k - 1]>>] = g[k - 1] + Cost(payloads, k)
    <3> HIDE DEF n
    <3> QED
        BY <2>2
  <2> QED
      BY <1>3, <2>2, <2>3 DEF Iterates
<1>5. g = Step(g)
    BY <1>3, <1>4 DEF Iterates
<1>6. TotalCost(payloads) = CHOOSE h : h = Step(h)
    BY DEF TotalCost
<1>7. TotalCost(payloads) = Step(TotalCost(payloads))
  <2> HIDE DEF Step
  <2> QED
      BY <1>5, <1>6
<1> DEFINE T == TotalCost(payloads)
<1>8. T = [k \in 0..n |-> T[k]] /\ T[0] = 0
  <2>1. Step(T) = [k \in 0..n |-> Step(T)[k]] /\ Step(T)[0] = 0
    <3> HIDE DEF T
    <3> QED
        OBVIOUS
  <2> HIDE DEF Step
  <2> QED
      BY <1>7, <2>1
<1>9. ASSUME NEW k \in 1..n
      PROVE  T[k] = T[k - 1] + Cost(payloads, k)
    BY <1>7
<1>10. \A k \in 0..n : T[k] \in Nat
  <2>1. ASSUME NEW k \in 1..n, T[k - 1] \in Nat
        PROVE  T[k] \in Nat
    <3> HIDE DEF T
    <3> QED
        BY <1>1, <1>9, <2>1
  <2> DEFINE S == Nat
  <2>2. T[0] \in S
      BY <1>8
  <2>3. \A k \in 1..n : T[k - 1] \in S => T[k] \in S
    <3> HIDE DEF T, n
    <3> QED
        BY <2>1
  <2>4. \A k \in 0..n : T[k] \in S
    <3> HIDE DEF T, n, S
    <3> QED
        BY <1>2, <2>2, <2>3, PrefixInduction
  <2> QED
      BY <2>4
<1> HIDE DEF Step
<1> QED
    BY <1>8, <1>9, <1>10

(* No payload lowers the total: a scan that has gone over the budget may   *)
(* stop there.                                                             *)
LEMMA TotalGrows ==
    ASSUME NEW payloads \in Seq(PayloadType), NEW k \in 0..Len(payloads)
    PROVE  TotalCost(payloads)[k] <= TotalCost(payloads)[Len(payloads)]
<1> DEFINE T == TotalCost(payloads)
           n == Len(payloads)
           AtLeast == {m \in Nat : m >= T[k]}
           g == [d \in 0..(n - k) |-> T[k + d]]
<1>1. n \in Nat /\ n - k \in Nat /\ n - k \in 0..(n - k) /\ k + (n - k) = n
    OBVIOUS
<1>2. /\ \A j \in 0..n : T[j] \in Nat
      /\ \A j \in 1..n : T[j] = T[j - 1] + Cost(payloads, j) /\ Cost(payloads, j) \in Nat
    BY TotalUnfolds, CostIsNat
<1> HIDE DEF T, n
<1>3. k \in 0..n
    BY DEF n
<1>4. g[0] \in AtLeast
    BY <1>1, <1>2, <1>3
<1>5. ASSUME NEW d \in 1..(n - k), g[d - 1] \in AtLeast
      PROVE  g[d] \in AtLeast
  <2>1. k + d \in 1..n /\ (k + d) - 1 = k + (d - 1) /\ d - 1 \in 0..(n - k) /\ d \in 0..(n - k)
      BY <1>1, <1>3
  <2>2. g[d] = T[k + d] /\ g[d - 1] = T[k + (d - 1)]
      BY <2>1
  <2>3. T[k + d] = T[k + (d - 1)] + Cost(payloads, k + d) /\ Cost(payloads, k + d) \in Nat
      BY <1>2, <2>1
  <2> HIDE DEF g
  <2> QED
      BY <1>2, <1>3, <1>5, <2>2, <2>3
<1>6. g[n - k] \in AtLeast
  <2> HIDE DEF g, AtLeast
  <2> QED
      BY <1>1, <1>4, <1>5, PrefixInduction
<1>7. T[n] >= T[k]
    BY <1>1, <1>6
<1> QED
    BY <1>1, <1>2, <1>3, <1>7 DEF T, n

-----------------------------------------------------------------------------
(* The scan's invariant: after next - 1 payloads it holds their types and  *)
(* their cost, which is within the budget, and has found each of them      *)
(* allowed; it accepts at the end, and rejects only with a reason to.      *)
ScanInv ==
    /\ version \in {1, 2} /\ module \in Module
    /\ next \in 1..(Len(module.payloads) + 1)
    /\ types = KnownTypes(module.payloads)[next - 1]
    /\ slots = TotalCost(module.payloads)[next - 1] /\ slots <= MaxSlots
    /\ \A k \in 1..(next - 1) : Allowed(module.payloads, k, version)
    /\ verdict \in {"scanning", "accept", "reject"}
    /\ verdict # "reject" => module.header
    /\ verdict = "accept" => next = Len(module.payloads) + 1
    /\ verdict = "reject" =>
          \/ ~module.header
          \/ /\ next <= Len(module.payloads)
             /\ \/ ~Allowed(module.payloads, next, version)
                \/ TotalCost(module.payloads)[next] > MaxSlots

(* What the invariant says about the payload to be read.                   *)
LEMMA ScanTypes ==
    ASSUME ScanInv
    PROVE  /\ types \in Seq(FunctionType) /\ slots \in Nat
           /\ module.payloads \in Seq(PayloadType) /\ module.header \in BOOLEAN
           /\ next \in Nat /\ next - 1 \in Nat /\ Len(module.payloads) \in Nat
           /\ next <= Len(module.payloads) =>
                 /\ next \in 1..Len(module.payloads) /\ Payload \in PayloadType
                 /\ TotalCost(module.payloads)[next] = slots + Cost(module.payloads, next)
                 /\ KnownTypes(module.payloads)[next] = types \o Declares(Payload)
                 /\ Cost(module.payloads, next) \in Nat
<1> DEFINE payloads == module.payloads
<1>1. payloads \in Seq(PayloadType) /\ module.header \in BOOLEAN
    BY DEF ScanInv, Module
<1> HIDE DEF payloads
<1>2. Len(payloads) \in Nat /\ next \in 1..(Len(payloads) + 1)
    BY <1>1 DEF ScanInv, payloads
<1>3. next - 1 \in 0..Len(payloads) /\ (next <= Len(payloads) => next \in 1..Len(payloads))
    BY <1>2
<1>4. KnownTypes(payloads) \in [0..Len(payloads) -> Seq(FunctionType)]
    BY <1>1, KnownUnfolds
<1>5. TotalCost(payloads) \in [0..Len(payloads) -> Nat]
    BY <1>1, TotalUnfolds
<1>6. types = KnownTypes(payloads)[next - 1] /\ slots = TotalCost(payloads)[next - 1]
    BY DEF ScanInv, payloads
<1>7. types \in Seq(FunctionType) /\ slots \in Nat
    BY <1>3, <1>4, <1>5, <1>6
<1>8. ASSUME next \in 1..Len(payloads)
      PROVE  /\ TotalCost(payloads)[next] = slots + Cost(payloads, next)
             /\ KnownTypes(payloads)[next] = types \o Declares(payloads[next])
             /\ Cost(payloads, next) \in Nat /\ payloads[next] \in PayloadType
  <2>1. TotalCost(payloads)[next] = TotalCost(payloads)[next - 1] + Cost(payloads, next)
      BY <1>1, <1>8, TotalUnfolds
  <2>2. KnownTypes(payloads)[next] = KnownTypes(payloads)[next - 1] \o Declares(payloads[next])
      BY <1>1, <1>8, KnownUnfolds
  <2> QED
      BY <1>1, <1>6, <1>8, <2>1, <2>2, CostIsNat
<1> QED
    BY <1>1, <1>2, <1>3, <1>7, <1>8 DEF payloads, Payload

(* Reading an allowed payload that fits keeps the invariant.               *)
LEMMA AdvanceKeeps ==
    ASSUME ScanInv, verdict = "scanning", next <= Len(module.payloads), Advance,
           types' = types \o Declares(Payload),
           slots' = slots + Cost(module.payloads, next), slots' <= MaxSlots,
           Allowed(module.payloads, next, version)
    PROVE  ScanInv'
<1>1. /\ next' = next + 1 /\ module' = module /\ version' = version /\ verdict' = verdict
      /\ next' - 1 = next /\ next' \in 1..(Len(module.payloads) + 1)
    BY ScanTypes DEF Advance
<1>2. /\ types' = KnownTypes(module.payloads)[next]
      /\ slots' = TotalCost(module.payloads)[next]
    BY ScanTypes
<1>3. \A k \in 1..next : Allowed(module.payloads, k, version)
  <2>1. \A k \in 1..next : k = next \/ k \in 1..(next - 1)
      BY ScanTypes
  <2>2. \A k \in 1..(next - 1) : Allowed(module.payloads, k, version)
      BY DEF ScanInv
  <2> QED
      BY <2>1, <2>2
<1> QED
    BY <1>1, <1>2, <1>3 DEF ScanInv

(* So does rejecting at one that is not allowed or does not fit.           *)
LEMMA RejectKeeps ==
    ASSUME ScanInv, next <= Len(module.payloads), Reject,
           \/ ~Allowed(module.payloads, next, version)
           \/ slots + Cost(module.payloads, next) > MaxSlots
    PROVE  ScanInv'
<1>1. slots + Cost(module.payloads, next) = TotalCost(module.payloads)[next]
    BY ScanTypes
<1> QED
    BY <1>1 DEF ScanInv, Reject

(* The check of an import agrees with the reference.                       *)
LEMMA ImportIsExact ==
    ASSUME ScanInv, next <= Len(module.payloads), Payload.kind = "import"
    PROVE  ImportAllowed(Payload) <=> Allowed(module.payloads, next, version)
<1> DEFINE p == Payload
           type == types[p.index + 1]
<1>1. p \in PayloadType /\ types \in Seq(FunctionType)
    BY ScanTypes
<1>2. p.index \in Nat /\ p.arity \in Nat /\ p.is_function \in BOOLEAN
    BY <1>1, PayloadFields
<1>3. types = KnownTypes(module.payloads)[next - 1] /\ version \in {1, 2}
    BY DEF ScanInv
<1>4. ASSUME p.index < Len(types)
      PROVE  type.params = p.arity /\ type.i32_only
                 <=> type = [params |-> p.arity, i32_only |-> TRUE]
  <2>1. p.index + 1 \in 1..Len(types)
      BY <1>1, <1>2, <1>4
  <2>2. type \in FunctionType
    <3> HIDE DEF p
    <3> QED
        BY <1>1, <2>1
  <2>3. type \in [params : Nat, i32_only : BOOLEAN]
      BY <2>2 DEF FunctionType
  <2> HIDE DEF p, type
  <2> QED
      BY <2>3
<1>5. KnownImport(p) <=>
        p.namespace \in (IF version = 2 THEN {"crypto", "crypto_v2"} ELSE {"crypto"})
    BY DEF KnownImport
<1>6. Allowed(module.payloads, next, version) <=>
        /\ p.index < Len(types) /\ p.is_function /\ KnownImport(p)
        /\ type = [params |-> p.arity, i32_only |-> TRUE]
    BY <1>3, <1>5 DEF Allowed, Payload
<1>7. ImportAllowed(p) <=>
        /\ p.index < Len(types) /\ p.is_function /\ KnownImport(p)
        /\ type.params = p.arity /\ type.i32_only
    BY DEF ImportAllowed
<1> HIDE DEF p, type
<1>8. ImportAllowed(p) <=> Allowed(module.payloads, next, version)
    BY <1>4, <1>6, <1>7
<1> QED
    BY <1>8 DEF p

(* The checked addition admits exactly what stays within the budget: the   *)
(* limit lies below the counter's range, so no sum within the limit        *)
(* overflows.                                                              *)
LEMMA SlotsFit ==
    ASSUME NEW count \in Nat, slots \in Nat
    PROVE  /\ AddSlots(count).ok <=> slots + count <= MaxSlots
           /\ AddSlots(count).total = slots + count
<1> DEFINE total == slots + count
           fits == total < CountRange /\ total <= MaxSlots
<1>1. AddSlots(count) = [ok |-> fits, total |-> total]
    BY DEF AddSlots
<1>2. fits <=> total <= MaxSlots
    BY BudgetAssumption
<1> HIDE DEF fits, total
<1>3. AddSlots(count).ok = fits
    BY <1>1
<1>4. AddSlots(count).total = total
    BY <1>1
<1> QED
    BY <1>2, <1>3, <1>4 DEF total

(* Every step of the scan keeps its invariant.                             *)
LEMMA ScanStep ==
    ASSUME ScanInv, [ScanNext]_scanVars
    PROVE  ScanInv'
<1>1. types = KnownTypes(module.payloads)[next - 1] /\ slots \in Nat /\ slots <= MaxSlots
    BY ScanTypes DEF ScanInv
<1>2. ASSUME NEW kind, Reading(kind)
      PROVE  /\ verdict = "scanning" /\ next <= Len(module.payloads)
             /\ Payload.kind = kind /\ Payload \in PayloadType
    BY <1>2, ScanTypes DEF Reading
<1>3. CASE ReadTypes
  <2>1. /\ verdict = "scanning" /\ next <= Len(module.payloads)
        /\ Payload.kind = "types" /\ Payload \in PayloadType
      BY <1>2, <1>3 DEF ReadTypes
  <2>2. Cost(module.payloads, next) = 0 /\ Allowed(module.payloads, next, version)
      BY <2>1 DEF Cost, Allowed, Payload
  <2>3. Advance /\ types' = types \o Declares(Payload) /\ slots' = slots + 0
      BY <1>1, <1>3, <2>1 DEF ReadTypes, Declares
  <2> QED
      BY <1>1, <2>1, <2>2, <2>3, AdvanceKeeps
<1>4. CASE ReadImport
  <2>1. /\ verdict = "scanning" /\ next <= Len(module.payloads)
        /\ Payload.kind = "import" /\ Payload \in PayloadType
      BY <1>2, <1>4 DEF ReadImport
  <2>2. Cost(module.payloads, next) = 0 /\ Declares(Payload) = <<>>
      BY <2>1 DEF Cost, Declares, Payload
  <2>3. CASE ImportAllowed(Payload)
    <3>1. Advance /\ types' = types /\ slots' = slots
        BY <1>4, <2>3 DEF ReadImport
    <3>2. types \o <<>> = types
        BY ScanTypes
    <3> QED
        BY <1>1, <2>1, <2>2, <2>3, <3>1, <3>2, ImportIsExact, AdvanceKeeps
  <2>4. CASE ~ImportAllowed(Payload)
    <3>1. Reject
        BY <1>4, <2>4 DEF ReadImport
    <3> QED
        BY <2>1, <2>4, <3>1, ImportIsExact, RejectKeeps
  <2> QED
      BY <2>3, <2>4
<1>5. CASE ReadFunction
  <2>1. /\ verdict = "scanning" /\ next <= Len(module.payloads)
        /\ Payload.kind = "function" /\ Payload \in PayloadType
      BY <1>2, <1>5 DEF ReadFunction
  <2>2. Allowed(module.payloads, next, version) <=> Payload.index < Len(types)
      BY <1>1, <2>1 DEF Allowed, Payload
  <2>3. CASE ~(Payload.index < Len(types))
    <3>1. Reject
        BY <1>5, <2>3 DEF ReadFunction
    <3> QED
        BY <2>1, <2>2, <2>3, <3>1, RejectKeeps
  <2>4. CASE Payload.index < Len(types)
    <3> DEFINE count == types[Payload.index + 1].params
    <3>1. Cost(module.payloads, next) = count
        BY <1>1, <2>1, <2>4 DEF Cost, Payload
    <3>2. count \in Nat
        BY <2>1, <3>1, ScanTypes
    <3>3. /\ AddSlots(count).ok <=> slots + count <= MaxSlots
          /\ AddSlots(count).total = slots + count
        BY <1>1, <3>2, SlotsFit
    <3>4. CASE AddSlots(count).ok
      <4>1. Advance /\ types' = types /\ slots' = slots + count
          BY <1>5, <2>4, <3>3, <3>4 DEF ReadFunction
      <4>2. types \o <<>> = types /\ Declares(Payload) = <<>>
          BY <2>1, ScanTypes DEF Declares
      <4> HIDE DEF count
      <4> QED
          BY <2>1, <2>2, <2>4, <3>1, <3>3, <3>4, <4>1, <4>2, AdvanceKeeps
    <3>5. CASE ~AddSlots(count).ok
      <4>1. Reject
          BY <1>5, <2>4, <3>5 DEF ReadFunction
      <4> HIDE DEF count
      <4>2. slots + Cost(module.payloads, next) > MaxSlots
          BY <1>1, <3>1, <3>2, <3>3, <3>5, BudgetAssumption
      <4> QED
          BY <2>1, <4>1, <4>2, RejectKeeps
    <3> QED
        BY <3>4, <3>5
  <2> QED
      BY <2>3, <2>4
<1>6. CASE ReadLocals
  <2>1. /\ verdict = "scanning" /\ next <= Len(module.payloads)
        /\ Payload.kind = "locals" /\ Payload \in PayloadType
      BY <1>2, <1>6 DEF ReadLocals
  <2>2. Allowed(module.payloads, next, version) /\ Cost(module.payloads, next) = Payload.count
      BY <2>1 DEF Allowed, Cost, Payload
  <2>3. Payload.count \in Nat
      BY <2>1, <2>2, ScanTypes
  <2>4. /\ AddSlots(Payload.count).ok <=> slots + Payload.count <= MaxSlots
        /\ AddSlots(Payload.count).total = slots + Payload.count
      BY <1>1, <2>3, SlotsFit
  <2>5. CASE AddSlots(Payload.count).ok
    <3>1. Advance /\ types' = types /\ slots' = slots + Payload.count
        BY <1>6, <2>4, <2>5 DEF ReadLocals
    <3>2. types \o <<>> = types /\ Declares(Payload) = <<>>
        BY <2>1, ScanTypes DEF Declares
    <3> QED
        BY <2>1, <2>2, <2>4, <2>5, <3>1, <3>2, AdvanceKeeps
  <2>6. CASE ~AddSlots(Payload.count).ok
    <3>1. Reject
        BY <1>6, <2>6 DEF ReadLocals
    <3>2. slots + Cost(module.payloads, next) > MaxSlots
        BY <1>1, <2>2, <2>3, <2>4, <2>6, BudgetAssumption
    <3> QED
        BY <2>1, <3>1, <3>2, RejectKeeps
  <2> QED
      BY <2>5, <2>6
<1>7. CASE ReadRefused
  <2>1. /\ next <= Len(module.payloads) /\ Reject
        /\ Payload.kind \in {"start", "malformed"}
      BY <1>2, <1>7 DEF ReadRefused
  <2>2. ~Allowed(module.payloads, next, version)
      BY <2>1 DEF Allowed, Payload
  <2> QED
      BY <2>1, <2>2, RejectKeeps
<1>8. CASE ReadOther
  <2>1. /\ verdict = "scanning" /\ next <= Len(module.payloads)
        /\ Payload.kind = "other" /\ Payload \in PayloadType
      BY <1>2, <1>8 DEF ReadOther
  <2>2. /\ Cost(module.payloads, next) = 0 /\ Allowed(module.payloads, next, version)
        /\ Declares(Payload) = <<>>
      BY <2>1 DEF Cost, Allowed, Payload, Declares
  <2>3. Advance /\ types' = types \o <<>> /\ slots' = slots + 0
      BY <1>1, <1>8, ScanTypes DEF ReadOther
  <2> QED
      BY <1>1, <2>1, <2>2, <2>3, AdvanceKeeps
<1>9. CASE Accept
  <2>1. next = Len(module.payloads) + 1
      BY <1>9, ScanTypes DEF Accept, ScanInv
  <2> QED
      BY <1>9, <2>1 DEF Accept, ScanInv
<1>10. CASE UNCHANGED scanVars
    BY <1>10 DEF scanVars, ScanInv
<1> QED
    BY <1>3, <1>4, <1>5, <1>6, <1>7, <1>8, <1>9, <1>10 DEF ScanNext

(* It holds when the header of a module has been looked at.                *)
LEMMA ScanStart ==
    ASSUME NEW v \in {1, 2}, NEW m \in Module, ScanInit(v, m)
    PROVE  ScanInv
<1>1. version = v /\ module = m /\ next = 1 /\ types = <<>> /\ slots = 0
    BY DEF ScanInit
<1>2. module.payloads \in Seq(PayloadType) /\ module.header \in BOOLEAN
    BY <1>1 DEF Module
<1>3. next - 1 = 0 /\ next \in 1..(Len(module.payloads) + 1) /\ 1..(next - 1) = {}
    BY <1>1, <1>2
<1>4. KnownTypes(module.payloads)[0] = <<>>
    BY <1>2, KnownUnfolds
<1>5. TotalCost(module.payloads)[0] = 0
    BY <1>2, TotalUnfolds
<1>6. verdict = IF module.header THEN "scanning" ELSE "reject"
    BY DEF ScanInit
<1> QED
    BY <1>1, <1>2, <1>3, <1>4, <1>5, <1>6, BudgetAssumption DEF ScanInv

(* And it makes the scan's verdict the right one.                          *)
LEMMA ScanDecides ==
    ASSUME ScanInv
    PROVE  ScanIsExact
<1> DEFINE payloads == module.payloads
           n == Len(payloads)
<1>1. payloads \in Seq(PayloadType) /\ n \in Nat /\ DOMAIN payloads = 1..n
    BY ScanTypes
<1>2. CASE verdict = "accept"
  <2>1. module.header /\ next - 1 = n /\ slots = TotalCost(payloads)[n] /\ slots <= MaxSlots
      BY <1>1, <1>2 DEF ScanInv
  <2>2. \A k \in DOMAIN payloads : Allowed(payloads, k, version)
      BY <1>1, <2>1 DEF ScanInv
  <2> QED
      BY <1>2, <2>1, <2>2 DEF Compilable, ScanIsExact
<1>3. CASE verdict = "reject"
  <2>1. CASE ~module.header
      BY <1>3, <2>1 DEF Compilable, ScanIsExact
  <2>2. CASE next <= n /\ ~Allowed(payloads, next, version)
    <3>1. next \in DOMAIN payloads
        BY <1>1, <2>2, ScanTypes
    <3> QED
        BY <1>3, <2>2, <3>1 DEF Compilable, ScanIsExact
  <2>3. CASE next <= n /\ TotalCost(payloads)[next] > MaxSlots
    <3>1. next \in 0..n
        BY <1>1, <2>3, ScanTypes
    <3>2. TotalCost(payloads)[next] <= TotalCost(payloads)[n]
        BY <1>1, <3>1, TotalGrows
    <3>3. TotalCost(payloads)[next] \in Nat /\ TotalCost(payloads)[n] \in Nat
      <4>1. TotalCost(payloads) \in [0..n -> Nat]
          BY <1>1, TotalUnfolds
      <4> QED
          BY <1>1, <3>1, <4>1
    <3>4. ~(TotalCost(payloads)[n] <= MaxSlots)
        BY <2>3, <3>2, <3>3, BudgetAssumption
    <3> QED
        BY <1>3, <3>4 DEF Compilable, ScanIsExact
  <2> QED
      BY <1>3, <2>1, <2>2, <2>3 DEF ScanInv
<1>4. CASE verdict = "scanning"
    BY <1>4 DEF ScanIsExact
<1> QED
    BY <1>2, <1>3, <1>4 DEF ScanInv
=============================================================================
