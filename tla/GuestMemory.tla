----------------------------- MODULE GuestMemory ----------------------------
(***************************************************************************)
(* The host's half of evaluator::evaluate (src/src/evaluator.rs, lines     *)
(* 179-242): four inputs are placed in the guest's linear memory by the    *)
(* guest's own allocator, copied, and the predicate is called.             *)
(*                                                                         *)
(* The guest is arbitrary code: an allocation may return any i32, write    *)
(* anything in its memory, grow it, and trap, for instance because the     *)
(* fuel that all its calls share ran out.  A cell holds a byte of the      *)
(* guest or the byte of an input that the host wrote there.                *)
(***************************************************************************)
EXTENDS Integers, FiniteSets

CONSTANTS
    AddressRange,   \* the number of addresses: 2^32 in the code
    MaxInput        \* longest input the byte limits admit

ASSUME MemoryAssumption == AddressRange \in Nat \ {0} /\ MaxInput \in Nat

VARIABLES
    lengths,    \* byte lengths of program, parameters, view and witness
    pc,         \* "allocating", "copying", "calling" or the outcome
    index,      \* the input being placed, 0..4
    ranges,     \* the range of each input, as [start, end) in u64
    memory      \* linear memory, a function on 0..size-1

memoryVars == <<lengths, pc, index, ranges, memory>>

Inputs == 0..3
Outcomes == {"approved", "rejected", "failed"}

EmptyRange == [start |-> 0, end |-> 0]
IsEmpty(range) == range.start >= range.end
GuestByte == <<4, 0>>        \* an input byte is <<its input, its offset>>
Size == Cardinality(DOMAIN memory)

(* Lines 179-204: an input over its limit fails before anything runs; the  *)
(* module is instantiated with its own initial memory, which may be empty. *)
MemoryInit ==
    /\ lengths \in [Inputs -> 0..(MaxInput + 1)]
    /\ lengths[2] > 0        \* a view has at least its fixed fields
    /\ pc = IF \A i \in Inputs : lengths[i] <= MaxInput THEN "allocating" ELSE "failed"
    /\ index = 0
    /\ ranges = [i \in Inputs |-> EmptyRange]
    /\ \E size \in 0..AddressRange : memory = [a \in 0..(size - 1) |-> GuestByte]

Fail == pc' = "failed" /\ UNCHANGED <<lengths, index, ranges>>

(* A guest call that returns: it may have grown the memory and, at worst,  *)
(* overwritten all of it.                                                  *)
GuestRuns ==
    \E size \in Size..AddressRange, clobber \in BOOLEAN :
        memory' = [a \in 0..(size - 1) |->
                     IF clobber \/ a >= Size THEN GuestByte ELSE memory[a]]

AllocateEmpty ==
    /\ pc = "allocating" /\ index < 4
    /\ lengths[index] = 0
    /\ index' = index + 1
    /\ UNCHANGED <<lengths, pc, ranges, memory>>

(* Mutants: the end of the allocation is computed modulo the address size; *)
(* a range that begins inside an earlier one is not seen as an overlap.    *)
InBounds_Wraps(range) ==
    range.end % AddressRange <= Cardinality(DOMAIN memory')
Overlaps_StartOnly(range, i) ==
    \E j \in 0..(i - 1) :
        ~IsEmpty(ranges[j]) /\ range.start = ranges[j].start

InBounds(range) == range.end <= Cardinality(DOMAIN memory')

Overlaps(range, i) ==
    \E j \in 0..(i - 1) :
        /\ ~IsEmpty(ranges[j])
        /\ range.start < ranges[j].end
        /\ ranges[j].start < range.end

(* Mutant: the i32 is widened with its sign.                               *)
RangeAt_Signed(pointer, length) ==
    LET start == IF 2 * pointer >= AddressRange THEN pointer - AddressRange ELSE pointer
    IN  [start |-> start, end |-> start + length]

(* The i32 is read as a u32 and widened to u64, where the sum cannot wrap. *)
RangeAt(pointer, length) == [start |-> pointer, end |-> pointer + length]

(* allocate.call and the checks of the pointer it returned.                *)
Allocate ==
    /\ pc = "allocating" /\ index < 4
    /\ lengths[index] > 0
    /\ GuestRuns
    /\ \E pointer \in 0..(AddressRange - 1) :
          LET range == RangeAt(pointer, lengths[index])
          IN  IF InBounds(range) /\ ~Overlaps(range, index)
              THEN /\ ranges' = [ranges EXCEPT ![index] = range]
                   /\ index' = index + 1
                   /\ UNCHANGED <<lengths, pc>>
              ELSE Fail

(* The guest traps, or its fuel runs out, in an allocation or in the       *)
(* predicate.                                                              *)
Trap ==
    /\ \/ pc = "allocating" /\ index < 4 /\ lengths[index] > 0
       \/ pc = "calling"
    /\ Fail
    /\ UNCHANGED memory

StartCopy ==
    /\ pc = "allocating" /\ index = 4
    /\ pc' = "copying"
    /\ index' = 0
    /\ UNCHANGED <<lengths, ranges, memory>>

(* memory.write, which fails rather than write out of bounds.              *)
Copy ==
    /\ pc = "copying" /\ index < 4
    /\ IF ranges[index].start + lengths[index] <= Size
       THEN /\ memory' = [a \in DOMAIN memory |->
                   IF ranges[index].start <= a /\ a < ranges[index].start + lengths[index]
                   THEN <<index, a - ranges[index].start>> ELSE memory[a]]
            /\ index' = index + 1
            /\ UNCHANGED <<lengths, pc, ranges>>
       ELSE Fail /\ UNCHANGED memory

StartCall ==
    /\ pc = "copying" /\ index = 4
    /\ pc' = "calling"
    /\ UNCHANGED <<lengths, index, ranges, memory>>

(* Only the results zero and one are an answer.                            *)
Verdict(result) ==
    CASE result = 0 -> "rejected" [] result = 1 -> "approved" [] OTHER -> "failed"

Call ==
    /\ pc = "calling"
    /\ GuestRuns
    /\ \E result \in {0, 1, 2} : pc' = Verdict(result)
    /\ UNCHANGED <<lengths, index, ranges>>

MemoryNext ==
    \/ AllocateEmpty \/ Allocate \/ Trap \/ StartCopy \/ Copy \/ StartCall \/ Call

MemorySpec == MemoryInit /\ [][MemoryNext]_memoryVars

-----------------------------------------------------------------------------
(* What a memory cell can hold, and the shape of the other variables.      *)
MemoryTypeOK ==
    /\ lengths \in [Inputs -> Nat]
    /\ pc \in {"allocating", "copying", "calling"} \cup Outcomes
    /\ index \in 0..4
    /\ ranges \in [Inputs -> [start : Nat, end : Nat]]
    /\ memory \in [0..(Size - 1) -> (0..4) \X Nat]

(* When the predicate is called, every input is in memory exactly as the   *)
(* host holds it, at the place the call names, whatever the allocator      *)
(* returned, wrote or grew: "An allocator cannot rewrite an earlier input  *)
(* while allocating a later region."                                       *)
InputsIntact ==
    pc = "calling" =>
        \A i \in Inputs : \A k \in 0..(lengths[i] - 1) :
            /\ ranges[i].start + k \in DOMAIN memory
            /\ memory[ranges[i].start + k] = <<i, k>>

(* The host never fails in the middle of copying: every range it accepted  *)
(* is still inside the memory when it writes.                              *)
CopyNeverFails ==
    pc = "copying" => \A i \in Inputs : ranges[i].start + lengths[i] <= Size
=============================================================================
