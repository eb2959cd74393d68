---------------------------- MODULE ExampleGuest ----------------------------
(***************************************************************************)
(* The predicates of src/examples/ as guests: the argument arena and the   *)
(* decoder they share (vault/guest.rs), the vault's sweep rule             *)
(* (vault/predicate.rs) and the BIP-446 template (templatehash/            *)
(* predicate.rs).  A guest answers 1, 0, or -1 for anything it cannot      *)
(* read.  SHA-256 is an injective function: a digest is one cell that      *)
(* holds what was hashed, so DIGEST is one instead of 32.                  *)
(***************************************************************************)
EXTENDS SignedView

CONSTANTS
    MaxArgument,    \* MAX_ARGUMENT
    ArenaBase,      \* the address of INPUT
    OneByteMax,     \* compactSize: lengths below 253 take one byte
    ThreeByteMax    \* and lengths up to 0xFFFF take three

ASSUME ArenaAssumption ==
    /\ MaxView \in Nat /\ MaxView < NumberRange
    /\ MaxArgument \in Nat /\ ArenaBase \in Nat \ {0}

(* 253 and 65535, and a view of 1048576 bytes: the five-byte form, one     *)
(* byte longer than the length field of the view, is rare enough.          *)
ASSUME CompactSizeAssumption ==
    /\ OneByteMax \in 0..253 /\ ThreeByteMax \in Nat /\ ThreeByteMax < 65536
    /\ MaxView < 72 + 73 * (13 + ThreeByteMax)

Yes == 1
No == 0
None == -1
Answer(b) == IF b THEN Yes ELSE No

DIGEST == 1
Sha256(bytes) == <<[sha256 |-> bytes]>>

-----------------------------------------------------------------------------
(* The arena: INPUT_CAPACITY bytes, handed out from the bottom.            *)
(* Mutant: the arena has no room for the witness.                          *)
Capacity_NoWitness == MaxView + MaxArgument

Capacity == MaxView + 3 * MaxArgument

(* Mutant: INPUT_USED is not advanced.                                     *)
Alloc_NotAdvanced(used, length) ==
    IF used + length > Capacity THEN [pointer |-> 0, used |-> used]
    ELSE [pointer |-> ArenaBase + used, used |-> used]

(* sapio_alloc_v1: the next range, or address zero when it does not fit.   *)
Alloc(used, length) ==
    IF used + length > Capacity THEN [pointer |-> 0, used |-> used]
    ELSE [pointer |-> ArenaBase + used, used |-> used + length]

(* input_slice: an empty argument, or a range of the allocated arena.      *)
InputSlice(pointer, length, used) ==
    length = 0 \/ (pointer >= ArenaBase /\ pointer - ArenaBase + length <= used)

(* What guest::evaluate requires of pointers and lengths of program,       *)
(* parameters, view and witness before it calls a predicate.               *)
ArgumentsReadable(pointers, arguments, used) ==
    /\ \A i \in {1, 2, 4} : Len(arguments[i]) <= MaxArgument
    /\ Len(arguments[3]) <= MaxView
    /\ \A i \in 1..4 : InputSlice(pointers[i], Len(arguments[i]), used)

-----------------------------------------------------------------------------
(* Reader: a field at an offset.  A field past the end reads as nothing;   *)
(* the callers compare the final offset with the length, which is then     *)
(* larger, as `take` fails in the code.                                    *)
Bytes(bytes, at, length) == SubSeq(bytes, at + 1, at + length)

Number(bytes, at) ==
    IF at + 4 > Len(bytes) THEN 0
    ELSE bytes[at + 1] + 256 * bytes[at + 2] + 65536 * bytes[at + 3]

(* Commitment parameters: max_fee:u64 || script_len:u32 || script.         *)
(* contract.rs encodes, the predicate decodes.                             *)
VaultParameters(max_fee, destination) ==
    U64(max_fee) \o U32(Len(destination)) \o destination

VaultParametersValid(parameters) ==
    Len(parameters) >= 12 /\ Len(parameters) = 12 + Number(parameters, 8)

(* Mutant: an output above its input has a fee of zero.                    *)
SweepAllowed_Saturating(input, output, max_fee) ==
    output >= 330 /\ (IF output > input THEN 0 ELSE input - output) <= max_fee

(* A nonnegative fee within the cap, and no dust.                          *)
SweepAllowed(input, output, max_fee) ==
    output <= input /\ output >= 330 /\ input - output <= max_fee

VaultEvaluate(program, parameters, view, witness) ==
    LET count == 68 + Number(view, 64)              \* offset of the output count
        end == count + 16 + Number(view, count + 12)
    IN  IF program # <<>> \/ witness # <<>> \/ ~VaultParametersValid(parameters)
           \/ Len(view) < 16
        THEN None
        ELSE IF Number(view, 8) # 0 \/ Number(view, 12) # 1 THEN No
        ELSE IF count + 4 > Len(view) THEN None
        ELSE IF Number(view, count) # 1 THEN No
        ELSE IF end # Len(view) THEN None
        ELSE Answer(/\ Bytes(view, count + 16, Len(view) - count - 16)
                          = Bytes(parameters, 12, Len(parameters) - 12)
                    /\ SweepAllowed(Number(view, 56), Number(view, count + 4),
                                    Number(parameters, 0)))

-----------------------------------------------------------------------------
(* Mutant: the boundary of the one-byte form is off by one.                *)
CompactSize_OffByOne(length) ==
    IF length <= OneByteMax THEN <<length>>
    ELSE IF length <= ThreeByteMax THEN <<253>> \o LittleEndian(length, 2)
    ELSE <<254>> \o U32(length)

(* push_compact_size of the guest.                                         *)
CompactSize(length) ==
    IF length < OneByteMax THEN <<length>>
    ELSE IF length <= ThreeByteMax THEN <<253>> \o LittleEndian(length, 2)
    ELSE <<254>> \o U32(length)

(* The scratch memory of the template predicate: sequences and outputs.    *)
Scratch(view, used) ==
    LET sequences == Alloc(used, 4 * Number(view, 12))
    IN  <<sequences, Alloc(sequences.used, Len(view))>>

TagHash == Sha256(<<"TemplateHash">>)

TemplateMessage(header, sequences, outputs, index) ==
    TagHash \o TagHash \o header \o Sha256(sequences) \o Sha256(outputs) \o <<0>> \o index

(* The two loops over the view: the sequences of the inputs, then the      *)
(* outputs with compactSize script lengths, from where the inputs end.     *)
ReadInput(view, read) ==
    [at |-> read.at + 52 + Number(view, read.at + 48),
     bytes |-> read.bytes \o Bytes(view, read.at + 36, 4)]

ReadOutput(view, read) ==
    LET length == Number(view, read.at + 8)
    IN  [at |-> read.at + 12 + length,
         bytes |-> read.bytes \o Bytes(view, read.at, 8) \o CompactSize(length)
                      \o Bytes(view, read.at + 12, length)]

ReadInputs(view, count) ==
    LET read[k \in 0..count] ==
          IF k = 0 THEN [at |-> 16, bytes |-> <<>>] ELSE ReadInput(view, read[k - 1])
    IN  read[count]

ReadOutputs(view, from, count) ==
    LET read[k \in 0..count] ==
          IF k = 0 THEN [at |-> from, bytes |-> <<>>] ELSE ReadOutput(view, read[k - 1])
    IN  read[count]

TemplateEvaluate(program, parameters, view, witness, used) ==
    LET count == Number(view, 12)
        inputs == ReadInputs(view, count)
        outputs == ReadOutputs(view, inputs.at + 4, Number(view, inputs.at))
    IN  IF \/ program # <<>> \/ witness # <<>> \/ Len(parameters) # DIGEST
           \/ Len(view) < 16 \/ Number(view, 8) >= count
           \/ \E i \in 1..2 : Scratch(view, used)[i].pointer = 0
           \/ outputs.at # Len(view)
           \/ Len(outputs.bytes) > Len(view)
        THEN None
        ELSE Answer(parameters = Sha256(TemplateMessage(
                 Bytes(view, 0, 8), inputs.bytes, outputs.bytes, Bytes(view, 8, 4))))
=============================================================================
