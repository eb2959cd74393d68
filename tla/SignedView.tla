----------------------------- MODULE SignedView -----------------------------
(***************************************************************************)
(* The bytes a predicate sees of the transaction it is asked about:        *)
(* encode_view of src/src/evaluator.rs.  A transaction is a record         *)
(* [version, lock_time, inputs, outputs, index, internal_key] whose inputs *)
(* carry the output they spend.  Numbers are below NumberRange, so that    *)
(* the upper bytes of a field are zero; an outpoint is 36 equal cells.     *)
(***************************************************************************)
EXTENDS Integers, Sequences, SequencesExt

CONSTANT
    MaxView         \* MAX_SIGNED_VIEW_BYTES

NumberRange == 256 * 65536

LittleEndian(n, width) ==
    [i \in 1..width |-> CASE i = 1 -> n % 256
                          [] i = 2 -> (n \div 256) % 256
                          [] i = 3 -> (n \div 65536) % 256
                          [] OTHER -> 0]

U32(n) == LittleEndian(n, 4)
U64(n) == LittleEndian(n, 8)

(* The size that is computed before anything is allocated or copied: for   *)
(* each input and each output its fixed part and its script.               *)
ScriptedSize(fixed, items) ==
    LET size[k \in 0..Len(items)] ==
          IF k = 0 THEN 0 ELSE size[k - 1] + fixed + Len(items[k].script)
    IN  size[Len(items)]

ViewSize(version, tx) ==
    20 + ScriptedSize(52, tx.inputs) + ScriptedSize(12, tx.outputs)
       + (IF version = 2 THEN 36 ELSE 0)

EncodeInput(input) ==
    [i \in 1..36 |-> input.outpoint] \o U32(input.sequence) \o U64(input.value)
        \o U32(Len(input.script)) \o input.script

EncodeOutput(output) == U64(output.value) \o U32(Len(output.script)) \o output.script

(* Mutant: the annex length of the v2 view is left out.                    *)
EncodeView_NoAnnex(version, tx) ==
    U32(tx.version) \o U32(tx.lock_time) \o U32(tx.index) \o U32(Len(tx.inputs))
        \o FlattenSeq([i \in DOMAIN tx.inputs |-> EncodeInput(tx.inputs[i])])
        \o U32(Len(tx.outputs))
        \o FlattenSeq([i \in DOMAIN tx.outputs |-> EncodeOutput(tx.outputs[i])])
        \o (IF version = 2 THEN [i \in 1..32 |-> tx.internal_key] ELSE <<>>)

(* Version two appends the internal key and the length of an absent annex. *)
EncodeView(version, tx) ==
    U32(tx.version) \o U32(tx.lock_time) \o U32(tx.index) \o U32(Len(tx.inputs))
        \o FlattenSeq([i \in DOMAIN tx.inputs |-> EncodeInput(tx.inputs[i])])
        \o U32(Len(tx.outputs))
        \o FlattenSeq([i \in DOMAIN tx.outputs |-> EncodeOutput(tx.outputs[i])])
        \o (IF version = 2 THEN [i \in 1..32 |-> tx.internal_key] \o U32(0) ELSE <<>>)
=============================================================================
