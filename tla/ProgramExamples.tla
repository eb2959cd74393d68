-------------------------- MODULE ProgramExamples ---------------------------
(***************************************************************************)
(* The example clients of src/examples/ against a ProgramOracle: each main *)
(* submits a list of requests, says of each whether it must be signed or   *)
(* rejected, and stops at the first surprise.  The oracle is upstream's    *)
(* code, which evaluator.rs is derived from; it authenticates the funding, *)
(* encodes the signed view, lets the guest allocate its arguments and      *)
(* calls it.  A P2WPKH script is three cells, a Taproot script is one cell *)
(* that names the instance whose key it commits to.                        *)
(***************************************************************************)
EXTENDS ExampleGuest

CONSTANT
    Committed   \* transactions whose template hash somebody may have committed to

VARIABLES
    steps,      \* what the client still has to submit
    phase,      \* "client", "authenticate", "place", "evaluate", "signed", "rejected", "failed"
    arguments,  \* program, parameters, encoded view and witness of the evaluation
    pointers,   \* where the arguments placed so far are
    used,       \* INPUT_USED of the guest
    scratch     \* the guest's own allocations

vars == <<steps, phase, arguments, pointers, used, scratch>>

Recipient(tag) == <<0, 20, tag>>

Instance(guest, program, parameters) ==
    [guest |-> guest, program |-> program, parameters |-> parameters]

TaprootScript(instance, path) == <<[p2tr |-> instance, path |-> path]>>

Input(outpoint, sequence, value, script) ==
    [outpoint |-> outpoint, sequence |-> sequence, value |-> value, script |-> script]

Output(value, script) == [value |-> value, script |-> script]

(* A request that spends the selected input, funded to the instance's key, *)
(* by key or by script path; `leaf` is the script the input map supplies.  *)
Request(instance, path, tx, funding) ==
    [instance |-> instance, path |-> path, leaf |-> path = "script", witness |-> <<>>,
     tx |-> [tx EXCEPT !.inputs[tx.index + 1].script = TaprootScript(instance, path),
                       !.inputs[tx.index + 1].value = funding,
                       !.internal_key = instance]]

Must(verdict, request) == [request |-> request, verdict |-> verdict, as |-> request]

(* same_commitment_and_funding: a case that claims to vary only what the   *)
(* predicate sees.                                                         *)
MustAs(verdict, original, request) ==
    [request |-> request, verdict |-> verdict, as |-> original]

SameCommitmentAndFunding(a, b) ==
    /\ a.instance = b.instance /\ a.path = b.path
    /\ a.tx.index = b.tx.index /\ a.tx.inputs = b.tx.inputs

(* A plan is a sequence of steps; programs, parameters, witnesses and      *)
(* scripts are sequences of cells, and the selected input exists.          *)
IsSequence(s) == Len(s) \in Nat /\ s = [i \in 1..Len(s) |-> s[i]]

IsTransaction(tx) ==
    /\ tx.version \in Nat /\ tx.lock_time \in Nat /\ tx.index \in Nat
    /\ IsSequence(tx.inputs) /\ IsSequence(tx.outputs)
    /\ \A i \in 1..Len(tx.inputs) :
          /\ IsSequence(tx.inputs[i].script)
          /\ tx.inputs[i].sequence \in Nat /\ tx.inputs[i].value \in Nat
    /\ \A i \in 1..Len(tx.outputs) :
          IsSequence(tx.outputs[i].script) /\ tx.outputs[i].value \in Nat
    /\ tx.index < Len(tx.inputs)

IsRequest(r) ==
    /\ IsSequence(r.instance.program) /\ IsSequence(r.instance.parameters)
    /\ IsSequence(r.witness) /\ IsTransaction(r.tx)

IsPlan(plan) == IsSequence(plan) /\ \A i \in 1..Len(plan) : IsRequest(plan[i].request)

-----------------------------------------------------------------------------
(* The vault's main.                                                       *)
FundingSats == 1000000
MaxFeeSats == 1000

VaultInstance(max_fee, destination) ==
    Instance("vault", <<>>, VaultParameters(max_fee, destination))

Sweep(max_fee, destination, funding, payment) ==
    Request(VaultInstance(max_fee, destination), "key",
            [version |-> 2, lock_time |-> 0, index |-> 0, internal_key |-> 0,
             inputs |-> <<Input(1, 255, 0, <<>>)>>,
             outputs |-> <<Output(payment, destination)>>],
            funding)

VaultSteps ==
    LET original == Sweep(MaxFeeSats, Recipient(42), FundingSats, FundingSats - 500)
        paying(value) == [original EXCEPT !.tx.outputs[1].value = value]
        holding(funding, value) == [paying(value) EXCEPT !.tx.inputs[1].value = funding]
    IN  <<Must("signed", original),
          Must("signed", paying(FundingSats - MaxFeeSats)),
          Must("rejected", paying(FundingSats - 1001)),
          Must("rejected", [original EXCEPT !.tx.outputs[1].script = Recipient(43)]),
          Must("rejected", paying(FundingSats + 1)),
          Must("rejected", holding(MaxFeeSats + 200, 200)),
          Must("signed", holding(MaxFeeSats + 330, 330)),
          Must("rejected", [paying(FundingSats - 501) EXCEPT !.tx.outputs =
                              Append(@, Output(1, Recipient(42)))]),
          Must("rejected", [paying(FundingSats + 500) EXCEPT !.tx.inputs =
                              Append(@, Input(7, 255, 1000, Recipient(44)))]),
          Must("rejected", [original EXCEPT !.witness = <<1>>]),
          Must("rejected", [original EXCEPT !.instance =
                              VaultInstance(MaxFeeSats + 1, Recipient(42))]),
          Must("signed", original)>>

-----------------------------------------------------------------------------
(* The template client computes the hash from the transaction, not from a  *)
(* view; its compactSize has an eight-byte form that no script reaches.    *)
ClientCompactSize(length) ==
    CASE length < OneByteMax -> <<length>>
      [] length \in OneByteMax..ThreeByteMax -> <<253>> \o LittleEndian(length, 2)
      [] OTHER -> <<254>> \o U32(length)

TaggedHash(tag, message) == Sha256(Sha256(<<tag>>) \o Sha256(<<tag>>) \o message)

ShaSequences(tx) == Sha256(FlattenSeq([i \in DOMAIN tx.inputs |-> U32(tx.inputs[i].sequence)]))

ShaOutputs(tx) ==
    Sha256(FlattenSeq([i \in DOMAIN tx.outputs |->
        U64(tx.outputs[i].value) \o ClientCompactSize(Len(tx.outputs[i].script))
            \o tx.outputs[i].script]))

TemplateHash(tx, index) ==
    TaggedHash("TemplateHash", U32(tx.version) \o U32(tx.lock_time)
        \o ShaSequences(tx) \o ShaOutputs(tx) \o <<0>> \o U32(index))

InstanceFor(tx, index) == Instance("template", <<>>, TemplateHash(tx, index))

TemplateTransaction ==
    [version |-> 2, lock_time |-> 800000, index |-> 0, internal_key |-> 0,
     inputs |-> <<Input(7, 253, 0, <<>>), Input(8, 253, 50000, Recipient(2))>>,
     outputs |-> <<Output(99000, Recipient(42)), Output(500, Recipient(43))>>]

(* The test vector, with the selected input re-pointed to the funding.     *)
VectorTransaction ==
    [version |-> 2, lock_time |-> 0, index |-> 0, internal_key |-> 0,
     inputs |-> <<Input(66, 255, 0, <<>>), Input(9, 255, 50000, Recipient(2))>>,
     outputs |-> <<Output(424242, Recipient(130))>>]

TemplateSteps ==
    LET tx == TemplateTransaction
        original == Request(InstanceFor(tx, 0), "key", tx, 100000)
        mutated(t) == Must("rejected", Request(InstanceFor(tx, 0), "key", t, 100000))
    IN  <<Must("signed", original),
          Must("signed", Request(InstanceFor(VectorTransaction, 0), "key",
                                 VectorTransaction, 100000)),
          Must("rejected", [original EXCEPT !.instance.parameters = Sha256(<<171>>)]),
          mutated([tx EXCEPT !.outputs[1].value = @ + 1]),
          mutated([tx EXCEPT !.outputs[2].script = Recipient(44)]),
          mutated([tx EXCEPT !.inputs[2].sequence = 252]),
          mutated([tx EXCEPT !.lock_time = @ + 1]),
          mutated([tx EXCEPT !.version = 1]),
          Must("signed", Request(InstanceFor(tx, 0), "key",
                                 [tx EXCEPT !.inputs[2].outpoint = 9], 100000))>>

-----------------------------------------------------------------------------
(* program_oracle: registered payments, CTV, and inline v2 modules.        *)
Minimum == 9000
Funding == 20000

PaymentInstance(minimum) ==
    Instance("payment", <<"pay-at-least/v1">>,
             U64(minimum) \o U32(Len(Recipient(1))) \o Recipient(1))

OracleTransaction ==
    [version |-> 2, lock_time |-> 500, index |-> 1, internal_key |-> 0,
     inputs |-> <<Input(1, 100, 1000, Recipient(3)), Input(2, 200, 0, <<>>)>>,
     outputs |-> <<Output(Minimum, Recipient(1)), Output(10000, Recipient(2))>>]

OracleRequest(instance, path) == Request(instance, path, OracleTransaction, Funding)

CtvHash(tx) ==
    <<[ctv |-> <<tx.version, tx.lock_time, [i \in DOMAIN tx.inputs |-> tx.inputs[i].sequence],
                 tx.outputs, tx.index>>]>>

Payment == [OracleRequest(PaymentInstance(Minimum), "key") EXCEPT !.witness = U32(0)]

PaymentSteps ==
    LET script == [OracleRequest(PaymentInstance(Minimum), "script") EXCEPT !.witness = U32(0)]
        as(verdict, request) == MustAs(verdict, Payment, request)
    IN  <<Must("signed", Payment),
          as("signed", [Payment EXCEPT !.witness = U32(1), !.tx.outputs =
                <<Output(8000, Recipient(2)), Output(11000, Recipient(1))>>]),
          as("rejected", [Payment EXCEPT !.tx.outputs[1].value = Minimum - 1]),
          as("rejected", [Payment EXCEPT !.tx.outputs[1].script = Recipient(4)]),
          as("rejected", [Payment EXCEPT !.witness = Front(@)]),
          Must("signed", script),
          Must("rejected", [script EXCEPT !.leaf = FALSE]),
          Must("rejected", [Payment EXCEPT !.instance = PaymentInstance(1)]),
          Must("rejected", OracleRequest(Instance("unregistered", <<>>, <<>>), "key"))>>

CtvSteps ==
    LET original == OracleRequest(Instance("ctv", <<>>, CtvHash(OracleTransaction)), "key")
    IN  <<Must("signed", original),
          MustAs("rejected", original, [original EXCEPT !.tx.outputs[1].value = @ + 1])>>

InlineV2Steps ==
    LET original == OracleRequest(Instance("lock_time", <<>>, U32(500)), "key")
    IN  <<Must("signed", original),
          MustAs("rejected", original, [original EXCEPT !.tx.lock_time = 501]),
          Must("rejected", OracleRequest(Instance("trap", <<>>, <<>>), "key")),
          Must("rejected", OracleRequest(Instance("loop", <<>>, <<>>), "key"))>>

OracleSteps == PaymentSteps \o CtvSteps \o InlineV2Steps \o <<Must("signed", Payment)>>

-----------------------------------------------------------------------------
(* The oracle.                                                             *)
V2Guests == {"lock_time", "trap", "loop"}
ArenaGuests == {"vault", "template"}
Version(guest) == IF guest \in V2Guests THEN 2 ELSE 1

request == steps[1].request
view == arguments[3]

(* The selected input pays to the key of the requested instance and path,  *)
(* a script path comes with its leaf, the evaluator is inline or           *)
(* registered, and every argument is within its limit.                     *)
Authentic ==
    /\ request.tx.inputs[request.tx.index + 1].script
          = TaprootScript(request.instance, request.path)
    /\ request.path = "script" => request.leaf
    /\ request.instance.guest # "unregistered"
    /\ \A argument \in {request.instance.program, request.instance.parameters, request.witness} :
          Len(argument) <= MaxArgument
    /\ ViewSize(Version(request.instance.guest), request.tx) <= MaxView

(* pay_at_least: the output the witness points to pays enough to the       *)
(* committed script.                                                       *)
PaymentEvaluate(parameters, tx, witness) ==
    IF Len(witness) # 4 \/ Number(witness, 0) >= Len(tx.outputs) THEN None
    ELSE LET output == tx.outputs[Number(witness, 0) + 1]
         IN  Answer(/\ output.value >= Number(parameters, 0)
                    /\ output.script = Bytes(parameters, 12, Len(parameters) - 12))

(* Mutant: the predicate loads the selected index instead.                 *)
LockTimeEvaluate_WrongOffset(program, parameters, signed, witness) ==
    Answer(/\ program = <<>> /\ Len(parameters) = 4 /\ witness = <<>>
           /\ Len(signed) >= 52
           /\ Bytes(signed, 8, 4) = parameters)

(* The inline v2 module: the signed lock time at offset 4 of the view.     *)
LockTimeEvaluate(program, parameters, signed, witness) ==
    Answer(/\ program = <<>> /\ Len(parameters) = 4 /\ witness = <<>>
           /\ Len(signed) >= 52
           /\ Bytes(signed, 4, 4) = parameters)

(* What a call of the guest returns; a trap or the end of the fuel is no   *)
(* answer.                                                                 *)
GuestResult ==
    LET instance == request.instance
    IN  CASE instance.guest \in ArenaGuests /\ ~ArgumentsReadable(pointers, arguments, used) -> None
          [] instance.guest = "payment" ->
                PaymentEvaluate(instance.parameters, request.tx, request.witness)
          [] instance.guest = "ctv" -> Answer(instance.parameters = CtvHash(request.tx))
          [] instance.guest = "lock_time" ->
                LockTimeEvaluate(instance.program, instance.parameters, view, request.witness)
          [] instance.guest \in {"trap", "loop"} -> None
          [] instance.guest = "vault" ->
                VaultEvaluate(instance.program, instance.parameters, view, request.witness)
          [] OTHER ->
                TemplateEvaluate(instance.program, instance.parameters, view, request.witness, used)

-----------------------------------------------------------------------------
Begin(plan) ==
    /\ steps = plan /\ phase = "client" /\ arguments = <<>>
    /\ pointers = <<>> /\ used = 0 /\ scratch = <<>>

(* A fresh instance: its arena is empty.  A fixture that changed more than *)
(* it may stops the client.                                                *)
Submit ==
    /\ phase = "client" /\ steps # <<>>
    /\ phase' = IF SameCommitmentAndFunding(steps[1].as, request) \/ steps[1].as = request
                THEN "authenticate" ELSE "failed"
    /\ arguments' = <<>> /\ pointers' = <<>> /\ used' = 0 /\ scratch' = <<>>
    /\ UNCHANGED steps

Authenticate ==
    /\ phase = "authenticate"
    /\ phase' = IF ~Authentic THEN "rejected"
                ELSE IF request.instance.guest \in ArenaGuests THEN "place" ELSE "evaluate"
    /\ arguments' = IF ~Authentic THEN <<>>
                    ELSE <<request.instance.program, request.instance.parameters,
                           EncodeView(Version(request.instance.guest), request.tx),
                           request.witness>>
    /\ UNCHANGED <<steps, pointers, used, scratch>>

(* The next argument: no allocation for an empty one.                      *)
Place ==
    /\ phase = "place"
    /\ LET argument == arguments[Len(pointers) + 1]
           range == IF argument = <<>> THEN [pointer |-> 0, used |-> used]
                    ELSE Alloc(used, Len(argument))
       IN  /\ pointers' = Append(pointers, range.pointer)
           /\ used' = range.used
    /\ phase' = IF Len(pointers') = 4 THEN "evaluate" ELSE "place"
    /\ UNCHANGED <<steps, arguments, scratch>>

Evaluate ==
    /\ phase = "evaluate"
    /\ phase' = IF GuestResult = Yes THEN "signed" ELSE "rejected"
    /\ scratch' = IF request.instance.guest = "template" THEN Scratch(view, used) ELSE <<>>
    /\ UNCHANGED <<steps, arguments, pointers, used>>

(* accepted and rejected: the expected verdict, or the client stops.       *)
Verdict ==
    /\ phase \in {"signed", "rejected"}
    /\ IF steps[1].verdict \in {phase, "any"}
       THEN phase' = "client" /\ steps' = Tail(steps)
       ELSE phase' = "failed" /\ UNCHANGED steps
    /\ UNCHANGED <<arguments, pointers, used, scratch>>

Next == Submit \/ Authenticate \/ Place \/ Evaluate \/ Verdict

(* A client may submit any plan.                                           *)
Init == IsPlan(steps) /\ Begin(steps)

Spec == Init /\ [][Next]_vars

-----------------------------------------------------------------------------
(* The shapes of the variables, and an arena that is never overdrawn.      *)
TypeOK ==
    /\ IsPlan(steps)
    /\ phase \in {"client", "authenticate", "place", "evaluate", "signed", "rejected", "failed"}
    /\ phase \notin {"client", "failed"} => steps # <<>>
    /\ IsSequence(arguments) /\ Len(arguments) \in {0, 4}
    /\ \A i \in 1..Len(arguments) : IsSequence(arguments[i])
    /\ pointers \in Seq(Nat) /\ Len(pointers) <= Len(arguments)
    /\ used \in 0..Capacity
    /\ scratch \in Seq([pointer : Nat, used : 0..Capacity]) /\ Len(scratch) \in {0, 2}

(* The size encode_view computes before it allocates is the size of what   *)
(* it writes (the debug_assert of evaluator.rs, line 299), for both        *)
(* versions, so the limit that is checked is the limit that holds.         *)
SizeIsExact ==
    phase = "evaluate" =>
        /\ Len(view) = ViewSize(Version(request.instance.guest), request.tx)
        /\ Len(view) <= MaxView

(* Arguments that pass the host's limits fit the guest's arena together,   *)
(* so no request is refused because the guest ran out of space for them.   *)
ArgumentsFit ==
    phase = "evaluate" /\ request.instance.guest \in ArenaGuests =>
        ArgumentsReadable(pointers, arguments, used)

(* Inputs and scratch never share a cell: what the guest hashes is not     *)
(* overwritten while it is assembled, and nothing lies outside the arena.  *)
Region(from, length) == [from |-> from, length |-> length]
InUse(region) == region.from # 0 /\ region.length # 0
Within(region) ==
    region.from >= ArenaBase /\ region.from + region.length <= ArenaBase + Capacity
Apart(a, b) == a.from + a.length <= b.from \/ b.from + b.length <= a.from

Regions ==
    [i \in DOMAIN pointers |-> Region(pointers[i], Len(arguments[i]))]
        \o (IF scratch = <<>> THEN <<>>
            ELSE <<Region(scratch[1].pointer, 4 * Len(request.tx.inputs)),
                   Region(scratch[2].pointer, Len(view))>>)

RegionsDisjoint ==
    phase \in {"place", "evaluate", "signed", "rejected"} =>
        \A i \in DOMAIN Regions : InUse(Regions[i]) =>
            /\ Within(Regions[i])
            /\ \A j \in DOMAIN Regions :
                  i # j /\ InUse(Regions[j]) => Apart(Regions[i], Regions[j])

(* What the vault's contract says, read from the transaction: the one      *)
(* output sweeps the one input to the destination that contract.rs         *)
(* committed to, for a fee within the cap and without dust.                *)
SweepMeant(r) ==
    LET payment == r.tx.outputs[1]
        max_fee == Number(r.instance.parameters, 0)
    IN  /\ r.instance.program = <<>> /\ r.witness = <<>>
        /\ Len(r.tx.inputs) = 1 /\ Len(r.tx.outputs) = 1
        /\ r.instance.parameters = VaultParameters(max_fee, payment.script)
        /\ payment.value >= 330
        /\ r.tx.inputs[1].value - payment.value \in 0..max_fee

(* The numbers the vault reads are below NumberRange.                      *)
InRange(r) ==
    LET parameters == r.instance.parameters
        numbers == [i \in {0, 8} |-> Number(parameters, i)]
    IN  /\ \A i \in 1..Len(r.tx.inputs) : r.tx.inputs[i].value < NumberRange
        /\ \A i \in 1..Len(r.tx.outputs) : r.tx.outputs[i].value < NumberRange
        /\ \A i \in {0, 8} : numbers[i] \in 0..(NumberRange - 1)
        /\ Len(parameters) >= 12 =>
              SubSeq(parameters, 1, 12) = U64(numbers[0]) \o U32(numbers[8])

(* The vault gets a signature exactly for what its contract means: the     *)
(* bytes that travel through the view, the arena and the decoder lose and  *)
(* confuse nothing, and no difference of amounts wraps.                    *)
VaultIsExact ==
    /\ phase \in {"signed", "rejected"} /\ Authentic
    /\ request.instance.guest = "vault" /\ InRange(request)
    => (phase = "signed" <=> SweepMeant(request))

(* What BIP-446 commits to, field by field.                                *)
TemplateFields(tx, index) ==
    [version |-> tx.version, lock_time |-> tx.lock_time, index |-> index,
     sequences |-> [i \in DOMAIN tx.inputs |-> tx.inputs[i].sequence],
     outputs |-> [i \in DOMAIN tx.outputs |-> <<tx.outputs[i].value, tx.outputs[i].script>>]]

(* The numbers a template commits to are below NumberRange.                *)
TemplateInRange(tx) ==
    /\ tx.version < NumberRange /\ tx.lock_time < NumberRange
    /\ Len(tx.inputs) < NumberRange
    /\ \A i \in 1..Len(tx.inputs) : tx.inputs[i].sequence < NumberRange
    /\ \A i \in 1..Len(tx.outputs) :
          tx.outputs[i].value < NumberRange /\ Len(tx.outputs[i].script) < NumberRange

ASSUME CommittedAssumption ==
    \A tx \in Committed : IsTransaction(tx) /\ TemplateInRange(tx)

(* The parameters are the client's hash of this very transaction, and the  *)
(* arena has room for the two scratch areas beside the arguments.          *)
TemplateMeant(r) ==
    /\ r.instance.program = <<>> /\ r.witness = <<>>
    /\ r.instance.parameters = TemplateHash(r.tx, r.tx.index)
    /\ DIGEST + 2 * ViewSize(1, r.tx) + 4 * Len(r.tx.inputs) <= Capacity

(* The template gets a signature exactly for what the client hashed, and   *)
(* whatever transaction that was, it has the fields of the one that is     *)
(* signed: view, decoder, compactSize and hash lose and confuse nothing.   *)
TemplateIsExact ==
    phase \in {"signed", "rejected"} /\ Authentic /\ request.instance.guest = "template" =>
        /\ phase = "signed" <=> TemplateMeant(request)
        /\ phase = "signed" /\ TemplateInRange(request.tx) =>
              \A tx \in Committed : \A index \in 0..(Len(tx.inputs) - 1) :
                 request.instance.parameters = TemplateHash(tx, index) =>
                    TemplateFields(tx, index) = TemplateFields(request.tx, request.tx.index)
=============================================================================
