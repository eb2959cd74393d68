----------------------------- MODULE Authorize ------------------------------
(***************************************************************************)
(* What one prepare does until it reserves a session, with the evaluation  *)
(* of a spend step by step: the checks of the request (PrepareCheck), the  *)
(* scan of the module (ModuleBudget), the byte limits and the guest's      *)
(* memory (GuestMemory), and the answer.                                   *)
(***************************************************************************)
EXTENDS PrepareCheck, ModuleBudget, GuestMemory, Functions

CONSTANT
    Programs    \* programs that somebody has committed to

ASSUME ProgramsAssumption == Programs \subseteq ProgramType

VARIABLES
    root,       \* the signer's root
    request,    \* the prepare request
    decision    \* "undecided", "evaluating", "prepared" or "refused"

vars == <<scanVars, memoryVars, root, request, decision>>

(* The version an evaluator runs as: inline v1 or v2, or that of its entry *)
(* in the registry.                                                        *)
VersionOf(evaluator) == IF evaluator = "wasm_v2" THEN 2 ELSE 1

(* One request to a signer with this root: r and q; the module its program *)
(* runs, the lengths of its four inputs and the module's initial memory.   *)
Start(r, q, code, inputs, size) ==
    /\ root = r /\ request = q
    /\ ScanInit(VersionOf(q.program.evaluator), code)
    /\ lengths = inputs /\ MemoryInit /\ Size = size
    /\ decision = "undecided"

Init ==
    \E r \in Roots, q \in RequestType, code \in Module,
       inputs \in [Inputs -> 0..(MaxInput + 1)], size \in 1..AddressRange :
       Start(r, q, code, inputs, size)

(* Lines 66-114: a refusal, an ownership proof, or a spend to evaluate.    *)
Check ==
    /\ decision = "undecided"
    /\ decision' = IF ~PrepareAdmitted(root, request) THEN "refused"
                   ELSE IF request.action.kind = "spend" THEN "evaluating" ELSE "prepared"
    /\ UNCHANGED <<scanVars, memoryVars, root, request>>

(* check_module_bytes and check_compilation_budget.                        *)
Scan ==
    /\ decision = "evaluating"
    /\ ScanNext
    /\ UNCHANGED <<memoryVars, root, request, decision>>

(* The guest is the program: called with the four inputs as the host holds *)
(* them it answers one exactly for what the program approves.  Called with *)
(* other bytes it may answer anything.                                     *)
GuestAnswers ==
    pc = "calling" /\ pc' = "approved" /\ InputsIntact
        => request.message \in request.program.approves

(* The module has passed the scan: limits, instantiation, allocation,      *)
(* copies and the call.                                                    *)
Run ==
    /\ decision = "evaluating"
    /\ verdict = "accept"
    /\ MemoryNext
    /\ GuestAnswers
    /\ UNCHANGED <<scanVars, root, request, decision>>

(* Every error and the answer zero refuse.                                 *)
Conclude ==
    /\ decision = "evaluating"
    /\ verdict = "reject" \/ (verdict = "accept" /\ pc \in Outcomes)
    /\ decision' = IF verdict = "accept" /\ pc = "approved" THEN "prepared" ELSE "refused"
    /\ UNCHANGED <<scanVars, memoryVars, root, request>>

Next == Check \/ Scan \/ Run \/ Conclude

Spec == Init /\ [][Next]_vars

-----------------------------------------------------------------------------
(* Every variable has the shape its comment describes.                     *)
TypeOK ==
    /\ root \in Roots /\ request \in RequestType
    /\ decision \in {"undecided", "evaluating", "prepared", "refused"}
    /\ version \in {1, 2} /\ module \in Module
    /\ next \in 1..(Len(module.payloads) + 1)
    /\ types \in Seq(FunctionType) /\ slots \in 0..MaxSlots
    /\ verdict \in {"scanning", "accept", "reject"}
    /\ MemoryTypeOK

(* `parse` inverts `encode` and accepts nothing else: parameters that      *)
(* start with MAGIC carry a policy exactly when some valid document and    *)
(* some inner bytes encode to them; every other such blob fails closed,    *)
(* and only blobs without MAGIC are legacy programs.                       *)
EnvelopeExact ==
    LET parameters == request.program.parameters
        parsed == Parse(parameters)
        documents == Encoded(parameters)
    IN  /\ parsed.ok /\ ~parsed.enveloped => ~parameters.magic
        /\ ~parsed.ok => documents = {} /\ decision # "prepared"
        /\ parsed.ok /\ parsed.enveloped =>
              \E d \in documents : parsed.policy = [lists |-> d.lists, switches |-> d.switches]

(* What a program's own committed rules say of an action, read from the    *)
(* document it committed to rather than from `parse` and `enforce`.  A     *)
(* program that carries an envelope its evaluator cannot tolerate, or one  *)
(* of an unknown version, consents to nothing.                             *)
Consents(program, action, message) ==
    LET document == program.parameters.body[2].members
    IN  /\ program.parameters.magic =>
              document.version = 1 /\ program.evaluator \in InlineEvaluators
        /\ IF action.kind = "spend"
           THEN /\ action.psbt_valid /\ ~action.annex /\ ~action.finalized
                /\ action.sighash = message /\ message \in program.approves
           ELSE /\ action.proof_message = message
                /\ program.parameters.magic =>
                     IF action.proof.variant \in Switches
                     THEN document.switches[action.proof.variant]
                     ELSE Range(action.proof.outputs) \subseteq document.lists[action.proof.variant]

(* A prepared request is one that the program whose key will sign consents *)
(* to: no mixture of one program's bytes, another's identity and a third's *)
(* key gets past the checks, and a spend is prepared only when the program *)
(* was run on its own inputs and approved, whatever its allocator did.     *)
SigningProgramConsents ==
    decision = "prepared" =>
        \A program \in Programs :
            request.member = DeriveKey(root, program) =>
                Consents(program, request.action, request.message)

(* "Every value-moving variant is default-deny: an empty list rejects that *)
(* variant" (native_policy.rs, line 36).                                   *)
EmptyListRejects ==
    decision = "prepared" /\ request.action.kind = "ownership"
        /\ request.action.proof.variant \in Variants
        /\ Parse(request.program.parameters).enveloped
        => Parse(request.program.parameters).policy.lists[request.action.proof.variant] # {}
=============================================================================
