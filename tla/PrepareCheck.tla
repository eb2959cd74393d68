---------------------------- MODULE PrepareCheck ----------------------------
(***************************************************************************)
(* What ArkSigner::prepare decides before it takes the session lock        *)
(* (src/src/ark_signer.rs, lines 65-114) and the host's half of            *)
(* evaluator::authorize.  It reads no shared state but the signer's root,  *)
(* which never changes in one process, so it is a pure function of the     *)
(* root and the request.                                                   *)
(*                                                                         *)
(* A message is the hash to be signed.  A program is its evaluator, its    *)
(* parameters and the set of messages its predicate approves; its identity *)
(* is the program itself, because ProgramInstance::id commits to all of    *)
(* them.                                                                   *)
(***************************************************************************)
EXTENDS NativePolicy

CONSTANTS
    Roots,          \* program roots an enclave may hold
    Wallets,        \* wallet keys: intent.members[0]
    Messages        \* signature hashes and native ownership messages

(* BIP32 derivation from a public root along program_derivation_path: one  *)
(* key for each root and program.                                          *)
DeriveKey(root, program) == <<root, program>>

InlineEvaluators == {"wasm_v1", "wasm_v2"}
Registry == {"pay_at_least"}

ProgramType == [evaluator : STRING, parameters : Parameters, approves : SUBSET Messages]

SpendAction == [kind : {"spend"}, context_valid : BOOLEAN, psbt_valid : BOOLEAN,
                sighash : Messages, finalized : BOOLEAN, annex : BOOLEAN]

(* An offboard names exactly one script.                                   *)
OwnershipProof ==
    {proof \in [variant : Variants \cup Switches, outputs : Seq(Destinations)] :
        proof.variant = "offboard" => Len(proof.outputs) = 1}

OwnershipAction ==
    [kind : {"ownership"}, proof_message : Messages, proof : OwnershipProof]

(* Nothing ties a request's program, the identity it states and the key of *)
(* its intent together.                                                    *)
RequestType ==
    [protocol_ok : BOOLEAN, intent_valid : BOOLEAN, nonce_valid : BOOLEAN, root : Roots,
     program : ProgramType, program_id : ProgramType, member : Roots \X ProgramType,
     message : Messages, action : SpendAction \cup OwnershipAction]

(* evaluator::authorize before it evaluates: the transaction is valid and  *)
(* hashes to the intent, the input is neither finalized nor annexed, and   *)
(* the evaluator is inline or registered.                                  *)
EvaluatorAdmits(program, spend, message) ==
    /\ spend.psbt_valid
    /\ spend.sighash = message
    /\ ~spend.finalized
    /\ ~spend.annex
    /\ program.evaluator \in InlineEvaluators \cup Registry

(* Mutant: the derived key is not compared with the intent's member.       *)
KeyMatches_NoMember(root, request) ==
    /\ request.root = root
    /\ request.program_id = request.program

(* The request names its program key twice: by identity and by the derived *)
(* key the intent was built on.  Both must agree with this signer's root.  *)
KeyMatches(root, request) ==
    /\ request.root = root
    /\ request.program_id = request.program
    /\ DeriveKey(request.root, request.program) = request.member

(* A policy envelope is parsed for every action and only an inline program *)
(* may carry one.                                                          *)
PolicyAdmits(program) ==
    LET parsed == Parse(program.parameters)
    IN  parsed.ok /\ (parsed.enveloped => program.evaluator \in InlineEvaluators)

ActionAdmitted(request) ==
    LET parsed == Parse(request.program.parameters)
        action == request.action
    IN  IF action.kind = "spend"
        THEN /\ action.context_valid
             /\ EvaluatorAdmits(request.program, action, request.message)
        ELSE /\ parsed.enveloped => Enforce(parsed.policy, action.proof)
             /\ action.proof_message = request.message

(* Lines 66-114 up to the evaluation, as one condition: every check must   *)
(* pass, in any order, because none of them changes state.                 *)
PrepareAdmitted(root, request) ==
    /\ request.protocol_ok
    /\ request.intent_valid
    /\ request.nonce_valid
    /\ KeyMatches(root, request)
    /\ PolicyAdmits(request.program)
    /\ ActionAdmitted(request)

(* With the answer of the predicate, which must be one: a trap, a limit or *)
(* another result is an error, which refuses like zero.  How the answer    *)
(* comes about is in Authorize.                                            *)
PrepareAuthorized(root, request) ==
    /\ PrepareAdmitted(root, request)
    /\ request.action.kind = "spend" => request.message \in request.program.approves
=============================================================================
