---------------------------- MODULE MCArkSigner -----------------------------
(* A small instance of ArkSigner for TLC.                                  *)
EXTENDS ArkSigner, TLC

CONSTANTS r1, r2, w1, w2, w3, allowed, denied

(* Parameters that carry no envelope, one that allows status proofs and    *)
(* offboarding to one destination, and a truncated one.                    *)
PlainParameters ==
    [magic |-> FALSE, header |-> 0, length |-> 0, body |-> <<>>]
PolicyParameters ==
    Encode([version |-> 1, unknown_field |-> FALSE,
            lists |-> [v \in Variants |->
                         IF v = "offboard" THEN {allowed} ELSE {}],
            switches |-> [s \in Switches |-> s = "status"]], <<>>)
TruncatedParameters ==
    [magic |-> TRUE, header |-> 2, length |-> 0, body |-> <<>>]

SpendProgram ==
    [evaluator |-> "wasm_v1", parameters |-> PlainParameters, approves |-> {"m1"}]
PolicyProgram ==
    [evaluator |-> "wasm_v2", parameters |-> PolicyParameters, approves |-> {"m1"}]

Spend(message) ==
    [kind |-> "spend", context_valid |-> TRUE, psbt_valid |-> TRUE,
     sighash |-> message, finalized |-> FALSE, annex |-> FALSE]
Ownership(variant, outputs, message) ==
    [kind |-> "ownership", proof_message |-> message,
     proof |-> [variant |-> variant, outputs |-> outputs]]

Request(r, wallet, program, message, server, action) ==
    [protocol_ok |-> TRUE, intent_valid |-> TRUE, nonce_valid |-> TRUE,
     root |-> r, wallet |-> wallet, program |-> program,
     program_id |-> program, member |-> DeriveKey(r, program),
     message |-> message, server |-> server, action |-> action]

(* Accepted by a signer that holds r1 (not r2), and, in the second set, refused *)
(* by it: a destination outside the policy, a message the predicate does not *)
(* approve, a malformed envelope.                                            *)
MCRequests ==
    {Request(r1, w1, SpendProgram, "m1", TRUE, Spend("m1")),
     Request(r1, w2, PolicyProgram, "m2", FALSE,
             Ownership("offboard", <<allowed>>, "m2"))}
    \cup
    {Request(r1, w2, PolicyProgram, "m3", FALSE,
             Ownership("offboard", <<denied>>, "m3")),
     Request(r1, w1, SpendProgram, "m3", TRUE, Spend("m3")),
     Request(r1, w1, [SpendProgram EXCEPT !.parameters = TruncatedParameters],
             "m1", TRUE, Spend("m1"))}

(* A third wallet, so that the limit of the pool can be reached while no   *)
(* wallet is at its own.                                                   *)
MCLimitRequests == MCRequests \cup
    {Request(r1, w3, SpendProgram, "m1", FALSE, Spend("m1"))}

Form(protocol_ok, server_nonce, server_partial) ==
    [protocol_ok |-> protocol_ok, server_nonce |-> server_nonce,
     server_partial |-> server_partial]

(* Good for the session with the server and bad for the one without it,    *)
(* and the other way round.                                                *)
MCForms == {Form(TRUE, "usable", "valid"), Form(TRUE, "absent", "absent")}

(* With restarts: a second root with its own request, and more bad forms.  *)
MCRestartRequests == MCRequests \cup
    {Request(r2, w2, SpendProgram, "m1", FALSE, Spend("m1"))}
MCRestartForms == MCForms \cup
    {Form(FALSE, "usable", "valid"), Form(TRUE, "cancelling", "absent"),
     Form(TRUE, "malformed", "absent"), Form(TRUE, "usable", "wrong"),
     Form(TRUE, "usable", "malformed")}

MCSymmetry == Permutations(Calls) \cup Permutations(SessionIds)
=============================================================================
