--------------------------- MODULE MCPrepareRoute ---------------------------
(* A small instance of PrepareRoute for TLC.                               *)
EXTENDS PrepareRoute

CONSTANT r1

Checks == INSTANCE PrepareCheck

Program ==
    [evaluator |-> "wasm_v1", approves |-> {"m1"},
     parameters |-> [magic |-> FALSE, header |-> 0, length |-> 0, body |-> <<>>]]

(* A spend of the message; the predicate approves "m1" only.               *)
Spend(wallet, message) ==
    [protocol_ok |-> TRUE, intent_valid |-> TRUE, nonce_valid |-> TRUE,
     root |-> r1, wallet |-> wallet, program |-> Program,
     program_id |-> Program, member |-> Checks!DeriveKey(r1, Program),
     message |-> message, server |-> FALSE,
     action |-> [kind |-> "spend", context_valid |-> TRUE, psbt_valid |-> TRUE,
                 sighash |-> message, finalized |-> FALSE, annex |-> FALSE]]

MCRequests == {Spend(w, m) : w \in Wallets, m \in Messages}
MCForms == {[protocol_ok |-> TRUE, server_nonce |-> "absent", server_partial |-> "absent"]}
=============================================================================
