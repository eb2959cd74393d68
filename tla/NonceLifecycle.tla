--------------------------- MODULE NonceLifecycle ---------------------------
(***************************************************************************)
(* What the signer promises about secret nonces, without sessions, locks,  *)
(* clocks or processes: a nonce is generated once, and ends either in one  *)
(* signature or destroyed.  ark_signer.rs: "Sessions are never serialized, *)
(* restored, or retried; a lost response requires a fresh session."        *)
(***************************************************************************)
CONSTANT Nonces

VARIABLE status     \* what became of each nonce

Init == status = [n \in Nonces |-> "fresh"]

(* A reservation; the sessions it prunes lose their nonces.                *)
Reserve(n, pruned) ==
    /\ status[n] = "fresh"
    /\ \A m \in pruned : status[m] = "reserved"
    /\ status' = [m \in Nonces |-> CASE m = n -> "reserved"
                                     [] m # n /\ m \in pruned -> "destroyed"
                                     [] OTHER -> status[m]]

Sign(n) ==
    /\ status[n] = "reserved"
    /\ status' = [status EXCEPT ![n] = "signed"]

(* Cancellation, failure, expiry, restart.                                 *)
Destroy(S) ==
    /\ \A m \in S : status[m] = "reserved"
    /\ status' = [m \in Nonces |-> IF m \in S THEN "destroyed" ELSE status[m]]

Next ==
    \/ \E n \in Nonces, pruned \in SUBSET Nonces : Reserve(n, pruned)
    \/ \E n \in Nonces : Sign(n)
    \/ \E S \in SUBSET Nonces : Destroy(S)

Spec == Init /\ [][Next]_status
=============================================================================
