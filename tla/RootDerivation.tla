--------------------------- MODULE RootDerivation ---------------------------
(***************************************************************************)
(* How a signer's root follows from its settings: src/src/keys.rs, and the *)
(* policy src/deploy/key-policy.py puts on the KMS key.  A key ARN is the  *)
(* sequence of its fields.  SHA-256, ECDH and HKDF are injective: their    *)
(* results are records of what went in.                                    *)
(***************************************************************************)
EXTENDS Integers, Sequences

CONSTANTS
    Regions,        \* the regions of the measured allowlist
    Accounts,       \* twelve-digit accounts
    KeyResources,   \* key/<lowercase uuid> and key/mrk-<32 hex>
    ZeroHash,       \* BlockHash::all_zeros()
    Decompresses,   \* <<blockhash, counter>> whose hash is the x of a P-256 point
    MaxCounter,     \* u32::MAX
    ParentRole,     \* the instance's role, named in the policy
    AdminRole,      \* the key administrator's role
    Granted,        \* roles with a permission to derive from outside the policy
    Absent          \* a missing value: None, null, no attestation

(* key_region: a complete key ARN of a supported region.                   *)
ValidKey(arn) ==
    /\ Len(arn) = 6
    /\ SubSeq(arn, 1, 3) = <<"arn", "aws", "kms">>
    /\ arn[4] \in Regions
    /\ arn[5] \in Accounts
    /\ arn[6] \in KeyResources

Validate(settings) == ValidKey(settings.key_id) /\ settings.blockhash # ZeroHash

(* nums_point: the first counter whose hash decompresses.                  *)
Counters(blockhash) == {c \in 0..MaxCounter : <<blockhash, c>> \in Decompresses}

NumsPoint(blockhash) ==
    [blockhash |-> blockhash,
     counter |-> CHOOSE c \in Counters(blockhash) : \A d \in Counters(blockhash) : c <= d]

(* Mutant: the newer test network shares the tag of the older.             *)
NetworkTag_Shared(network) ==
    CASE network = "bitcoin" -> 0
      [] network = "testnet" -> 1
      [] network = "testnet4" -> 1
      [] network = "signet" -> 3
      [] network = "regtest" -> 4

NetworkTag(network) ==
    CASE network = "bitcoin" -> 0
      [] network = "testnet" -> 1
      [] network = "testnet4" -> 2
      [] network = "signet" -> 3
      [] network = "regtest" -> 4

(* The HKDF info of a root: domain, ARN with its length, hash and tag.     *)
RootInfo(settings) ==
    <<"sapio-tee/bip32-root/v1", Len(settings.key_id)>> \o settings.key_id
        \o <<settings.blockhash, NetworkTag(settings.network)>>

(* Bitcoin's extended keys tell mainnet from the test networks, no more.   *)
NetworkKind(network) == IF network = "bitcoin" THEN "main" ELSE "test"

RootFromSecret(settings, secret) ==
    [seed |-> [ikm |-> secret, info |-> RootInfo(settings)],
     network |-> NetworkKind(settings.network)]

-----------------------------------------------------------------------------
SharedSecret(key_id, point) == [key |-> key_id, point |-> point]

(* A response of DeriveSharedSecret through the proxy.  Besides the right  *)
(* one: that of another key, one without a secret, of another algorithm,   *)
(* not decrypted by the proxy, or of the wrong length.                     *)
KmsResponse(key_id, point) ==
    [key_id |-> key_id, secret |-> SharedSecret(key_id, point), length |-> 32,
     algorithm |-> "ECDH", ciphertext |-> FALSE]

KmsResponses(settings, keys) ==
    LET point == NumsPoint(settings.blockhash)
        right == KmsResponse(settings.key_id, point)
    IN  {KmsResponse(k, point) : k \in keys}
        \cup {right, [right EXCEPT !.secret = Absent], [right EXCEPT !.algorithm = "other"],
              [right EXCEPT !.ciphertext = TRUE], [right EXCEPT !.length = 31]}

(* derive_root: the checks of the settings, of the response and of the     *)
(* secret.  Up to three attempts ask for the same, so only the response    *)
(* that is used matters.                                                   *)
Derivable(settings) == Validate(settings) /\ Counters(settings.blockhash) # {}

ResponseAccepted(settings, response) ==
    /\ response.secret # Absent
    /\ response.key_id = settings.key_id
    /\ response.algorithm = "ECDH"
    /\ ~response.ciphertext
    /\ response.length = 32

(* The root these settings stand for.                                      *)
RootOf(settings) ==
    RootFromSecret(settings, SharedSecret(settings.key_id, NumsPoint(settings.blockhash)))

-----------------------------------------------------------------------------
(* The statements of the key policy about kms:DeriveSharedSecret.  `pcr0`  *)
(* is the PCR0 of the request's attestation, Absent without one; a         *)
(* negated condition holds for an absent value.                            *)
PolicyBuilds(pcr0, zero) == AdminRole # ParentRole /\ pcr0 # zero

AllowsParent(principal, pcr0, measured) == principal = ParentRole /\ pcr0 = measured
DeniesUnattested(pcr0) == pcr0 = Absent
DeniesUnmeasured(pcr0, measured) == pcr0 # measured

(* Mutant: only requests without an attestation are denied.                *)
KmsAllows_NullOnly(principal, pcr0, measured) ==
    /\ AllowsParent(principal, pcr0, measured) \/ principal \in Granted
    /\ ~DeniesUnattested(pcr0)

(* An explicit Deny beats every Allow, also one from outside the policy.   *)
KmsAllows(principal, pcr0, measured) ==
    /\ AllowsParent(principal, pcr0, measured) \/ principal \in Granted
    /\ ~DeniesUnattested(pcr0)
    /\ ~DeniesUnmeasured(pcr0, measured)
=============================================================================
