--------------------------- MODULE MCAttestation ----------------------------
(***************************************************************************)
(* Attestation with the deployed settings, some that differ from them only *)
(* in the network, some that differ in all, and two that setup refuses.    *)
(***************************************************************************)
EXTENDS Attestation, TLC

Key(region, resource) == <<"arn", "aws", "kms", region, "account", resource>>

With(key, blockhash, network) ==
    [key_id |-> key, blockhash |-> blockhash, network |-> network]

MCDeployed == With(Key("us-east-1", "key/1"), "h1", "testnet4")

MCSettings ==
    {MCDeployed,
     With(Key("us-east-1", "key/1"), "h1", "testnet"),
     With(Key("eu-west-1", "key/mrk-1"), "h2", "bitcoin"),
     With(Key("us-east-1", "alias/1"), "h1", "testnet4"),
     With(Key("us-east-1", "key/1"), "h0", "testnet4")}

MCDecompresses == {<<"h1", 1>>, <<"h1", 2>>, <<"h2", 0>>}

(* A challenge of each admitted length, and one byte too short.            *)
MCNonceLength == [n16 |-> 16, n64 |-> 64, n15 |-> 15, other |-> 16]

Symmetry == Permutations(Processes)
=============================================================================
