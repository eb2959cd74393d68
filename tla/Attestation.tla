---------------------------- MODULE Attestation -----------------------------
(***************************************************************************)
(* From an enclave to a client that trusts its identity: Nsm::open and     *)
(* Nsm::attest (src/src/nsm.rs), setup, the attestation route (app.rs),    *)
(* the advertised profile (deployment.rs), scripts/verify-attestation.py   *)
(* and load_identity of src/examples/support/mod.rs.                       *)
(*                                                                         *)
(* A program is the reviewed one or a foreign one, and runs as a           *)
(* production enclave, a debug enclave or outside one.  The reviewed       *)
(* program does what this repository says; a foreign one attests what it   *)
(* likes and asks KMS as any role.  The host carries the answers: it keeps *)
(* documents, replays them late and pairs them with other identities.      *)
(***************************************************************************)
EXTENDS RootDerivation, FiniteSets

CONSTANTS
    Zero,           \* the measurement of a debug enclave
    Denied,         \* what a refused caller of KMS has
    StrayKey,       \* the key of a foreign program
    EphemeralKey,   \* and of a local-dev one
    Processes,      \* programs that run at the same time
    Settings,       \* what setup is asked for
    Deployed,       \* the settings the verifier selected
    Nonces,         \* challenges of the verifier
    StrangeNonce,   \* a nonce somebody else uses
    NonceLength,    \* length of each nonce in bytes
    MaxAge,         \* a document may be this old (300 s)
    MaxAhead,       \* or this far in the future (5 s)
    Skew,           \* how far the NSM's clock is ahead of the verifier's
    MaxTime,        \* bound: the last clock value
    MaxChallenges,  \* bound: challenges of the verifier
    MaxDocuments    \* bound: documents kept by the host

VARIABLES
    process,        \* what runs: [program, mode, identity, root]
    clock,
    documents,      \* signed attestation documents the host has kept
    issued,         \* challenges the verifier has used, in order
    accepted,       \* the verifier's last accepted response
    published       \* history: [settings, root] of every identity of a reviewed enclave

vars == <<process, clock, documents, issued, accepted, published>>

None == <<>>
Started(program, mode) ==
    [program |-> program, mode |-> mode, identity |-> Absent, root |-> Absent]
Off == Started("none", "off")

(* PCR0, PCR1 and PCR2 of a running program; debug enclaves have zeros.    *)
Pcrs(program, mode) ==
    [i \in 0..2 |-> IF mode = "debug" THEN Zero ELSE <<program, i>>]
Pins == [i \in 0..2 |-> <<"reviewed", i>>]
(* build_policy takes a nonzero PCR0 and two different roles.               *)
ASSUME PolicyAssumption == PolicyBuilds(Pins[0], Zero)
ASSUME ClockAssumption == MaxAge \in Nat /\ MaxAhead \in Nat /\ Skew \in 0..MaxAhead

(* Settings are of their type; a challenge is used by the verifier only;   *)
(* what stands for nothing is neither settings nor a root.                 *)
Networks == {"bitcoin", "testnet", "testnet4", "signet", "regtest"}
ASSUME SettingsAssumption ==
    Settings \subseteq [key_id : Seq(STRING), blockhash : STRING, network : Networks]
ASSUME ValuesAssumption ==
    /\ StrangeNonce \notin Nonces
    /\ Deployed # Absent
    /\ \A s \in Settings : Derivable(s) => RootOf(s) \notin {Absent, Denied}

AttestedPcr0(program, mode) == IF mode = "host" THEN Absent ELSE Pcrs(program, mode)[0]

-----------------------------------------------------------------------------
(* program_profile.                                                        *)
(* Mutant: the session lifetime changes and the verifier does not.         *)
ProgramProfile_Drift ==
    [protocol |-> "SignProgramV1",
     inline |-> <<[id |-> "wasm", version |-> 1], [id |-> "wasm_v2", version |-> 2]>>,
     registered |-> <<[id |-> "pay_at_least", version |-> 1, name |-> "pay-at-least/v1"]>>,
     max_connections |-> 4, request_timeout_secs |-> 30,
     ark_signing |-> [protocol |-> "sapio-ark/nested-signing/1", max_pending_sessions |-> 256,
                      max_sessions_per_user |-> 8, session_lifetime_secs |-> 60,
                      native_ownership_policy |-> TRUE]]

ProgramProfile ==
    [protocol |-> "SignProgramV1",
     inline |-> <<[id |-> "wasm", version |-> 1], [id |-> "wasm_v2", version |-> 2]>>,
     registered |-> <<[id |-> "pay_at_least", version |-> 1, name |-> "pay-at-least/v1"]>>,
     max_connections |-> 4, request_timeout_secs |-> 30,
     ark_signing |-> [protocol |-> "sapio-ark/nested-signing/1", max_pending_sessions |-> 256,
                      max_sessions_per_user |-> 8, session_lifetime_secs |-> 120,
                      native_ownership_policy |-> TRUE]]

Identity(mode, settings, xpub, profile) ==
    [protocol |-> "sapio-tee/program-oracle/1", mode |-> mode, xpub |-> xpub,
     settings |-> settings, signing |-> profile]

Xpub(root) == [key |-> root.seed, network |-> root.network]

(* A foreign program claims the deployed settings and its own key.         *)
StrayXpub == [key |-> StrayKey, network |-> NetworkKind(Deployed.network)]
StrayIdentity == Identity("nitro", Deployed, StrayXpub, ProgramProfile)

-----------------------------------------------------------------------------
Init ==
    /\ process = [p \in Processes |-> Off]
    /\ clock = 0
    /\ documents = {}
    /\ issued = <<>>
    /\ accepted = None
    /\ published = {}

Tick ==
    /\ clock < MaxTime
    /\ clock' = clock + 1
    /\ UNCHANGED <<process, documents, issued, accepted, published>>

(* Nsm::open: no measured register is zero.  That each is locked and has   *)
(* 48 bytes is checked too; those of the external NSM always are.          *)
NsmOpens(program, mode) == \A i \in 0..2 : Pcrs(program, mode)[i] # Zero

Launch(p, program, mode) ==
    /\ process[p] = Off
    /\ program = "reviewed" => mode # "host" /\ NsmOpens(program, mode)
    /\ process' = [process EXCEPT ![p] = Started(program, mode)]
    /\ UNCHANGED <<clock, documents, issued, accepted, published>>

(* --local-dev: an ephemeral regtest root, no NSM.                         *)
LaunchLocalDev(p) ==
    /\ process[p] = Off
    /\ process' = [process EXCEPT ![p] =
          [program |-> "reviewed", mode |-> "local-dev", root |-> Absent,
           identity |-> Identity("local-dev", Absent,
                                 [key |-> EphemeralKey, network |-> NetworkKind("regtest")],
                                 ProgramProfile)]]
    /\ UNCHANGED <<clock, documents, issued, accepted, published>>

Stop(p) ==
    /\ process[p] # Off
    /\ process' = [process EXCEPT ![p] = Off]
    /\ UNCHANGED <<clock, documents, issued, accepted, published>>

(* setup: once per process, with settings that validate and a KMS response *)
(* that passes; the root it derives and the identity it publishes.         *)
Setup(p, settings) ==
    /\ process[p].program = "reviewed" /\ process[p].mode = "production"
    /\ process[p].identity = Absent
    /\ Derivable(settings)
    /\ KmsAllows(ParentRole, AttestedPcr0("reviewed", "production"), Pins[0])
    /\ \E response \in KmsResponses(settings, {s.key_id : s \in Settings}) :
          LET root == RootFromSecret(settings, response.secret)
          IN  /\ ResponseAccepted(settings, response)
              /\ process' = [process EXCEPT ![p] =
                    [program |-> "reviewed", mode |-> "production", root |-> root,
                     identity |-> Identity("nitro", settings, Xpub(root), ProgramProfile)]]
              /\ published' = published \cup {[settings |-> settings, root |-> root]}
    /\ UNCHANGED <<clock, documents, issued, accepted>>

(* A foreign program asks KMS for a deployed key's secret itself.          *)
ForeignDerive(p, settings, role) ==
    /\ process[p].program = "foreign" /\ process[p].root = Absent
    /\ Derivable(settings)
    /\ process' = [process EXCEPT ![p].root =
          IF KmsAllows(role, AttestedPcr0("foreign", process[p].mode), Pins[0])
          THEN RootOf(settings) ELSE Denied]
    /\ UNCHANGED <<clock, documents, issued, accepted, published>>

-----------------------------------------------------------------------------
NonceAdmitted(nonce) == NonceLength[nonce] \in 16..64

(* Besides what the NSM signs, a document records who made it and after    *)
(* how many challenges: history, which nobody reads but the properties.    *)
Document(p, nonce, identity) ==
    [pcrs |-> Pcrs(process[p].program, process[p].mode), nonce |-> nonce,
     user_data |-> identity, timestamp |-> clock + Skew, chain |-> "aws",
     maker |-> process[p], after |-> Len(issued)]

Keep(document) ==
    /\ Cardinality(documents) < MaxDocuments
    /\ documents' = documents \cup {document}
    /\ UNCHANGED <<process, clock, issued, accepted, published>>

(* The attestation route, asked with a nonce the asker knows.              *)
KnownNonces == {issued[i] : i \in DOMAIN issued} \cup {StrangeNonce}

Attest(p, nonce) ==
    /\ process[p].program = "reviewed" /\ process[p].mode = "production"
    /\ process[p].identity # Absent
    /\ NonceAdmitted(nonce)
    /\ Keep(Document(p, nonce, process[p].identity))

(* A foreign enclave attests a stray key; anybody signs what he likes with *)
(* a chain of his own.                                                     *)
ForeignAttest(p, nonce) ==
    /\ process[p].program = "foreign" /\ process[p].mode # "host"
    /\ Keep(Document(p, nonce, StrayIdentity))

Forge(nonce) ==
    Keep([pcrs |-> Pins, nonce |-> nonce, user_data |-> StrayIdentity, timestamp |-> clock,
          chain |-> "own", maker |-> Off, after |-> Len(issued)])

-----------------------------------------------------------------------------
(* validate_program_profile.                                               *)
Reserved == [wasm |-> 1, wasm_v2 |-> 2]

ValidateProgramProfile(profile) ==
    LET ids == [i \in DOMAIN profile.inline |-> profile.inline[i].id]
                 \o [i \in DOMAIN profile.registered |-> profile.registered[i].id]
    IN  /\ profile.protocol = "SignProgramV1"
        /\ profile.ark_signing.protocol = "sapio-ark/nested-signing/1"
        /\ profile.ark_signing.native_ownership_policy
        /\ profile.ark_signing.max_pending_sessions = 256
        /\ profile.ark_signing.max_sessions_per_user = 8
        /\ profile.ark_signing.session_lifetime_secs = 120
        /\ \A i, j \in DOMAIN ids : i # j => ids[i] # ids[j]
        /\ \A i \in DOMAIN profile.inline :
              /\ profile.inline[i].id \in DOMAIN Reserved
              /\ Reserved[profile.inline[i].id] = profile.inline[i].version
        /\ \A i \in DOMAIN profile.registered :
              /\ profile.registered[i].version \in {1, 2}
              /\ profile.registered[i].id \notin DOMAIN Reserved
              /\ profile.registered[i].name # ""
        /\ profile.max_connections > 0 /\ profile.request_timeout_secs > 0

(* validate_xpub: the version bytes of the claimed network's kind.         *)
ValidateXpub(xpub, network) == xpub.network = NetworkKind(network)

Timely(timestamp) == clock - MaxAge <= timestamp /\ timestamp <= clock + MaxAhead

(* Mutants: the challenge is not compared; the identity is not compared    *)
(* with what the document commits to.                                      *)
Bound_AnyNonce(document, identity, nonce) ==
    NonceAdmitted(nonce) /\ document.user_data = identity

Bound_AnyIdentity(document, identity, nonce) ==
    NonceAdmitted(nonce) /\ document.nonce = nonce

Bound(document, identity, nonce) ==
    /\ NonceAdmitted(nonce)
    /\ document.nonce = nonce
    /\ document.user_data = identity

Verify(document, identity, nonce) ==
    /\ document.chain = "aws"
    /\ \A i \in 0..2 : Pins[i] # Zero /\ document.pcrs[i] = Pins[i]
    /\ Timely(document.timestamp)
    /\ Bound(document, identity, nonce)
    /\ identity.protocol = "sapio-tee/program-oracle/1" /\ identity.mode = "nitro"
    /\ ValidateProgramProfile(identity.signing)
    /\ identity.signing = ProgramProfile
    /\ identity.settings = Deployed
    /\ ValidateXpub(identity.xpub, Deployed.network)

(* Mutant: the network is compared with the key's, which has only a kind.  *)
LoadIdentity_ExactNetwork(identity, allow_local_dev) ==
    /\ identity.protocol = "sapio-tee/program-oracle/1"
    /\ identity.signing = ProgramProfile
    /\ identity.mode = "nitro"
    /\ identity.settings # Absent
    /\ identity.xpub.network = identity.settings.network

(* load_identity of the example clients.                                   *)
LoadIdentity(identity, allow_local_dev) ==
    /\ identity.protocol = "sapio-tee/program-oracle/1"
    /\ identity.signing = ProgramProfile
    /\ \/ /\ identity.mode = "nitro"
          /\ identity.settings # Absent
          /\ identity.xpub.network = NetworkKind(identity.settings.network)
       \/ /\ identity.mode = "local-dev" /\ allow_local_dev
          /\ identity.settings = Absent
          /\ identity.xpub.network = NetworkKind("regtest")

-----------------------------------------------------------------------------
(* The verifier starts a check with a nonce; it may use one again.         *)
Challenge(nonce) ==
    /\ Len(issued) < MaxChallenges
    /\ issued' = Append(issued, nonce)
    /\ UNCHANGED <<process, clock, documents, accepted, published>>

(* The host answers the last challenge with any document it has and any    *)
(* identity it knows.                                                      *)
KnownIdentities ==
    {process[p].identity : p \in Processes} \cup {d.user_data : d \in documents}
        \cup {StrayIdentity}

Accept(document, identity) ==
    /\ Len(issued) > 0
    /\ identity # Absent
    /\ Verify(document, identity, issued[Len(issued)])
    /\ accepted' = <<[identity |-> identity, document |-> document, challenges |-> issued]>>
    /\ UNCHANGED <<process, clock, documents, issued, published>>

Next ==
    \/ Tick
    \/ \E p \in Processes :
          \/ \E program \in {"reviewed", "foreign"}, mode \in {"production", "debug", "host"} :
                Launch(p, program, mode)
          \/ LaunchLocalDev(p)
          \/ Stop(p)
          \/ \E settings \in Settings :
                \/ Setup(p, settings)
                \/ \E role \in Granted \cup {ParentRole, AdminRole} :
                      ForeignDerive(p, settings, role)
          \/ \E nonce \in KnownNonces : Attest(p, nonce) \/ ForeignAttest(p, nonce)
    \/ \E nonce \in KnownNonces : Forge(nonce)
    \/ \E nonce \in Nonces : Challenge(nonce)
    \/ \E document \in documents, identity \in KnownIdentities : Accept(document, identity)

Spec == Init /\ [][Next]_vars

-----------------------------------------------------------------------------
Response == accepted[1]

(* The identity a reviewed enclave publishes for settings.                 *)
TrueIdentity(settings) ==
    Identity("nitro", settings, Xpub(RootOf(settings)), ProgramProfile)

(* Whatever the host stores, mixes and relays, an accepted identity is the *)
(* one a production enclave of the reviewed image published, and its key   *)
(* is the one the deployed settings stand for: no response of another KMS  *)
(* key, no debug or foreign enclave and no other identity gets through.    *)
AcceptedIsGenuine ==
    accepted # None =>
        /\ Response.identity = TrueIdentity(Deployed)
        /\ [settings |-> Deployed, root |-> RootOf(Deployed)] \in published
        /\ Response.document.maker.program = "reviewed"
        /\ Response.document.maker.mode = "production"

(* The answer to a challenge used for the first time was made after it: a  *)
(* kept document of a process that may be gone cannot be replayed.         *)
AcceptedIsFresh ==
    accepted # None =>
        LET last == Len(Response.challenges)
        IN  (\A i \in 1..(last - 1) : Response.challenges[i] # Response.challenges[last])
               => Response.document.after >= last

(* Nothing honest is turned away: a document of a reviewed enclave with    *)
(* the deployed settings, made for the last challenge and not too old,     *)
(* passes, so the Rust profile, networks and limits are those the Python   *)
(* verifier expects.                                                       *)
HonestVerifies ==
    \A d \in documents :
        /\ d.maker.program = "reviewed" /\ d.maker.identity.settings = Deployed
        /\ issued # <<>> /\ d.nonce = issued[Len(issued)]
        /\ clock <= d.timestamp - Skew + MaxAge
        => Verify(d, d.maker.identity, issued[Len(issued)])

(* What the verifier prints, the example clients load.                     *)
VerifiedLoads == accepted # None => LoadIdentity(Response.identity, FALSE)

(* A root is a persistent identity: the same settings give the same root   *)
(* in every process and after every restart, different settings (also      *)
(* networks that share extended-key versions) give different ones.         *)
RootPerSettings ==
    \A a, b \in published : a.settings = b.settings <=> a.root = b.root

(* Only a production enclave of the measured image ever holds a root of    *)
(* the settings, whatever roles may derive by means other than the policy. *)
RootOnlyMeasured ==
    \A p \in Processes, s \in Settings :
        Derivable(s) /\ process[p].root = RootOf(s) =>
            process[p].program = "reviewed" /\ process[p].mode = "production"
=============================================================================
