-------------------------- MODULE AttestationProofs -------------------------
(***************************************************************************)
(* Proofs about Attestation: what an accepted response says is true and    *)
(* new, and roots stay with the measured program, for any number of        *)
(* processes, settings, challenges and documents.                          *)
(***************************************************************************)
EXTENDS Attestation, SequenceTheorems, TLAPS

Reviewed(state) == state.program = "reviewed" /\ state.mode = "production"

(* The identity of a reviewed enclave, published for some settings.        *)
Genuine(identity) ==
    \E s \in Settings : /\ identity = TrueIdentity(s)
                        /\ [settings |-> s, root |-> RootOf(s)] \in published

(* Every process is a record with four fields.                             *)
ShapeInv ==
    /\ process = [p \in Processes |-> process[p]]
    /\ \A p \in Processes :
          process[p] = [program |-> process[p].program, mode |-> process[p].mode,
                        identity |-> process[p].identity, root |-> process[p].root]

ProcessInv ==
    \A p \in Processes :
        /\ Reviewed(process[p]) /\ process[p].identity # Absent => Genuine(process[p].identity)
        /\ Reviewed(process[p]) \/ process[p].root \in {Absent, Denied}

PublishedInv ==
    \A a \in published : \E s \in Settings : a = [settings |-> s, root |-> RootOf(s)]

(* A document with the right measurements has a reviewed maker; its nonce  *)
(* was the verifier's when it was made, or is none of the verifier's.      *)
Measured(d) == d.chain = "aws" /\ \A i \in 0..2 : d.pcrs[i] = Pins[i]

DocumentInv ==
    \A d \in documents :
        /\ Measured(d) => Reviewed(d.maker) /\ Genuine(d.user_data)
        /\ d.after \in 0..Len(issued)
        /\ d.nonce = StrangeNonce \/ \E i \in 1..d.after : issued[i] = d.nonce

AttestationInv ==
    /\ ShapeInv /\ ProcessInv /\ PublishedInv /\ DocumentInv
    /\ issued \in Seq(Nonces)
    /\ AcceptedIsGenuine /\ AcceptedIsFresh

-----------------------------------------------------------------------------
(* The response derive_root accepts is the one of the requested key.       *)
LEMMA AcceptedSecret ==
    ASSUME NEW settings, NEW keys, NEW response \in KmsResponses(settings, keys),
           ResponseAccepted(settings, response)
    PROVE  RootFromSecret(settings, response.secret) = RootOf(settings)
<1>1. response.secret = SharedSecret(settings.key_id, NumsPoint(settings.blockhash))
    BY DEF KmsResponses, KmsResponse, ResponseAccepted
<1> QED
    BY <1>1 DEF RootOf

(* KMS answers no program but the measured one.                            *)
LEMMA KmsRefuses ==
    ASSUME NEW mode, NEW role
    PROVE  ~KmsAllows(role, AttestedPcr0("foreign", mode), Pins[0])
<1>1. Pins[0] = <<"reviewed", 0>> /\ Pins[0] # Zero
    BY PolicyAssumption DEF Pins, PolicyBuilds
<1>2. AttestedPcr0("foreign", mode) \in {Absent, Zero, <<"foreign", 0>>}
    BY DEF AttestedPcr0, Pcrs
<1> QED
    BY <1>1, <1>2 DEF KmsAllows, DeniesUnattested, DeniesUnmeasured

(* A foreign program is measured as what it is.                            *)
LEMMA ForeignPcrs ==
    ASSUME NEW mode
    PROVE  Pcrs("foreign", mode)[0] # Pins[0]
BY PolicyAssumption DEF Pcrs, Pins, PolicyBuilds

(* Identities with different settings differ.                              *)
LEMMA IdentitySettings ==
    ASSUME NEW s
    PROVE  TrueIdentity(s).settings = s
BY DEF TrueIdentity, Identity

(* What is genuine stays genuine as more is published.                     *)
LEMMA GenuineStays ==
    ASSUME NEW identity, Genuine(identity), published \subseteq published'
    PROVE  Genuine(identity)'
BY DEF Genuine

(* A step that only changes one process, to a state that is not a reviewed *)
(* enclave with an identity.                                               *)
LEMMA ProcessStep ==
    ASSUME AttestationInv, NEW p \in Processes, NEW state,
           state = [program |-> state.program, mode |-> state.mode,
                    identity |-> state.identity, root |-> state.root],
           ~Reviewed(state) \/ state.identity = Absent,
           Reviewed(state) \/ state.root \in {Absent, Denied},
           process' = [process EXCEPT ![p] = state],
           UNCHANGED <<documents, issued, accepted, published>>
    PROVE  AttestationInv'
<1>1. \A q \in Processes : process'[q] = IF q = p THEN state ELSE process[q]
    BY DEF AttestationInv, ShapeInv
<1>2. ShapeInv'
    BY <1>1 DEF AttestationInv, ShapeInv
<1>3. ProcessInv'
    BY <1>1 DEF AttestationInv, ProcessInv, Genuine
<1>4. PublishedInv' /\ DocumentInv' /\ issued' \in Seq(Nonces)
    BY DEF AttestationInv, PublishedInv, DocumentInv, Genuine
<1>5. AcceptedIsGenuine' /\ AcceptedIsFresh'
    BY DEF AttestationInv, AcceptedIsGenuine, AcceptedIsFresh, Response
<1> QED
    BY <1>2, <1>3, <1>4, <1>5 DEF AttestationInv

(* A step that only adds a document.                                       *)
LEMMA KeepStep ==
    ASSUME AttestationInv, NEW d, Keep(d),
           Measured(d) => Reviewed(d.maker) /\ Genuine(d.user_data),
           d.after = Len(issued), d.nonce \in KnownNonces
    PROVE  AttestationInv'
<1>0. documents' = documents \cup {d} /\ UNCHANGED <<process, issued, accepted, published>>
    BY DEF Keep
<1>1. ShapeInv' /\ ProcessInv' /\ PublishedInv' /\ issued' \in Seq(Nonces)
    BY <1>0 DEF AttestationInv, ShapeInv, ProcessInv, PublishedInv, Genuine
<1>2. d.nonce = StrangeNonce \/ \E i \in 1..d.after : issued[i] = d.nonce
    BY DEF KnownNonces, AttestationInv
<1>3. d.after \in 0..Len(issued)
    BY DEF AttestationInv
<1>4. DocumentInv'
    BY <1>0, <1>2, <1>3 DEF AttestationInv, DocumentInv, Genuine
<1>5. AcceptedIsGenuine' /\ AcceptedIsFresh'
    BY <1>0 DEF AttestationInv, AcceptedIsGenuine, AcceptedIsFresh, Response
<1> QED
    BY <1>1, <1>4, <1>5 DEF AttestationInv

-----------------------------------------------------------------------------
(* Every step preserves the invariant.                                     *)
LEMMA AttestationStep ==
    ASSUME AttestationInv, [Next]_vars
    PROVE  AttestationInv'
<1>1. CASE Tick \/ UNCHANGED vars
    BY <1>1 DEF Tick, vars, AttestationInv, ShapeInv, ProcessInv, PublishedInv, DocumentInv,
                Genuine, AcceptedIsGenuine, AcceptedIsFresh, Response
<1>2. ASSUME NEW p \in Processes, NEW program, NEW mode, Launch(p, program, mode)
      PROVE  AttestationInv'
  <2> DEFINE state == Started(program, mode)
  <2>1. state = [program |-> program, mode |-> mode, identity |-> Absent, root |-> Absent]
      BY DEF Started
  <2>2. process' = [process EXCEPT ![p] = state] /\ UNCHANGED <<documents, issued, accepted, published>>
      BY <1>2 DEF Launch
  <2> HIDE DEF state
  <2> QED
      BY <2>1, <2>2, ProcessStep
<1>3. ASSUME NEW p \in Processes, LaunchLocalDev(p)
      PROVE  AttestationInv'
  <2> DEFINE state == [program |-> "reviewed", mode |-> "local-dev", root |-> Absent,
                       identity |-> Identity("local-dev", Absent,
                                             [key |-> EphemeralKey, network |-> NetworkKind("regtest")],
                                             ProgramProfile)]
  <2>1. /\ state = [program |-> state.program, mode |-> state.mode,
                    identity |-> state.identity, root |-> state.root]
        /\ ~Reviewed(state) /\ state.root = Absent
      BY DEF Reviewed
  <2>2. process' = [process EXCEPT ![p] = state] /\ UNCHANGED <<documents, issued, accepted, published>>
      BY <1>3 DEF LaunchLocalDev
  <2> HIDE DEF state
  <2> QED
      BY <2>1, <2>2, ProcessStep
<1>4. ASSUME NEW p \in Processes, Stop(p)
      PROVE  AttestationInv'
  <2>1. Off = [program |-> Off.program, mode |-> Off.mode,
               identity |-> Off.identity, root |-> Off.root]
        /\ Off.identity = Absent /\ Off.root = Absent
      BY DEF Off, Started
  <2> QED
      BY <1>4, <2>1, ProcessStep DEF Stop
<1>5. ASSUME NEW p \in Processes, NEW settings \in Settings, Setup(p, settings)
      PROVE  AttestationInv'
  <2> DEFINE entry == [settings |-> settings, root |-> RootOf(settings)]
  <2>1. /\ Reviewed(process[p])
        /\ process' = [process EXCEPT ![p] =
              [program |-> "reviewed", mode |-> "production", root |-> RootOf(settings),
               identity |-> TrueIdentity(settings)]]
        /\ published' = published \cup {entry}
        /\ UNCHANGED <<documents, issued, accepted>>
      BY <1>5, AcceptedSecret DEF Setup, Reviewed, TrueIdentity
  <2>2. /\ process'[p] = [program |-> "reviewed", mode |-> "production",
                          identity |-> TrueIdentity(settings), root |-> RootOf(settings)]
        /\ \A q \in Processes \ {p} : process'[q] = process[q]
        /\ process' = [q \in Processes |-> process'[q]]
      BY <2>1 DEF AttestationInv, ShapeInv, Reviewed
  <2>3. ShapeInv'
      BY <2>2 DEF AttestationInv, ShapeInv
  <2>4. entry \in published' /\ published \subseteq published'
      BY <2>1
  <2>5. ProcessInv'
    <3>1. ASSUME NEW q \in Processes
          PROVE  /\ Reviewed(process'[q]) /\ process'[q].identity # Absent
                       => Genuine(process[q].identity)'
                 /\ Reviewed(process'[q]) \/ process'[q].root \in {Absent, Denied}
      <4>1. CASE q = p
          BY <2>2, <2>4, <4>1 DEF Genuine, Reviewed
      <4>2. CASE q # p
          BY <2>2, <2>4, <4>2 DEF AttestationInv, ProcessInv, Genuine
      <4> QED
          BY <4>1, <4>2
    <3> QED
        BY <3>1 DEF ProcessInv, Reviewed
  <2>6. PublishedInv'
    <3>1. ASSUME NEW a \in published'
          PROVE  \E s \in Settings : a = [settings |-> s, root |-> RootOf(s)]
      <4>1. CASE a \in published
          BY <4>1 DEF AttestationInv, PublishedInv
      <4>2. CASE a = entry
          BY <4>2
      <4> QED
          BY <2>1, <4>1, <4>2
    <3> QED
        BY <3>1 DEF PublishedInv
  <2>7. DocumentInv' /\ issued' \in Seq(Nonces)
      BY <2>1, <2>4, GenuineStays DEF AttestationInv, DocumentInv, Genuine
  <2>8. AcceptedIsGenuine' /\ AcceptedIsFresh'
      BY <2>1, <2>4 DEF AttestationInv, AcceptedIsGenuine, AcceptedIsFresh, Response
  <2> QED
      BY <2>3, <2>5, <2>6, <2>7, <2>8 DEF AttestationInv
<1>6. ASSUME NEW p \in Processes, NEW settings, NEW role, ForeignDerive(p, settings, role)
      PROVE  AttestationInv'
  <2> DEFINE state == [process[p] EXCEPT !.root = Denied]
  <2>1. process' = [process EXCEPT ![p] = state] /\ UNCHANGED <<documents, issued, accepted, published>>
      BY <1>6, KmsRefuses DEF ForeignDerive, AttestationInv, ShapeInv
  <2>2. /\ process[p].program = "foreign"
        /\ process[p] = [program |-> process[p].program, mode |-> process[p].mode,
                         identity |-> process[p].identity, root |-> process[p].root]
      BY <1>6 DEF ForeignDerive, AttestationInv, ShapeInv
  <2>3. /\ state = [program |-> state.program, mode |-> state.mode,
                    identity |-> state.identity, root |-> state.root]
        /\ ~Reviewed(state) /\ state.root = Denied
      BY <2>2 DEF Reviewed
  <2> HIDE DEF state
  <2> QED
      BY <2>1, <2>3, ProcessStep
<1>7. ASSUME NEW p \in Processes, NEW nonce \in KnownNonces, Attest(p, nonce)
      PROVE  AttestationInv'
  <2> DEFINE d == Document(p, nonce, process[p].identity)
  <2>1. d.maker = process[p] /\ d.user_data = process[p].identity
        /\ d.after = Len(issued) /\ d.nonce = nonce
      BY DEF Document
  <2>2. Reviewed(process[p]) /\ Genuine(process[p].identity) /\ Keep(d)
      BY <1>7 DEF Attest, Reviewed, AttestationInv, ProcessInv
  <2> HIDE DEF d
  <2> QED
      BY <2>1, <2>2, KeepStep
<1>8. ASSUME NEW p \in Processes, NEW nonce \in KnownNonces, ForeignAttest(p, nonce)
      PROVE  AttestationInv'
  <2> DEFINE d == Document(p, nonce, StrayIdentity)
  <2>1. d.pcrs = Pcrs("foreign", process[p].mode) /\ d.after = Len(issued) /\ d.nonce = nonce
      BY <1>8 DEF Document, ForeignAttest
  <2>2. ~Measured(d) /\ Keep(d)
      BY <1>8, <2>1, ForeignPcrs DEF ForeignAttest, Measured
  <2> HIDE DEF d
  <2> QED
      BY <2>1, <2>2, KeepStep
<1>9. ASSUME NEW nonce \in KnownNonces, Forge(nonce)
      PROVE  AttestationInv'
  <2> DEFINE d == [pcrs |-> Pins, nonce |-> nonce, user_data |-> StrayIdentity,
                   timestamp |-> clock, chain |-> "own", maker |-> Off, after |-> Len(issued)]
  <2>1. ~Measured(d) /\ d.after = Len(issued) /\ d.nonce = nonce /\ Keep(d)
      BY <1>9 DEF Forge, Measured
  <2> HIDE DEF d
  <2> QED
      BY <2>1, KeepStep
<1>10. ASSUME NEW nonce \in Nonces, Challenge(nonce)
       PROVE  AttestationInv'
  <2>1. issued' = Append(issued, nonce) /\ UNCHANGED <<process, documents, accepted, published>>
      BY <1>10 DEF Challenge
  <2>2. /\ issued' \in Seq(Nonces) /\ Len(issued) \in Nat /\ Len(issued') = Len(issued) + 1
        /\ \A i \in 1..Len(issued) : issued'[i] = issued[i]
      BY <2>1 DEF AttestationInv
  <2>3. ShapeInv' /\ ProcessInv' /\ PublishedInv'
      BY <2>1 DEF AttestationInv, ShapeInv, ProcessInv, PublishedInv, Genuine
  <2>4. ASSUME NEW d \in documents
        PROVE  /\ Measured(d) => Reviewed(d.maker) /\ Genuine(d.user_data)'
               /\ d.after \in 0..Len(issued')
               /\ d.nonce = StrangeNonce \/ \E i \in 1..d.after : issued'[i] = d.nonce
    <3>1. d.after \in 0..Len(issued)
        BY DEF AttestationInv, DocumentInv
    <3>2. d.nonce = StrangeNonce \/ \E i \in 1..d.after : issued[i] = d.nonce
        BY DEF AttestationInv, DocumentInv
    <3> QED
        BY <2>1, <2>2, <3>1, <3>2 DEF AttestationInv, DocumentInv, Genuine
  <2>5. DocumentInv'
      BY <2>1, <2>4 DEF DocumentInv, Measured
  <2>6. AcceptedIsGenuine' /\ AcceptedIsFresh'
      BY <2>1 DEF AttestationInv, AcceptedIsGenuine, AcceptedIsFresh, Response
  <2> QED
      BY <2>2, <2>3, <2>5, <2>6 DEF AttestationInv
<1>11. ASSUME NEW d \in documents, NEW identity, Accept(d, identity)
       PROVE  AttestationInv'
  <2> DEFINE response == [identity |-> identity, document |-> d, challenges |-> issued]
  <2>1. /\ Len(issued) > 0 /\ Verify(d, identity, issued[Len(issued)])
        /\ accepted' = <<response>> /\ UNCHANGED <<process, documents, issued, published>>
      BY <1>11 DEF Accept
  <2>2. /\ Measured(d) /\ d.nonce = issued[Len(issued)] /\ d.user_data = identity
        /\ identity.settings = Deployed
      BY <2>1 DEF Verify, Bound, Measured
  <2>3. Response' = response
      BY <2>1 DEF Response
  <2>4. AcceptedIsGenuine'
    <3>1. Reviewed(d.maker) /\ Genuine(identity)
        BY <2>2 DEF AttestationInv, DocumentInv
    <3>2. /\ identity = TrueIdentity(Deployed)
          /\ [settings |-> Deployed, root |-> RootOf(Deployed)] \in published
        BY <2>2, <3>1, IdentitySettings DEF Genuine
    <3> QED
        BY <2>1, <2>3, <3>1, <3>2 DEF AcceptedIsGenuine, Reviewed
  <2>5. AcceptedIsFresh'
    <3>1. issued[Len(issued)] \in Nonces /\ Len(issued) \in Nat /\ d.after \in Nat
        BY <2>1 DEF AttestationInv, DocumentInv
    <3>2. PICK i \in 1..d.after : issued[i] = issued[Len(issued)]
        BY <2>2, <3>1, ValuesAssumption DEF AttestationInv, DocumentInv
    <3>3. d.after <= Len(issued)
        BY DEF AttestationInv, DocumentInv
    <3>4. (\A j \in 1..(Len(issued) - 1) : issued[j] # issued[Len(issued)]) => d.after >= Len(issued)
        BY <3>1, <3>2, <3>3
    <3> QED
        BY <2>3, <3>4 DEF AcceptedIsFresh
  <2>6. ShapeInv' /\ ProcessInv' /\ PublishedInv' /\ DocumentInv' /\ issued' \in Seq(Nonces)
      BY <2>1 DEF AttestationInv, ShapeInv, ProcessInv, PublishedInv, DocumentInv, Genuine
  <2> QED
      BY <2>4, <2>5, <2>6 DEF AttestationInv
<1> QED
    BY <1>1, <1>2, <1>3, <1>4, <1>5, <1>6, <1>7, <1>8, <1>9, <1>10, <1>11 DEF Next

(* At the start nothing runs and nothing has been said.                    *)
LEMMA AttestationStart ==
    ASSUME Init
    PROVE  AttestationInv
<1>1. \A p \in Processes : process[p] = Off
    BY DEF Init
<1>2. ShapeInv /\ ProcessInv
    BY <1>1 DEF Init, ShapeInv, ProcessInv, Off, Started, Reviewed
<1> QED
    BY <1>2 DEF Init, AttestationInv, PublishedInv, DocumentInv, AcceptedIsGenuine, AcceptedIsFresh

(* So the invariant always holds.                                          *)
LEMMA AttestationAlways == Spec => []AttestationInv
<1> QED
    BY AttestationStart, AttestationStep, PTL DEF Spec

-----------------------------------------------------------------------------
(* verify accepts only the identity a reviewed production enclave          *)
(* published for the deployed settings, with the root they stand for.      *)
THEOREM AcceptedGenuine == Spec => []AcceptedIsGenuine
<1>1. AttestationInv => AcceptedIsGenuine
    BY DEF AttestationInv
<1> QED
    BY <1>1, AttestationAlways, PTL

(* verify accepts, for a new challenge, only what was made after it.       *)
THEOREM AcceptedFresh == Spec => []AcceptedIsFresh
<1>1. AttestationInv => AcceptedIsFresh
    BY DEF AttestationInv
<1> QED
    BY <1>1, AttestationAlways, PTL

(* load_identity takes what verify has printed, on every network.          *)
THEOREM AcceptedLoads == Spec => []VerifiedLoads
<1>1. LoadIdentity(TrueIdentity(Deployed), FALSE)
    BY ValuesAssumption DEF TrueIdentity, Identity, LoadIdentity, Xpub, RootOf, RootFromSecret
<1>2. AttestationInv => VerifiedLoads
    BY <1>1 DEF AttestationInv, AcceptedIsGenuine, VerifiedLoads
<1> QED
    BY <1>2, AttestationAlways, PTL

(* The key policy keeps every root with the measured production enclave,   *)
(* whatever roles are granted and whatever else is attested.               *)
THEOREM RootsStayMeasured == Spec => []RootOnlyMeasured
<1>1. AttestationInv => RootOnlyMeasured
    BY ValuesAssumption DEF AttestationInv, ProcessInv, Reviewed, RootOnlyMeasured
<1> QED
    BY <1>1, AttestationAlways, PTL

(* Different networks have different tags.                                 *)
LEMMA TagsDiffer ==
    ASSUME NEW m \in Networks, NEW n \in Networks, NetworkTag(m) = NetworkTag(n)
    PROVE  m = n
BY DEF Networks, NetworkTag

(* Where the last element of a concatenation is.                           *)
LEMMA LastOfThree ==
    ASSUME NEW S, NEW a \in Seq(S), NEW b \in Seq(S), NEW c \in Seq(S), Len(a) = 2, Len(c) = 2
    PROVE  ((a \o b) \o c)[Len(b) + 4] = c[2]
<1>1. Len(b) \in Nat
    OBVIOUS
<1>2. a \o b \in Seq(S) /\ Len(a \o b) = 2 + Len(b)
  <2>1. a \o b \in Seq(S)
      BY ConcatProperties, Zenon
  <2>2. Len(a \o b) = Len(a) + Len(b)
      BY ConcatProperties, Zenon
  <2> QED
      BY <2>1, <2>2
<1>3. \A i \in 1..(Len(a \o b) + Len(c)) :
        ((a \o b) \o c)[i] = IF i <= Len(a \o b) THEN (a \o b)[i] ELSE c[i - Len(a \o b)]
    BY <1>2, ConcatProperties
<1> QED
    BY <1>1, <1>2, <1>3

(* The last element of the HKDF info is the tag of the network.            *)
LEMMA InfoEndsWithTag ==
    ASSUME NEW s \in Settings
    PROVE  RootInfo(s)[Len(s.key_id) + 4] = NetworkTag(s.network)
<1> DEFINE head == <<"sapio-tee/bip32-root/v1", Len(s.key_id)>>
           tail == <<s.blockhash, NetworkTag(s.network)>>
<1>1. s.key_id \in Seq(STRING) /\ Len(s.key_id) \in Nat
    BY SettingsAssumption
<1>2. RootInfo(s) = (head \o s.key_id) \o tail
    BY DEF RootInfo
<1> DEFINE any == STRING \cup {"sapio-tee/bip32-root/v1", Len(s.key_id),
                               s.blockhash, NetworkTag(s.network)}
<1>3. head \in Seq(any) /\ Len(head) = 2
    OBVIOUS
<1>4. tail \in Seq(any) /\ Len(tail) = 2 /\ tail[2] = NetworkTag(s.network)
    OBVIOUS
<1>5. STRING \subseteq any
    OBVIOUS
<1> HIDE DEF head, tail, any
<1>6. s.key_id \in Seq(any)
    BY <1>1, <1>5, SeqMonotonic
<1>7. ((head \o s.key_id) \o tail)[Len(s.key_id) + 4] = tail[2]
    BY <1>3, <1>4, <1>6, LastOfThree
<1> QED
    BY <1>2, <1>4, <1>7

(* Different settings stand for different roots.                           *)
LEMMA RootsDiffer ==
    ASSUME NEW s \in Settings, NEW t \in Settings, RootOf(s) = RootOf(t)
    PROVE  s = t
<1>1. /\ s \in [key_id : Seq(STRING), blockhash : STRING, network : Networks]
      /\ t \in [key_id : Seq(STRING), blockhash : STRING, network : Networks]
    BY SettingsAssumption
<1>2. RootOf(s).seed.ikm = RootOf(t).seed.ikm /\ RootOf(s).seed.info = RootOf(t).seed.info
    OBVIOUS
<1>3. s.key_id = t.key_id /\ s.blockhash = t.blockhash
    BY <1>2 DEF RootOf, RootFromSecret, SharedSecret, NumsPoint
<1>4. RootInfo(s) = RootInfo(t)
    BY <1>2 DEF RootOf, RootFromSecret
<1>5. NetworkTag(s.network) = NetworkTag(t.network)
    BY <1>3, <1>4, InfoEndsWithTag
<1>6. s.network = t.network
    BY <1>1, <1>5, TagsDiffer
<1> QED
    BY <1>1, <1>3, <1>6

(* derive_root gives one root for the same settings in every process and   *)
(* after every restart, and never the same one for different settings.     *)
THEOREM RootsPerSettings == Spec => []RootPerSettings
<1>1. AttestationInv => RootPerSettings
    BY RootsDiffer DEF AttestationInv, PublishedInv, RootPerSettings
<1> QED
    BY <1>1, AttestationAlways, PTL

-----------------------------------------------------------------------------
(* The inductive invariant of HonestVerifies: a document whose maker is    *)
(* the reviewed program says what that program, its NSM and its clock say. *)
HonestDocument(d) ==
    /\ NsmOpens("reviewed", "production") /\ d.pcrs = Pcrs("reviewed", "production")
    /\ d.chain = "aws" /\ NonceAdmitted(d.nonce)
    /\ d.user_data = d.maker.identity
    /\ \E s \in Settings : d.user_data = TrueIdentity(s)
    /\ d.timestamp - Skew \in 0..clock /\ d.timestamp \in Int

HonestInv ==
    /\ clock \in Nat
    /\ \A p \in Processes : Reviewed(process[p]) => NsmOpens("reviewed", "production")
    /\ \A d \in documents : d.maker.program = "reviewed" => HonestDocument(d)

(* No step changes a document that is kept; a new one of a reviewed maker  *)
(* comes from the attestation route.                                       *)
LEMMA HonestStep ==
    ASSUME AttestationInv, HonestInv, [Next]_vars
    PROVE  HonestInv'
<1> USE DEF HonestInv
<1>1. ASSUME NEW p \in Processes, NEW state, process' = [process EXCEPT ![p] = state],
             Reviewed(state) => NsmOpens("reviewed", "production"),
             UNCHANGED <<clock, documents>>
      PROVE  HonestInv'
  <2>1. \A q \in Processes : process'[q] = IF q = p THEN state ELSE process[q]
      BY <1>1 DEF AttestationInv, ShapeInv
  <2> QED
      BY <1>1, <2>1 DEF HonestDocument, Reviewed
<1>2. ASSUME NEW d, Keep(d), d.maker.program = "reviewed" => HonestDocument(d)
      PROVE  HonestInv'
  <2>1. documents' = documents \cup {d} /\ UNCHANGED <<process, clock>>
      BY <1>2 DEF Keep
  <2> QED
      BY <1>2, <2>1 DEF HonestDocument, Reviewed
<1>3. CASE Tick
  <2>1. clock' = clock + 1 /\ UNCHANGED <<process, documents>>
      BY <1>3 DEF Tick
  <2>2. ASSUME NEW d \in documents, d.maker.program = "reviewed"
        PROVE  HonestDocument(d)'
    <3>1. HonestDocument(d)
        BY <2>2
    <3>2. d.timestamp - Skew \in 0..clock'
        BY <2>1, <3>1 DEF HonestDocument
    <3> QED
        BY <3>1, <3>2 DEF HonestDocument
  <2> QED
      BY <2>1, <2>2 DEF Reviewed
<1>4. ASSUME NEW p \in Processes, NEW program, NEW mode, Launch(p, program, mode)
      PROVE  HonestInv'
  <2>1. Reviewed(Started(program, mode)) => NsmOpens("reviewed", "production")
      BY <1>4 DEF Launch, Reviewed, Started
  <2> QED
      BY <1>1, <1>4, <2>1 DEF Launch
<1>5. ASSUME NEW p \in Processes, LaunchLocalDev(p) \/ Stop(p)
      PROVE  HonestInv'
  <2>1. PICK state : process' = [process EXCEPT ![p] = state] /\ state.mode # "production"
      BY <1>5 DEF LaunchLocalDev, Stop, Off, Started
  <2> QED
      BY <1>1, <1>5, <2>1 DEF LaunchLocalDev, Stop, Reviewed
<1>6. ASSUME NEW p \in Processes, NEW settings \in Settings, Setup(p, settings)
      PROVE  HonestInv'
  <2>1. NsmOpens("reviewed", "production")
      BY <1>6 DEF Setup, Reviewed
  <2>2. \E state : process' = [process EXCEPT ![p] = state]
      BY <1>6 DEF Setup
  <2> QED
      BY <1>1, <1>6, <2>1, <2>2 DEF Setup
<1>7. ASSUME NEW p \in Processes, NEW settings, NEW role, ForeignDerive(p, settings, role)
      PROVE  HonestInv'
  <2> DEFINE state == [process[p] EXCEPT !.root = Denied]
  <2>1. process' = [process EXCEPT ![p] = state] /\ UNCHANGED <<clock, documents>>
      BY <1>7, KmsRefuses DEF ForeignDerive, AttestationInv, ShapeInv
  <2>2. process[p].program = "foreign"
        /\ process[p] = [program |-> process[p].program, mode |-> process[p].mode,
                         identity |-> process[p].identity, root |-> process[p].root]
      BY <1>7 DEF ForeignDerive, AttestationInv, ShapeInv
  <2>3. ~Reviewed(state)
      BY <2>2 DEF Reviewed
  <2> HIDE DEF state
  <2> QED
      BY <1>1, <2>1, <2>3
<1>8. ASSUME NEW p \in Processes, NEW nonce, Attest(p, nonce)
      PROVE  HonestInv'
  <2> DEFINE d == Document(p, nonce, process[p].identity)
  <2>1. Reviewed(process[p]) /\ Genuine(process[p].identity) /\ NonceAdmitted(nonce) /\ Keep(d)
      BY <1>8 DEF Attest, Reviewed, AttestationInv, ProcessInv
  <2>2. /\ d.pcrs = Pcrs("reviewed", "production") /\ d.chain = "aws" /\ d.nonce = nonce
        /\ d.user_data = process[p].identity /\ d.maker = process[p]
        /\ d.timestamp = clock + Skew
      BY <2>1 DEF Document, Reviewed
  <2>3. d.timestamp - Skew \in 0..clock /\ d.timestamp \in Int
      BY <2>2, ClockAssumption
  <2> HIDE DEF d
  <2>4. HonestDocument(d)
      BY <2>1, <2>2, <2>3 DEF HonestDocument, Genuine
  <2> QED
      BY <1>2, <2>1, <2>4
<1>9. ASSUME NEW p \in Processes, NEW nonce, ForeignAttest(p, nonce)
      PROVE  HonestInv'
  <2> DEFINE d == Document(p, nonce, StrayIdentity)
  <2>1. d.maker.program = "foreign" /\ Keep(d)
      BY <1>9 DEF Document, ForeignAttest
  <2> HIDE DEF d
  <2> QED
      BY <1>2, <2>1
<1>10. ASSUME NEW nonce, Forge(nonce)
       PROVE  HonestInv'
  <2> DEFINE d == [pcrs |-> Pins, nonce |-> nonce, user_data |-> StrayIdentity,
                   timestamp |-> clock, chain |-> "own", maker |-> Off, after |-> Len(issued)]
  <2>1. d.maker.program = "none" /\ Keep(d)
      BY <1>10 DEF Forge, Off, Started
  <2> HIDE DEF d
  <2> QED
      BY <1>2, <2>1
<1>11. CASE UNCHANGED <<process, clock, documents>>
    BY <1>11 DEF HonestDocument, Reviewed
<1> QED
    BY <1>3, <1>4, <1>5, <1>6, <1>7, <1>8, <1>9, <1>10, <1>11
       DEF Next, Challenge, Accept, vars

(* The profile that program_profile builds passes the script's own checks  *)
(* of it.                                                                  *)
LEMMA ProfileIsValid == ValidateProgramProfile(ProgramProfile)
<1> DEFINE inline == ProgramProfile.inline
           registered == ProgramProfile.registered
           ids == [i \in DOMAIN inline |-> inline[i].id]
                     \o [i \in DOMAIN registered |-> registered[i].id]
<1>1. /\ DOMAIN inline = 1..2 /\ inline[1] = [id |-> "wasm", version |-> 1]
      /\ inline[2] = [id |-> "wasm_v2", version |-> 2]
    BY DEF ProgramProfile
<1>2. /\ DOMAIN registered = 1..1
      /\ registered[1] = [id |-> "pay_at_least", version |-> 1, name |-> "pay-at-least/v1"]
    BY DEF ProgramProfile
<1> HIDE DEF inline, registered
<1>3. ids = <<"wasm", "wasm_v2">> \o <<"pay_at_least">>
  <2>1. [i \in DOMAIN inline |-> inline[i].id] = <<"wasm", "wasm_v2">>
      BY <1>1
  <2>2. [i \in DOMAIN registered |-> registered[i].id] = <<"pay_at_least">>
      BY <1>2
  <2> QED
      BY <2>1, <2>2
<1>4. \A i, j \in DOMAIN ids : i # j => ids[i] # ids[j]
  <2>1. /\ DOMAIN ids = 1..3
        /\ ids[1] = "wasm" /\ ids[2] = "wasm_v2" /\ ids[3] = "pay_at_least"
      BY <1>3
  <2> HIDE DEF ids
  <2> QED
      BY <2>1
<1>5. \A i \in DOMAIN inline : /\ inline[i].id \in DOMAIN Reserved
                               /\ Reserved[inline[i].id] = inline[i].version
  <2>1. /\ DOMAIN Reserved = {"wasm", "wasm_v2"}
        /\ Reserved["wasm"] = 1 /\ Reserved["wasm_v2"] = 2
      BY DEF Reserved
  <2>2. \A i \in DOMAIN inline : i = 1 \/ i = 2
      BY <1>1
  <2> QED
      BY <1>1, <2>1, <2>2
<1>6. \A i \in DOMAIN registered : /\ registered[i].version \in {1, 2}
                                   /\ registered[i].id \notin DOMAIN Reserved
                                   /\ registered[i].name # ""
  <2>1. DOMAIN Reserved = {"wasm", "wasm_v2"}
      BY DEF Reserved
  <2>2. \A i \in DOMAIN registered : i = 1
      BY <1>2
  <2>3. /\ registered[1].version \in {1, 2} /\ registered[1].name # ""
        /\ registered[1].id = "pay_at_least"
      BY <1>2
  <2> QED
      BY <2>1, <2>2, <2>3
<1>7. /\ ProgramProfile.protocol = "SignProgramV1"
      /\ ProgramProfile.ark_signing.protocol = "sapio-ark/nested-signing/1"
      /\ ProgramProfile.ark_signing.native_ownership_policy = TRUE
      /\ ProgramProfile.ark_signing.max_pending_sessions = 256
      /\ ProgramProfile.ark_signing.max_sessions_per_user = 8
      /\ ProgramProfile.ark_signing.session_lifetime_secs = 120
      /\ ProgramProfile.max_connections = 4 /\ ProgramProfile.request_timeout_secs = 30
    BY DEF ProgramProfile
<1>8. ProgramProfile.max_connections > 0 /\ ProgramProfile.request_timeout_secs > 0
    BY <1>7
<1> QED
    BY <1>4, <1>5, <1>6, <1>7, <1>8, Zenon DEF ValidateProgramProfile, inline, registered

(* verify turns no honest document away: for every age limit and clock     *)
(* skew the assumption admits, every network and every profile.            *)
THEOREM HonestAccepted == Spec => []HonestVerifies
<1>1. ASSUME HonestInv, NEW d \in documents, d.maker.program = "reviewed",
             d.maker.identity.settings = Deployed,
             NEW nonce, d.nonce = nonce, clock <= d.timestamp - Skew + MaxAge
      PROVE  Verify(d, d.maker.identity, nonce)
  <2>1. HonestDocument(d) /\ clock \in Nat
      BY <1>1 DEF HonestInv
  <2>2. d.maker.identity = TrueIdentity(Deployed)
      BY <1>1, <2>1, IdentitySettings DEF HonestDocument
  <2>3. Pcrs("reviewed", "production") = Pins
      BY DEF Pcrs, Pins
  <2>4. \A i \in 0..2 : Pins[i] # Zero /\ d.pcrs[i] = Pins[i]
      BY <2>1, <2>3 DEF HonestDocument, NsmOpens
  <2>5. Timely(d.timestamp)
      BY <1>1, <2>1, ClockAssumption DEF Timely, HonestDocument
  <2>6. Bound(d, d.maker.identity, nonce) /\ d.chain = "aws"
      BY <1>1, <2>1 DEF Bound, HonestDocument
  <2>7. /\ TrueIdentity(Deployed).protocol = "sapio-tee/program-oracle/1"
        /\ TrueIdentity(Deployed).mode = "nitro"
        /\ TrueIdentity(Deployed).signing = ProgramProfile
        /\ TrueIdentity(Deployed).settings = Deployed
        /\ ValidateXpub(TrueIdentity(Deployed).xpub, Deployed.network)
      BY DEF TrueIdentity, Identity, ValidateXpub, Xpub, RootOf, RootFromSecret
  <2> QED
      BY <2>2, <2>4, <2>5, <2>6, <2>7, ProfileIsValid DEF Verify
<1>2. HonestInv => HonestVerifies
    BY <1>1 DEF HonestVerifies
<1>3. Init => HonestInv
    BY DEF Init, HonestInv, Off, Started, Reviewed
<1>4. AttestationInv /\ HonestInv /\ [Next]_vars => HonestInv'
    BY HonestStep
<1> QED
    BY <1>2, <1>3, <1>4, AttestationAlways, PTL DEF Spec
=============================================================================
