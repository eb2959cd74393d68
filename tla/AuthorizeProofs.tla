--------------------------- MODULE AuthorizeProofs --------------------------
(***************************************************************************)
(* Proofs about Authorize: the composition of the request's checks, the    *)
(* module's scan and the guest's evaluation, for every request, policy     *)
(* document, module, memory and input.                                     *)
(***************************************************************************)
EXTENDS Authorize, EvaluatorProofs, SequenceTheorems

(* Parameters without MAGIC carry no policy.                               *)
LEMMA LegacyParameters ==
    ASSUME NEW p, ~p.magic
    PROVE  Parse(p) = NoPolicy
BY DEF Parse

(* What `parse` has seen of parameters with MAGIC that it accepts: three   *)
(* tokens that are the JSON of a valid document.                           *)
LEMMA AcceptedEnvelope ==
    ASSUME NEW p \in Parameters, p.magic, Parse(p).ok
    PROVE  /\ p.header = LengthBytes /\ p.length = 3 /\ 3 <= Len(p.body)
           /\ p.body[1].token = "{" /\ p.body[2].token = "members" /\ p.body[3].token = "}"
           /\ ValidDocument(p.body[2].members)
           /\ Parse(p) = Parsed(p.body[2].members)
<1> DEFINE slice == SubSeq(p.body, 1, p.length)
           good == /\ LengthBytes + p.length <= LengthBytes + Len(p.body)
                   /\ IsJson(slice)
                   /\ ValidDocument(slice[2].members)
<1>1. /\ p.header \in 0..LengthBytes /\ p.length \in Nat /\ p.body \in Seq(Token)
      /\ LengthBytes \in Nat
    BY DEF Parameters, LengthBytes
<1>2. Parse(p) = IF p.header < LengthBytes THEN Malformed
                 ELSE IF good THEN Parsed(slice[2].members) ELSE Malformed
    BY DEF Parse
<1>3. ~Malformed.ok
    BY DEF Malformed
<1> HIDE DEF good
<1>4. ~(p.header < LengthBytes) /\ good /\ Parse(p) = Parsed(slice[2].members)
    BY <1>2, <1>3
<1> USE DEF good
<1>5. p.length <= Len(p.body) /\ Len(p.body) \in Nat
    BY <1>1, <1>4
<1>6. Len(slice) = p.length /\ \A i \in 1..p.length : slice[i] = p.body[i]
    BY <1>1, <1>5
<1>7. p.length = 3
    BY <1>4, <1>6 DEF IsJson
<1>8. slice[1] = p.body[1] /\ slice[2] = p.body[2] /\ slice[3] = p.body[3]
    BY <1>6, <1>7
<1>9. p.header = LengthBytes
    BY <1>1, <1>4
<1>10. slice[1].token = "{" /\ slice[2].token = "members" /\ slice[3].token = "}"
    BY <1>4 DEF IsJson
<1>11. ValidDocument(slice[2].members)
    BY <1>4
<1> HIDE DEF slice, good
<1> QED
    BY <1>4, <1>5, <1>7, <1>8, <1>9, <1>10, <1>11

(* The beginning of a concatenation is its first part.                     *)
LEMMA Beginning ==
    ASSUME NEW S, NEW s \in Seq(S), NEW t \in Seq(S)
    PROVE  /\ s \o t \in Seq(S) /\ Len(s \o t) = Len(s) + Len(t)
           /\ SubSeq(s \o t, 1, Len(s)) = s
<1>1. s \o t \in Seq(S) /\ Len(s \o t) = Len(s) + Len(t) /\ Len(s) \in Nat /\ Len(t) \in Nat
    OBVIOUS
<1>2. \A i \in 1..Len(s) : (s \o t)[i] = s[i]
    OBVIOUS
<1> DEFINE u == s \o t
           begin == SubSeq(u, 1, Len(s))
<1>3. begin \in Seq(S) /\ Len(begin) = Len(s) /\ \A i \in 1..Len(s) : begin[i] = u[i]
  <2> HIDE DEF u
  <2> QED
      BY <1>1 DEF u
<1>4. begin = s
  <2> HIDE DEF begin
  <2> QED
      BY <1>2, <1>3
<1> QED
    BY <1>1, <1>4

(* A sequence is its first three elements and the rest.                    *)
LEMMA ThreeAndRest ==
    ASSUME NEW S, NEW s \in Seq(S), 3 <= Len(s)
    PROVE  /\ s[1] \in S /\ s[2] \in S /\ s[3] \in S
           /\ s = <<s[1], s[2], s[3]>> \o SubSeq(s, 4, Len(s))
<1> DEFINE three == SubSeq(s, 1, 3)
<1>1. Len(s) \in Nat /\ s[1] \in S /\ s[2] \in S /\ s[3] \in S
    OBVIOUS
<1>2. three = <<s[1], s[2], s[3]>>
  <2>1. three \in Seq(S) /\ Len(three) = 3 /\ \A i \in 1..3 : three[i] = s[i]
      BY <1>1
  <2>2. three[1] = s[1] /\ three[2] = s[2] /\ three[3] = s[3]
      BY <2>1
  <2> HIDE DEF three
  <2>3. three = <<three[1], three[2], three[3]>>
      BY <2>1
  <2> QED
      BY <2>2, <2>3
<1>3. three \o SubSeq(s, 4, Len(s)) = SubSeq(s, 1, Len(s))
  <2>1. 1 \in 1..(Len(s) + 1) /\ 3 \in (1 - 1)..Len(s) /\ Len(s) \in 3..Len(s)
      BY <1>1
  <2>2. SubSeq(s, 1, 3) \o SubSeq(s, 3 + 1, Len(s)) = SubSeq(s, 1, Len(s))
      BY <2>1, ConcatAdjacentSubSeq
  <2> QED
      BY <2>2
<1>4. SubSeq(s, 1, Len(s)) = s
    BY SubSeqFull
<1> HIDE DEF three
<1> QED
    BY <1>1, <1>2, <1>3, <1>4

(* `parse` accepts whatever `encode` produces from a valid document.       *)
LEMMA EncodedIsAccepted ==
    ASSUME NEW d, ValidDocument(d), NEW inner \in Seq(Token), Json(d) \in Seq(Token)
    PROVE  Parse(Encode(d, inner)).ok
<1> DEFINE p == Encode(d, inner)
           slice == SubSeq(p.body, 1, p.length)
<1>1. Len(Json(d)) = 3
    BY DEF Json
<1>2. p.magic /\ p.header = LengthBytes /\ p.length = 3 /\ p.body = Json(d) \o inner
  <2>1. p = [magic |-> TRUE, header |-> LengthBytes, length |-> 3, body |-> Json(d) \o inner]
      BY <1>1 DEF Encode
  <2> HIDE DEF p
  <2>2. p.magic = TRUE
      BY <2>1
  <2> QED
      BY <2>1, <2>2
<1> HIDE DEF p
<1>3. Len(p.body) = 3 + Len(inner) /\ Len(inner) \in Nat /\ slice = Json(d)
  <2> DEFINE json == Json(d)
  <2>1. json \in Seq(Token) /\ Len(json) = 3
      BY <1>1
  <2> HIDE DEF json
  <2>2. Len(json \o inner) = Len(json) + Len(inner)
      BY <2>1, Beginning
  <2>3. SubSeq(json \o inner, 1, Len(json)) = json
      BY <2>1, Beginning
  <2>4. Len(inner) \in Nat
      OBVIOUS
  <2> QED
      BY <1>2, <2>1, <2>2, <2>3, <2>4 DEF json
<1>4. IsJson(slice) /\ slice[2].members = d
  <2> HIDE DEF slice
  <2> QED
      BY <1>3 DEF IsJson, Json, Byte
<1>5. LengthBytes + p.length <= LengthBytes + Len(p.body) /\ ~(p.header < LengthBytes)
    BY <1>2, <1>3 DEF LengthBytes
<1>6. Parse(p) = Parsed(slice[2].members)
    BY <1>2, <1>4, <1>5 DEF Parse
<1>7. Parse(p).ok
    BY <1>6 DEF Parsed
<1> QED
    BY <1>7 DEF p

(* A token is its name, or its name and the members it holds.              *)
LEMMA TokenShape ==
    ASSUME NEW t \in Token
    PROVE  /\ t.token \in {"{", "}", "inner"} => t = [token |-> t.token]
           /\ t.token = "members" => t = [token |-> "members", members |-> t.members]
BY DEF Token

(* The JSON of a document that is in a blob consists of tokens.            *)
LEMMA JsonOfToken ==
    ASSUME NEW t \in Token, t.token = "members"
    PROVE  Json(t.members) \in Seq(Token)
<1>1. [token |-> "members", members |-> t.members] \in Token
    BY TokenShape
<1>2. Byte("{") \in Token /\ Byte("}") \in Token
    BY DEF Byte, Token
<1> DEFINE m == [token |-> "members", members |-> t.members]
           open == Byte("{")
           close == Byte("}")
<1>3. Json(t.members) = <<open, m, close>>
    BY DEF Json
<1>4. m \in Token /\ open \in Token /\ close \in Token
    BY <1>1, <1>2
<1> HIDE DEF m, open, close
<1> QED
    BY <1>3, <1>4

(* What `parse` accepts is an encoding of the document it returns.         *)
LEMMA AcceptedIsEncoded ==
    ASSUME NEW p \in Parameters, p.magic, Parse(p).ok
    PROVE  p.body[2].members \in Encoded(p)
<1> DEFINE body == p.body
           d == body[2].members
           inner == SubSeq(body, 4, Len(body))
<1>1. /\ p.header = LengthBytes /\ p.length = 3 /\ 3 <= Len(body)
      /\ body[1].token = "{" /\ body[2].token = "members" /\ body[3].token = "}"
      /\ ValidDocument(d)
    BY AcceptedEnvelope
<1>2. body \in Seq(Token) /\ p.magic = TRUE
    BY DEF Parameters
<1>3. p = [magic |-> TRUE, header |-> LengthBytes, length |-> 3, body |-> body]
  <2>1. p \in [magic : BOOLEAN, header : 0..LengthBytes, length : Nat, body : Seq(Token)]
      BY DEF Parameters
  <2>2. p = [magic |-> p.magic, header |-> p.header, length |-> p.length, body |-> p.body]
      BY <2>1
  <2> QED
      BY <1>1, <1>2, <2>2
<1> HIDE DEF body
<1>4. /\ body[1] \in Token /\ body[2] \in Token /\ body[3] \in Token
      /\ body = <<body[1], body[2], body[3]>> \o inner
    BY <1>1, <1>2, ThreeAndRest
<1>5. body[1] = Byte("{") /\ body[3] = Byte("}")
    BY <1>1, <1>4, TokenShape DEF Byte
<1>6. body[2] = [token |-> "members", members |-> d]
    BY <1>1, <1>4, TokenShape
<1>7. Json(d) = <<body[1], body[2], body[3]>>
    BY <1>5, <1>6 DEF Json
<1> HIDE DEF d, inner
<1>8. p = Encode(d, inner)
  <2>1. Len(Json(d)) = 3
      BY <1>7
  <2> QED
      BY <1>3, <1>4, <1>7, <2>1 DEF Encode
<1>9. Len(body) \in Nat /\ DOMAIN body = 1..Len(body)
    BY <1>2
<1>10. 3 \in 0..Len(body) /\ 2 \in DOMAIN body
  <2>1. 3 <= Len(body)
      BY <1>1
  <2> QED
      BY <1>9, <2>1
<1>11. IsEncoding(p, d)
  <2>1. p = Encode(d, SubSeq(p.body, 3 + 1, Len(p.body)))
      BY <1>8 DEF body, inner
  <2> QED
      BY <1>1, <1>10, <2>1 DEF IsEncoding, body
<1> QED
    BY <1>1, <1>10, <1>11 DEF Encoded, d, body

(* Nothing that `parse` refuses is an encoding of a valid document.        *)
LEMMA RefusedIsNotEncoded ==
    ASSUME NEW p \in Parameters, ~Parse(p).ok
    PROVE  Encoded(p) = {}
<1> SUFFICES ASSUME NEW d \in Encoded(p) PROVE FALSE
    OBVIOUS
<1>1. p.body \in Seq(Token)
    BY DEF Parameters
<1>2. PICK i \in DOMAIN p.body : p.body[i].token = "members" /\ d = p.body[i].members
    BY DEF Encoded
<1>3. p.body[i] \in Token
    BY <1>1
<1>4. Json(d) \in Seq(Token)
    BY <1>2, <1>3, JsonOfToken
<1>5. /\ ValidDocument(d)
      /\ \E n \in 0..Len(p.body) : p = Encode(d, SubSeq(p.body, n + 1, Len(p.body)))
    BY DEF Encoded, IsEncoding
<1>6. PICK n \in 0..Len(p.body) : p = Encode(d, SubSeq(p.body, n + 1, Len(p.body)))
    BY <1>5
<1>7. SubSeq(p.body, n + 1, Len(p.body)) \in Seq(Token)
    BY <1>1
<1>8. Parse(Encode(d, SubSeq(p.body, n + 1, Len(p.body)))).ok
    BY <1>4, <1>5, <1>7, EncodedIsAccepted
<1> QED
    BY <1>6, <1>8

-----------------------------------------------------------------------------
(* What is true of a request on its way: it has passed the checks when it  *)
(* is evaluated or prepared, the guest has approved its message when the   *)
(* evaluation says so, and both hold of a spend that is prepared.          *)
RequestInv ==
    /\ root \in Roots /\ request \in RequestType
    /\ decision \in {"undecided", "evaluating", "prepared", "refused"}
    /\ decision = "evaluating" => PrepareAdmitted(root, request)
    /\ decision = "prepared" => PrepareAuthorized(root, request)
    /\ pc = "approved" => request.message \in request.program.approves

AuthorizeInv == RequestInv /\ ScanInv /\ MemoryInv

(* Every step of a request keeps the three invariants.                     *)
LEMMA AuthorizeStep ==
    ASSUME AuthorizeInv, [Next]_vars
    PROVE  AuthorizeInv'
<1>1. RequestInv /\ ScanInv /\ MemoryInv
    BY DEF AuthorizeInv
<1>2. CASE Check
  <2>1. UNCHANGED scanVars /\ UNCHANGED memoryVars /\ root' = root /\ request' = request
      BY <1>2 DEF Check
  <2>2. ScanInv' /\ MemoryInv'
      BY <1>1, <2>1, ScanStep, MemoryStep
  <2>3. pc' = pc
      BY <2>1 DEF memoryVars
  <2>4. decision' = IF ~PrepareAdmitted(root, request) THEN "refused"
                    ELSE IF request.action.kind = "spend" THEN "evaluating" ELSE "prepared"
      BY <1>2 DEF Check
  <2>5. RequestInv'
      BY <1>1, <2>1, <2>3, <2>4 DEF RequestInv, PrepareAuthorized
  <2> QED
      BY <2>2, <2>5 DEF AuthorizeInv
<1>3. CASE Scan
  <2>1. ScanNext /\ UNCHANGED memoryVars /\ UNCHANGED <<root, request, decision>>
      BY <1>3 DEF Scan
  <2>2. ScanInv' /\ MemoryInv'
      BY <1>1, <2>1, ScanStep, MemoryStep
  <2>3. pc' = pc
      BY <2>1 DEF memoryVars
  <2>4. RequestInv'
      BY <1>1, <2>1, <2>3 DEF RequestInv
  <2> QED
      BY <2>2, <2>4 DEF AuthorizeInv
<1>4. CASE Run
  <2>1. /\ MemoryNext /\ UNCHANGED scanVars /\ UNCHANGED <<root, request, decision>>
        /\ GuestAnswers /\ decision = "evaluating"
      BY <1>4 DEF Run
  <2>2. ScanInv' /\ MemoryInv'
      BY <1>1, <2>1, ScanStep, MemoryStep
  <2>3. pc' = "approved" => request.message \in request.program.approves
    <3> SUFFICES ASSUME pc' = "approved" PROVE request.message \in request.program.approves
        OBVIOUS
    <3>1. pc = "calling"
        BY <2>1, OnlyCallApproves
    <3>2. InputsIntact
        BY <1>1, IntactNow
    <3> QED
        BY <2>1, <3>1, <3>2 DEF GuestAnswers
  <2>4. RequestInv'
      BY <1>1, <2>1, <2>3 DEF RequestInv
  <2> QED
      BY <2>2, <2>4 DEF AuthorizeInv
<1>5. CASE Conclude
  <2>1. /\ UNCHANGED scanVars /\ UNCHANGED memoryVars /\ root' = root /\ request' = request
        /\ decision = "evaluating"
        /\ decision' = IF verdict = "accept" /\ pc = "approved" THEN "prepared" ELSE "refused"
      BY <1>5 DEF Conclude
  <2>2. ScanInv' /\ MemoryInv'
      BY <1>1, <2>1, ScanStep, MemoryStep
  <2>3. pc' = pc
      BY <2>1 DEF memoryVars
  <2>4. RequestInv'
      BY <1>1, <2>1, <2>3 DEF RequestInv, PrepareAuthorized
  <2> QED
      BY <2>2, <2>4 DEF AuthorizeInv
<1>6. CASE UNCHANGED vars
  <2>1. UNCHANGED scanVars /\ UNCHANGED memoryVars /\ UNCHANGED <<root, request, decision>>
      BY <1>6 DEF vars
  <2>2. ScanInv' /\ MemoryInv'
      BY <1>1, <2>1, ScanStep, MemoryStep
  <2>3. pc' = pc
      BY <2>1 DEF memoryVars
  <2>4. RequestInv'
      BY <1>1, <2>1, <2>3 DEF RequestInv
  <2> QED
      BY <2>2, <2>4 DEF AuthorizeInv
<1> QED
    BY <1>2, <1>3, <1>4, <1>5, <1>6 DEF Next

(* They hold of a request that has just arrived.                           *)
LEMMA AuthorizeStart ==
    ASSUME Init
    PROVE  AuthorizeInv
<1>1. PICK r \in Roots, q \in RequestType, code \in Module,
           inputs \in [Inputs -> 0..(MaxInput + 1)], size \in 1..AddressRange :
           Start(r, q, code, inputs, size)
    BY DEF Init
<1>2. /\ root \in Roots /\ request \in RequestType /\ decision = "undecided"
      /\ ScanInit(VersionOf(q.program.evaluator), code) /\ MemoryInit
    BY <1>1 DEF Start
<1>3. VersionOf(q.program.evaluator) \in {1, 2}
    BY DEF VersionOf
<1>4. ScanInv
    BY <1>2, <1>3, ScanStart
<1>5. MemoryInv
    BY <1>2, MemoryStart
<1>6. pc # "approved"
    BY <1>2 DEF MemoryInit
<1> QED
    BY <1>2, <1>4, <1>5, <1>6 DEF AuthorizeInv, RequestInv

(* So they always hold.                                                    *)
LEMMA AuthorizeAlways == Spec => []AuthorizeInv
<1> QED
    BY AuthorizeStart, AuthorizeStep, PTL DEF Spec

-----------------------------------------------------------------------------
(* Every variable of a prepare keeps its type: the slot counter within the *)
(* budget, ranges unsigned, cells bytes of the guest or of an input.       *)
THEOREM AuthorizeTypes == Spec => []TypeOK
<1>1. ASSUME AuthorizeInv
      PROVE  TypeOK
  <2>1. RequestInv /\ ScanInv /\ MemoryInv
      BY <1>1 DEF AuthorizeInv
  <2>2. types \in Seq(FunctionType) /\ slots \in Nat
      BY <2>1, ScanTypes
  <2>3. slots \in 0..MaxSlots
      BY <2>1, <2>2, BudgetAssumption DEF ScanInv
  <2>4. /\ version \in {1, 2} /\ module \in Module
        /\ next \in 1..(Len(module.payloads) + 1)
        /\ verdict \in {"scanning", "accept", "reject"}
      BY <2>1 DEF ScanInv
  <2>5. /\ root \in Roots /\ request \in RequestType
        /\ decision \in {"undecided", "evaluating", "prepared", "refused"}
      BY <2>1 DEF RequestInv
  <2>6. MemoryTypeOK
      BY <2>1 DEF MemoryInv
  <2> QED
      BY <2>2, <2>3, <2>4, <2>5, <2>6 DEF TypeOK
<1> QED
    BY <1>1, AuthorizeAlways, PTL

(* The memory of an evaluation inside a prepare behaves like the one       *)
(* GuestMemory specifies, so what is proved of it holds here.              *)
THEOREM AuthorizeEvaluates == Spec => MemorySpec
<1>1. Init => MemoryInit
    BY DEF Init, Start
<1>2. [Next]_vars => [MemoryNext]_memoryVars
    BY DEF Next, vars, Check, Scan, Run, Conclude
<1> QED
    BY <1>1, <1>2, PTL DEF Spec, MemorySpec

(* check_compilation_budget accepts exactly the modules that its reference *)
(* definition calls compilable, whatever the length of the module and the  *)
(* size of its counts.                                                     *)
THEOREM ScanExact == Spec => []ScanIsExact
<1>1. AuthorizeInv => ScanIsExact
    BY ScanDecides DEF AuthorizeInv
<1> QED
    BY <1>1, AuthorizeAlways, PTL

(* `parse` inverts `encode` on every blob, document and inner bytes, and   *)
(* nothing is prepared for a program whose envelope it refuses.            *)
THEOREM EnvelopesExact == Spec => []EnvelopeExact
<1>1. ASSUME AuthorizeInv
      PROVE  EnvelopeExact
  <2> DEFINE p == request.program.parameters
  <2>1. RequestInv /\ request \in RequestType
      BY <1>1 DEF AuthorizeInv, RequestInv
  <2>2. p \in Parameters /\ p.magic \in BOOLEAN
      BY <2>1 DEF RequestType, ProgramType, Parameters
  <2>3. decision = "prepared" => Parse(p).ok
      BY <2>1 DEF RequestInv, PrepareAuthorized, PrepareAdmitted, PolicyAdmits
  <2>4. ~Parse(p).ok => Encoded(p) = {} /\ decision # "prepared"
      BY <2>2, <2>3, RefusedIsNotEncoded
  <2>5. ~p.magic => ~Parse(p).enveloped
      BY LegacyParameters DEF NoPolicy
  <2>6. ASSUME p.magic, Parse(p).ok
        PROVE  /\ Parse(p).enveloped
               /\ \E d \in Encoded(p) :
                     Parse(p).policy = [lists |-> d.lists, switches |-> d.switches]
    <3> DEFINE d == p.body[2].members
    <3>1. d \in Encoded(p)
        BY <2>2, <2>6, AcceptedIsEncoded
    <3>2. Parse(p) = Parsed(d)
        BY <2>2, <2>6, AcceptedEnvelope
    <3> HIDE DEF d, p
    <3>3. /\ Parse(p).enveloped
          /\ Parse(p).policy = [lists |-> d.lists, switches |-> d.switches]
        BY <3>2 DEF Parsed
    <3> QED
        BY <3>1, <3>3
  <2> HIDE DEF p
  <2>7. /\ Parse(p).ok /\ ~Parse(p).enveloped => ~p.magic
        /\ Parse(p).ok /\ Parse(p).enveloped =>
              \E d \in Encoded(p) :
                 Parse(p).policy = [lists |-> d.lists, switches |-> d.switches]
      BY <2>5, <2>6
  <2> QED
      BY <2>4, <2>7 DEF EnvelopeExact, p
<1> QED
    BY <1>1, AuthorizeAlways, PTL

(* A request is prepared only for the program whose key will sign, and     *)
(* only when that program's committed rules admit it: for every program,   *)
(* policy, request, module and allocator.                                  *)
THEOREM ProgramConsents == Spec => []SigningProgramConsents
<1>1. ASSUME AuthorizeInv, decision = "prepared", NEW program \in Programs,
             request.member = DeriveKey(root, program)
      PROVE  Consents(program, request.action, request.message)
  <2> DEFINE p == program.parameters
             action == request.action
             document == p.body[2].members
  <2>1. request \in RequestType /\ PrepareAuthorized(root, request)
      BY <1>1 DEF AuthorizeInv, RequestInv
  <2>2. /\ KeyMatches(root, request) /\ PolicyAdmits(request.program)
        /\ ActionAdmitted(request)
      BY <2>1 DEF PrepareAuthorized, PrepareAdmitted
  <2>3. program = request.program
      BY <1>1, <2>2 DEF KeyMatches, DeriveKey
  <2>4. p \in Parameters /\ action \in SpendAction \cup OwnershipAction
      BY <2>1, <2>3 DEF RequestType, ProgramType
  <2>5. Parse(p).ok /\ (Parse(p).enveloped => program.evaluator \in InlineEvaluators)
      BY <2>2, <2>3 DEF PolicyAdmits
  <2>6. ASSUME p.magic
        PROVE  /\ document.version = 1 /\ program.evaluator \in InlineEvaluators
               /\ Parse(p).enveloped
               /\ Parse(p).policy = [lists |-> document.lists, switches |-> document.switches]
    <3>1. ValidDocument(document) /\ Parse(p) = Parsed(document)
        BY <2>4, <2>5, <2>6, AcceptedEnvelope
    <3>2. document.version = 1
        BY <3>1 DEF ValidDocument
    <3> HIDE DEF document, p
    <3>3. /\ Parse(p).enveloped
          /\ Parse(p).policy = [lists |-> document.lists, switches |-> document.switches]
        BY <3>1 DEF Parsed
    <3> QED
        BY <2>5, <3>2, <3>3
  <2>7. CASE action.kind = "spend"
    <3>1. request.message \in program.approves
        BY <2>1, <2>3, <2>7 DEF PrepareAuthorized
    <3>2. /\ action.psbt_valid /\ ~action.annex /\ ~action.finalized
          /\ action.sighash = request.message
        BY <2>2, <2>7 DEF ActionAdmitted, EvaluatorAdmits
    <3> QED
        BY <2>6, <2>7, <3>1, <3>2 DEF Consents
  <2>8. CASE action.kind # "spend"
    <3>1. /\ Parse(p).enveloped => Enforce(Parse(p).policy, action.proof)
          /\ action.proof_message = request.message
        BY <2>2, <2>3, <2>8 DEF ActionAdmitted
    <3>2. ASSUME p.magic
          PROVE  IF action.proof.variant \in Switches
                 THEN document.switches[action.proof.variant]
                 ELSE Range(action.proof.outputs) \subseteq document.lists[action.proof.variant]
      <4>1. Enforce([lists |-> document.lists, switches |-> document.switches], action.proof)
          BY <2>6, <3>1, <3>2
      <4> HIDE DEF document, action
      <4> QED
          BY <4>1 DEF Enforce, Range
    <3> QED
        BY <2>6, <2>8, <3>1, <3>2 DEF Consents
  <2> QED
      BY <2>7, <2>8
<1>2. AuthorizeInv => SigningProgramConsents
    BY <1>1 DEF SigningProgramConsents
<1> QED
    BY <1>2, AuthorizeAlways, PTL
=============================================================================
