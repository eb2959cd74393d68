-------------------------- MODULE ArkServiceProofs --------------------------
(***************************************************************************)
(* Proofs about ArkService: types, the slots of the route and the permits  *)
(* of the evaluations, for any number of clients, slots, permits and       *)
(* evaluations; and about PrepareRoute, that it is a composition: what it  *)
(* does is what ArkService allows to the route and ArkSigner to the table. *)
(***************************************************************************)
EXTENDS PrepareRoute, FiniteSetTheorems, TLAPS

USE AdmissionAssumption

(* The requests that hold a slot.                                          *)
Busy == {c \in Clients : request[c] # "away"}

(* Every slot is free or held by one request.                              *)
SlotInv ==
    /\ IsFiniteSet(Busy)
    /\ slots \in Nat
    /\ slots + Cardinality(Busy) = MaxSlots

(* Every permit is free or held by one evaluation.                         *)
PermitInv ==
    /\ IsFiniteSet(Running)
    /\ permits + Cardinality(Running) = MaxEvaluations

(* A request that waits has an evaluation, running or ended, to wait for.  *)
HandleInv ==
    \A c \in Clients : request[c] = "evaluating" => handle[c] \in DOMAIN evaluations

AdmissionInv == TypeOK /\ SlotInv /\ PermitInv /\ HandleInv

-----------------------------------------------------------------------------
(* A request that enters takes a slot.                                     *)
LEMMA EnterSlot ==
    ASSUME TypeOK, SlotInv, NEW c \in Clients, NEW place \in {"body", "evaluating"},
           request[c] = "away", slots > 0, slots' = slots - 1,
           request' = [request EXCEPT ![c] = place]
    PROVE  SlotInv' /\ slots' \in 0..MaxSlots
<1>1. Busy' = Busy \cup {c} /\ c \notin Busy
    BY DEF Busy, TypeOK
<1>2. IsFiniteSet(Busy \cup {c}) /\ Cardinality(Busy \cup {c}) = Cardinality(Busy) + 1
    BY <1>1, FS_AddElement DEF SlotInv
<1>3. Cardinality(Busy) \in Nat
    BY FS_CardinalityType DEF SlotInv
<1> QED
    BY <1>1, <1>2, <1>3 DEF SlotInv

(* A request that leaves gives its slot back.                              *)
LEMMA LeaveSlot ==
    ASSUME TypeOK, SlotInv, NEW c \in Clients, NEW code, request[c] # "away", Leave(c, code)
    PROVE  SlotInv' /\ slots' \in 0..MaxSlots
<1>1. Busy' = Busy \ {c} /\ c \in Busy
    BY DEF Busy, TypeOK, Leave
<1>2. IsFiniteSet(Busy \ {c}) /\ Cardinality(Busy \ {c}) = Cardinality(Busy) - 1
    BY <1>1, FS_RemoveElement DEF SlotInv
<1>3. Cardinality(Busy) \in Nat /\ Cardinality(Busy \ {c}) \in Nat
    BY <1>2, FS_CardinalityType DEF SlotInv
<1> QED
    BY <1>1, <1>2, <1>3 DEF SlotInv, Leave

(* A request that moves on inside the service keeps its slot.              *)
LEMMA KeepSlot ==
    ASSUME TypeOK, SlotInv, UNCHANGED slots, Busy' = Busy
    PROVE  SlotInv' /\ slots' \in 0..MaxSlots
BY FS_CardinalityType DEF SlotInv

-----------------------------------------------------------------------------
(* A request that leaves changes nothing else.                             *)
LEMMA LeaveKeeps ==
    ASSUME AdmissionInv, NEW c \in Clients, NEW code \in Codes, request[c] # "away",
           Leave(c, code), UNCHANGED <<initialized, permits, evaluations>>
    PROVE  AdmissionInv'
<1>1. SlotInv' /\ slots' \in 0..MaxSlots
    BY LeaveSlot DEF AdmissionInv
<1>2. handle' \in [Clients -> 0..Len(evaluations')]
  <2>1. Len(evaluations) \in Nat /\ handle \in [Clients -> 0..Len(evaluations)]
      BY DEF AdmissionInv, TypeOK
  <2> QED
      BY <2>1 DEF Leave
<1>3. TypeOK'
    BY <1>1, <1>2 DEF AdmissionInv, Leave, TypeOK, Places
<1>4. PermitInv'
    BY DEF AdmissionInv, PermitInv, Running
<1>5. HandleInv'
    BY DEF AdmissionInv, HandleInv, Leave, TypeOK
<1> QED
    BY <1>1, <1>3, <1>4, <1>5 DEF AdmissionInv

(* Every step preserves the invariant.                                     *)
LEMMA AdmissionStep ==
    ASSUME AdmissionInv, [Next]_vars
    PROVE  AdmissionInv'
<1> USE DEF AdmissionInv
<1> slots \in 0..MaxSlots /\ Cardinality(Running) \in Nat
    BY FS_CardinalityType DEF TypeOK, PermitInv
<1>1. CASE Initialize \/ UNCHANGED vars
    BY <1>1 DEF Initialize, vars, TypeOK, SlotInv, PermitInv, HandleInv, Busy, Running
<1>2. ASSUME NEW c \in Clients, Arrive(c)
      PROVE  AdmissionInv'
  <2>1. SlotInv' /\ slots' \in 0..MaxSlots
      BY <1>2, EnterSlot DEF Arrive
  <2>2. TypeOK'
      BY <1>2, <2>1 DEF Arrive, TypeOK, Places, Codes
  <2>3. PermitInv' /\ HandleInv'
      BY <1>2 DEF Arrive, TypeOK, PermitInv, HandleInv, Running
  <2> QED
      BY <2>1, <2>2, <2>3
<1>3. ASSUME NEW c \in Clients, ShedLoad(c)
      PROVE  AdmissionInv'
    BY <1>3 DEF ShedLoad, TypeOK, Codes, SlotInv, PermitInv, HandleInv, Busy, Running
<1>4. ASSUME NEW c \in Clients, StartEvaluation(c)
      PROVE  AdmissionInv'
  <2> DEFINE n == Len(evaluations)
  <2>0. /\ evaluations \in Seq({"running", "200", "422"}) /\ n \in Nat /\ n < MaxStarted
        /\ evaluations' = Append(evaluations, "running")
      BY <1>4 DEF StartEvaluation, TypeOK
  <2>1. /\ evaluations' \in Seq({"running", "200", "422"}) /\ Len(evaluations') = n + 1
        /\ DOMAIN evaluations = 1..n /\ DOMAIN evaluations' = 1..(n + 1)
        /\ \A e \in 1..n : evaluations'[e] = evaluations[e]
        /\ evaluations'[n + 1] = "running"
      BY <2>0
  <2> HIDE DEF n
  <2>2. SlotInv' /\ slots' \in 0..MaxSlots
    <3>1. Busy' = Busy
        BY <1>4 DEF StartEvaluation, Busy, TypeOK
    <3> QED
        BY <1>4, <3>1, KeepSlot DEF StartEvaluation
  <2>3. n + 1 \notin Running /\ Running' = Running \cup {n + 1}
      BY <2>0, <2>1 DEF Running
  <2>4. PermitInv' /\ permits' \in Nat
    <3>1. IsFiniteSet(Running') /\ Cardinality(Running') = Cardinality(Running) + 1
        BY <2>3, FS_AddElement DEF PermitInv
    <3> QED
        BY <1>4, <3>1 DEF StartEvaluation, PermitInv, TypeOK
  <2>5. handle \in [Clients -> 0..n] /\ handle' = [handle EXCEPT ![c] = n + 1]
      BY <1>4 DEF StartEvaluation, TypeOK, n
  <2>6. handle' \in [Clients -> 0..Len(evaluations')]
      BY <2>0, <2>1, <2>5
  <2>7. TypeOK'
      BY <1>4, <2>0, <2>1, <2>2, <2>4, <2>6 DEF StartEvaluation, TypeOK, Places
  <2>8. HandleInv'
      BY <1>4, <2>0, <2>1, <2>5 DEF StartEvaluation, HandleInv, TypeOK
  <2> QED
      BY <2>2, <2>4, <2>7, <2>8
<1>5. ASSUME NEW c \in Clients, NEW code \in {"400", "503"}, RefuseBody(c, code)
      PROVE  AdmissionInv'
    BY <1>5, LeaveKeeps DEF RefuseBody, Codes
<1>6. ASSUME NEW c \in Clients, NEW code \in {"408", "dropped"}, Drop(c, code)
      PROVE  AdmissionInv'
    BY <1>6, LeaveKeeps DEF Drop, Codes
<1>7. ASSUME NEW c \in Clients, Respond(c)
      PROVE  AdmissionInv'
  <2>1. handle[c] \in DOMAIN evaluations /\ evaluations[handle[c]] # "running"
      BY <1>7 DEF Respond, HandleInv, Running
  <2>2. evaluations[handle[c]] \in {"running", "200", "422"}
      BY <2>1 DEF TypeOK
  <2>3. evaluations[handle[c]] \in Codes
      BY <2>1, <2>2 DEF Codes
  <2> QED
      BY <1>7, <2>3, LeaveKeeps DEF Respond
<1>8. ASSUME NEW e \in Running, NEW code \in {"200", "422"}, EndEvaluation(e, code)
      PROVE  AdmissionInv'
  <2>1. /\ evaluations' \in Seq({"running", "200", "422"})
        /\ Len(evaluations') = Len(evaluations) /\ DOMAIN evaluations' = DOMAIN evaluations
        /\ evaluations'[e] = code
        /\ \A f \in DOMAIN evaluations \ {e} : evaluations'[f] = evaluations[f]
      BY <1>8 DEF EndEvaluation, Running, TypeOK
  <2>2. Running' = Running \ {e}
      BY <2>1 DEF Running
  <2>3. PermitInv' /\ permits' \in Nat
    <3>1. IsFiniteSet(Running') /\ Cardinality(Running') = Cardinality(Running) - 1
        BY <2>2, FS_RemoveElement DEF PermitInv
    <3> QED
        BY <1>8, <3>1 DEF EndEvaluation, PermitInv, TypeOK
  <2>4. SlotInv' /\ slots' \in 0..MaxSlots
      BY <1>8, KeepSlot DEF EndEvaluation, Busy
  <2>5. TypeOK' /\ HandleInv'
      BY <1>8, <2>1, <2>3, <2>4 DEF EndEvaluation, TypeOK, HandleInv
  <2> QED
      BY <2>3, <2>4, <2>5
<1> QED
    BY <1>1, <1>2, <1>3, <1>4, <1>5, <1>6, <1>7, <1>8
       DEF Next, EvaluationReturns, Deadline, Disconnect

(* The invariant holds at the start.                                       *)
LEMMA AdmissionStart ==
    ASSUME Init
    PROVE  AdmissionInv
<1>1. Busy = {} /\ Running = {}
    BY DEF Init, Busy, Running
<1>2. IsFiniteSet(Busy) /\ Cardinality(Busy) = 0 /\ IsFiniteSet(Running) /\ Cardinality(Running) = 0
    BY <1>1, FS_EmptySet
<1>3. TypeOK
  <2>0. evaluations = <<>> /\ handle = [c \in Clients |-> 0] /\ initialized = FALSE
      BY DEF Init
  <2>1. initialized \in BOOLEAN
      BY <2>0, Zenon
  <2>4. evaluations \in Seq({"running", "200", "422"}) /\ Len(evaluations) = 0
      BY <2>0
  <2>5. handle \in [Clients -> 0..Len(evaluations)]
      BY <2>0, <2>4
  <2>2. request \in [Clients -> Places] /\ reply \in [Clients -> Codes]
      BY DEF Init, Places, Codes
  <2>3. slots \in 0..MaxSlots /\ permits \in Nat
      BY DEF Init
  <2> QED
      BY <2>1, <2>2, <2>3, <2>4, <2>5 DEF TypeOK
<1>4. SlotInv /\ PermitInv
    BY <1>2 DEF Init, SlotInv, PermitInv
<1>5. HandleInv
    BY DEF Init, HandleInv
<1> QED
    BY <1>3, <1>4, <1>5 DEF AdmissionInv

(* So it always holds.                                                     *)
LEMMA AdmissionAlways == Spec => []AdmissionInv
<1> QED
    BY AdmissionStart, AdmissionStep, PTL DEF Spec

-----------------------------------------------------------------------------
(* The slots of the route and the other counters stay in their ranges: the *)
(* concurrency limit of build_router is never exceeded nor over-refilled.  *)
THEOREM AdmissionTypes == Spec => []TypeOK
<1>1. AdmissionInv => TypeOK
    BY DEF AdmissionInv
<1> QED
    BY <1>1, AdmissionAlways, PTL

(* ark_prepare never runs more evaluations than there are permits, those   *)
(* of dropped requests included, and loses no permit.                      *)
THEOREM EvaluationsAreBounded == Spec => []EvaluationsBounded
<1>1. ASSUME AdmissionInv
      PROVE  EvaluationsBounded
  <2>1. Cardinality(Running) \in Nat
      BY <1>1, FS_CardinalityType DEF AdmissionInv, PermitInv
  <2> QED
      BY <1>1, <2>1 DEF AdmissionInv, PermitInv, TypeOK, EvaluationsBounded
<1> QED
    BY <1>1, AdmissionAlways, PTL
-----------------------------------------------------------------------------
(* Every evaluation has a job, with a result once prepare has returned.    *)
Results == {Unreturned} \cup [code : {"200", "422"}, nonce : Nat]
JobInv ==
    /\ generated \in Nat
    /\ job \in Seq([client : Clients, result : Results])
    /\ Len(job) = Len(evaluations)

RouteInv == AdmissionInv /\ JobInv

(* A member of a sequence over a set is in the set.                        *)
LEMMA MemberOf ==
    ASSUME NEW S, NEW seq \in Seq(S), NEW i \in DOMAIN seq
    PROVE  seq[i] \in S
OBVIOUS

(* An evaluation that runs has a thread of the signer and a job.           *)
LEMMA RunningJob ==
    ASSUME RouteInv, NEW e \in Running
    PROVE  e \in DOMAIN job /\ e \in Threads
<1>1. /\ evaluations \in Seq({"running", "200", "422"}) /\ Len(evaluations) <= MaxStarted
      /\ e \in DOMAIN evaluations
    BY DEF RouteInv, AdmissionInv, TypeOK, Running
<1>2. job \in Seq([client : Clients, result : Results]) /\ Len(job) = Len(evaluations)
    BY DEF RouteInv, JobInv
<1>3. Len(evaluations) \in Nat /\ e \in 1..Len(evaluations)
    BY <1>1
<1> QED
    BY <1>1, <1>2, <1>3 DEF Threads

(* What a step of the composition does to the route is a step of           *)
(* ArkService or nothing.                                                  *)
LEMMA AdmissionOfStep ==
    ASSUME RouteInv, [RouteNext]_routeVars
    PROVE  [Next]_vars
<1>1. ASSUME NEW c \in Clients, Admission(c)
      PROVE  Next
    BY <1>1 DEF Admission, Next
<1>2. ASSUME NEW c \in Clients, Begin(c)
      PROVE  Next
    BY <1>2 DEF Begin, Next
<1>3. ASSUME NEW c \in Clients, Answer(c)
      PROVE  Next
    BY <1>3 DEF Answer, Next
<1>4. ASSUME NEW c \in Clients, Expire(c) \/ HangUp(c)
      PROVE  Next
    BY <1>4 DEF Expire, HangUp, Next
<1>5. ASSUME NEW e \in DOMAIN job, End(e)
      PROVE  Next
  <2>1. e \in Running /\ job[e].result # Unreturned /\ EndEvaluation(e, job[e].result.code)
      BY <1>5 DEF End
  <2>2. job[e].result \in Results
    <3>1. job \in Seq([client : Clients, result : Results])
        BY DEF RouteInv, JobInv
    <3>2. job[e] \in [client : Clients, result : Results]
        BY <3>1, MemberOf
    <3> QED
        BY <3>2
  <2>3. job[e].result.code \in {"200", "422"}
      BY <2>1, <2>2 DEF Results
  <2> QED
      BY <2>1, <2>3 DEF Next, EvaluationReturns
<1>6. CASE \/ Signer!Tick /\ UNCHANGED <<vars, job, told, abandoned>>
           \/ \E c \in Clients : GiveBack(c)
           \/ \E e \in DOMAIN job : Prepare(e)
           \/ FinishOn \/ UNCHANGED routeVars
    BY <1>6 DEF GiveBack, Prepare, FinishOn, routeVars
<1>7. CASE Initialize
    BY <1>7 DEF Next
<1> QED
    BY <1>1, <1>2, <1>3, <1>4, <1>5, <1>6, <1>7 DEF RouteNext, Evaluate

(* What it does to the table is a step of ArkSigner or nothing.            *)
LEMMA SignerOfStep ==
    ASSUME RouteInv, [RouteNext]_routeVars
    PROVE  [Signer!Next]_signer
<1>0. HttpTask \in Threads
    BY DEF HttpTask, Threads
<1>1. ASSUME NEW e \in DOMAIN job, Prepare(e)
      PROVE  [Signer!Next]_signer
  <2>1. e \in Threads
      BY <1>1, RunningJob DEF Prepare
  <2>2. Signer!CallStep(e)
      BY <1>1 DEF Prepare, Signer!CallStep
  <2> QED
      BY <2>1, <2>2 DEF Signer!Next
<1>2. ASSUME NEW c \in Clients, GiveBack(c)
      PROVE  [Signer!Next]_signer
  <2>1. Signer!CallStep(HttpTask)
      BY <1>2 DEF GiveBack, Signer!CallStep
  <2> QED
      BY <1>0, <2>1 DEF Signer!Next
<1>3. CASE FinishOn
  <2>1. Signer!CallStep(HttpTask)
      BY <1>3 DEF FinishOn, Signer!CallStep
  <2> QED
      BY <1>0, <2>1 DEF Signer!Next
<1>4. CASE Signer!Tick
    BY <1>4 DEF Signer!Next
<1>5. ASSUME NEW c \in Clients, \/ Admission(c) \/ Begin(c) \/ Answer(c)
                                \/ Expire(c) \/ HangUp(c)
      PROVE  UNCHANGED signer
    BY <1>5 DEF Admission, Begin, Answer, Expire, HangUp, Abandon
<1>6. CASE \/ Initialize /\ UNCHANGED <<signer, job, told, abandoned>>
           \/ \E e \in DOMAIN job : End(e)
           \/ UNCHANGED routeVars
    BY <1>6 DEF End, routeVars
<1> QED
    BY <1>1, <1>2, <1>3, <1>4, <1>5, <1>6 DEF RouteNext, Evaluate

(* A result is recorded for a job that has none.                           *)
LEMMA JobReturns ==
    ASSUME JobInv, NEW e \in DOMAIN job, NEW code \in {"200", "422"}, NEW nonce \in Nat,
           Returns(e, code, nonce), generated' \in Nat, UNCHANGED evaluations
    PROVE  JobInv'
<1>1. [code |-> code, nonce |-> nonce] \in Results
    BY DEF Results
<1>2. job \in Seq([client : Clients, result : Results]) /\ Len(job) \in Nat
      /\ DOMAIN job = 1..Len(job)
    BY DEF JobInv
<1>3. job[e] \in [client : Clients, result : Results]
    BY <1>2, MemberOf
<1>4. job' = [job EXCEPT ![e] = [job[e] EXCEPT !.result = [code |-> code, nonce |-> nonce]]]
    BY DEF Returns
<1>5. [job[e] EXCEPT !.result = [code |-> code, nonce |-> nonce]]
        \in [client : Clients, result : Results]
    BY <1>1, <1>3
<1>6. job' \in Seq([client : Clients, result : Results]) /\ Len(job') = Len(job)
    BY <1>2, <1>4, <1>5
<1> QED
    BY <1>6 DEF JobInv

(* Jobs keep up with evaluations.                                          *)
LEMMA JobStep ==
    ASSUME RouteInv, [RouteNext]_routeVars
    PROVE  JobInv'
<1> USE DEF RouteInv
<1>1. ASSUME NEW c \in Clients, Begin(c)
      PROVE  JobInv'
  <2>1. /\ evaluations' = Append(evaluations, "running")
        /\ job' = Append(job, [client |-> c, result |-> Unreturned]) /\ generated' = generated
      BY <1>1 DEF Begin, StartEvaluation, signer
  <2>2. [client |-> c, result |-> Unreturned] \in [client : Clients, result : Results]
      BY DEF Results
  <2>3. evaluations \in Seq({"running", "200", "422"})
      BY DEF AdmissionInv, TypeOK
  <2> QED
      BY <2>1, <2>2, <2>3 DEF JobInv
<1>2. ASSUME NEW e \in DOMAIN job, Prepare(e)
      PROVE  JobInv'
  <2>0. UNCHANGED evaluations
      BY <1>2 DEF Prepare, vars
  <2>1. ASSUME NEW r \in PrepareRequests, Signer!PrepareAuthorize(e, r), UNCHANGED job
        PROVE  JobInv'
      BY <2>0, <2>1 DEF Signer!PrepareAuthorize, Signer!table, JobInv
  <2>2. ASSUME NEW r \in PrepareRequests, Signer!PrepareRefuse(e, r), Returns(e, "422", 0)
        PROVE  JobInv'
    <3>1. generated' \in Nat
        BY <2>2 DEF Signer!PrepareRefuse, Signer!vars, JobInv
    <3> QED
        BY <2>0, <2>2, <3>1, JobReturns
  <2>3. ASSUME Signer!PrepareReserve(e), Returns(e, "200", generated + 1)
        PROVE  JobInv'
    <3>1. generated' \in Nat /\ generated + 1 \in Nat
        BY <2>3 DEF Signer!PrepareReserve, JobInv
    <3> QED
        BY <2>0, <2>3, <3>1, JobReturns
  <2>4. ASSUME Signer!PrepareFull(e), Returns(e, "422", 0)
        PROVE  JobInv'
    <3>1. generated' \in Nat
        BY <2>4 DEF Signer!PrepareFull, JobInv
    <3> QED
        BY <2>0, <2>4, <3>1, JobReturns
  <2> QED
      BY <1>2, <2>1, <2>2, <2>3, <2>4 DEF Prepare
<1>3. ASSUME NEW e \in DOMAIN job, End(e)
      PROVE  JobInv'
  <2>1. Len(evaluations') = Len(evaluations) /\ UNCHANGED <<job, generated>>
      BY <1>3 DEF End, EndEvaluation, signer, AdmissionInv, TypeOK
  <2> QED
      BY <2>1 DEF JobInv
<1>4. ASSUME UNCHANGED <<job, generated, evaluations>>
      PROVE  JobInv'
    BY <1>4 DEF JobInv
<1>5. ASSUME NEW c \in Clients, \/ Admission(c) \/ Answer(c) \/ Expire(c) \/ HangUp(c)
      PROVE  UNCHANGED <<job, generated, evaluations>>
    BY <1>5 DEF Admission, Arrive, ShedLoad, RefuseBody, Answer, Respond,
                Expire, HangUp, Abandon, Deadline, Disconnect, Drop, signer
<1>6. ASSUME NEW c \in Clients, GiveBack(c)
      PROVE  UNCHANGED <<job, generated, evaluations>>
    BY <1>6 DEF GiveBack, vars, Signer!FinishTake, Signer!Cancel
<1>7. CASE \/ FinishOn
           \/ Signer!Tick /\ UNCHANGED <<vars, job, told, abandoned>>
           \/ Initialize /\ UNCHANGED <<signer, job, told, abandoned>>
           \/ UNCHANGED routeVars
  <2>1. UNCHANGED <<job, generated, evaluations>>
      BY <1>7 DEF FinishOn, vars, signer, routeVars, Initialize, Signer!Tick, Signer!table,
                  Signer!FinishCheck, Signer!FinishSign, Signer!FinishError
  <2> QED
      BY <1>4, <2>1
<1>8. ASSUME NEW c \in Clients, \/ Admission(c) \/ Answer(c) \/ Expire(c) \/ HangUp(c)
                                \/ GiveBack(c)
      PROVE  JobInv'
    BY <1>4, <1>5, <1>6, <1>8
<1> QED
    BY <1>1, <1>2, <1>3, <1>7, <1>8 DEF RouteNext, Evaluate

(* So jobs and evaluations always correspond.                              *)
LEMMA RouteAlways == RouteSpec => []RouteInv
<1>1. ASSUME RouteInit
      PROVE  RouteInv
  <2>1. evaluations = <<>> /\ job = <<>> /\ generated = 0
      BY <1>1 DEF RouteInit, Init, Signer!Init
  <2>2. JobInv
      BY <2>1 DEF JobInv
  <2> QED
      BY <1>1, <2>2, AdmissionStart DEF RouteInit, RouteInv
<1>2. RouteInv /\ [RouteNext]_routeVars => RouteInv'
    BY AdmissionOfStep, AdmissionStep, JobStep DEF RouteInv
<1> QED
    BY <1>1, <1>2, PTL DEF RouteSpec

(* The route of the composition is ArkService: its bounds hold however     *)
(* sessions and evaluations interact.                                      *)
THEOREM RouteImplementsAdmission == RouteSpec => Spec
<1>1. RouteInit => Init
    BY DEF RouteInit
<1>2. RouteInv /\ [RouteNext]_routeVars => [Next]_vars
    BY AdmissionOfStep
<1> QED
    BY <1>1, <1>2, RouteAlways, PTL DEF RouteSpec, Spec

(* Its session table is ArkSigner, with the blocking threads as callers:   *)
(* one-use nonces, limits and authorization hold although requests are     *)
(* dropped around their evaluations.                                       *)
THEOREM RouteImplementsSigner == RouteSpec => Signer!Spec
<1>1. RouteInit => Signer!Init
    BY DEF RouteInit
<1>2. RouteInv /\ [RouteNext]_routeVars => [Signer!Next]_(Signer!vars)
    BY SignerOfStep DEF signer, Signer!vars
<1> QED
    BY <1>1, <1>2, RouteAlways, PTL DEF RouteSpec, Signer!Spec
=============================================================================
