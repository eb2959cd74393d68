------------------------------ MODULE ArkService ----------------------------
(***************************************************************************)
(* Admission of POST /ark/prepare (src/src/app.rs): the slots of the       *)
(* route, the permits for evaluations, and the request deadline.           *)
(*                                                                         *)
(* A request holds its slot while it is in the service, reading its body   *)
(* or waiting on the JoinHandle of its evaluation.  The evaluation runs on *)
(* a blocking thread that owns the permit: when the deadline or a          *)
(* disconnect drops the request, the evaluation goes on, and the session   *)
(* that it may reserve is one nobody was told about; so is the session of  *)
(* an evaluation that has ended when the deadline fires before its request *)
(* is polled again.  A panic in an evaluation aborts the process, so no    *)
(* request sees a JoinError.  Every route has its own slots; the handlers  *)
(* of the other routes never wait.                                         *)
(***************************************************************************)
EXTENDS Naturals, FiniteSets, Sequences

CONSTANTS
    Clients,            \* each has at most one request in the service
    MaxSlots,           \* concurrency_limit: 16
    MaxEvaluations,     \* MAX_CONNECTIONS: 4 permits of ark_admission
    MaxStarted          \* bound: evaluations started in a behaviour

ASSUME AdmissionAssumption ==
    /\ MaxSlots \in Nat \ {0} /\ MaxEvaluations \in Nat \ {0} /\ MaxStarted \in Nat

VARIABLES
    initialized,    \* AppState.identity and ark_signer are set
    request,        \* where each client's request is
    reply,          \* the answer to each client's last request
    slots,          \* free slots of the route
    permits,        \* free permits of ark_admission
    evaluations,    \* blocking tasks in order of their start: running, or ended how
    handle          \* the evaluation whose JoinHandle a request awaits, or 0

vars == <<initialized, request, reply, slots, permits, evaluations, handle>>

Places == {"away", "body", "evaluating"}
Codes == {"none", "200", "400", "408", "422", "503", "dropped"}

Init ==
    /\ initialized = FALSE
    /\ request = [c \in Clients |-> "away"]
    /\ reply = [c \in Clients |-> "none"]
    /\ slots = MaxSlots
    /\ permits = MaxEvaluations
    /\ evaluations = <<>>
    /\ handle = [c \in Clients |-> 0]

Running == {e \in DOMAIN evaluations : evaluations[e] = "running"}

(* Setup publishes the signer; it is never taken back.                     *)
Initialize ==
    /\ ~initialized
    /\ initialized' = TRUE
    /\ UNCHANGED <<request, reply, slots, permits, evaluations, handle>>

-----------------------------------------------------------------------------
(* Mutant: requests are admitted without a limit.                          *)
Arrive_NoLimit(c) ==
    /\ request[c] = "away"
    /\ slots' = slots - 1
    /\ request' = [request EXCEPT ![c] = "body"]
    /\ reply' = [reply EXCEPT ![c] = "none"]
    /\ UNCHANGED <<initialized, permits, evaluations, handle>>

(* load_shed over concurrency_limit: a slot, or 503 at once.               *)
Arrive(c) ==
    /\ request[c] = "away"
    /\ slots > 0
    /\ slots' = slots - 1
    /\ request' = [request EXCEPT ![c] = "body"]
    /\ reply' = [reply EXCEPT ![c] = "none"]
    /\ UNCHANGED <<initialized, permits, evaluations, handle>>

ShedLoad(c) ==
    /\ request[c] = "away"
    /\ slots = 0
    /\ reply' = [reply EXCEPT ![c] = "503"]
    /\ UNCHANGED <<initialized, request, slots, permits, evaluations, handle>>

(* Mutant: the slot is not released.                                       *)
Leave_KeepsSlot(c, code) ==
    /\ request' = [request EXCEPT ![c] = "away"]
    /\ reply' = [reply EXCEPT ![c] = code]
    /\ handle' = [handle EXCEPT ![c] = 0]
    /\ slots' = slots

(* The response future ends or is dropped, and with it the slot and the    *)
(* handle it owns.                                                         *)
Leave(c, code) ==
    /\ request' = [request EXCEPT ![c] = "away"]
    /\ reply' = [reply EXCEPT ![c] = code]
    /\ handle' = [handle EXCEPT ![c] = 0]
    /\ slots' = slots + 1

(* The whole body arrived: ark_prepare takes the signer and a permit, and  *)
(* starts the evaluation.                                                  *)
StartEvaluation(c) ==
    /\ request[c] = "body"
    /\ initialized
    /\ permits > 0
    /\ Len(evaluations) < MaxStarted
    /\ permits' = permits - 1
    /\ evaluations' = Append(evaluations, "running")
    /\ handle' = [handle EXCEPT ![c] = Len(evaluations) + 1]
    /\ request' = [request EXCEPT ![c] = "evaluating"]
    /\ UNCHANGED <<initialized, reply, slots>>

(* Not initialized, no permit, or a body that does not parse.              *)
RefuseBody(c, code) ==
    /\ request[c] = "body"
    /\ \/ code = "400"
       \/ code = "503" /\ (~initialized \/ permits = 0)
    /\ Leave(c, code)
    /\ UNCHANGED <<initialized, permits, evaluations>>

(* Mutant: the permit is kept when prepare returns an error.               *)
EndEvaluation_LeaksPermit(e, code) ==
    /\ e \in Running
    /\ evaluations' = [evaluations EXCEPT ![e] = code]
    /\ permits' = IF code = "200" THEN permits + 1 ELSE permits
    /\ UNCHANGED <<initialized, request, reply, slots, handle>>

(* signer.prepare returns, with a session or an error, and the closure     *)
(* drops its permit; the result waits in the task for whoever awaits it.   *)
EndEvaluation(e, code) ==
    /\ e \in Running
    /\ evaluations' = [evaluations EXCEPT ![e] = code]
    /\ permits' = permits + 1
    /\ UNCHANGED <<initialized, request, reply, slots, handle>>

(* The waiting request is polled again and answered with the result.       *)
Respond(c) ==
    /\ request[c] = "evaluating"
    /\ handle[c] \notin Running
    /\ Leave(c, evaluations[handle[c]])
    /\ UNCHANGED <<initialized, permits, evaluations>>

(* Mutant: the permit belongs to the request instead of the evaluation.    *)
Drop_FreesPermit(c, code) ==
    /\ request[c] # "away"
    /\ Leave(c, code)
    /\ permits' = IF handle[c] \in Running THEN permits + 1 ELSE permits
    /\ UNCHANGED <<initialized, evaluations>>

(* The request is dropped; its evaluation, if there is one, goes on, and   *)
(* a result that was not delivered yet is lost.                            *)
Drop(c, code) ==
    /\ request[c] # "away"
    /\ Leave(c, code)
    /\ UNCHANGED <<initialized, permits, evaluations>>

Deadline(c) == Drop(c, "408")
Disconnect(c) == Drop(c, "dropped")
EvaluationReturns == \E e \in Running, code \in {"200", "422"} :
                         EndEvaluation(e, code)

Next ==
    \/ Initialize
    \/ \E c \in Clients :
          \/ Arrive(c) \/ ShedLoad(c) \/ StartEvaluation(c)
          \/ \E code \in {"400", "503"} : RefuseBody(c, code)
          \/ Respond(c) \/ Deadline(c) \/ Disconnect(c)
    \/ EvaluationReturns

Spec == Init /\ [][Next]_vars

-----------------------------------------------------------------------------
(* Every variable has the shape its comment describes.                     *)
TypeOK ==
    /\ initialized \in BOOLEAN
    /\ request \in [Clients -> Places]
    /\ reply \in [Clients -> Codes]
    /\ slots \in 0..MaxSlots
    /\ permits \in Nat
    /\ evaluations \in Seq({"running", "200", "422"})
    /\ Len(evaluations) <= MaxStarted
    /\ handle \in [Clients -> 0..Len(evaluations)]

(* No more than MAX_CONNECTIONS evaluations run at a time, those of        *)
(* requests that were already answered 408 included, and every permit is   *)
(* either free or held by exactly one of them.                             *)
EvaluationsBounded ==
    /\ Cardinality(Running) <= MaxEvaluations
    /\ permits + Cardinality(Running) = MaxEvaluations

(* "cheap incomplete requests cannot pin an entire route": a full route    *)
(* gets a free slot again, although clients never finish their bodies.     *)
RouteRecovers == slots = 0 ~> slots > 0

(* The evaluation permits come back although their requests are gone.      *)
PermitsRecover == permits = 0 ~> permits > 0
=============================================================================
