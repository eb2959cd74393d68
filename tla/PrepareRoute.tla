----------------------------- MODULE PrepareRoute ---------------------------
(***************************************************************************)
(* POST /ark/prepare from the client to the session table and back: the    *)
(* admission of ArkService, whose evaluations are calls of ArkSigner.      *)
(*                                                                         *)
(* Evaluation e is thread e of the signer; thread 0 serves /ark/finish and *)
(* /ark/cancel.  A client is a wallet.  It learns a session (by its nonce) *)
(* when its request is answered, and finishes or cancels only sessions it  *)
(* has learned: the ids are random.  The deadline and a disconnect hit a   *)
(* request anywhere, also when its session is already reserved.            *)
(***************************************************************************)
EXTENDS ArkService

CONSTANTS
    Destinations, BadEntry, Roots, Wallets, Messages,
    SessionIds, PrepareRequests, FinishForms,
    MaxPending, MaxPerUser, Lifetime,
    MaxNonces, MaxTime, MaxRestarts

VARIABLES
    root, epoch, clock, pending, call, generated, birth,
    uses, partials, cancelled, ended,   \* the signer
    job,        \* for each evaluation its client and what prepare returned
    told,       \* the nonces of the sessions each client was told
    abandoned   \* history: evaluations whose request was dropped

Threads == 0..MaxStarted
HttpTask == 0

Signer == INSTANCE ArkSigner WITH Calls <- Threads

signer == <<root, epoch, clock, pending, call, generated, birth,
            uses, partials, cancelled, ended>>
routeVars == <<vars, signer, job, told, abandoned>>

Unreturned == [code |-> "none", nonce |-> 0]

RouteInit ==
    /\ Init
    /\ Signer!Init
    /\ job = <<>>
    /\ told = [c \in Clients |-> {}]
    /\ abandoned = {}

-----------------------------------------------------------------------------
(* The body is parsed and its evaluation starts on a thread of its own.    *)
Begin(c) ==
    /\ StartEvaluation(c)
    /\ job' = Append(job, [client |-> c, result |-> Unreturned])
    /\ UNCHANGED <<signer, told, abandoned>>

Returns(e, code, nonce) ==
    job' = [job EXCEPT ![e].result = [code |-> code, nonce |-> nonce]]

(* signer.prepare on the blocking thread, for a request of the client's    *)
(* wallet: refused by its checks, turned away, or with a session.          *)
Prepare(e) ==
    /\ e \in Running
    /\ job[e].result = Unreturned
    /\ \/ \E r \in PrepareRequests :
             /\ r.wallet = job[e].client
             /\ \/ Signer!PrepareAuthorize(e, r) /\ UNCHANGED job
                \/ Signer!PrepareRefuse(e, r) /\ Returns(e, "422", 0)
       \/ Signer!PrepareReserve(e) /\ Returns(e, "200", generated + 1)
       \/ Signer!PrepareFull(e) /\ Returns(e, "422", 0)
    /\ UNCHANGED <<vars, told, abandoned>>

(* The closure ends; then, perhaps, the request that awaits it is answered.*)
End(e) ==
    /\ e \in Running
    /\ job[e].result # Unreturned
    /\ EndEvaluation(e, job[e].result.code)
    /\ UNCHANGED <<signer, job, told, abandoned>>

Answer(c) ==
    /\ Respond(c)
    /\ LET result == job[handle[c]].result
       IN  told' = IF result.code = "200"
                   THEN [told EXCEPT ![c] = @ \cup {result.nonce}] ELSE told
    /\ UNCHANGED <<signer, job, abandoned>>

(* The request is dropped, and with it the handle of its evaluation.       *)
Abandon(c) ==
    /\ abandoned' = abandoned \cup ({handle[c]} \ {0})
    /\ UNCHANGED <<signer, job, told>>

Expire(c) == Deadline(c) /\ Abandon(c)
HangUp(c) == Disconnect(c) /\ Abandon(c)

(* Steps of the route before there is an evaluation.                       *)
Admission(c) ==
    /\ \/ Arrive(c) \/ ShedLoad(c)
       \/ \E code \in {"400", "503"} : RefuseBody(c, code)
    /\ UNCHANGED <<signer, job, told, abandoned>>

(* /ark/finish and /ark/cancel, for a session the client knows.            *)
GiveBack(c) ==
    /\ \E s \in SessionIds :
          /\ s \in DOMAIN pending /\ pending[s].nonce \in told[c]
          /\ \/ \E form \in FinishForms : Signer!FinishTake(HttpTask, s, form)
             \/ \E ok \in BOOLEAN : Signer!Cancel(HttpTask, s, ok)
    /\ UNCHANGED <<vars, job, told, abandoned>>

FinishOn ==
    /\ \/ Signer!FinishCheck(HttpTask) \/ Signer!FinishSign(HttpTask)
       \/ Signer!FinishError(HttpTask)
    /\ UNCHANGED <<vars, job, told, abandoned>>

Evaluate == \E e \in DOMAIN job : Prepare(e) \/ End(e)

RouteNext ==
    \/ Initialize /\ UNCHANGED <<signer, job, told, abandoned>>
    \/ Signer!Tick /\ UNCHANGED <<vars, job, told, abandoned>>
    \/ \E c \in Clients :
          \/ Admission(c) \/ Begin(c) \/ Answer(c)
          \/ Expire(c) \/ HangUp(c) \/ GiveBack(c)
    \/ Evaluate
    \/ FinishOn

RouteSpec == RouteInit /\ [][RouteNext]_routeVars

(* The timer of a request fires; fuel and the compilation budget make      *)
(* evaluations return.  Clients are not assumed to send anything.          *)
RouteFairness ==
    /\ \A c \in Clients : WF_routeVars(Expire(c))
    /\ WF_routeVars(Evaluate)

RouteFairSpec == RouteSpec /\ RouteFairness

-----------------------------------------------------------------------------
(* What a client has to answer for: the sessions it was told and has not   *)
(* given back, and those of requests it did not wait for.                  *)
Charged(c) ==
    (told[c] \ ended)
    \cup ({job[e].result.nonce : e \in {f \in abandoned : job[f].client = c}} \ {0})

=============================================================================
