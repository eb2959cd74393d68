------------------------------ MODULE Bootstrap -----------------------------
(***************************************************************************)
(* How a deployed enclave is initialized: the processes of Provisioning,   *)
(* the polling loop of src/deploy/initialize.py and the service unit that  *)
(* runs it after each start (ExecStartPost).  wait-ready.py runs the same  *)
(* loop once more, from outside, when the unit is active.                  *)
(*                                                                         *)
(* An initializer asks /public-key, then /setup or /health.  It gives up   *)
(* when its timer fires or an answer is not one it can wait for.  Anybody  *)
(* else can call /setup as well, with any settings.                        *)
(***************************************************************************)
EXTENDS Provisioning

CONSTANTS
    Boot,       \* the initializer that the unit runs
    Ready,      \* the initializer that wait-ready.py runs
    Deployed    \* the settings in setup.json

Initializers == {Boot, Ready}

ASSUME BootstrapAssumption ==
    Boot # Ready /\ Initializers \subseteq Handlers /\ Deployed \in Settings

VARIABLE client     \* each initializer: what it does next, what it has seen

system == <<vars, client>>

ClientSteps == {"off", "public-key", "setup", "waiting", "health", "done", "failed"}
Client == [pc : ClientSteps, seen : Identity \cup {None}]
Polling == [pc |-> "public-key", seen |-> None]

BootInit ==
    /\ Init
    /\ client = [i \in Initializers |->
                   IF i = Boot THEN Polling ELSE [pc |-> "off", seen |-> None]]

Goes(i, pc) == client' = [client EXCEPT ![i].pc = pc]

-----------------------------------------------------------------------------
(* Mutant: the settings of the identity are not compared.                  *)
ValidIdentity_AnySettings(body) == body # None

(* validate_identity: the settings must be the ones to be deployed.        *)
ValidIdentity(body) == body # None /\ body.settings = Deployed

Accepts(i, body) ==
    IF ValidIdentity(body)
    THEN client' = [client EXCEPT ![i] = [pc |-> "health", seen |-> body]]
    ELSE Goes(i, "failed")

(* 503 sends the initializer to /setup, an identity to the check of it.    *)
AskPublicKey(i) ==
    /\ client[i].pc = "public-key"
    /\ process = "running"
    /\ IF identity = None THEN Goes(i, "setup") ELSE Accepts(i, identity)
    /\ UNCHANGED vars

(* The request goes out; the answer comes when the handler is done.  If an *)
(* earlier request of this client is still being handled, the answer is    *)
(* 409 at once.                                                            *)
PostSetup(i) ==
    /\ client[i].pc = "setup"
    /\ process = "running"
    /\ \/ /\ SetupStart(i, Deployed) \/ SetupConflict(i)
          /\ Goes(i, "waiting")
       \/ /\ handler[i].pc # "idle"
          /\ Goes(i, "public-key")
          /\ UNCHANGED vars

Retried == {"408", "409", "502"}
Lost == {"none", "dropped"}         \* the connection ended without an answer

ReadReply(i) ==
    /\ client[i].pc = "waiting"
    /\ handler[i].pc = "idle"
    /\ LET code == handler[i].reply
       IN  \/ code = "200" /\ Accepts(i, identity)
           \/ code \in Retried \cup Lost /\ Goes(i, "public-key")
           \/ code = "503" /\ Goes(i, "failed")
    /\ UNCHANGED vars

AskHealth(i) ==
    /\ client[i].pc = "health"
    /\ process = "running"
    /\ Goes(i, IF identity # None THEN "done" ELSE "public-key")
    /\ UNCHANGED vars

(* The API sheds load with 503, which means "not initialized" for the      *)
(* first request, is fatal for /setup and "not ready" for /health.         *)
Shed(i) ==
    /\ process = "running"
    /\ \/ client[i].pc = "public-key" /\ Goes(i, "setup")
       \/ client[i].pc = "setup" /\ Goes(i, "failed")
       \/ client[i].pc = "health" /\ Goes(i, "public-key")
    /\ UNCHANGED vars

(* A refused or broken connection, at any request: sleep and start over.   *)
Unreachable(i) ==
    /\ client[i].pc \in {"setup", "waiting", "health"}
    /\ Goes(i, "public-key")
    /\ UNCHANGED vars

(* The process-wide timer: DeadlineExpired.                                *)
TimedOut(i) ==
    /\ client[i].pc \notin {"off", "done", "failed"}
    /\ Goes(i, "failed")
    /\ UNCHANGED vars

ClientStep(i) ==
    \/ AskPublicKey(i) \/ PostSetup(i) \/ ReadReply(i) \/ AskHealth(i)
    \/ Shed(i) \/ Unreachable(i)

-----------------------------------------------------------------------------
(* Mutant: the unit ignores a failed initializer (ExecStartPost=-...).     *)
UnitStops_Ignored ==
    /\ client[Boot].pc = "failed"
    /\ process = "running"
    /\ Goes(Boot, "done")
    /\ UNCHANGED vars

(* A failed ExecStartPost fails the unit, which stops the enclave.         *)
UnitStops ==
    /\ client[Boot].pc = "failed"
    /\ Shutdown
    /\ UNCHANGED client

(* Restart=on-failure: a new enclave and a new initializer, after the old  *)
(* initializer has ended.                                                  *)
UnitRestarts ==
    /\ client[Boot].pc \in {"done", "failed"}
    /\ Restart
    /\ client' = [client EXCEPT ![Boot] = Polling]

(* wait-ready.py runs its initializer once the unit is active.             *)
WaitReady ==
    /\ client[Ready].pc = "off"
    /\ client[Boot].pc = "done"
    /\ client' = [client EXCEPT ![Ready] = Polling]
    /\ UNCHANGED vars

(* Everybody else's requests, and what the enclave does by itself.         *)
EnclaveStep ==
    \/ \E h \in Handlers \ Initializers :
          \/ \E settings \in Settings : SetupStart(h, settings)
          \/ SetupConflict(h)
    \/ \E h \in Handlers : HandlerStep(h) \/ Deadline(h) \/ Disconnect(h)
    \/ SignerStep \/ SignerStops \/ SignerDone \/ Shutdown

BootNext ==
    \/ \E i \in Initializers : ClientStep(i) \/ TimedOut(i)
    \/ UnitStops \/ UnitRestarts \/ WaitReady
    \/ EnclaveStep /\ UNCHANGED client

BootSpec == BootInit /\ [][BootNext]_system

(* The timer of the unit's initializer fires and systemd stops a unit that *)
(* failed.  Nothing else is assumed to happen: no request is answered, no  *)
(* handler runs, nothing restarts.                                         *)
BootFairness == WF_system(TimedOut(Boot)) /\ WF_system(UnitStops)

FairBootSpec == BootSpec /\ BootFairness

-----------------------------------------------------------------------------
(* Every variable has the shape its comment describes.                     *)
BootTypeOK == TypeOK /\ client \in [Initializers -> Client]

(* While the unit is active, the running process has the identity its      *)
(* initializer saw, with the deployed settings: the initializer may have   *)
(* read it, waited and asked for the health much later, while other        *)
(* clients set up the enclave and processes came and went.                 *)
ActiveIsDeployed ==
    client[Boot].pc = "done" =>
        identity = client[Boot].seen /\ identity.settings = Deployed

(* An enclave that somebody else initialized with other settings does not  *)
(* stay up: the initializer refuses it and the unit stops it.              *)
StrangerEvicted ==
    (identity # None /\ identity.settings # Deployed) ~> process = "exited"

(* A signer left over by a setup that was dropped does not stay up either: *)
(* no setup can succeed any more, and the initializer gives up.            *)
OrphanEvicted ==
    (signer.state = "serving" /\ identity = None)
        ~> (identity # None \/ process = "exited")

(* deploy/initialize.py, line 2: "Initialize a Nitro signer and wait for a *)
(* matching, healthy public identity."  The identity and the health can    *)
(* come from two processes.                                                *)
ReadyIsDeployed ==
    [][client[Ready].pc = "health" /\ client'[Ready].pc = "done" =>
          identity = client[Ready].seen]_system
=============================================================================
