---------------------------- MODULE Provisioning ----------------------------
(***************************************************************************)
(* How one enclave process gets its root: the /setup handler and install   *)
(* of src/src/app.rs, the dedicated signer thread that `run` spawns, and   *)
(* the ways a setup can be cut short.                                      *)
(*                                                                         *)
(* A handler is one /setup request.  Its steps end at its awaits: the KMS  *)
(* call of keys::derive_root, and the readiness message of the signer      *)
(* thread.  At an await the request deadline (tower's Timeout) answers 408 *)
(* and drops the handler, and a client that disconnects makes the server   *)
(* drop it without an answer; a dropped handler releases the setup gate    *)
(* and the receiver of its readiness message.  The two OnceLocks are set   *)
(* one after the other, visible to other workers in between.               *)
(*                                                                         *)
(* The production build is modelled: NSM is present, /setup is the only    *)
(* way to install a root.                                                  *)
(***************************************************************************)
EXTENDS Naturals, Sequences, FiniteSets

CONSTANTS
    Handlers,       \* /setup requests that can be in progress at once
    Settings,       \* settings that validate
    RootOf,         \* the root KMS and HKDF derive from each setting
    Nobody,         \* the gate is free
    None,           \* an empty OnceLock, a thread without a job
    MaxAttempts,    \* bound: jobs sent to the signer thread in a process
    MaxRestarts     \* bound: restarts of the process

ASSUME ProvisioningAssumption ==
    /\ Nobody \notin Handlers
    /\ MaxAttempts \in Nat /\ MaxRestarts \in Nat
    /\ DOMAIN RootOf = Settings
    /\ None \notin Settings
    /\ None \notin [settings : Settings, attempt : 1..MaxAttempts]
    /\ \A s \in Settings : RootOf[s] # None

VARIABLES
    process,    \* "running", or "exited" once `run` returned
    restarts,   \* how often the process was started again
    handler,    \* where each /setup request is
    gate,       \* setup_gate: the handler that holds it, or Nobody
    jobs,       \* the mpsc channel of capacity one to the signer thread
    attempts,   \* readiness channels created so far
    signer,     \* the signer thread
    ark_root,   \* root of AppState.ark_signer
    identity    \* AppState.identity

vars == <<process, restarts, handler, gate, jobs, attempts, signer,
          ark_root, identity>>

ChannelCapacity == 1
Attempts == 1..MaxAttempts

Roots == {RootOf[s] : s \in Settings}
Identity == [settings : Settings, root : Roots]
Job == [settings : Settings, attempt : Attempts]

Codes == {"none", "200", "400", "408", "409", "502", "503", "dropped"}
(* `attempt` names the readiness channel; `ready` is the message in it.    *)
HandlerState ==
    [pc : {"idle"}, reply : Codes]
    \cup [pc : {"kms"}, settings : Settings]
    \cup [pc : {"waiting", "publishing", "published"},
          settings : Settings, attempt : Attempts,
          ready : {"none", "ok", "error"}]

Replied(code) == [pc |-> "idle", reply |-> code]

Init ==
    /\ process = "running"
    /\ restarts = 0
    /\ handler = [h \in Handlers |-> Replied("none")]
    /\ gate = Nobody
    /\ jobs = <<>>
    /\ attempts = 0
    /\ signer = [state |-> "starting", job |-> None]
    /\ ark_root = None
    /\ identity = None

-----------------------------------------------------------------------------
(* Mutant: the guard of the gate outlives the request.                     *)
Answer_KeepsGate(h, code) ==
    /\ handler' = [handler EXCEPT ![h] = Replied(code)]
    /\ gate' = gate

(* The request ends: it is answered, and the guard of the gate is dropped. *)
Answer(h, code) ==
    /\ handler' = [handler EXCEPT ![h] = Replied(code)]
    /\ gate' = IF gate = h THEN Nobody ELSE gate

(* Mutant: the gate is not taken.                                          *)
SetupStart_NoGate(h, settings) ==
    /\ process = "running"
    /\ handler[h].pc = "idle"
    /\ identity = None
    /\ handler' = [handler EXCEPT ![h] = [pc |-> "kms", settings |-> settings]]
    /\ gate' = h
    /\ UNCHANGED <<process, restarts, jobs, attempts, signer, ark_root, identity>>

(* setup up to the KMS call.                                               *)
SetupStart(h, settings) ==
    /\ process = "running"
    /\ handler[h].pc = "idle"
    /\ gate = Nobody
    /\ identity = None
    /\ handler' = [handler EXCEPT ![h] = [pc |-> "kms", settings |-> settings]]
    /\ gate' = h
    /\ UNCHANGED <<process, restarts, jobs, attempts, signer, ark_root, identity>>

(* Settings that do not validate are refused before the gate is tried.     *)
SetupInvalid(h) ==
    /\ process = "running"
    /\ handler[h].pc = "idle"
    /\ handler' = [handler EXCEPT ![h] = Replied("400")]
    /\ UNCHANGED <<process, restarts, gate, jobs, attempts, signer, ark_root,
                   identity>>

SetupConflict(h) ==
    /\ process = "running"
    /\ handler[h].pc = "idle"
    /\ gate # Nobody \/ identity # None
    /\ handler' = [handler EXCEPT ![h] = Replied("409")]
    /\ UNCHANGED <<process, restarts, gate, jobs, attempts, signer, ark_root,
                   identity>>

KmsFails(h) ==
    /\ process = "running"
    /\ handler[h].pc = "kms"
    /\ Answer(h, "502")
    /\ UNCHANGED <<process, restarts, jobs, attempts, signer, ark_root, identity>>

(* Mutant: the channel to the signer thread is unbounded.                  *)
Install_Unbounded(h) ==
    /\ process = "running"
    /\ handler[h].pc = "kms"
    /\ signer.state # "ended"
    /\ attempts < MaxAttempts
    /\ attempts' = attempts + 1
    /\ LET settings == handler[h].settings
       IN  /\ jobs' = Append(jobs, [settings |-> settings, attempt |-> attempts + 1])
           /\ handler' = [handler EXCEPT ![h] =
                [pc |-> "waiting", settings |-> settings,
                 attempt |-> attempts + 1, ready |-> "none"]]
    /\ UNCHANGED <<process, restarts, gate, signer, ark_root, identity>>

(* install: the root is derived, the job is offered to the signer thread   *)
(* with try_send.                                                          *)
Install(h) ==
    /\ process = "running"
    /\ handler[h].pc = "kms"
    /\ signer.state # "ended" /\ Len(jobs) < ChannelCapacity
    /\ attempts < MaxAttempts
    /\ attempts' = attempts + 1
    /\ LET settings == handler[h].settings
       IN  /\ jobs' = Append(jobs, [settings |-> settings, attempt |-> attempts + 1])
           /\ handler' = [handler EXCEPT ![h] =
                [pc |-> "waiting", settings |-> settings,
                 attempt |-> attempts + 1, ready |-> "none"]]
    /\ UNCHANGED <<process, restarts, gate, signer, ark_root, identity>>

(* program_oracle or ArkSigner::new does not take the root (lines 62-63).  *)
InstallRejectsRoot(h) ==
    /\ process = "running"
    /\ handler[h].pc = "kms"
    /\ Answer(h, "503")
    /\ UNCHANGED <<process, restarts, jobs, attempts, signer, ark_root, identity>>

InstallUnavailable(h) ==
    /\ process = "running"
    /\ handler[h].pc = "kms"
    /\ signer.state = "ended" \/ Len(jobs) = ChannelCapacity
    /\ Answer(h, "503")
    /\ UNCHANGED <<process, restarts, jobs, attempts, signer, ark_root, identity>>

(* The readiness message says the listener is bound.                       *)
InstallReady(h) ==
    /\ process = "running"
    /\ handler[h].pc = "waiting"
    /\ handler[h].ready = "ok"
    /\ handler' = [handler EXCEPT ![h].pc = "publishing"]
    /\ UNCHANGED <<process, restarts, gate, jobs, attempts, signer, ark_root,
                   identity>>

(* The bind failed, the thread ended without a message, or the five-second *)
(* timeout fired; a message sent between the last look into the channel    *)
(* and its drop is lost, so the timeout can win over an "ok".              *)
InstallFails(h) ==
    /\ process = "running"
    /\ handler[h].pc = "waiting"
    /\ Answer(h, "503")
    /\ UNCHANGED <<process, restarts, jobs, attempts, signer, ark_root, identity>>

(* OnceLock::set keeps the first value.                                    *)
SetOnce(old, new) == IF old = None THEN new ELSE old

PublishSigner(h) ==
    /\ process = "running"
    /\ handler[h].pc = "publishing"
    /\ ark_root' = SetOnce(ark_root, RootOf[handler[h].settings])
    /\ IF ark_root = None
       THEN handler' = [handler EXCEPT ![h].pc = "published"] /\ gate' = gate
       ELSE Answer(h, "503")
    /\ UNCHANGED <<process, restarts, jobs, attempts, signer, identity>>

PublishIdentity(h) ==
    /\ process = "running"
    /\ handler[h].pc = "published"
    /\ identity' = SetOnce(identity, [settings |-> handler[h].settings,
                                      root |-> RootOf[handler[h].settings]])
    /\ Answer(h, IF identity = None THEN "200" ELSE "503")
    /\ UNCHANGED <<process, restarts, jobs, attempts, signer, ark_root>>

(* A handler can be dropped only at an await.                              *)
AtAwait(h) == handler[h].pc \in {"kms", "waiting"}

Deadline(h) ==
    /\ process = "running"
    /\ AtAwait(h)
    /\ Answer(h, "408")
    /\ UNCHANGED <<process, restarts, jobs, attempts, signer, ark_root, identity>>

Disconnect(h) ==
    /\ process = "running"
    /\ AtAwait(h)
    /\ Answer(h, "dropped")
    /\ UNCHANGED <<process, restarts, jobs, attempts, signer, ark_root, identity>>

-----------------------------------------------------------------------------
(* Mutant: readiness is announced to whichever setup is waiting.           *)
ReceiverOf_AnyWaiter(attempt) == {h \in Handlers : handler[h].pc = "waiting"}

(* The handler that still holds the receiver of a readiness channel.       *)
ReceiverOf(attempt) ==
    {h \in Handlers : handler[h].pc = "waiting" /\ handler[h].attempt = attempt}

Notify(attempt, message) ==
    handler' = [h \in Handlers |->
        IF h \in ReceiverOf(attempt) THEN [handler[h] EXCEPT !.ready = message]
                                     ELSE handler[h]]

(* The thread builds its runtime; a job may be queued before it did.       *)
SignerStarts ==
    /\ process = "running"
    /\ signer.state = "starting"
    /\ signer' = [signer EXCEPT !.state = "receiving"]
    /\ UNCHANGED <<process, restarts, handler, gate, jobs, attempts, ark_root,
                   identity>>

SignerRuntimeFails ==
    /\ process = "running"
    /\ signer.state = "starting"
    /\ signer' = [signer EXCEPT !.state = "ended"]
    /\ jobs' = <<>>
    /\ UNCHANGED <<process, restarts, handler, gate, attempts, ark_root, identity>>

SignerReceive ==
    /\ process = "running"
    /\ signer.state = "receiving"
    /\ jobs # <<>>
    /\ signer' = [state |-> "binding", job |-> Head(jobs)]
    /\ jobs' = Tail(jobs)
    /\ UNCHANGED <<process, restarts, handler, gate, attempts, ark_root, identity>>

SignerBindFails ==
    /\ process = "running"
    /\ signer.state = "binding"
    /\ Notify(signer.job.attempt, "error")
    /\ signer' = [signer EXCEPT !.state = "ended"]
    /\ jobs' = <<>>
    /\ UNCHANGED <<process, restarts, gate, attempts, ark_root, identity>>

(* Mutant: a readiness receiver that is gone does not stop the thread.     *)
SignerBinds_NoCheck ==
    /\ process = "running"
    /\ signer.state = "binding"
    /\ Notify(signer.job.attempt, "ok")
    /\ signer' = [signer EXCEPT !.state = "serving"]
    /\ UNCHANGED <<process, restarts, gate, jobs, attempts, ark_root, identity>>

(* The listener is bound; without a receiver for the message the thread    *)
(* ends, otherwise it serves until the process ends.                       *)
SignerBinds ==
    /\ process = "running"
    /\ signer.state = "binding"
    /\ Notify(signer.job.attempt, "ok")
    /\ LET serves == ReceiverOf(signer.job.attempt) # {}
       IN  /\ signer' = [signer EXCEPT !.state = IF serves THEN "serving" ELSE "ended"]
           /\ jobs' = IF serves THEN jobs ELSE <<>>
    /\ UNCHANGED <<process, restarts, gate, attempts, ark_root, identity>>

SignerStops ==
    /\ process = "running"
    /\ signer.state = "serving"
    /\ signer' = [signer EXCEPT !.state = "ended"]
    /\ jobs' = <<>>
    /\ UNCHANGED <<process, restarts, handler, gate, attempts, ark_root, identity>>

(* `run` returns when the signer thread ended.                             *)
SignerDone ==
    /\ process = "running"
    /\ signer.state = "ended"
    /\ process' = "exited"
    /\ UNCHANGED <<restarts, handler, gate, jobs, attempts, signer, ark_root,
                   identity>>

(* `run` returns on a termination signal; a crash of the enclave ends it   *)
(* the same way.                                                           *)
Shutdown ==
    /\ process = "running"
    /\ process' = "exited"
    /\ UNCHANGED <<restarts, handler, gate, jobs, attempts, signer, ark_root,
                   identity>>

(* The service manager starts a new process: RAM is lost.                  *)
Restart ==
    /\ process = "exited"
    /\ restarts < MaxRestarts
    /\ restarts' = restarts + 1
    /\ process' = "running"
    /\ handler' = [h \in Handlers |-> Replied("none")]
    /\ gate' = Nobody
    /\ jobs' = <<>>
    /\ attempts' = 0
    /\ signer' = [state |-> "starting", job |-> None]
    /\ ark_root' = None
    /\ identity' = None

(* What the process does on its own at a handler.                          *)
HandlerStep(h) ==
    \/ KmsFails(h) \/ Install(h) \/ InstallRejectsRoot(h) \/ InstallUnavailable(h)
    \/ InstallReady(h) \/ InstallFails(h)
    \/ PublishSigner(h) \/ PublishIdentity(h)

SignerStep ==
    \/ SignerStarts \/ SignerRuntimeFails
    \/ SignerReceive \/ SignerBindFails \/ SignerBinds

Next ==
    \/ \E h \in Handlers :
          \/ \E settings \in Settings : SetupStart(h, settings)
          \/ SetupInvalid(h) \/ SetupConflict(h)
          \/ HandlerStep(h)
          \/ Deadline(h) \/ Disconnect(h)
    \/ SignerStep \/ SignerStops \/ SignerDone
    \/ Shutdown \/ Restart

Spec == Init /\ [][Next]_vars

(* The runtime polls a handler whose KMS call, readiness message or timer  *)
(* is due, and every one of them is bounded by a timeout; the signer's own *)
(* thread runs; `run` notices that it ended.  Clients, signals and the     *)
(* service manager are not assumed to act.                                 *)
Fairness ==
    /\ \A h \in Handlers : WF_vars(HandlerStep(h))
    /\ WF_vars(SignerStep)
    /\ WF_vars(SignerDone)

FairSpec == Spec /\ Fairness

-----------------------------------------------------------------------------
(* Every variable has the shape its comment describes.                     *)
TypeOK ==
    /\ process \in {"running", "exited"}
    /\ restarts \in Nat
    /\ handler \in [Handlers -> HandlerState]
    /\ gate \in Handlers \cup {Nobody}
    /\ jobs \in {<<>>} \cup {<<j>> : j \in Job}
    /\ attempts \in 0..MaxAttempts
    /\ \/ signer \in [state : {"starting", "receiving", "ended"}, job : {None}]
       \/ signer \in [state : {"binding", "serving", "ended"}, job : Job]
    /\ ark_root \in Roots \cup {None}
    /\ identity \in Identity \cup {None}

(* The published identity, the Ark signer and the TCP signer hold the root *)
(* of the same settings, although three threads take part and other setups *)
(* with other settings may be abandoned or under way: whoever reads the    *)
(* identity (and checks the attestation of it) talks to signers with that  *)
(* root.                                                                   *)
RootAgreement ==
    identity # None =>
        /\ identity.root = RootOf[identity.settings]
        /\ ark_root = identity.root
        /\ signer.state \in {"serving", "ended"}
        /\ RootOf[signer.job.settings] = identity.root

(* Only the holder of the gate is past the checks of /setup, and every     *)
(* such handler holds it: no two roots are derived or installed at a time. *)
SetupExclusive ==
    \A h \in Handlers : handler[h].pc # "idle" => gate = h

(* The setup gate is always released: a setup that fails, times out or is  *)
(* dropped leaves the next one free to run.                                *)
GateReleased ==
    \A h \in Handlers : gate = h ~> (gate # h \/ process = "exited")

(* A root whose setup was abandoned before its listener was bound is never *)
(* served: the signer thread ends and takes the process with it.           *)
AbandonedJobEndsProcess ==
    (signer.state = "binding" /\ ReceiverOf(signer.job.attempt) = {})
        ~> process = "exited"

(* USAGE.txt, line 521: "The ProgramOracle TCP signer starts only after    *)
(* successful setup"; SECURITY.txt, line 32: "signing starts afterward".   *)
(* The signer serves first, and a setup dropped between the readiness      *)
(* message and its next poll leaves it serving for a setup that never      *)
(* succeeds.                                                               *)
ServedRootIsPublished ==
    signer.state = "serving" ~> (identity # None \/ process = "exited")

(* deploy/initialize.py, lines 133-136, of an answer 408: "the next /setup *)
(* attempt observes 409 if it is still in progress, or /public-key         *)
(* observes the finished identity".  The deadline drops the handler.       *)
DeadlineRacesWork ==
    \A h \in Handlers :
        handler[h] = Replied("408") => gate # Nobody \/ identity # None
=============================================================================
