------------------------- MODULE ProvisioningProofs -------------------------
(***************************************************************************)
(* Proofs about Provisioning: types, exclusion of setups, and agreement on *)
(* one root, for any number of handlers, settings, jobs and restarts.      *)
(* And about Bootstrap: the enclave of a deployment is an enclave of       *)
(* Provisioning, and an active unit serves what its initializer checked,   *)
(* for any number of other clients, settings and restarts.                 *)
(***************************************************************************)
EXTENDS Bootstrap, TLAPS

USE ProvisioningAssumption

(* The shape of a handler follows from where it is.                        *)
LEMMA HandlerShape ==
    ASSUME TypeOK, NEW h \in Handlers
    PROVE  /\ handler[h].pc \in {"idle", "kms", "waiting", "publishing", "published"}
           /\ handler[h].pc # "idle" => handler[h].settings \in Settings
           /\ handler[h].pc \in {"waiting", "publishing", "published"} =>
                /\ handler[h] \in [pc : {"waiting", "publishing", "published"},
                                   settings : Settings, attempt : Attempts,
                                   ready : {"none", "ok", "error"}]
<1>1. handler[h] \in HandlerState
    BY DEF TypeOK
<1> QED
    BY <1>1 DEF HandlerState

(* An answer keeps the types of the handlers and of the gate.              *)
LEMMA AnswerType ==
    ASSUME TypeOK, NEW h \in Handlers, NEW code \in Codes, Answer(h, code)
    PROVE  handler' \in [Handlers -> HandlerState] /\ gate' \in Handlers \cup {Nobody}
<1>1. Replied(code) \in HandlerState
    BY DEF Replied, HandlerState
<1> QED
    BY <1>1 DEF Answer, TypeOK

(* So does a readiness message.                                            *)
LEMMA NotifyType ==
    ASSUME TypeOK, NEW attempt, NEW message \in {"ok", "error"},
           Notify(attempt, message)
    PROVE  handler' \in [Handlers -> HandlerState]
<1>1. ASSUME NEW h \in Handlers
      PROVE  (IF h \in ReceiverOf(attempt) THEN [handler[h] EXCEPT !.ready = message]
                                           ELSE handler[h]) \in HandlerState
  <2>1. CASE h \in ReceiverOf(attempt)
    <3>1. handler[h] \in [pc : {"waiting", "publishing", "published"},
                          settings : Settings, attempt : Attempts,
                          ready : {"none", "ok", "error"}]
        BY <2>1, HandlerShape DEF ReceiverOf
    <3> QED
        BY <2>1, <3>1 DEF HandlerState
  <2>2. CASE h \notin ReceiverOf(attempt)
      BY <2>2 DEF TypeOK
  <2> QED
      BY <2>1, <2>2
<1> QED
    BY <1>1 DEF Notify

(* Every variable keeps its type.                                          *)
LEMMA TypeStep ==
    ASSUME TypeOK, [Next]_vars
    PROVE  TypeOK'
<1>0. \A c : c \in {"200", "408", "409", "502", "503", "dropped", "400", "none"} => c \in Codes
    BY DEF Codes
<1>1. ASSUME NEW h \in Handlers, NEW settings \in Settings, SetupStart(h, settings)
      PROVE  TypeOK'
    BY <1>1 DEF SetupStart, TypeOK, HandlerState
<1>2. ASSUME NEW h \in Handlers, SetupInvalid(h) \/ SetupConflict(h)
      PROVE  TypeOK'
    BY <1>2 DEF SetupInvalid, SetupConflict, TypeOK, HandlerState, Replied, Codes
<1>3. ASSUME NEW h \in Handlers,
             \/ KmsFails(h) \/ InstallRejectsRoot(h) \/ InstallUnavailable(h) \/ InstallFails(h)
             \/ Deadline(h) \/ Disconnect(h)
      PROVE  TypeOK'
  <2>1. handler' \in [Handlers -> HandlerState] /\ gate' \in Handlers \cup {Nobody}
      BY <1>0, <1>3, AnswerType
         DEF KmsFails, InstallRejectsRoot, InstallUnavailable, InstallFails, Deadline, Disconnect
  <2> QED
      BY <1>3, <2>1
         DEF KmsFails, InstallRejectsRoot, InstallUnavailable, InstallFails,
             Deadline, Disconnect, TypeOK
<1>4. ASSUME NEW h \in Handlers, Install(h)
      PROVE  TypeOK'
  <2>1. handler[h].settings \in Settings /\ attempts + 1 \in Attempts
      BY <1>4, HandlerShape DEF Install, TypeOK, Attempts
  <2>2. jobs = <<>>
      BY <1>4 DEF Install, TypeOK, ChannelCapacity
  <2>3. jobs' \in {<<j>> : j \in Job}
      BY <1>4, <2>1, <2>2 DEF Install, Job
  <2>4. handler' \in [Handlers -> HandlerState]
      BY <1>4, <2>1 DEF Install, TypeOK, HandlerState
  <2> QED
      BY <1>4, <2>1, <2>3, <2>4 DEF Install, TypeOK, Attempts
<1>5. ASSUME NEW h \in Handlers, InstallReady(h)
      PROVE  TypeOK'
  <2>1. handler' \in [Handlers -> HandlerState]
      BY <1>5, HandlerShape DEF InstallReady, TypeOK, HandlerState
  <2> QED
      BY <1>5, <2>1 DEF InstallReady, TypeOK
<1>6. ASSUME NEW h \in Handlers, PublishSigner(h)
      PROVE  TypeOK'
  <2>1. RootOf[handler[h].settings] \in Roots
      BY <1>6, HandlerShape DEF PublishSigner, Roots
  <2>2. handler' \in [Handlers -> HandlerState] /\ gate' \in Handlers \cup {Nobody}
    <3>1. CASE ark_root = None
        BY <1>6, <3>1, HandlerShape DEF PublishSigner, TypeOK, HandlerState
    <3>2. CASE ark_root # None
        BY <1>0, <1>6, <3>2, AnswerType DEF PublishSigner
    <3> QED
        BY <3>1, <3>2
  <2> QED
      BY <1>6, <2>1, <2>2 DEF PublishSigner, SetOnce, TypeOK
<1>7. ASSUME NEW h \in Handlers, PublishIdentity(h)
      PROVE  TypeOK'
  <2>1. handler[h].settings \in Settings
      BY <1>7, HandlerShape DEF PublishIdentity
  <2>2. handler' \in [Handlers -> HandlerState] /\ gate' \in Handlers \cup {Nobody}
      BY <1>0, <1>7, AnswerType DEF PublishIdentity
  <2> QED
      BY <1>7, <2>1, <2>2 DEF PublishIdentity, SetOnce, TypeOK, Identity, Roots
<1>8. CASE SignerStarts \/ SignerRuntimeFails
    BY <1>8 DEF SignerStarts, SignerRuntimeFails, TypeOK, Job
<1>9. CASE SignerReceive
  <2>1. PICK j \in Job : jobs = <<j>>
      BY <1>9 DEF SignerReceive, TypeOK
  <2>2. Head(jobs) = j /\ Tail(jobs) = <<>>
      BY <2>1
  <2> QED
      BY <1>9, <2>1, <2>2 DEF SignerReceive, TypeOK
<1>10. CASE SignerBindFails \/ SignerBinds
  <2>1. signer.job \in Job /\ signer \in [state : {"binding", "serving", "ended"}, job : Job]
      BY <1>10 DEF SignerBindFails, SignerBinds, TypeOK
  <2>2. handler' \in [Handlers -> HandlerState]
      BY <1>10, NotifyType DEF SignerBindFails, SignerBinds
  <2>3. signer' \in [state : {"binding", "serving", "ended"}, job : Job]
      BY <1>10, <2>1 DEF SignerBindFails, SignerBinds
  <2> QED
      BY <1>10, <2>2, <2>3 DEF SignerBindFails, SignerBinds, TypeOK
<1>11. CASE SignerStops \/ SignerDone \/ Shutdown
    BY <1>11 DEF SignerStops, SignerDone, Shutdown, TypeOK
<1>12. CASE Restart
    BY <1>12 DEF Restart, TypeOK, HandlerState, Replied, Codes
<1>13. CASE UNCHANGED vars
    BY <1>13 DEF vars, TypeOK
<1> QED
    BY <1>1, <1>2, <1>3, <1>4, <1>5, <1>6, <1>7, <1>8, <1>9, <1>10, <1>11, <1>12, <1>13
       DEF Next, HandlerStep, SignerStep

LEMMA TypeStart == Init => TypeOK
    BY DEF Init, TypeOK, HandlerState, Replied, Codes

(* Every variable of the provisioning always has its type.                 *)
THEOREM ProvisioningTypes == Spec => []TypeOK
<1>1. Init => TypeOK
    BY TypeStart
<1>2. TypeOK /\ [Next]_vars => TypeOK'
    BY TypeStep
<1> QED
    BY <1>1, <1>2, PTL DEF Spec

-----------------------------------------------------------------------------
(* What an answer and a readiness message do to the handlers.              *)
LEMMA AnswerEffect ==
    ASSUME TypeOK, NEW h \in Handlers, NEW code, Answer(h, code)
    PROVE  /\ handler'[h].pc = "idle"
           /\ \A g \in Handlers : g # h => handler'[g] = handler[g]
           /\ gate' = IF gate = h THEN Nobody ELSE gate
BY DEF Answer, Replied, TypeOK

LEMMA NotifyEffect ==
    ASSUME TypeOK, NEW attempt, NEW message, Notify(attempt, message),
           NEW h \in Handlers
    PROVE  /\ handler'[h].pc = handler[h].pc
           /\ handler[h].pc # "waiting" => handler'[h] = handler[h]
           /\ handler[h].pc = "waiting" =>
                /\ handler'[h].settings = handler[h].settings
                /\ handler'[h].attempt = handler[h].attempt
                /\ IF handler[h].attempt = attempt
                   THEN handler'[h].ready = message
                   ELSE handler'[h].ready = handler[h].ready
BY HandlerShape DEF Notify, ReceiverOf

(* Only the holder of the gate is past the checks of /setup, so setups     *)
(* exclude each other for any number of requests.                          *)
LEMMA ExclusiveStep ==
    ASSUME TypeOK, SetupExclusive, [Next]_vars
    PROVE  SetupExclusive'
<1>1. ASSUME NEW h \in Handlers, NEW settings \in Settings, SetupStart(h, settings)
      PROVE  SetupExclusive'
    BY <1>1 DEF SetupStart, SetupExclusive, TypeOK
<1>2. ASSUME NEW h \in Handlers, SetupInvalid(h) \/ SetupConflict(h)
      PROVE  SetupExclusive'
    BY <1>2 DEF SetupInvalid, SetupConflict, SetupExclusive, TypeOK, Replied
<1>3. ASSUME NEW h \in Handlers, NEW code, Answer(h, code)
      PROVE  SetupExclusive'
    BY <1>3, AnswerEffect DEF SetupExclusive
<1>4. ASSUME NEW h \in Handlers, Install(h) \/ InstallReady(h)
      PROVE  SetupExclusive'
  <2>1. gate' = gate /\ gate = h /\ \A g \in Handlers : g # h => handler'[g] = handler[g]
      BY <1>4 DEF Install, InstallReady, TypeOK, SetupExclusive
  <2> QED
      BY <2>1 DEF SetupExclusive
<1>5. ASSUME NEW h \in Handlers, PublishSigner(h)
      PROVE  SetupExclusive'
  <2>1. CASE ark_root = None
    <3>1. gate' = gate /\ gate = h /\ \A g \in Handlers : g # h => handler'[g] = handler[g]
        BY <1>5, <2>1 DEF PublishSigner, TypeOK, SetupExclusive
    <3> QED
        BY <3>1 DEF SetupExclusive
  <2>2. CASE ark_root # None
      BY <1>3, <1>5, <2>2 DEF PublishSigner
  <2> QED
      BY <2>1, <2>2
<1>6. CASE SignerBindFails \/ SignerBinds
  <2>1. gate' = gate /\ \A h \in Handlers : handler'[h].pc = handler[h].pc
      BY <1>6, NotifyEffect DEF SignerBindFails, SignerBinds
  <2> QED
      BY <2>1 DEF SetupExclusive
<1>7. CASE Restart
    BY <1>7 DEF Restart, SetupExclusive, Replied
<1>8. CASE handler' = handler /\ gate' = gate
    BY <1>8 DEF SetupExclusive
<1> QED
    BY <1>1, <1>2, <1>3, <1>4, <1>5, <1>6, <1>7, <1>8
       DEF Next, HandlerStep, SignerStep,
           KmsFails, InstallRejectsRoot, InstallUnavailable, InstallFails,
           PublishIdentity, Deadline, Disconnect, SignerStarts, SignerRuntimeFails,
           SignerReceive, SignerStops, SignerDone, Shutdown, vars

(* Two /setup requests are never past the gate at the same time.           *)
THEOREM SetupsExclude == Spec => []SetupExclusive
<1>1. Init => SetupExclusive
    BY DEF Init, SetupExclusive, Replied
<1>2. TypeOK /\ SetupExclusive /\ [Next]_vars => SetupExclusive'
    BY ExclusiveStep
<1> QED
    BY <1>1, <1>2, ProvisioningTypes, PTL DEF Spec

-----------------------------------------------------------------------------
(* The inductive invariant of RootAgreement.  A job is of the setup that   *)
(* waits on its readiness channel; a setup that heard "ok" has its job on  *)
(* the signer thread; what is published has that root.                     *)
Concerns(job, h) ==
    handler[h].pc = "waiting" /\ handler[h].attempt = job.attempt =>
        job.settings = handler[h].settings

OldAttempts ==
    /\ \A h \in Handlers :
          handler[h].pc = "waiting" => handler[h].attempt <= attempts
    /\ jobs # <<>> => Head(jobs).attempt <= attempts
    /\ signer.job # None => signer.job.attempt <= attempts

JobsMatch ==
    \A h \in Handlers :
        /\ jobs # <<>> => Concerns(Head(jobs), h)
        /\ signer.job # None => Concerns(signer.job, h)

Started(settings) ==
    /\ signer.state \in {"serving", "ended"}
    /\ signer.job # None /\ signer.job.settings = settings

HeardOk ==
    \A h \in Handlers :
        \/ handler[h].pc = "waiting" /\ handler[h].ready = "ok"
        \/ handler[h].pc \in {"publishing", "published"}
        => Started(handler[h].settings)

ArkRootMatches ==
    \A h \in Handlers :
        handler[h].pc = "published" => ark_root = RootOf[handler[h].settings]

Agreed ==
    identity # None =>
        /\ identity.root = RootOf[identity.settings]
        /\ ark_root = identity.root
        /\ signer.state \in {"serving", "ended"} /\ signer.job # None
        /\ RootOf[signer.job.settings] = identity.root

RootInv == OldAttempts /\ JobsMatch /\ HeardOk /\ ArkRootMatches /\ Agreed

(* A handler that stops, and nothing else, preserves the invariant.        *)
LEMMA RootInvAnswer ==
    ASSUME TypeOK, RootInv, NEW h \in Handlers, NEW code, Answer(h, code),
           UNCHANGED <<jobs, attempts, signer, ark_root, identity>>
    PROVE  RootInv'
<1>1. \A g \in Handlers : handler'[g].pc = "idle" \/ handler'[g] = handler[g]
    BY AnswerEffect
<1> QED
    BY <1>1 DEF RootInv, OldAttempts, JobsMatch, Concerns, HeardOk, Started,
                ArkRootMatches, Agreed

(* Every step preserves the invariant.                                     *)
LEMMA RootInvStep ==
    ASSUME TypeOK, TypeOK', RootInv, [Next]_vars
    PROVE  RootInv'
<1>1. ASSUME NEW h \in Handlers, NEW settings \in Settings, SetupStart(h, settings)
      PROVE  RootInv'
  <2>1. \A g \in Handlers : handler'[g].pc = "kms" \/ handler'[g] = handler[g]
      BY <1>1 DEF SetupStart, TypeOK
  <2> QED
      BY <1>1, <2>1 DEF SetupStart, RootInv, OldAttempts, JobsMatch, Concerns, HeardOk,
                        Started, ArkRootMatches, Agreed
<1>2. ASSUME NEW h \in Handlers, SetupInvalid(h) \/ SetupConflict(h)
      PROVE  RootInv'
  <2>1. \A g \in Handlers : handler'[g].pc = "idle" \/ handler'[g] = handler[g]
      BY <1>2 DEF SetupInvalid, SetupConflict, TypeOK, Replied
  <2> QED
      BY <1>2, <2>1 DEF SetupInvalid, SetupConflict, RootInv, OldAttempts, JobsMatch,
                        Concerns, HeardOk, Started, ArkRootMatches, Agreed
<1>3. ASSUME NEW h \in Handlers,
             \/ KmsFails(h) \/ InstallRejectsRoot(h) \/ InstallUnavailable(h) \/ InstallFails(h)
             \/ Deadline(h) \/ Disconnect(h)
      PROVE  RootInv'
    BY <1>3, RootInvAnswer
       DEF KmsFails, InstallRejectsRoot, InstallUnavailable, InstallFails, Deadline, Disconnect
<1>4. ASSUME NEW h \in Handlers, Install(h)
      PROVE  RootInv'
  <2> DEFINE s == handler[h].settings
             n == attempts + 1
  <2>1. /\ attempts \in Nat /\ attempts' = n /\ signer' = signer
        /\ ark_root' = ark_root /\ identity' = identity /\ jobs = <<>>
        /\ handler[h].pc = "kms"
      BY <1>4 DEF Install, TypeOK, ChannelCapacity
  <2>2. jobs' # <<>> /\ Head(jobs') = [settings |-> s, attempt |-> n]
      BY <1>4, <2>1 DEF Install
  <2>3. /\ handler'[h] = [pc |-> "waiting", settings |-> s, attempt |-> n, ready |-> "none"]
        /\ \A g \in Handlers : g # h => handler'[g] = handler[g]
      BY <1>4 DEF Install, TypeOK
  <2>4. /\ \A g \in Handlers : handler[g].pc = "waiting" =>
              handler[g].attempt \in Nat /\ handler[g].attempt <= attempts
        /\ signer.job # None => signer.job.attempt \in Nat /\ signer.job.attempt <= attempts
    <3>1. \A g \in Handlers : handler[g].pc = "waiting" => handler[g].attempt \in Nat
        BY HandlerShape DEF Attempts
    <3>2. signer.job # None => signer.job.attempt \in Nat
        BY DEF TypeOK, Job, Attempts
    <3> QED
        BY <3>1, <3>2 DEF RootInv, OldAttempts
  <2>5. OldAttempts'
      BY <2>1, <2>2, <2>3, <2>4 DEF OldAttempts
  <2>6. JobsMatch'
    <3>1. SUFFICES ASSUME NEW g \in Handlers
                   PROVE  /\ handler'[g].pc = "waiting" /\ handler'[g].attempt = n
                                => s = handler'[g].settings
                          /\ signer.job # None =>
                              (handler'[g].pc = "waiting"
                                 /\ handler'[g].attempt = signer.job.attempt
                               => signer.job.settings = handler'[g].settings)
        BY <2>1, <2>2 DEF JobsMatch, Concerns
    <3>2. CASE g = h
        BY <2>1, <2>3, <2>4, <3>2
    <3>3. CASE g # h
        BY <2>1, <2>3, <2>4, <3>3 DEF RootInv, JobsMatch, Concerns
    <3> QED
        BY <3>2, <3>3
  <2>7. HeardOk' /\ ArkRootMatches' /\ Agreed'
      BY <2>1, <2>3 DEF RootInv, HeardOk, Started, ArkRootMatches, Agreed
  <2> QED
      BY <2>5, <2>6, <2>7 DEF RootInv
<1>5. ASSUME NEW h \in Handlers, InstallReady(h)
      PROVE  RootInv'
  <2>1. /\ handler[h].pc = "waiting" /\ handler[h].ready = "ok"
        /\ handler'[h].pc = "publishing" /\ handler'[h].settings = handler[h].settings
        /\ \A g \in Handlers : g # h => handler'[g] = handler[g]
        /\ UNCHANGED <<jobs, attempts, signer, ark_root, identity>>
      BY <1>5, HandlerShape DEF InstallReady, TypeOK
  <2> QED
      BY <2>1 DEF RootInv, OldAttempts, JobsMatch, Concerns, HeardOk, Started,
                  ArkRootMatches, Agreed
<1>6. ASSUME NEW h \in Handlers, PublishSigner(h)
      PROVE  RootInv'
  <2>1. /\ handler[h].pc = "publishing"
        /\ UNCHANGED <<jobs, attempts, signer, identity>>
      BY <1>6 DEF PublishSigner
  <2>2. CASE ark_root = None
    <3>1. /\ ark_root' = RootOf[handler[h].settings]
          /\ handler'[h].pc = "published" /\ handler'[h].settings = handler[h].settings
          /\ \A g \in Handlers : g # h => handler'[g] = handler[g]
        BY <1>6, <2>1, <2>2, HandlerShape DEF PublishSigner, SetOnce, TypeOK
    <3>2. \A g \in Handlers : handler[g].pc = "published" => FALSE
      <4>1. \A g \in Handlers : handler[g].pc = "published" => handler[g].settings \in Settings
          BY HandlerShape
      <4> QED
          BY <2>2, <4>1 DEF RootInv, ArkRootMatches
    <3>3. identity = None
      <4>1. identity # None => identity.root \in Roots
          BY DEF TypeOK, Identity
      <4> QED
          BY <2>2, <4>1 DEF RootInv, Agreed, Roots
    <3> QED
        BY <2>1, <3>1, <3>2, <3>3 DEF RootInv, OldAttempts, JobsMatch, Concerns, HeardOk,
           Started, ArkRootMatches, Agreed
  <2>3. CASE ark_root # None
      BY <1>6, <2>1, <2>3, RootInvAnswer DEF PublishSigner, SetOnce
  <2> QED
      BY <2>2, <2>3
<1>7. ASSUME NEW h \in Handlers, PublishIdentity(h)
      PROVE  RootInv'
  <2> DEFINE s == handler[h].settings
  <2>1. /\ handler[h].pc = "published" /\ UNCHANGED <<jobs, attempts, signer, ark_root>>
        /\ \A g \in Handlers : handler'[g].pc = "idle" \/ handler'[g] = handler[g]
      BY <1>7, AnswerEffect DEF PublishIdentity
  <2>2. Started(s) /\ ark_root = RootOf[s]
      BY <2>1 DEF RootInv, HeardOk, ArkRootMatches
  <2>3. Agreed'
    <3>1. CASE identity = None
      <4>1. identity' = [settings |-> s, root |-> RootOf[s]]
          BY <1>7, <3>1 DEF PublishIdentity, SetOnce
      <4> QED
          BY <2>1, <2>2, <4>1 DEF Agreed, Started
    <3>2. CASE identity # None
        BY <1>7, <2>1, <3>2 DEF PublishIdentity, SetOnce, RootInv, Agreed
    <3> QED
        BY <3>1, <3>2
  <2> QED
      BY <2>1, <2>3 DEF RootInv, OldAttempts, JobsMatch, Concerns, HeardOk, Started,
                        ArkRootMatches
<1>8. CASE SignerStarts \/ SignerRuntimeFails
  <2>1. /\ signer.job = None /\ signer.state \notin {"serving"} /\ signer'.job = None
        /\ jobs' = jobs \/ jobs' = <<>>
        /\ UNCHANGED <<handler, attempts, ark_root, identity>>
      BY <1>8 DEF SignerStarts, SignerRuntimeFails, TypeOK
  <2> QED
      BY <2>1 DEF RootInv, OldAttempts, JobsMatch, Concerns, HeardOk, Started,
                  ArkRootMatches, Agreed
<1>9. CASE SignerReceive
  <2>1. PICK j \in Job : jobs = <<j>>
      BY <1>9 DEF SignerReceive, TypeOK
  <2>2. /\ signer.job = None /\ signer'.job = j /\ j # None
        /\ jobs' = <<>> /\ Head(jobs) = j /\ jobs # <<>>
        /\ UNCHANGED <<handler, attempts, ark_root, identity>>
    <3>1. signer.job = None
        BY <1>9 DEF SignerReceive, TypeOK
    <3>2. j # None
        BY <2>1 DEF Job, Attempts
    <3> QED
        BY <1>9, <2>1, <3>1, <3>2 DEF SignerReceive
  <2> QED
      BY <2>2 DEF RootInv, OldAttempts, JobsMatch, Concerns, HeardOk, Started,
                  ArkRootMatches, Agreed
<1>10. CASE SignerBindFails \/ SignerBinds
  <2>1. /\ signer.state = "binding" /\ signer'.job = signer.job
        /\ signer'.state \in {"serving", "ended"}
        /\ jobs' = jobs \/ jobs' = <<>>
        /\ UNCHANGED <<attempts, ark_root, identity>>
      BY <1>10 DEF SignerBindFails, SignerBinds, TypeOK
  <2>2. signer.job # None
      BY <2>1 DEF TypeOK, Job, Attempts
  <2>3. PICK message \in {"ok", "error"} : Notify(signer.job.attempt, message)
      BY <1>10 DEF SignerBindFails, SignerBinds
  <2>4. \A h \in Handlers :
            /\ handler'[h].pc = handler[h].pc
            /\ handler[h].pc # "waiting" => handler'[h] = handler[h]
            /\ handler[h].pc = "waiting" =>
                 /\ handler'[h].settings = handler[h].settings
                 /\ handler'[h].attempt = handler[h].attempt
                 /\ handler'[h].ready = "ok" =>
                       handler[h].attempt = signer.job.attempt \/ handler[h].ready = "ok"
      BY <2>3, NotifyEffect
  <2>5. OldAttempts' /\ JobsMatch'
      BY <2>1, <2>2, <2>4 DEF RootInv, OldAttempts, JobsMatch, Concerns
  <2>6. HeardOk'
      BY <2>1, <2>2, <2>4 DEF RootInv, JobsMatch, Concerns, HeardOk, Started
  <2>7. ArkRootMatches' /\ Agreed'
      BY <2>1, <2>2, <2>4 DEF RootInv, ArkRootMatches, Agreed
  <2> QED
      BY <2>5, <2>6, <2>7 DEF RootInv
<1>11. CASE SignerStops \/ SignerDone \/ Shutdown
  <2>1. /\ signer'.job = signer.job
        /\ signer' = signer \/ signer'.state = "ended"
        /\ jobs' = jobs \/ jobs' = <<>>
        /\ UNCHANGED <<handler, attempts, ark_root, identity>>
      BY <1>11 DEF SignerStops, SignerDone, Shutdown, TypeOK
  <2> QED
      BY <2>1 DEF RootInv, OldAttempts, JobsMatch, Concerns, HeardOk, Started,
                  ArkRootMatches, Agreed
<1>12. CASE Restart
    BY <1>12 DEF Restart, Replied, RootInv, OldAttempts, JobsMatch, Concerns, HeardOk,
       Started, ArkRootMatches, Agreed
<1>13. CASE UNCHANGED vars
    BY <1>13 DEF vars, RootInv, OldAttempts, JobsMatch, Concerns, HeardOk, Started,
       ArkRootMatches, Agreed
<1> QED
    BY <1>1, <1>2, <1>3, <1>4, <1>5, <1>6, <1>7, <1>8, <1>9, <1>10, <1>11, <1>12, <1>13
       DEF Next, HandlerStep, SignerStep

(* The published identity, the Ark signer and the TCP signer have one      *)
(* root, however many setups race, are abandoned or time out.              *)
THEOREM RootsAgree == Spec => []RootAgreement
<1>1. Init => RootInv
    BY DEF Init, Replied, RootInv, OldAttempts, JobsMatch, Concerns, HeardOk, Started,
       ArkRootMatches, Agreed
<1>2. TypeOK /\ TypeOK' /\ RootInv /\ [Next]_vars => RootInv'
    BY RootInvStep
<1>3. RootInv => RootAgreement
    BY DEF RootInv, Agreed, RootAgreement
<1> QED
    BY <1>1, <1>2, <1>3, ProvisioningTypes, PTL DEF Spec

-----------------------------------------------------------------------------
(* What the unit's initializer read stays true until it starts over: the   *)
(* identity is set once, and a new process comes with a new initializer.   *)
SeenInv ==
    client[Boot].pc \in {"health", "done"} =>
        /\ identity # None
        /\ identity = client[Boot].seen
        /\ identity.settings = Deployed

BootInv == BootTypeOK /\ SeenInv

-----------------------------------------------------------------------------
(* Within one process a published identity is final.                       *)
LEMMA IdentityIsFinal ==
    ASSUME [Next]_vars, ~Restart, identity # None
    PROVE  identity' = identity
BY DEF Next, HandlerStep, SignerStep, SetupStart, SetupInvalid, SetupConflict, KmsFails,
       Install, InstallRejectsRoot, InstallUnavailable, InstallReady, InstallFails, PublishSigner,
       PublishIdentity, Deadline, Disconnect, SignerStarts, SignerRuntimeFails,
       SignerReceive, SignerBindFails, SignerBinds, SignerStops, SignerDone, Shutdown,
       SetOnce, vars

(* What a client's step does to the client.                                *)
LEMMA GoesEffect ==
    ASSUME client \in [Initializers -> Client], NEW i \in Initializers, NEW pc \in ClientSteps,
           Goes(i, pc)
    PROVE  /\ client' \in [Initializers -> Client]
           /\ client'[i].pc = pc /\ client'[i].seen = client[i].seen
           /\ \A j \in Initializers : j # i => client'[j] = client[j]
BY DEF Goes, Client

LEMMA AcceptsEffect ==
    ASSUME BootTypeOK, NEW i \in Initializers, Accepts(i, identity)
    PROVE  /\ client' \in [Initializers -> Client]
           /\ \/ /\ client'[i] = [pc |-> "health", seen |-> identity]
                 /\ identity # None /\ identity.settings = Deployed
              \/ client'[i].pc = "failed"
           /\ \A j \in Initializers : j # i => client'[j] = client[j]
<1> USE DEF BootTypeOK
<1>1. CASE ValidIdentity(identity)
    BY <1>1 DEF Accepts, ValidIdentity, Client, ClientSteps, TypeOK
<1>2. CASE ~ValidIdentity(identity)
    BY <1>2, GoesEffect DEF Accepts, ClientSteps
<1> QED
    BY <1>1, <1>2

(* A step of an initializer that leaves the enclave alone.                 *)
LEMMA ClientMoves ==
    ASSUME BootTypeOK, NEW i \in Initializers,
           \/ AskPublicKey(i) \/ ReadReply(i) \/ AskHealth(i)
           \/ Shed(i) \/ Unreachable(i) \/ TimedOut(i)
    PROVE  /\ UNCHANGED vars
           /\ client' \in [Initializers -> Client]
           /\ \A j \in Initializers : j # i => client'[j] = client[j]
           /\ \/ client'[i].pc \notin {"health", "done"}
              \/ /\ client'[i] = [pc |-> "health", seen |-> identity]
                 /\ identity # None /\ identity.settings = Deployed
              \/ /\ client[i].pc = "health" /\ client'[i].pc = "done"
                 /\ client'[i].seen = client[i].seen
<1>0. client \in [Initializers -> Client]
    BY DEF BootTypeOK
<1>1. CASE AskPublicKey(i) \/ ReadReply(i)
  <2>1. UNCHANGED vars /\ \/ Accepts(i, identity) \/ Goes(i, "setup")
                          \/ Goes(i, "public-key") \/ Goes(i, "failed")
      BY <1>1 DEF AskPublicKey, ReadReply
  <2>2. CASE Accepts(i, identity)
      BY <2>1, <2>2, AcceptsEffect
  <2>3. ASSUME NEW pc \in {"setup", "public-key", "failed"}, Goes(i, pc)
        PROVE  /\ client' \in [Initializers -> Client]
               /\ \A j \in Initializers : j # i => client'[j] = client[j]
               /\ client'[i].pc \notin {"health", "done"}
    <3>1. pc \in ClientSteps
        BY DEF ClientSteps
    <3> QED
        BY <1>0, <2>3, <3>1, GoesEffect
  <2> QED
      BY <2>1, <2>2, <2>3
<1>2. CASE AskHealth(i)
  <2>1. UNCHANGED vars /\ client[i].pc = "health"
        /\ \E pc \in {"done", "public-key"} : Goes(i, pc)
      BY <1>2 DEF AskHealth
  <2>2. PICK pc \in {"done", "public-key"} : Goes(i, pc)
      BY <2>1
  <2>3. pc \in ClientSteps
      BY DEF ClientSteps
  <2> QED
      BY <1>0, <2>1, <2>2, <2>3, GoesEffect
<1>3. CASE Shed(i) \/ Unreachable(i) \/ TimedOut(i)
  <2>1. UNCHANGED vars /\ \E pc \in {"setup", "failed", "public-key"} : Goes(i, pc)
      BY <1>3 DEF Shed, Unreachable, TimedOut
  <2>2. PICK pc \in {"setup", "failed", "public-key"} : Goes(i, pc)
      BY <2>1
  <2>3. pc \in ClientSteps
      BY DEF ClientSteps
  <2> QED
      BY <1>0, <2>1, <2>2, <2>3, GoesEffect
<1> QED
    BY <1>1, <1>2, <1>3

(* /setup, as an initializer calls it.                                     *)
LEMMA PostSetupEffect ==
    ASSUME BootTypeOK, NEW i \in Initializers, PostSetup(i)
    PROVE  /\ [Next]_vars /\ ~Restart
           /\ client' \in [Initializers -> Client]
           /\ \A j \in Initializers : j # i => client'[j] = client[j]
           /\ client'[i].pc \notin {"health", "done"}
<1>1. i \in Handlers /\ Deployed \in Settings
    BY BootstrapAssumption
<1>2. process = "running"
    BY DEF PostSetup
<1>3. [Next]_vars
    BY <1>1 DEF PostSetup, Next, vars
<1>4. ~Restart
    BY <1>2 DEF Restart
<1>5. PICK pc \in {"waiting", "public-key"} : Goes(i, pc)
    BY DEF PostSetup
<1>6. pc \in ClientSteps /\ client \in [Initializers -> Client]
    BY DEF ClientSteps, BootTypeOK
<1> QED
    BY <1>3, <1>4, <1>5, <1>6, GoesEffect

(* Each step of a deployment is a step of its enclave or leaves it alone.  *)
LEMMA EnclaveOfStep ==
    ASSUME BootTypeOK, [BootNext]_system
    PROVE  [Next]_vars
<1>1. ASSUME NEW i \in Initializers, ClientStep(i) \/ TimedOut(i)
      PROVE  [Next]_vars
    BY <1>1, ClientMoves, PostSetupEffect DEF ClientStep
<1>2. CASE UnitStops \/ UnitRestarts \/ WaitReady
    BY <1>2 DEF UnitStops, UnitRestarts, WaitReady, Next
<1>3. CASE EnclaveStep
    BY <1>3 DEF EnclaveStep, Next
<1>4. CASE UNCHANGED system
    BY <1>4 DEF system
<1> QED
    BY <1>1, <1>2, <1>3, <1>4 DEF BootNext

(* Everything but a restart of the unit keeps what the initializer saw.    *)
LEMMA SeenKept ==
    ASSUME BootInv, [Next]_vars, ~Restart, client'[Boot] = client[Boot]
    PROVE  SeenInv'
BY IdentityIsFinal DEF BootInv, SeenInv

LEMMA BootStep ==
    ASSUME BootInv, TypeOK', [BootNext]_system
    PROVE  BootInv'
<1> USE DEF BootInv
<1>0. Boot \in Initializers /\ Ready \in Initializers /\ Boot # Ready
      /\ client \in [Initializers -> Client]
    BY BootstrapAssumption DEF Initializers, BootTypeOK
<1>1. ASSUME NEW i \in Initializers,
             \/ AskPublicKey(i) \/ ReadReply(i) \/ AskHealth(i)
             \/ Shed(i) \/ Unreachable(i) \/ TimedOut(i)
      PROVE  BootInv'
  <2>1. /\ UNCHANGED vars
        /\ client' \in [Initializers -> Client]
        /\ \A j \in Initializers : j # i => client'[j] = client[j]
        /\ \/ client'[i].pc \notin {"health", "done"}
           \/ /\ client'[i] = [pc |-> "health", seen |-> identity]
              /\ identity # None /\ identity.settings = Deployed
           \/ /\ client[i].pc = "health" /\ client'[i].pc = "done"
              /\ client'[i].seen = client[i].seen
      BY <1>1, ClientMoves
  <2>2. identity' = identity
      BY <2>1 DEF vars
  <2>3. SeenInv'
      BY <1>0, <2>1, <2>2 DEF SeenInv
  <2> QED
      BY <2>1, <2>3 DEF BootTypeOK
<1>2. ASSUME NEW i \in Initializers, PostSetup(i)
      PROVE  BootInv'
  <2>1. /\ [Next]_vars /\ ~Restart
        /\ client' \in [Initializers -> Client]
        /\ \A j \in Initializers : j # i => client'[j] = client[j]
        /\ client'[i].pc \notin {"health", "done"}
      BY <1>2, PostSetupEffect
  <2>2. CASE i = Boot
      BY <2>1, <2>2 DEF SeenInv, BootTypeOK
  <2>3. CASE i # Boot
      BY <1>0, <2>1, <2>3, SeenKept DEF BootTypeOK
  <2> QED
      BY <2>2, <2>3
<1>3. CASE UnitStops \/ (EnclaveStep /\ UNCHANGED client)
  <2>1. [Next]_vars /\ client' = client
      BY <1>3 DEF UnitStops, EnclaveStep, Next
  <2>2. ~Restart
      BY <1>3 DEF Restart, UnitStops, EnclaveStep, HandlerStep, SignerStep, SetupStart,
         SetupConflict, KmsFails, Install, InstallRejectsRoot, InstallUnavailable,
         InstallReady, InstallFails,
         PublishSigner, PublishIdentity, Deadline, Disconnect, SignerStarts,
         SignerRuntimeFails, SignerReceive, SignerBindFails, SignerBinds, SignerStops,
         SignerDone, Shutdown
  <2> QED
      BY <2>1, <2>2, SeenKept DEF BootTypeOK
<1>4. CASE UnitRestarts
  <2>1. /\ client' \in [Initializers -> Client]
        /\ client'[Boot].pc = "public-key"
      BY <1>0, <1>4 DEF UnitRestarts, Polling, Client, ClientSteps
  <2> QED
      BY <2>1 DEF BootTypeOK, SeenInv
<1>5. CASE WaitReady
  <2>1. /\ client' \in [Initializers -> Client]
        /\ client'[Boot] = client[Boot] /\ UNCHANGED vars
      BY <1>0, <1>5 DEF WaitReady, Polling, Client, ClientSteps
  <2> QED
      BY <2>1 DEF BootTypeOK, SeenInv, vars
<1>6. CASE UNCHANGED system
    BY <1>6 DEF system, vars, BootTypeOK, SeenInv
<1> QED
    BY <1>1, <1>2, <1>3, <1>4, <1>5, <1>6 DEF BootNext, ClientStep

LEMMA BootStart ==
    ASSUME BootInit
    PROVE  client \in [Initializers -> Client] /\ SeenInv
BY BootstrapAssumption DEF BootInit, Polling, Client, ClientSteps, SeenInv, Initializers

-----------------------------------------------------------------------------
LEMMA BootAlways == BootSpec => []BootInv
<1>1. BootInit => BootInv
    BY TypeStart, BootStart DEF BootInit, BootInv, BootTypeOK
<1>2. BootInv /\ [BootNext]_system => BootInv'
  <2> SUFFICES ASSUME BootInv, [BootNext]_system
               PROVE  BootInv'
      OBVIOUS
  <2>1. TypeOK'
      BY EnclaveOfStep, TypeStep DEF BootInv, BootTypeOK
  <2> QED
      BY <2>1, BootStep
<1> QED
    BY <1>1, <1>2, PTL DEF BootSpec

(* Every variable of a deployment keeps its type.                          *)
THEOREM BootTypes == BootSpec => []BootTypeOK
<1>1. BootInv => BootTypeOK
    BY DEF BootInv
<1> QED
    BY <1>1, BootAlways, PTL

(* The enclave that a unit, its initializers and anybody else drive is an  *)
(* enclave as Provisioning specifies it, so what is proved there holds     *)
(* here.                                                                   *)
THEOREM BootImplementsProvisioning == BootSpec => Spec
<1>1. BootInit => Init
    BY DEF BootInit
<1>2. BootInv /\ [BootNext]_system => [Next]_vars
    BY EnclaveOfStep DEF BootInv
<1> QED
    BY <1>1, <1>2, BootAlways, PTL DEF BootSpec, Spec

(* An active unit runs the process whose identity its initializer checked, *)
(* with the deployed settings, whoever else called /setup and however late *)
(* the health was asked for.                                               *)
THEOREM ActiveUnitIsDeployed == BootSpec => []ActiveIsDeployed
<1>1. BootInv => ActiveIsDeployed
    BY DEF BootInv, SeenInv, ActiveIsDeployed
<1> QED
    BY <1>1, BootAlways, PTL
=============================================================================
