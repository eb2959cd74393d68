----------------------------- MODULE ArkSigner ------------------------------
(***************************************************************************)
(* The one-use nested MuSig sessions of src/src/ark_signer.rs.             *)
(*                                                                         *)
(* Calls are the threads that run prepare, finish and cancel at the same   *)
(* time (blocking workers and HTTP tasks).  They share the session table,  *)
(* which is behind one mutex; every other value they use is local.  A step *)
(* is what a call does up to and including its next use of shared state    *)
(* (the table, the clock), so prepare takes two steps - it reads the clock *)
(* before it takes the lock - and finish takes three: it releases the lock *)
(* before it reads the clock for its checks, and signs afterwards, without *)
(* another look at the clock, so that a signature may be released when its *)
(* session has expired in between.  The release build aborts on panic, so  *)
(* the mutex is never poisoned: a panic is a Restart.                      *)
(***************************************************************************)
EXTENDS PrepareCheck, FiniteSets

CONSTANTS
    Calls,              \* threads that may be inside the signer at once
    SessionIds,         \* values the 32 random bytes can take
    PrepareRequests,    \* the prepare requests clients send
    FinishForms,        \* finish requests, without their session
    MaxPending,         \* MAX_PENDING_SESSIONS
    MaxPerUser,         \* MAX_SESSIONS_PER_USER
    Lifetime,           \* SESSION_LIFETIME_SECS, in clock ticks
    MaxNonces,          \* bound: nonces generated in a behaviour
    MaxTime,            \* bound: clock ticks in a behaviour
    MaxRestarts         \* bound: restarts in a behaviour

ASSUME LimitsAssumption ==
    /\ MaxPending \in Nat /\ MaxPerUser \in Nat /\ Lifetime \in Nat \ {0}
    /\ MaxNonces \in Nat /\ MaxTime \in Nat /\ MaxRestarts \in Nat

(* The draw of a session id always terminates: there are more ids than the *)
(* table has places.                                                       *)
ASSUME SessionIdsAssumption ==
    IsFiniteSet(SessionIds) /\ Cardinality(SessionIds) >= MaxPending

ASSUME RequestsAssumption ==
    /\ \A r \in PrepareRequests :
          r.wallet \in Wallets /\ r.message \in Messages /\ r.server \in BOOLEAN
    /\ FinishForms \subseteq
          [protocol_ok : BOOLEAN,
           server_nonce : {"absent", "malformed", "cancelling", "usable"},
           server_partial : {"absent", "malformed", "wrong", "valid"}]

VARIABLES
    root,       \* ArkSigner.root of the running process
    epoch,      \* how many times the process was restarted
    clock,      \* Instant::now()
    pending,    \* the session table: session id -> Pending
    call,       \* what each thread is in the middle of
    generated,  \* secret nonces generated so far, numbered from 1
    birth,      \* history: process, wallet and time of each reservation
    uses,       \* history: how often each secret nonce signed
    partials,   \* history: the partial signatures released
    cancelled,  \* history: nonces whose cancellation was acknowledged
    ended       \* history: nonces a finish or a cancel took from the table

table == <<pending, generated, birth>>
history == <<uses, partials, cancelled, ended>>
vars == <<root, epoch, clock, pending, call, generated, birth,
          uses, partials, cancelled, ended>>

Nonces == 1..MaxNonces
Programs == {r.program : r \in PrepareRequests}

(* struct Pending: intent holds the members, the message and whether the   *)
(* server takes part.                                                      *)
Intent == [wallet : Wallets, member : {r.member : r \in PrepareRequests},
           message : Messages, server : BOOLEAN]
Pending == [program : Programs, intent : Intent, nonce : Nonces, expires : Nat]

(* A finish keeps, for the history, the time it took its session.          *)
Idle == [op |-> "idle"]
CallState == {Idle}
    \cup [op : {"reserve"}, request : PrepareRequests, now : Nat]
    \cup [op : {"finish"}, form : FinishForms, taken : Pending, arrived : Nat]
    \cup [op : {"sign"}, taken : Pending, arrived : Nat]

NoSessions == [s \in {} |-> Idle]

Partial == [nonce : Nonces, root : Roots, epoch : Nat, program : Programs,
            intent : Intent, arrived : Nat]
Unborn == [epoch |-> 0, wallet |-> "none", at |-> 0]

Init ==
    /\ root \in Roots
    /\ epoch = 0
    /\ clock = 0
    /\ pending = NoSessions
    /\ call = [c \in Calls |-> Idle]
    /\ generated = 0
    /\ birth = [n \in Nonces |-> Unborn]
    /\ uses = [n \in Nonces |-> 0]
    /\ partials = {}
    /\ cancelled = {}
    /\ ended = {}

-----------------------------------------------------------------------------
(* HashMap::retain and HashMap::remove.                                    *)
Keep(S) == [s \in DOMAIN pending \cap S |-> pending[s]]

(* Mutant: prunes a tick too early.                                        *)
LiveAt_TooEarly(now) == {s \in DOMAIN pending : pending[s].expires > now + 1}
LiveAt(now) == {s \in DOMAIN pending : pending[s].expires > now}

HeldBy(wallet, S) == {s \in S : pending[s].intent.wallet = wallet}

Reserving == {c \in Calls : call[c].op = "reserve"}
Finishing == {c \in Calls : call[c].op \in {"finish", "sign"}}

(* Mutant: an ownership action is not checked.                             *)
PrepareAuthorize_SpendOnly(c, request) ==
    /\ call[c] = Idle
    /\ request.action.kind = "spend" => PrepareAuthorized(root, request)
    /\ generated + Cardinality(Reserving) < MaxNonces
    /\ call' = [call EXCEPT ![c] =
                  [op |-> "reserve", request |-> request, now |-> clock]]
    /\ UNCHANGED <<root, epoch, clock, table, history>>

(* Lines 66-116: every check that does not need the table, then the clock. *)
PrepareAuthorize(c, request) ==
    /\ call[c] = Idle
    /\ PrepareAuthorized(root, request)
    /\ generated + Cardinality(Reserving) < MaxNonces
    /\ call' = [call EXCEPT ![c] =
                  [op |-> "reserve", request |-> request, now |-> clock]]
    /\ UNCHANGED <<root, epoch, clock, table, history>>

(* Any failed check returns an error; no nonce has been generated.         *)
PrepareRefuse(c, request) ==
    /\ call[c] = Idle
    /\ ~PrepareAuthorized(root, request)
    /\ UNCHANGED vars

(* Mutants: the limits are checked with <=; the limits count sessions that *)
(* are still in the table although they had expired.                       *)
HasRoom_OffByOne(now, wallet) ==
    /\ Cardinality(LiveAt(now)) <= MaxPending
    /\ Cardinality(HeldBy(wallet, LiveAt(now))) < MaxPerUser
HasRoom_CountsExpired(now, wallet) ==
    /\ Cardinality(DOMAIN pending) < MaxPending
    /\ Cardinality(HeldBy(wallet, DOMAIN pending)) < MaxPerUser

HasRoom(now, wallet) ==
    /\ Cardinality(LiveAt(now)) < MaxPending
    /\ Cardinality(HeldBy(wallet, LiveAt(now))) < MaxPerUser

(* Mutant: the nonce is numbered before it is generated.                   *)
NewSession_StaleNonce(request, now) ==
    [program |-> request.program,
     intent  |-> [wallet |-> request.wallet, member |-> request.member,
                  message |-> request.message, server |-> request.server],
     nonce   |-> generated,
     expires |-> now + Lifetime]

NewSession(request, now) ==
    [program |-> request.program,
     intent  |-> [wallet |-> request.wallet, member |-> request.member,
                  message |-> request.message, server |-> request.server],
     nonce   |-> generated + 1,
     expires |-> now + Lifetime]

(* Lines 117-144, under the lock: prune what had expired when the clock    *)
(* was read, check both limits, generate a nonce, draw an unused id.       *)
PrepareReserve(c) ==
    /\ call[c].op = "reserve"
    /\ generated < MaxNonces
    /\ LET request == call[c].request
           now == call[c].now
           live == LiveAt(now)
       IN  /\ HasRoom(now, request.wallet)
           /\ \E s \in SessionIds \ live :
                 pending' = [t \in live \cup {s} |->
                               IF t = s THEN NewSession(request, now)
                                        ELSE pending[t]]
    /\ generated' = generated + 1
    /\ birth' = [birth EXCEPT ![generated + 1] =
                    [epoch |-> epoch, wallet |-> call[c].request.wallet, at |-> clock]]
    /\ call' = [call EXCEPT ![c] = Idle]
    /\ UNCHANGED <<root, epoch, clock, history>>

(* The same step when a limit is reached: the prune stays, no nonce.       *)
PrepareFull(c) ==
    /\ call[c].op = "reserve"
    /\ ~HasRoom(call[c].now, call[c].request.wallet)
    /\ pending' = Keep(LiveAt(call[c].now))
    /\ call' = [call EXCEPT ![c] = Idle]
    /\ UNCHANGED <<root, epoch, clock, generated, birth, history>>

-----------------------------------------------------------------------------
(* Mutant: the session is looked up and stays in the table.                *)
FinishTake_Lookup(c, s, form) ==
    /\ call[c] = Idle
    /\ s \in DOMAIN pending
    /\ call' = [call EXCEPT ![c] = [op |-> "finish", form |-> form,
                                     taken |-> pending[s], arrived |-> clock]]
    /\ ended' = ended \cup {pending[s].nonce}
    /\ UNCHANGED <<root, epoch, clock, table, uses, partials, cancelled>>

(* finish, lines 150-151: remove the session before looking at anything.   *)
FinishTake(c, s, form) ==
    /\ call[c] = Idle
    /\ s \in DOMAIN pending
    /\ call' = [call EXCEPT ![c] = [op |-> "finish", form |-> form,
                                     taken |-> pending[s], arrived |-> clock]]
    /\ pending' = Keep(SessionIds \ {s})
    /\ ended' = ended \cup {pending[s].nonce}
    /\ UNCHANGED <<root, epoch, clock, generated, birth, uses, partials, cancelled>>

FinishUnknown(c, s) ==
    /\ call[c] = Idle
    /\ s \notin DOMAIN pending
    /\ UNCHANGED vars

(* Session::new of the nested MuSig library, as finish and its tests use   *)
(* it: a session with a server needs the server's nonce, and an aggregate  *)
(* that cancels out is refused.  An unneeded nonce may go either way.      *)
SessionNew(intent, server_nonce) ==
    CASE server_nonce = "cancelling" -> {FALSE}
      [] server_nonce = "absent" -> {~intent.server}
      [] OTHER -> IF intent.server THEN {TRUE} ELSE BOOLEAN

(* Mutant: the expiry is not checked again after the removal.              *)
FinishAccepted_Expired(taken, form, session_built) ==
    /\ form.protocol_ok
    /\ form.server_nonce # "malformed"
    /\ form.server_partial # "malformed"
    /\ ~(~taken.intent.server /\ form.server_partial # "absent")
    /\ session_built
    /\ form.server_partial \in {"absent", "valid"}

(* Lines 152-166, on the session taken out of the table.                   *)
FinishAccepted(taken, form, session_built) ==
    /\ form.protocol_ok
    /\ taken.expires > clock
    /\ form.server_nonce # "malformed"
    /\ form.server_partial # "malformed"
    /\ ~(~taken.intent.server /\ form.server_partial # "absent")
    /\ session_built
    /\ form.server_partial \in {"absent", "valid"}

(* Lines 152-166: every check passed; what follows needs only the session. *)
FinishCheck(c) ==
    /\ call[c].op = "finish"
    /\ \E built \in SessionNew(call[c].taken.intent, call[c].form.server_nonce) :
          FinishAccepted(call[c].taken, call[c].form, built)
    /\ call' = [call EXCEPT ![c] = [op |-> "sign", taken |-> call[c].taken,
                                     arrived |-> call[c].arrived]]
    /\ UNCHANGED <<root, epoch, clock, table, history>>

(* Lines 167-180, later: derive the program's key from the root, sign with *)
(* the secret nonce (which is consumed) and release the partial.           *)
FinishSign(c) ==
    /\ call[c].op = "sign"
    /\ LET taken == call[c].taken
       IN  /\ uses' = [uses EXCEPT ![taken.nonce] = @ + 1]
           /\ partials' = partials \cup
                {[nonce |-> taken.nonce, root |-> root, epoch |-> epoch,
                  program |-> taken.program, intent |-> taken.intent,
                  arrived |-> call[c].arrived]}
    /\ call' = [call EXCEPT ![c] = Idle]
    /\ UNCHANGED <<root, epoch, clock, table, cancelled, ended>>

(* Mutant: a failed finish puts the session back for a retry.              *)
FinishError_PutBack(c) ==
    /\ call[c].op = "finish"
    /\ LET taken == call[c].taken
           form == call[c].form
       IN  \E built \in SessionNew(taken.intent, form.server_nonce) :
                 ~FinishAccepted(taken, form, built)
    /\ \E s \in SessionIds \ DOMAIN pending :
          pending' = [t \in DOMAIN pending \cup {s} |->
                        IF t = s THEN call[c].taken ELSE pending[t]]
    /\ call' = [call EXCEPT ![c] = Idle]
    /\ UNCHANGED <<root, epoch, clock, generated, birth, history>>

(* An error after the removal, of a check or of the library's derivation   *)
(* and signing (lines 169-175), drops the session and its nonce.           *)
FinishError(c) ==
    /\ \/ /\ call[c].op = "finish"
          /\ \E built \in SessionNew(call[c].taken.intent, call[c].form.server_nonce) :
                ~FinishAccepted(call[c].taken, call[c].form, built)
       \/ call[c].op = "sign"
    /\ call' = [call EXCEPT ![c] = Idle]
    /\ UNCHANGED <<root, epoch, clock, table, history>>

-----------------------------------------------------------------------------
(* cancel: remove under the lock, then check the protocol.  With a wrong   *)
(* protocol the session is gone all the same, but the caller gets an error.*)
Cancel(c, s, protocol_ok) ==
    /\ call[c] = Idle
    /\ s \in DOMAIN pending
    /\ pending' = Keep(SessionIds \ {s})
    /\ cancelled' = IF protocol_ok THEN cancelled \cup {pending[s].nonce}
                                   ELSE cancelled
    /\ ended' = ended \cup {pending[s].nonce}
    /\ UNCHANGED <<root, epoch, clock, call, generated, birth, uses, partials>>

Tick ==
    /\ clock < MaxTime
    /\ clock' = clock + 1
    /\ UNCHANGED <<root, epoch, table, call, history>>

(* The process ends, by an exit, an abort or a crash of the enclave, with  *)
(* whatever its threads were doing; the next one may be given any root.    *)
(* ArkSigner::new starts with an empty table.                              *)
Restart ==
    /\ epoch < MaxRestarts
    /\ epoch' = epoch + 1
    /\ root' \in Roots
    /\ pending' = NoSessions
    /\ call' = [c \in Calls |-> Idle]
    /\ UNCHANGED <<clock, generated, birth, history>>

CallStep(c) ==
    \/ \E request \in PrepareRequests :
          PrepareAuthorize(c, request) \/ PrepareRefuse(c, request)
    \/ PrepareReserve(c) \/ PrepareFull(c)
    \/ \E s \in SessionIds :
          \/ \E form \in FinishForms : FinishTake(c, s, form)
          \/ FinishUnknown(c, s)
          \/ \E protocol_ok \in BOOLEAN : Cancel(c, s, protocol_ok)
    \/ FinishCheck(c) \/ FinishSign(c) \/ FinishError(c)

Next == (\E c \in Calls : CallStep(c)) \/ Tick \/ Restart

Spec == Init /\ [][Next]_vars

-----------------------------------------------------------------------------
(* Every variable has the shape its comment describes.                     *)
TypeOK ==
    /\ root \in Roots
    /\ epoch \in Nat
    /\ clock \in Nat
    /\ DOMAIN pending \subseteq SessionIds
    /\ pending = [s \in DOMAIN pending |-> pending[s]]
    /\ \A s \in DOMAIN pending : pending[s] \in Pending
    /\ call \in [Calls -> CallState]
    /\ generated \in 0..MaxNonces
    /\ birth \in [Nonces -> [epoch : Nat, wallet : Wallets \cup {"none"}, at : Nat]]
    /\ uses \in [Nonces -> Nat]
    /\ partials \subseteq Partial
    /\ cancelled \subseteq Nonces
    /\ ended \subseteq Nonces

(* A secret nonce signs at most once, and never if its cancellation was    *)
(* acknowledged, whatever finish, cancel, expiry, replay and restart do at *)
(* the same time: "Remove before every other check ... A concurrent or     *)
(* replayed request cannot observe or reuse this secret nonce."            *)
OneTerminalOutcome ==
    /\ \A n \in Nonces : uses[n] <= 1
    /\ \A n \in cancelled : uses[n] = 0

(* A released partial signs, with the key of an authorized program under   *)
(* the root of the process that authorized it, exactly the message that    *)
(* prepare authorized for that wallet: nothing between the two requests,   *)
(* a restart with another root included, can change what was authorized.   *)
AuthorizedRelease ==
    \A p \in partials : \E r \in PrepareRequests :
        /\ PrepareAuthorized(p.root, r)
        /\ p.program = r.program
        /\ p.intent.wallet = r.wallet /\ p.intent.message = r.message
        /\ p.intent.member = DeriveKey(p.root, p.program)

(* A finish that comes when the lifetime of its session is over gets no    *)
(* signature, although nobody may have pruned the session and its expiry   *)
(* was computed from a clock read before the lock; and no finish gets one  *)
(* from another process than the one that made the reservation.  (When the *)
(* signature itself is released is not bounded: line 153 is the last look  *)
(* at the clock.)                                                          *)
LateFinishRefused ==
    \A p \in partials :
        /\ p.epoch = birth[p.nonce].epoch
        /\ p.arrived < birth[p.nonce].at + Lifetime

(* The table never holds more sessions than MAX_PENDING_SESSIONS, nor more *)
(* of one wallet than MAX_SESSIONS_PER_USER, however many prepare calls    *)
(* passed their checks at the same time.                                   *)
CapacityBounded ==
    /\ Cardinality(DOMAIN pending) <= MaxPending
    /\ \A w \in Wallets :
          Cardinality(HeldBy(w, DOMAIN pending)) <= MaxPerUser

(* No step evicts a live session: a session leaves the table only when it  *)
(* is expired by the true clock (even if the call that prunes read the     *)
(* clock long before), when a finish or a cancel takes it, or at a restart.*)
LiveSessionKept ==
    [][\A s \in DOMAIN pending :
          \/ \E t \in DOMAIN pending' : pending'[t].nonce = pending[s].nonce
          \/ pending[s].expires <= clock
          \/ \E c \in Calls : /\ call[c] = Idle /\ call'[c].op = "finish"
                              /\ call'[c].taken = pending[s]
          \/ Cardinality(DOMAIN pending') + 1 = Cardinality(DOMAIN pending)
             /\ call' = call
          \/ epoch' # epoch]_vars

(* What clients still have coming at time now: the reservations of this    *)
(* process that were neither finished nor cancelled, with any outcome, and *)
(* were made less than a lifetime ago.                                     *)
Outstanding(now) ==
    {n \in 1..generated : /\ birth[n].epoch = epoch
                          /\ n \notin ended
                          /\ birth[n].at + Lifetime > now}
OutstandingOf(wallet, now) ==
    {n \in Outstanding(now) : birth[n].wallet = wallet}

(* A prepare is turned away only when, at the time it read the clock, the  *)
(* outstanding reservations of all wallets reach MAX_PENDING_SESSIONS or   *)
(* those of its own wallet MAX_SESSIONS_PER_USER: what was finished, with  *)
(* success or not, cancelled, or is past its lifetime never costs a place, *)
(* whoever prunes when.                                                    *)
RefusalJustified ==
    [][\A c \in Reserving :
          /\ call'[c] = Idle /\ epoch' = epoch /\ generated' = generated
          => \/ Cardinality(Outstanding(call[c].now)) >= MaxPending
             \/ Cardinality(OutstandingOf(call[c].request.wallet, call[c].now))
                   >= MaxPerUser]_vars

(* A session that left the table never comes back: every session in the    *)
(* table was there unchanged, or was reserved in this very step, with a    *)
(* nonce generated in this very step.  A finish that fails on malformed    *)
(* data, a lost reply and a restart all consume it.                        *)
NeverRestored ==
    [][\A t \in DOMAIN pending' :
          \/ t \in DOMAIN pending /\ pending'[t] = pending[t]
          \/ pending'[t].nonce = generated + 1 /\ generated' = generated + 1]_vars

Held(n) ==
    \/ \E s \in DOMAIN pending : pending[s].nonce = n
    \/ \E c \in Finishing : call[c].taken.nonce = n

Status(n) ==
    IF n > generated THEN "fresh"
    ELSE IF uses[n] = 1 THEN "signed"
    ELSE IF uses[n] > 1 THEN "reused"
    ELSE IF Held(n) /\ n \notin cancelled THEN "reserved" ELSE "destroyed"

Lifecycle == INSTANCE NonceLifecycle WITH status <- [n \in Nonces |-> Status(n)]

(* The signer implements the one-use nonce of NonceLifecycle: a nonce is   *)
(* reserved while its session is in the table or taken by a finish.        *)
ImplementsLifecycle == Lifecycle!Spec
=============================================================================
