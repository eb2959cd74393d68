-------------------------- MODULE ArkSignerProofs ---------------------------
(***************************************************************************)
(* Proofs about ArkSigner, for every value of the constants.  First the    *)
(* safety invariants; then what a step may never do: bring a session back, *)
(* evict a live one, or turn a prepare away for what is over.  Last        *)
(* what a step is: one of the one-use nonce of NonceLifecycle, that is, a  *)
(* reservation, a signature, a destruction of nonces, or nothing to an     *)
(* observer of the nonces.                                                 *)
(***************************************************************************)
EXTENDS ArkSigner, FiniteSetTheorems, TLAPS

USE LimitsAssumption DEF Idle, table, history

(* What a record of the session table is made of.                          *)
LEMMA NewSessionType ==
    ASSUME NEW request \in PrepareRequests, NEW now \in Nat, TypeOK,
           generated < MaxNonces
    PROVE  NewSession(request, now) \in Pending
<1>1. request.program \in Programs
    BY DEF Programs
<1>2. [wallet |-> request.wallet, member |-> request.member,
       message |-> request.message, server |-> request.server] \in Intent
    BY RequestsAssumption DEF Intent
<1>3. generated + 1 \in Nonces
    BY DEF TypeOK, Nonces
<1> QED
    BY <1>1, <1>2, <1>3 DEF NewSession, Pending

(* Every variable keeps its shape: in particular the nonce numbers, the    *)
(* session table and what each thread holds are always well-formed.        *)
THEOREM TypeCorrect == Spec => []TypeOK
<1>1. Init => TypeOK
    BY DEF Init, TypeOK, NoSessions, CallState, Unborn
<1>2. TypeOK /\ [Next]_vars => TypeOK'
  <2> SUFFICES ASSUME TypeOK, [Next]_vars PROVE TypeOK'
      OBVIOUS
  <2>1. ASSUME NEW c \in Calls, NEW request \in PrepareRequests,
               PrepareAuthorize(c, request)
        PROVE  TypeOK'
      BY <2>1 DEF TypeOK, PrepareAuthorize, CallState
  <2>2. ASSUME NEW c \in Calls, PrepareReserve(c)
        PROVE  TypeOK'
    <3>1. PICK s \in SessionIds \ LiveAt(call[c].now) :
            pending' = [t \in LiveAt(call[c].now) \cup {s} |->
                          IF t = s THEN NewSession(call[c].request, call[c].now)
                                   ELSE pending[t]]
        BY <2>2 DEF PrepareReserve
    <3>2. call[c].request \in PrepareRequests /\ call[c].now \in Nat
        BY <2>2 DEF PrepareReserve, TypeOK, CallState
    <3>3. NewSession(call[c].request, call[c].now) \in Pending
        BY <2>2, <3>2, NewSessionType DEF PrepareReserve
    <3>4. LiveAt(call[c].now) \subseteq DOMAIN pending
        BY DEF LiveAt
    <3>5. /\ DOMAIN pending' \subseteq SessionIds
          /\ pending' = [t \in DOMAIN pending' |-> pending'[t]]
          /\ \A t \in DOMAIN pending' : pending'[t] \in Pending
        BY <3>1, <3>3, <3>4 DEF TypeOK
    <3>6. generated + 1 \in Nonces /\ generated' \in 0..MaxNonces
        BY <2>2 DEF PrepareReserve, TypeOK, Nonces
    <3>7. birth' \in [Nonces -> [epoch : Nat, wallet : Wallets \cup {"none"}, at : Nat]]
        BY <2>2, <3>2, <3>6, RequestsAssumption DEF PrepareReserve, TypeOK
    <3> QED
        BY <2>2, <3>5, <3>6, <3>7 DEF PrepareReserve, TypeOK, CallState
  <2>3. ASSUME NEW c \in Calls, PrepareFull(c)
        PROVE  TypeOK'
    <3>1. /\ DOMAIN pending' \subseteq SessionIds
          /\ pending' = [t \in DOMAIN pending' |-> pending'[t]]
          /\ \A t \in DOMAIN pending' : pending'[t] \in Pending
        BY <2>3 DEF PrepareFull, Keep, TypeOK
    <3> QED
        BY <2>3, <3>1 DEF TypeOK, PrepareFull, CallState
  <2>4. ASSUME NEW c \in Calls, NEW s \in SessionIds, NEW form \in FinishForms,
               FinishTake(c, s, form)
        PROVE  TypeOK'
    <3>1. pending' = Keep(SessionIds \ {s}) /\ pending[s] \in Pending
        BY <2>4 DEF FinishTake, TypeOK
    <3>2. call' \in [Calls -> CallState]
        BY <2>4, <3>1 DEF FinishTake, TypeOK, CallState
    <3>3. /\ DOMAIN pending' \subseteq SessionIds
          /\ pending' = [t \in DOMAIN pending' |-> pending'[t]]
          /\ \A t \in DOMAIN pending' : pending'[t] \in Pending
        BY <3>1 DEF Keep, TypeOK
    <3>4. ended' \subseteq Nonces
        BY <2>4, <3>1 DEF FinishTake, TypeOK, Pending
    <3> QED
        BY <2>4, <3>2, <3>3, <3>4 DEF TypeOK, FinishTake
  <2>0. ASSUME NEW c \in Calls, FinishCheck(c)
        PROVE  TypeOK'
    <3>1. call[c].taken \in Pending /\ call[c].arrived \in Nat
        BY <2>0 DEF FinishCheck, TypeOK, CallState
    <3>2. call' \in [Calls -> CallState]
        BY <2>0, <3>1 DEF FinishCheck, TypeOK, CallState
    <3> QED
        BY <2>0, <3>2 DEF FinishCheck, TypeOK
  <2>5. ASSUME NEW c \in Calls, FinishSign(c)
        PROVE  TypeOK'
    <3>1. call[c].taken \in Pending /\ call[c].arrived \in Nat
        BY <2>5 DEF FinishSign, TypeOK, CallState
    <3>2. uses' \in [Nonces -> Nat]
        BY <2>5, <3>1 DEF FinishSign, TypeOK, Pending
    <3>3. partials' \subseteq Partial
        BY <2>5, <3>1 DEF FinishSign, TypeOK, Pending, Partial
    <3> QED
        BY <2>5, <3>2, <3>3 DEF FinishSign, TypeOK, CallState
  <2>6. ASSUME NEW c \in Calls, FinishError(c)
        PROVE  TypeOK'
      BY <2>6 DEF TypeOK, FinishError, CallState
  <2>7. ASSUME NEW c \in Calls, NEW s \in SessionIds, NEW protocol_ok \in BOOLEAN,
               Cancel(c, s, protocol_ok)
        PROVE  TypeOK'
    <3>1. pending[s] \in Pending /\ pending[s].nonce \in Nonces
        BY <2>7 DEF Cancel, TypeOK, Pending
    <3>2. /\ DOMAIN pending' \subseteq SessionIds
          /\ pending' = [t \in DOMAIN pending' |-> pending'[t]]
          /\ \A t \in DOMAIN pending' : pending'[t] \in Pending
        BY <2>7 DEF Cancel, Keep, TypeOK
    <3> QED
        BY <2>7, <3>1, <3>2 DEF TypeOK, Cancel
  <2>8. CASE Tick
      BY <2>8 DEF TypeOK, Tick
  <2>9. CASE Restart
      BY <2>9 DEF TypeOK, Restart, CallState, NoSessions
  <2>10. CASE UNCHANGED vars
      BY <2>10 DEF TypeOK, vars
  <2> QED
      BY <2>0, <2>1, <2>2, <2>3, <2>4, <2>5, <2>6, <2>7, <2>8, <2>9, <2>10
         DEF Next, CallStep, PrepareRefuse, FinishUnknown
<1> QED
    BY <1>1, <1>2, PTL DEF Spec

-----------------------------------------------------------------------------
(* A nonce that was generated and neither signed nor cancelled.            *)
Unspent(n) == n \in 1..generated /\ uses[n] = 0 /\ n \notin cancelled

(* The inductive invariant of OneTerminalOutcome: a nonce is held in one   *)
(* place only, a session of the table or a finish under way, and whatever  *)
(* is held is unspent.                                                     *)
TableUnspent == \A s \in DOMAIN pending : Unspent(pending[s].nonce)
FlightUnspent == \A c \in Finishing : Unspent(call[c].taken.nonce)
TableDistinct ==
    \A s, t \in DOMAIN pending : pending[s].nonce = pending[t].nonce => s = t
FlightDistinct ==
    \A c, d \in Finishing : call[c].taken.nonce = call[d].taken.nonce => c = d
TableFlightDistinct ==
    \A s \in DOMAIN pending, c \in Finishing : pending[s].nonce # call[c].taken.nonce
FreshUnused ==
    \A n \in Nonces : n > generated => uses[n] = 0 /\ n \notin cancelled

NonceInv ==
    /\ TableUnspent /\ FlightUnspent
    /\ TableDistinct /\ FlightDistinct /\ TableFlightDistinct
    /\ FreshUnused /\ OneTerminalOutcome

(* Steps that only remove sessions from the table, and let calls go on     *)
(* with what they took or end without signing, keep the invariant.         *)
LEMMA NonceInvShrinks ==
    ASSUME TypeOK, NonceInv, TypeOK',
           generated' = generated, uses' = uses, cancelled' = cancelled,
           DOMAIN pending' \subseteq DOMAIN pending,
           \A s \in DOMAIN pending' : pending'[s] = pending[s],
           \A c \in Finishing' : c \in Finishing /\ call'[c].taken = call[c].taken
    PROVE  NonceInv'
<1>1. Finishing' \subseteq Finishing
    OBVIOUS
<1> QED
    BY <1>1 DEF NonceInv, TableUnspent, FlightUnspent, TableDistinct,
       FlightDistinct, TableFlightDistinct, FreshUnused, OneTerminalOutcome, Unspent

(* Every step preserves the invariant.                                     *)
LEMMA NonceInvStep ==
    ASSUME TypeOK, NonceInv, [Next]_vars, TypeOK'
    PROVE  NonceInv'
<1>1. ASSUME NEW c \in Calls, NEW request \in PrepareRequests,
             PrepareAuthorize(c, request)
      PROVE  NonceInv'
  <2>1. \A d \in Finishing' : d \in Finishing /\ call'[d].taken = call[d].taken
      BY <1>1 DEF PrepareAuthorize, TypeOK, Finishing
  <2> QED
      BY <1>1, <2>1, NonceInvShrinks DEF PrepareAuthorize
<1>2. ASSUME NEW c \in Calls, PrepareReserve(c)
      PROVE  NonceInv'
  <2> DEFINE live == LiveAt(call[c].now)
  <2>1. PICK s \in SessionIds \ live :
          pending' = [t \in live \cup {s} |->
                        IF t = s THEN NewSession(call[c].request, call[c].now)
                                 ELSE pending[t]]
      BY <1>2 DEF PrepareReserve
  <2>2. generated' = generated + 1 /\ generated \in Nat /\ generated + 1 \in Nonces
      BY <1>2 DEF PrepareReserve, TypeOK, Nonces
  <2>3. live \subseteq DOMAIN pending
      BY DEF LiveAt
  <2>4. pending'[s].nonce = generated + 1
      BY <2>1 DEF NewSession
  <2>5. \A t \in DOMAIN pending' : t # s =>
            t \in DOMAIN pending /\ pending'[t] = pending[t]
      BY <2>1, <2>3
  <2>6. Finishing' = Finishing \ {c} /\ \A d \in Finishing' : call'[d] = call[d]
      BY <1>2 DEF PrepareReserve, Finishing, TypeOK
  <2>7. uses' = uses /\ cancelled' = cancelled
      BY <1>2 DEF PrepareReserve
  <2>8. \A n : Unspent(n) => n <= generated /\ Unspent(n)'
      BY <2>2, <2>7 DEF Unspent
  <2>9. Unspent(generated)'
      BY <2>2, <2>7 DEF Unspent, NonceInv, FreshUnused
  <2>10. TableUnspent' /\ TableDistinct'
      BY <2>2, <2>4, <2>5, <2>8, <2>9 DEF NonceInv, TableUnspent, TableDistinct
  <2>11. FlightUnspent' /\ FlightDistinct'
      BY <2>6, <2>8 DEF NonceInv, FlightUnspent, FlightDistinct
  <2>12. TableFlightDistinct'
      BY <2>2, <2>4, <2>5, <2>6, <2>8
         DEF NonceInv, FlightUnspent, TableFlightDistinct
  <2>13. FreshUnused' /\ OneTerminalOutcome'
      BY <2>2, <2>7 DEF NonceInv, FreshUnused, OneTerminalOutcome, Nonces
  <2> QED
      BY <2>10, <2>11, <2>12, <2>13 DEF NonceInv
<1>3. ASSUME NEW c \in Calls, PrepareFull(c)
      PROVE  NonceInv'
  <2>1. /\ \A d \in Finishing' : d \in Finishing /\ call'[d].taken = call[d].taken
        /\ DOMAIN pending' \subseteq DOMAIN pending
        /\ \A s \in DOMAIN pending' : pending'[s] = pending[s]
      BY <1>3 DEF PrepareFull, Keep, TypeOK, Finishing
  <2> QED
      BY <1>3, <2>1, NonceInvShrinks DEF PrepareFull
<1>11. ASSUME NEW c \in Calls, FinishCheck(c)
       PROVE  NonceInv'
  <2>1. \A d \in Finishing' : d \in Finishing /\ call'[d].taken = call[d].taken
      BY <1>11 DEF FinishCheck, TypeOK, Finishing
  <2> QED
      BY <1>11, <2>1, NonceInvShrinks DEF FinishCheck
<1>4. ASSUME NEW c \in Calls, NEW s \in SessionIds, NEW form \in FinishForms,
             FinishTake(c, s, form)
      PROVE  NonceInv'
  <2>1. /\ s \in DOMAIN pending
        /\ \A t \in DOMAIN pending' :
              t # s /\ t \in DOMAIN pending /\ pending'[t] = pending[t]
      BY <1>4 DEF FinishTake, Keep
  <2>2. c \notin Finishing /\ Finishing' = Finishing \cup {c}
      BY <1>4 DEF FinishTake, Finishing, TypeOK
  <2>3. /\ call'[c].taken = pending[s]
        /\ \A d \in Finishing : call'[d] = call[d]
      BY <1>4, <2>2 DEF FinishTake, TypeOK, Finishing
  <2>4. generated' = generated /\ uses' = uses /\ cancelled' = cancelled
      BY <1>4 DEF FinishTake
  <2>5. TableUnspent' /\ TableDistinct'
      BY <2>1, <2>4 DEF NonceInv, TableUnspent, TableDistinct, Unspent
  <2>6. FlightUnspent'
      BY <2>1, <2>2, <2>3, <2>4 DEF NonceInv, TableUnspent, FlightUnspent, Unspent
  <2>7. FlightDistinct' /\ TableFlightDistinct'
      BY <2>1, <2>2, <2>3
         DEF NonceInv, FlightDistinct, TableFlightDistinct, TableDistinct
  <2> QED
      BY <2>4, <2>5, <2>6, <2>7 DEF NonceInv, FreshUnused, OneTerminalOutcome
<1>5. ASSUME NEW c \in Calls, FinishSign(c)
      PROVE  NonceInv'
  <2> DEFINE n == call[c].taken.nonce
  <2>1. c \in Finishing /\ n \in Nonces /\ Unspent(n)
      BY <1>5 DEF FinishSign, Finishing, NonceInv, FlightUnspent, TypeOK,
                  CallState, Pending
  <2>2. uses' = [uses EXCEPT ![n] = 1]
      BY <1>5, <2>1 DEF FinishSign, Unspent
  <2>3. /\ pending' = pending /\ generated' = generated /\ cancelled' = cancelled
        /\ Finishing' = Finishing \ {c}
        /\ \A d \in Finishing' : call'[d] = call[d]
      BY <1>5 DEF FinishSign, Finishing, TypeOK
  <2>4. \A m \in Nonces : m # n /\ Unspent(m) => Unspent(m)'
      BY <2>2, <2>3 DEF Unspent, TypeOK
  <2>5. /\ \A s \in DOMAIN pending : pending[s].nonce \in Nonces
        /\ \A d \in Finishing : call[d].taken.nonce \in Nonces
      BY DEF TypeOK, Pending, CallState, Finishing
  <2>6. TableUnspent' /\ TableDistinct'
      BY <2>1, <2>3, <2>4, <2>5
         DEF NonceInv, TableUnspent, TableDistinct, TableFlightDistinct
  <2>7. FlightUnspent' /\ FlightDistinct' /\ TableFlightDistinct'
      BY <2>1, <2>3, <2>4, <2>5
         DEF NonceInv, FlightUnspent, FlightDistinct, TableFlightDistinct
  <2>8. FreshUnused'
    <3> HIDE DEF n
    <3>0. generated \in Nat
        BY DEF TypeOK
    <3>1. \A m \in Nonces : m > generated => m # n
        BY <2>1, <3>0 DEF Unspent, Nonces
    <3> QED
        BY <2>2, <2>3, <3>1 DEF NonceInv, FreshUnused, TypeOK
  <2>9. OneTerminalOutcome'
    <3>1. n \notin cancelled /\ cancelled \subseteq Nonces
        BY <2>1 DEF Unspent, TypeOK
    <3> QED
        BY <2>1, <2>2, <2>3, <3>1 DEF NonceInv, OneTerminalOutcome, TypeOK
  <2> QED
      BY <2>6, <2>7, <2>8, <2>9 DEF NonceInv
<1>6. ASSUME NEW c \in Calls, FinishError(c)
      PROVE  NonceInv'
  <2>1. \A d \in Finishing' : d \in Finishing /\ call'[d].taken = call[d].taken
      BY <1>6 DEF FinishError, TypeOK, Finishing
  <2> QED
      BY <1>6, <2>1, NonceInvShrinks DEF FinishError
<1>7. ASSUME NEW c \in Calls, NEW s \in SessionIds, NEW protocol_ok \in BOOLEAN,
             Cancel(c, s, protocol_ok)
      PROVE  NonceInv'
  <2> DEFINE n == pending[s].nonce
  <2>1. /\ s \in DOMAIN pending
        /\ \A t \in DOMAIN pending' :
              t # s /\ t \in DOMAIN pending /\ pending'[t] = pending[t]
      BY <1>7 DEF Cancel, Keep
  <2>2. n \in Nonces /\ Unspent(n)
      BY <2>1 DEF TypeOK, Pending, NonceInv, TableUnspent
  <2>3. /\ cancelled' = cancelled \/ cancelled' = cancelled \cup {n}
        /\ uses' = uses /\ generated' = generated /\ call' = call
        /\ Finishing' = Finishing
      BY <1>7 DEF Cancel, Finishing
  <2>4. \A m : m # n /\ Unspent(m) => Unspent(m)'
      BY <2>3 DEF Unspent
  <2>5. TableUnspent' /\ TableDistinct'
      BY <2>1, <2>4 DEF NonceInv, TableUnspent, TableDistinct
  <2>6. FlightUnspent' /\ FlightDistinct' /\ TableFlightDistinct'
      BY <2>1, <2>3, <2>4
         DEF NonceInv, FlightUnspent, FlightDistinct, TableFlightDistinct
  <2>7. FreshUnused'
    <3> HIDE DEF n
    <3>0. generated \in Nat
        BY DEF TypeOK
    <3>1. \A m \in Nonces : m > generated => m # n
        BY <2>2, <3>0 DEF Unspent, Nonces
    <3> QED
        BY <2>3, <3>1 DEF NonceInv, FreshUnused
  <2>8. OneTerminalOutcome'
      BY <2>2, <2>3 DEF NonceInv, OneTerminalOutcome, Unspent
  <2> QED
      BY <2>5, <2>6, <2>7, <2>8 DEF NonceInv
<1>8. CASE Tick
    BY <1>8, NonceInvShrinks DEF Tick, Finishing
<1>9. CASE Restart
  <2>1. DOMAIN pending' = {} /\ Finishing' = {}
      BY <1>9 DEF Restart, NoSessions, Finishing
  <2> QED
      BY <1>9, <2>1, NonceInvShrinks DEF Restart
<1>10. CASE UNCHANGED vars
    BY <1>10, NonceInvShrinks DEF vars, Finishing
<1> QED
    BY <1>1, <1>2, <1>3, <1>4, <1>5, <1>6, <1>7, <1>8, <1>9, <1>10, <1>11
       DEF Next, CallStep, PrepareRefuse, FinishUnknown

(* The nonce invariant holds throughout.                                   *)
LEMMA NonceInvariant == Spec => []NonceInv
<1>1. Init => NonceInv
    BY DEF Init, NonceInv, TableUnspent, FlightUnspent, TableDistinct,
       FlightDistinct, TableFlightDistinct, FreshUnused, OneTerminalOutcome,
       NoSessions, Finishing, Nonces
<1>2. TypeOK /\ TypeOK' /\ NonceInv /\ [Next]_vars => NonceInv'
    BY NonceInvStep
<1> QED
    BY <1>1, <1>2, TypeCorrect, PTL DEF Spec

(* A secret nonce signs at most once, and never after an acknowledged      *)
(* cancellation, for any number of threads, sessions, restarts and clock   *)
(* ticks.                                                                  *)
THEOREM NonceOnce == Spec => []OneTerminalOutcome
<1>1. NonceInv => OneTerminalOutcome
    BY DEF NonceInv
<1> QED
    BY <1>1, NonceInvariant, PTL

-----------------------------------------------------------------------------
(* The inductive invariant of AuthorizedRelease and LateFinishRefused, and *)
(* of RefusalJustified below.  A session stands for a request that this    *)
(* process, with this root, authorized, expires at most Lifetime after its *)
(* reservation; a finish that passed the checks came before the expiry.    *)
StandsFor(session, r) ==
    /\ PrepareAuthorized(root, r)
    /\ session.program = r.program
    /\ session.intent.wallet = r.wallet /\ session.intent.message = r.message
    /\ session.intent.member = r.member

Sound(session) ==
    /\ \E r \in PrepareRequests : StandsFor(session, r)
    /\ session.nonce <= generated
    /\ birth[session.nonce].epoch = epoch
    /\ birth[session.nonce].wallet = session.intent.wallet
    /\ session.expires <= birth[session.nonce].at + Lifetime

ReservingSound ==
    \A c \in Reserving :
        PrepareAuthorized(root, call[c].request) /\ call[c].now <= clock
TableSound == \A s \in DOMAIN pending : Sound(pending[s])
FlightSound ==
    \A c \in Finishing :
        /\ Sound(call[c].taken)
        /\ call[c].arrived <= clock
        /\ call[c].op = "sign" => call[c].arrived < call[c].taken.expires
PartialsOld == \A p \in partials : p.nonce <= generated

ReleaseInv ==
    /\ ReservingSound /\ TableSound /\ FlightSound
    /\ PartialsOld /\ AuthorizedRelease /\ LateFinishRefused

(* Steps that neither sign nor reserve keep what was sound, provided that  *)
(* they keep the process and that a new reservation call is sound.         *)
LEMMA ReleaseInvKept ==
    ASSUME TypeOK, ReleaseInv, TypeOK',
           root' = root, epoch' = epoch, clock' >= clock,
           generated' = generated, birth' = birth, partials' = partials,
           DOMAIN pending' \subseteq DOMAIN pending,
           \A s \in DOMAIN pending' : pending'[s] = pending[s],
           \A c \in Calls :
              /\ call'[c].op \in {"finish", "sign"} =>
                    \/ call'[c] = call[c]
                    \/ /\ call'[c].op = "finish" /\ call'[c].arrived = clock
                       /\ \E s \in DOMAIN pending : call'[c].taken = pending[s]
                    \/ /\ c \in Finishing /\ call'[c].taken = call[c].taken
                       /\ call'[c].arrived = call[c].arrived
                       /\ call[c].taken.expires > clock
              /\ call'[c].op = "reserve" =>
                    \/ call'[c] = call[c]
                    \/ /\ PrepareAuthorized(root, call'[c].request)
                       /\ call'[c].now = clock
    PROVE  ReleaseInv'
<1>1. \A session : Sound(session) => Sound(session)'
    BY DEF Sound, StandsFor
<1>2. TableSound'
    BY <1>1 DEF ReleaseInv, TableSound
<1>3. FlightSound'
  <2>1. SUFFICES ASSUME NEW c \in Finishing'
                 PROVE  /\ Sound(call'[c].taken)
                        /\ call'[c].arrived <= clock'
                        /\ call'[c].op = "sign" => call'[c].arrived < call'[c].taken.expires
      BY <1>1 DEF FlightSound, Sound, StandsFor
  <2>2. /\ clock \in Nat /\ clock' \in Nat /\ c \in Calls
        /\ call'[c].op \in {"finish", "sign"} /\ call[c] \in CallState
      BY DEF TypeOK, Finishing
  <2>3. c \in Finishing => /\ call[c].arrived \in Nat /\ call[c].taken.expires \in Nat
                           /\ Sound(call[c].taken) /\ call[c].arrived <= clock
                           /\ call[c].op = "sign" => call[c].arrived < call[c].taken.expires
      BY <2>2 DEF Finishing, CallState, Pending, ReleaseInv, FlightSound
  <2>4. CASE call'[c] = call[c]
    <3>1. c \in Finishing
        BY <2>2, <2>4 DEF Finishing
    <3> QED
        BY <2>2, <2>3, <2>4, <3>1
  <2>5. CASE /\ call'[c].op = "finish" /\ call'[c].arrived = clock
             /\ \E s \in DOMAIN pending : call'[c].taken = pending[s]
      BY <2>2, <2>5 DEF ReleaseInv, TableSound
  <2>6. CASE /\ c \in Finishing /\ call'[c].taken = call[c].taken
             /\ call'[c].arrived = call[c].arrived /\ call[c].taken.expires > clock
      BY <2>2, <2>3, <2>6
  <2> QED
      BY <2>2, <2>4, <2>5, <2>6
<1>4. ReservingSound'
  <2>1. SUFFICES ASSUME NEW c \in Reserving'
                 PROVE  PrepareAuthorized(root, call'[c].request) /\ call'[c].now <= clock'
      BY DEF ReservingSound
  <2>2. clock \in Nat /\ clock' \in Nat /\ call[c] \in CallState /\ c \in Calls
      BY DEF TypeOK, Reserving
  <2>3. CASE call'[c] = call[c]
    <3>1. c \in Reserving /\ call[c].now \in Nat
        BY <2>2, <2>3 DEF Reserving, CallState
    <3> QED
        BY <2>2, <2>3, <3>1 DEF ReleaseInv, ReservingSound
  <2> QED
      BY <2>2, <2>3 DEF Reserving
<1>5. PartialsOld' /\ AuthorizedRelease' /\ LateFinishRefused'
    BY DEF ReleaseInv, PartialsOld, AuthorizedRelease, LateFinishRefused
<1> QED
    BY <1>2, <1>3, <1>4, <1>5 DEF ReleaseInv

(* Every step preserves the invariant.                                     *)
LEMMA ReleaseInvStep ==
    ASSUME TypeOK, ReleaseInv, [Next]_vars, TypeOK'
    PROVE  ReleaseInv'
<1>0. clock \in Nat /\ clock >= clock /\ epoch \in Nat /\ generated \in Nat
    BY DEF TypeOK
<1>1. ASSUME NEW c \in Calls, NEW request \in PrepareRequests,
             PrepareAuthorize(c, request)
      PROVE  ReleaseInv'
  <2>1. \A d \in Calls :
            \/ call'[d] = call[d]
            \/ /\ call'[d].op = "reserve" /\ call'[d].now = clock
               /\ PrepareAuthorized(root, call'[d].request)
      BY <1>1 DEF PrepareAuthorize, TypeOK
  <2> QED
      BY <1>0, <1>1, <2>1, ReleaseInvKept DEF PrepareAuthorize
<1>2. ASSUME NEW c \in Calls, PrepareReserve(c)
      PROVE  ReleaseInv'
  <2> DEFINE live == LiveAt(call[c].now)
             new == NewSession(call[c].request, call[c].now)
  <2>1. PICK s \in SessionIds \ live :
          pending' = [t \in live \cup {s} |-> IF t = s THEN new ELSE pending[t]]
      BY <1>2 DEF PrepareReserve
  <2>2. /\ generated' = generated + 1 /\ generated + 1 \in Nonces
        /\ birth' = [birth EXCEPT ![generated + 1] =
                        [epoch |-> epoch, wallet |-> call[c].request.wallet, at |-> clock]]
        /\ root' = root /\ epoch' = epoch /\ clock' = clock /\ partials' = partials
      BY <1>2 DEF PrepareReserve, TypeOK, Nonces
  <2>3. live \subseteq DOMAIN pending
      BY DEF LiveAt
  <2>4. /\ call[c].request \in PrepareRequests /\ call[c].now \in Nat
        /\ PrepareAuthorized(root, call[c].request) /\ call[c].now <= clock
      BY <1>2 DEF PrepareReserve, Reserving, ReleaseInv, ReservingSound, TypeOK, CallState
  <2>5. \A n \in Nonces : n <= generated => birth'[n] = birth[n]
      BY <1>0, <2>2 DEF TypeOK, Nonces
  <2>6. \A session \in Pending : Sound(session) => Sound(session)'
      BY <1>0, <2>2, <2>5 DEF Sound, StandsFor, Pending, Nonces
  <2>7. \A session : session = new => Sound(session)'
    <3>1. SUFFICES ASSUME NEW session, session = new
                   PROVE  Sound(session)'
        OBVIOUS
    <3>2. /\ session.nonce = generated + 1
          /\ session.expires = call[c].now + Lifetime
          /\ session.intent.wallet = call[c].request.wallet
          /\ StandsFor(session, call[c].request)
        BY <2>4, <3>1 DEF NewSession, StandsFor
    <3>3. birth'[generated + 1] =
              [epoch |-> epoch, wallet |-> call[c].request.wallet, at |-> clock]
        BY <2>2 DEF TypeOK
    <3>4. \E r \in PrepareRequests : StandsFor(session, r)'
        BY <2>2, <2>4, <3>2 DEF StandsFor
    <3> QED
        BY <1>0, <2>2, <2>4, <3>2, <3>3, <3>4 DEF Sound
  <2>8. TableSound'
    <3>1. \A t \in DOMAIN pending' : t # s =>
              pending'[t] = pending[t] /\ pending[t] \in Pending /\ Sound(pending[t])
        BY <2>1, <2>3 DEF TypeOK, ReleaseInv, TableSound
    <3>2. pending'[s] = new
        BY <2>1
    <3>3. \A t \in DOMAIN pending' : \A session :
              session = pending'[t] => Sound(session)'
        BY <2>6, <2>7, <3>1, <3>2
    <3> QED
        BY <3>3 DEF TableSound
  <2>9. \A d \in Calls : call'[d].op # "idle" => call'[d] = call[d]
      BY <1>2 DEF PrepareReserve, TypeOK
  <2>10. FlightSound'
    <3>1. \A d \in Finishing' : d \in Finishing /\ call'[d] = call[d]
        BY <2>9 DEF Finishing
    <3>2. \A d \in Finishing : call[d].taken \in Pending
        BY DEF Finishing, TypeOK, CallState
    <3> QED
        BY <2>2, <2>6, <3>1, <3>2 DEF ReleaseInv, FlightSound
  <2>11. ReservingSound'
      BY <2>2, <2>9 DEF ReleaseInv, ReservingSound, Reserving
  <2>12. PartialsOld' /\ AuthorizedRelease' /\ LateFinishRefused'
    <3>1. \A p \in partials : p.nonce \in Nonces /\ p.nonce <= generated
        BY DEF TypeOK, Partial, ReleaseInv, PartialsOld
    <3> QED
        BY <1>0, <2>2, <2>5, <3>1
           DEF ReleaseInv, PartialsOld, AuthorizedRelease, LateFinishRefused, Nonces
  <2> QED
      BY <2>8, <2>10, <2>11, <2>12 DEF ReleaseInv
<1>3. ASSUME NEW c \in Calls, PrepareFull(c)
      PROVE  ReleaseInv'
  <2>1. /\ \A d \in Calls : call'[d].op # "idle" => call'[d] = call[d]
        /\ DOMAIN pending' \subseteq DOMAIN pending
        /\ \A s \in DOMAIN pending' : pending'[s] = pending[s]
      BY <1>3 DEF PrepareFull, Keep, TypeOK
  <2> QED
      BY <1>0, <1>3, <2>1, ReleaseInvKept DEF PrepareFull
<1>4. ASSUME NEW c \in Calls, NEW s \in SessionIds, NEW form \in FinishForms,
             FinishTake(c, s, form)
      PROVE  ReleaseInv'
  <2>1. /\ \A d \in Calls : \/ call'[d] = call[d]
                            \/ /\ call'[d].op = "finish" /\ call'[d].arrived = clock
                               /\ call'[d].taken = pending[s]
        /\ s \in DOMAIN pending
        /\ DOMAIN pending' \subseteq DOMAIN pending
        /\ \A t \in DOMAIN pending' : pending'[t] = pending[t]
      BY <1>4 DEF FinishTake, Keep, TypeOK
  <2> QED
      BY <1>0, <1>4, <2>1, ReleaseInvKept DEF FinishTake
<1>11. ASSUME NEW c \in Calls, FinishCheck(c)
       PROVE  ReleaseInv'
  <2>1. c \in Finishing /\ call[c].taken.expires > clock
      BY <1>11 DEF FinishCheck, FinishAccepted, Finishing
  <2>2. \A d \in Calls : \/ call'[d] = call[d]
                         \/ /\ d = c /\ call'[d].op = "sign"
                            /\ call'[d].taken = call[d].taken
                            /\ call'[d].arrived = call[d].arrived
      BY <1>11 DEF FinishCheck, TypeOK
  <2> QED
      BY <1>0, <1>11, <2>1, <2>2, ReleaseInvKept DEF FinishCheck
<1>5. ASSUME NEW c \in Calls, FinishSign(c)
      PROVE  ReleaseInv'
  <2> DEFINE taken == call[c].taken
             new == [nonce |-> taken.nonce, root |-> root, epoch |-> epoch,
                     program |-> taken.program, intent |-> taken.intent,
                     arrived |-> call[c].arrived]
  <2>1. /\ c \in Finishing /\ Sound(taken) /\ taken \in Pending
        /\ call[c].arrived \in Nat /\ call[c].arrived < taken.expires
      BY <1>5 DEF FinishSign, Finishing, ReleaseInv, FlightSound, TypeOK, CallState
  <2>2. /\ partials' = partials \cup {new}
        /\ pending' = pending /\ generated' = generated /\ birth' = birth
        /\ root' = root /\ epoch' = epoch /\ clock' = clock
      BY <1>5 DEF FinishSign
  <2>3. \A d \in Calls : call'[d].op # "idle" => call'[d] = call[d]
      BY <1>5 DEF FinishSign, TypeOK
  <2>4. \A session : Sound(session) => Sound(session)'
      BY <2>2 DEF Sound, StandsFor
  <2>5. TableSound' /\ FlightSound' /\ ReservingSound'
      BY <2>2, <2>3, <2>4 DEF ReleaseInv, TableSound, FlightSound, ReservingSound,
                              Reserving, Finishing
  <2>6. AuthorizedRelease'
    <3>1. PICK r \in PrepareRequests : StandsFor(taken, r)
        BY <2>1 DEF Sound
    <3>2. /\ PrepareAuthorized(new.root, r)
          /\ new.program = r.program
          /\ new.intent.wallet = r.wallet /\ new.intent.message = r.message
          /\ new.intent.member = DeriveKey(new.root, new.program)
        BY <3>1 DEF StandsFor, PrepareAuthorized, PrepareAdmitted, KeyMatches
    <3> QED
        BY <2>2, <3>2 DEF ReleaseInv, AuthorizedRelease
  <2>7. LateFinishRefused'
    <3>1. taken.expires \in Nat /\ birth[taken.nonce].at \in Nat /\ taken.nonce \in Nonces
        BY <2>1 DEF Pending, TypeOK
    <3>2. new.epoch = birth[new.nonce].epoch /\ new.arrived < birth[new.nonce].at + Lifetime
        BY <1>0, <2>1, <2>2, <3>1 DEF Sound
    <3> QED
        BY <2>2, <3>2 DEF ReleaseInv, LateFinishRefused
  <2>8. PartialsOld'
      BY <2>1, <2>2 DEF ReleaseInv, PartialsOld, Sound
  <2> QED
      BY <2>5, <2>6, <2>7, <2>8 DEF ReleaseInv
<1>6. ASSUME NEW c \in Calls, FinishError(c)
      PROVE  ReleaseInv'
  <2>1. \A d \in Calls : call'[d].op # "idle" => call'[d] = call[d]
      BY <1>6 DEF FinishError, TypeOK
  <2> QED
      BY <1>0, <1>6, <2>1, ReleaseInvKept DEF FinishError
<1>7. ASSUME NEW c \in Calls, NEW s \in SessionIds, NEW protocol_ok \in BOOLEAN,
             Cancel(c, s, protocol_ok)
      PROVE  ReleaseInv'
  <2>1. /\ DOMAIN pending' \subseteq DOMAIN pending
        /\ \A t \in DOMAIN pending' : pending'[t] = pending[t]
      BY <1>7 DEF Cancel, Keep
  <2> QED
      BY <1>0, <1>7, <2>1, ReleaseInvKept DEF Cancel
<1>8. CASE Tick
    BY <1>0, <1>8, ReleaseInvKept DEF Tick
<1>9. CASE Restart
  <2>1. /\ DOMAIN pending' = {}
        /\ Finishing' = {} /\ Reserving' = {}
      BY <1>9 DEF Restart, NoSessions, Finishing, Reserving
  <2>2. partials' = partials /\ generated' = generated /\ birth' = birth
      BY <1>9 DEF Restart
  <2> QED
      BY <2>1, <2>2 DEF ReleaseInv, TableSound, FlightSound, ReservingSound,
         PartialsOld, AuthorizedRelease, LateFinishRefused
<1>10. CASE UNCHANGED vars
    BY <1>0, <1>10, ReleaseInvKept DEF vars
<1> QED
    BY <1>1, <1>2, <1>3, <1>4, <1>5, <1>6, <1>7, <1>8, <1>9, <1>10, <1>11
       DEF Next, CallStep, PrepareRefuse, FinishUnknown

(* The release invariant holds throughout.                                 *)
LEMMA ReleaseInvariant == Spec => []ReleaseInv
<1>1. Init => ReleaseInv
    BY DEF Init, ReleaseInv, TableSound, FlightSound, ReservingSound, PartialsOld,
       AuthorizedRelease, LateFinishRefused, NoSessions, Finishing, Reserving
<1>2. TypeOK /\ TypeOK' /\ ReleaseInv /\ [Next]_vars => ReleaseInv'
    BY ReleaseInvStep
<1> QED
    BY <1>1, <1>2, TypeCorrect, PTL DEF Spec

(* Whatever is signed was authorized, by the same process and root, for    *)
(* the same program, wallet and message.                                   *)
THEOREM ReleaseAuthorized == Spec => []AuthorizedRelease
<1>1. ReleaseInv => AuthorizedRelease
    BY DEF ReleaseInv
<1> QED
    BY <1>1, ReleaseInvariant, PTL

(* A finish that comes after the lifetime of its reservation, or to another *)
(* process than the one that made it, gets no signature, for any number of *)
(* threads, sessions, ticks and restarts.                                  *)
THEOREM LateFinishesRefused == Spec => []LateFinishRefused
<1>1. ReleaseInv => LateFinishRefused
    BY DEF ReleaseInv
<1> QED
    BY <1>1, ReleaseInvariant, PTL

-----------------------------------------------------------------------------
(* A subset of a finite set is finite and no larger.                       *)
LEMMA SmallerSet ==
    ASSUME NEW S, NEW T, IsFiniteSet(T), S \subseteq T
    PROVE  /\ IsFiniteSet(S)
           /\ Cardinality(S) \in Nat /\ Cardinality(T) \in Nat
           /\ Cardinality(S) <= Cardinality(T)
BY FS_Subset, FS_CardinalityType

(* Steps that only remove sessions from the table respect the limits.      *)
LEMMA CapacityShrinks ==
    ASSUME TypeOK, CapacityBounded,
           DOMAIN pending' \subseteq DOMAIN pending,
           \A s \in DOMAIN pending' : pending'[s] = pending[s]
    PROVE  CapacityBounded'
<1>1. IsFiniteSet(DOMAIN pending)
    BY SessionIdsAssumption, SmallerSet DEF TypeOK
<1>2. Cardinality(DOMAIN pending') <= MaxPending
  <2>1. /\ Cardinality(DOMAIN pending') \in Nat /\ Cardinality(DOMAIN pending) \in Nat
        /\ Cardinality(DOMAIN pending') <= Cardinality(DOMAIN pending)
      BY <1>1, SmallerSet
  <2> QED
      BY <2>1 DEF CapacityBounded
<1>3. ASSUME NEW w \in Wallets
      PROVE  Cardinality(HeldBy(w, DOMAIN pending)') <= MaxPerUser
  <2>1. HeldBy(w, DOMAIN pending) \subseteq DOMAIN pending
      BY DEF HeldBy
  <2>2. IsFiniteSet(HeldBy(w, DOMAIN pending))
      BY <1>1, <2>1, SmallerSet
  <2>3. HeldBy(w, DOMAIN pending)' \subseteq HeldBy(w, DOMAIN pending)
      BY DEF HeldBy
  <2>4. /\ Cardinality(HeldBy(w, DOMAIN pending)') \in Nat
        /\ Cardinality(HeldBy(w, DOMAIN pending)) \in Nat
        /\ Cardinality(HeldBy(w, DOMAIN pending)')
              <= Cardinality(HeldBy(w, DOMAIN pending))
      BY <2>2, <2>3, SmallerSet
  <2>5. Cardinality(HeldBy(w, DOMAIN pending)) <= MaxPerUser
      BY DEF CapacityBounded
  <2> QED
      BY <2>4, <2>5
<1> QED
    BY <1>2, <1>3 DEF CapacityBounded

(* The reservation respects them because it checks the table it has just   *)
(* pruned, under the lock under which it inserts.                          *)
LEMMA CapacityReserve ==
    ASSUME TypeOK, CapacityBounded, NEW c \in Calls, PrepareReserve(c)
    PROVE  CapacityBounded'
<1> DEFINE live == LiveAt(call[c].now)
           wallet == call[c].request.wallet
<1>1. PICK s \in SessionIds \ live :
        pending' = [t \in live \cup {s} |->
                      IF t = s THEN NewSession(call[c].request, call[c].now)
                               ELSE pending[t]]
    BY DEF PrepareReserve
<1>2. /\ live \subseteq DOMAIN pending
      /\ Cardinality(live) < MaxPending
      /\ Cardinality(HeldBy(wallet, live)) < MaxPerUser
    BY DEF PrepareReserve, HasRoom, LiveAt
<1>3. IsFiniteSet(DOMAIN pending) /\ IsFiniteSet(live)
    BY <1>2, SessionIdsAssumption, SmallerSet DEF TypeOK
<1>4. Cardinality(DOMAIN pending') <= MaxPending
  <2>1. Cardinality(live \cup {s}) = Cardinality(live) + 1 /\ Cardinality(live) \in Nat
      BY <1>1, <1>3, FS_AddElement, FS_CardinalityType
  <2>2. DOMAIN pending' = live \cup {s}
      BY <1>1
  <2> QED
      BY <1>2, <2>1, <2>2
<1>5. ASSUME NEW w \in Wallets
      PROVE  Cardinality(HeldBy(w, DOMAIN pending)') <= MaxPerUser
  <2>1. /\ HeldBy(w, live) \subseteq live
        /\ HeldBy(w, live) \subseteq HeldBy(w, DOMAIN pending)
        /\ HeldBy(w, DOMAIN pending) \subseteq DOMAIN pending
      BY <1>2 DEF HeldBy
  <2>2. IsFiniteSet(HeldBy(w, live)) /\ IsFiniteSet(HeldBy(w, DOMAIN pending))
      BY <1>3, <2>1, SmallerSet
  <2>3. CASE w = wallet
    <3>1. HeldBy(w, DOMAIN pending)' \subseteq HeldBy(w, live) \cup {s}
        BY <1>1 DEF HeldBy
    <3>2. /\ IsFiniteSet(HeldBy(w, live) \cup {s})
          /\ Cardinality(HeldBy(w, live) \cup {s}) <= Cardinality(HeldBy(w, live)) + 1
          /\ Cardinality(HeldBy(w, live)) \in Nat
      <4>1. s \notin HeldBy(w, live)
          BY <1>1, <2>1
      <4>2. Cardinality(HeldBy(w, live)) \in Nat
          BY <2>2, FS_CardinalityType
      <4> HIDE DEF live
      <4>3. /\ IsFiniteSet(HeldBy(w, live) \cup {s})
            /\ Cardinality(HeldBy(w, live) \cup {s}) = Cardinality(HeldBy(w, live)) + 1
          BY <2>2, <4>1, FS_AddElement
      <4> QED
          BY <4>2, <4>3
    <3>3. /\ Cardinality(HeldBy(w, DOMAIN pending)') \in Nat
          /\ Cardinality(HeldBy(w, live) \cup {s}) \in Nat
          /\ Cardinality(HeldBy(w, DOMAIN pending)')
                <= Cardinality(HeldBy(w, live) \cup {s})
        BY <3>1, <3>2, SmallerSet
    <3> QED
        BY <1>2, <2>3, <3>2, <3>3
  <2>4. CASE w # wallet
    <3>1. HeldBy(w, DOMAIN pending)' \subseteq HeldBy(w, DOMAIN pending)
        BY <1>1, <1>2, <2>4 DEF HeldBy, NewSession
    <3>2. /\ Cardinality(HeldBy(w, DOMAIN pending)') \in Nat
          /\ Cardinality(HeldBy(w, DOMAIN pending)) \in Nat
          /\ Cardinality(HeldBy(w, DOMAIN pending)')
                <= Cardinality(HeldBy(w, DOMAIN pending))
        BY <2>2, <3>1, SmallerSet
    <3>3. Cardinality(HeldBy(w, DOMAIN pending)) <= MaxPerUser
        BY DEF CapacityBounded
    <3> QED
        BY <3>2, <3>3
  <2> QED
      BY <2>3, <2>4
<1> QED
    BY <1>4, <1>5 DEF CapacityBounded

(* The pool and each wallet stay within their limits, for any number of    *)
(* concurrent prepares and any limits.                                     *)
THEOREM PoolBounded == Spec => []CapacityBounded
<1>1. Init => CapacityBounded
  <2>1. SUFFICES ASSUME Init PROVE CapacityBounded
      OBVIOUS
  <2>2. DOMAIN pending = {} /\ \A w \in Wallets : HeldBy(w, DOMAIN pending) = {}
      BY <2>1 DEF Init, NoSessions, HeldBy
  <2> QED
      BY <2>2, FS_EmptySet DEF CapacityBounded
<1>2. TypeOK /\ CapacityBounded /\ [Next]_vars => CapacityBounded'
  <2>1. SUFFICES ASSUME TypeOK, CapacityBounded, [Next]_vars PROVE CapacityBounded'
      OBVIOUS
  <2>2. ASSUME NEW c \in Calls, PrepareReserve(c)
        PROVE  CapacityBounded'
      BY <2>1, <2>2, CapacityReserve
  <2>3. CASE Restart
      BY <2>1, <2>3, CapacityShrinks DEF Restart, NoSessions
  <2>4. ASSUME NEW S, pending' = Keep(S)
        PROVE  CapacityBounded'
      BY <2>1, <2>4, CapacityShrinks DEF Keep
  <2>5. CASE pending' = pending
      BY <2>1, <2>5, CapacityShrinks
  <2> QED
      BY <2>1, <2>2, <2>3, <2>4, <2>5
         DEF Next, CallStep, PrepareAuthorize, PrepareRefuse, PrepareFull, FinishTake,
             FinishUnknown, FinishCheck, FinishSign, FinishError, Cancel, Tick, vars
<1> QED
    BY <1>1, <1>2, TypeCorrect, PTL DEF Spec

-----------------------------------------------------------------------------
(* The steps that the three properties admit.                              *)
RestoresNothing ==
    \A t \in DOMAIN pending' :
        \/ t \in DOMAIN pending /\ pending'[t] = pending[t]
        \/ pending'[t].nonce = generated + 1 /\ generated' = generated + 1

KeepsLive ==
    \A s \in DOMAIN pending :
        \/ \E t \in DOMAIN pending' : pending'[t].nonce = pending[s].nonce
        \/ pending[s].expires <= clock
        \/ \E c \in Calls : /\ call[c] = Idle /\ call'[c].op = "finish"
                            /\ call'[c].taken = pending[s]
        \/ Cardinality(DOMAIN pending') + 1 = Cardinality(DOMAIN pending)
           /\ call' = call
        \/ epoch' # epoch

RefusesJustly ==
    \A c \in Reserving :
        /\ call'[c] = Idle /\ epoch' = epoch /\ generated' = generated
        => \/ Cardinality(Outstanding(call[c].now)) >= MaxPending
           \/ Cardinality(OutstandingOf(call[c].request.wallet, call[c].now))
                 >= MaxPerUser

-----------------------------------------------------------------------------
(* No handler puts a session into the table but prepare, with a new nonce. *)
THEOREM SessionsNeverRestored == Spec => NeverRestored
<1>1. ASSUME [Next]_vars
      PROVE  RestoresNothing
  <2>1. ASSUME NEW c \in Calls, PrepareReserve(c)
        PROVE  RestoresNothing
    <3>1. PICK s \in SessionIds \ LiveAt(call[c].now) :
            pending' = [t \in LiveAt(call[c].now) \cup {s} |->
                          IF t = s THEN NewSession(call[c].request, call[c].now)
                                   ELSE pending[t]]
        BY <2>1 DEF PrepareReserve
    <3>2. generated' = generated + 1
        BY <2>1 DEF PrepareReserve
    <3>3. NewSession(call[c].request, call[c].now).nonce = generated + 1
        BY DEF NewSession
    <3> QED
        BY <3>1, <3>2, <3>3 DEF RestoresNothing, LiveAt
  <2>2. ASSUME NEW S, pending' = Keep(S)
        PROVE  RestoresNothing
      BY <2>2 DEF Keep, RestoresNothing
  <2>3. CASE pending' = NoSessions
      BY <2>3 DEF NoSessions, RestoresNothing
  <2>4. CASE UNCHANGED pending
      BY <2>4 DEF RestoresNothing
  <2>5. ASSUME NEW c \in Calls, CallStep(c)
        PROVE  RestoresNothing
    <3>1. CASE \/ \E request \in PrepareRequests :
                    PrepareAuthorize(c, request) \/ PrepareRefuse(c, request)
               \/ FinishCheck(c) \/ FinishSign(c) \/ FinishError(c)
      <4>1. UNCHANGED pending
          BY <3>1 DEF PrepareAuthorize, PrepareRefuse, FinishCheck, FinishSign,
                      FinishError, vars
      <4> QED
          BY <2>4, <4>1
    <3>2. CASE PrepareFull(c)
        BY <2>2, <3>2 DEF PrepareFull
    <3>3. ASSUME NEW s \in SessionIds, NEW form \in FinishForms, FinishTake(c, s, form)
          PROVE  RestoresNothing
        BY <2>2, <3>3 DEF FinishTake
    <3>4. ASSUME NEW s \in SessionIds, FinishUnknown(c, s)
          PROVE  RestoresNothing
        BY <2>4, <3>4 DEF FinishUnknown, vars
    <3>5. ASSUME NEW s \in SessionIds, NEW ok \in BOOLEAN, Cancel(c, s, ok)
          PROVE  RestoresNothing
        BY <2>2, <3>5 DEF Cancel
    <3> QED
        BY <2>1, <2>5, <3>1, <3>2, <3>3, <3>4, <3>5 DEF CallStep
  <2>6. CASE Tick \/ UNCHANGED vars
    <3>1. UNCHANGED pending
        BY <2>6 DEF Tick, vars
    <3> QED
        BY <2>4, <3>1
  <2>7. CASE Restart
      BY <2>3, <2>7 DEF Restart
  <2> QED
      BY <1>1, <2>5, <2>6, <2>7 DEF Next
<1> QED
    BY <1>1, PTL DEF Spec, NeverRestored, RestoresNothing

(* prune removes only what has expired by the clock of the moment, because *)
(* the clock it read is not ahead of it.                                   *)
THEOREM LiveSessionsKept == Spec => LiveSessionKept
<1>1. ASSUME TypeOK, ReleaseInv, [Next]_vars
      PROVE  KeepsLive
  <2>1. ASSUME \A s \in DOMAIN pending : s \in DOMAIN pending' /\ pending'[s] = pending[s]
        PROVE  KeepsLive
      BY <2>1 DEF KeepsLive
  <2>2. ASSUME NEW c \in Calls, call[c].op = "reserve",
               \A s \in LiveAt(call[c].now) : s \in DOMAIN pending' /\ pending'[s] = pending[s]
        PROVE  KeepsLive
    <3>1. call[c].now \in Nat /\ call[c].now <= clock /\ clock \in Nat
      <4>1. call[c] \in CallState /\ c \in Reserving
          BY <1>1, <2>2 DEF TypeOK, Reserving
      <4>2. call[c].now \in Nat /\ clock \in Nat
          BY <1>1, <2>2, <4>1 DEF TypeOK, CallState
      <4> QED
          BY <1>1, <4>1, <4>2 DEF ReleaseInv, ReservingSound
    <3>2. ASSUME NEW s \in DOMAIN pending, s \notin LiveAt(call[c].now)
          PROVE  pending[s].expires <= clock
      <4>1. pending[s].expires \in Nat
          BY <1>1 DEF TypeOK, Pending
      <4> QED
          BY <3>1, <3>2, <4>1 DEF LiveAt
    <3> QED
        BY <2>2, <3>2 DEF KeepsLive
  <2>3. ASSUME NEW c \in Calls, PrepareReserve(c)
        PROVE  KeepsLive
    <3>1. PICK s \in SessionIds \ LiveAt(call[c].now) :
            pending' = [t \in LiveAt(call[c].now) \cup {s} |->
                          IF t = s THEN NewSession(call[c].request, call[c].now)
                                   ELSE pending[t]]
        BY <2>3 DEF PrepareReserve
    <3> QED
        BY <2>2, <2>3, <3>1 DEF PrepareReserve
  <2>4. ASSUME NEW c \in Calls, PrepareFull(c)
        PROVE  KeepsLive
      BY <2>2, <2>4 DEF PrepareFull, Keep, LiveAt
  <2>5. ASSUME NEW c \in Calls, NEW s \in SessionIds, NEW form, FinishTake(c, s, form)
        PROVE  KeepsLive
    <3>1. call[c] = Idle /\ call'[c].op = "finish" /\ call'[c].taken = pending[s]
        BY <1>1, <2>5 DEF FinishTake, TypeOK
    <3>2. \A t \in DOMAIN pending \ {s} : t \in DOMAIN pending' /\ pending'[t] = pending[t]
        BY <1>1, <2>5 DEF FinishTake, Keep, TypeOK
    <3> QED
        BY <3>1, <3>2 DEF KeepsLive
  <2>6. ASSUME NEW c \in Calls, NEW s \in SessionIds, NEW ok, Cancel(c, s, ok)
        PROVE  KeepsLive
    <3>1. DOMAIN pending' = DOMAIN pending \ {s} /\ s \in DOMAIN pending /\ call' = call
        BY <1>1, <2>6 DEF Cancel, Keep, TypeOK
    <3>2. IsFiniteSet(DOMAIN pending)
        BY <1>1, SessionIdsAssumption, SmallerSet DEF TypeOK
    <3>3. /\ Cardinality(DOMAIN pending') = Cardinality(DOMAIN pending) - 1
          /\ Cardinality(DOMAIN pending) \in Nat
        BY <3>1, <3>2, FS_RemoveElement, FS_CardinalityType
    <3> QED
        BY <3>1, <3>3 DEF KeepsLive
  <2>7. CASE Restart
    <3>1. epoch' # epoch
        BY <1>1, <2>7 DEF Restart, TypeOK
    <3> QED
        BY <3>1 DEF KeepsLive
  <2>8. CASE UNCHANGED pending
      BY <2>1, <2>8
  <2>9. ASSUME NEW c \in Calls, CallStep(c)
        PROVE  KeepsLive
    <3>1. CASE \/ \E request \in PrepareRequests :
                    PrepareAuthorize(c, request) \/ PrepareRefuse(c, request)
               \/ FinishCheck(c) \/ FinishSign(c) \/ FinishError(c)
               \/ \E s \in SessionIds : FinishUnknown(c, s)
      <4>1. UNCHANGED pending
          BY <3>1 DEF PrepareAuthorize, PrepareRefuse, FinishCheck, FinishSign,
                      FinishError, FinishUnknown, vars
      <4> QED
          BY <2>8, <4>1
    <3> QED
        BY <2>3, <2>4, <2>5, <2>6, <2>9, <3>1 DEF CallStep
  <2>10. CASE Tick \/ UNCHANGED vars
    <3>1. UNCHANGED pending
        BY <2>10 DEF Tick, vars
    <3> QED
        BY <2>8, <3>1
  <2> QED
      BY <1>1, <2>7, <2>9, <2>10 DEF Next
<1> QED
    BY <1>1, TypeCorrect, ReleaseInvariant, PTL DEF Spec, LiveSessionKept, KeepsLive

(* A session of the table is one no finish and no cancel has taken: its    *)
(* nonce is held by it alone.                                              *)
NotEnded ==
    /\ \A s \in DOMAIN pending : pending[s].nonce \notin ended
    /\ \A n \in ended : n <= generated

(* Taking a session out of the table ends its nonce and no other's.        *)
LEMMA NotEndedTake ==
    ASSUME TypeOK, NonceInv, NotEnded, NEW s \in DOMAIN pending,
           pending' = Keep(SessionIds \ {s}), generated' = generated,
           ended' = ended \cup {pending[s].nonce}
    PROVE  NotEnded'
<1>1. \A t \in DOMAIN pending' : t # s /\ t \in DOMAIN pending /\ pending'[t] = pending[t]
    BY DEF Keep
<1>2. \A t \in DOMAIN pending : t # s => pending[t].nonce # pending[s].nonce
    BY DEF NonceInv, TableDistinct
<1>3. pending[s].nonce <= generated
    BY DEF NonceInv, TableUnspent, Unspent
<1> QED
    BY <1>1, <1>2, <1>3 DEF NotEnded

(* So the table never holds an ended nonce.                                *)
LEMMA EndedInvariant == Spec => []NotEnded
<1>1. Init => NotEnded
    BY DEF Init, NotEnded, NoSessions
<1>2. ASSUME TypeOK, NonceInv, NotEnded, [Next]_vars
      PROVE  NotEnded'
  <2>1. ASSUME NEW c \in Calls, PrepareReserve(c)
        PROVE  NotEnded'
    <3>1. PICK s \in SessionIds \ LiveAt(call[c].now) :
            pending' = [t \in LiveAt(call[c].now) \cup {s} |->
                          IF t = s THEN NewSession(call[c].request, call[c].now)
                                   ELSE pending[t]]
        BY <2>1 DEF PrepareReserve
    <3>2. generated' = generated + 1 /\ ended' = ended /\ generated \in Nat
        BY <1>2, <2>1 DEF PrepareReserve, TypeOK
    <3>3. \A n \in ended : n \in Nat /\ n <= generated
        BY <1>2 DEF NotEnded, TypeOK, Nonces
    <3>4. pending'[s].nonce = generated + 1
        BY <3>1 DEF NewSession
    <3>5. \A t \in DOMAIN pending' : t # s => t \in DOMAIN pending /\ pending'[t] = pending[t]
        BY <3>1 DEF LiveAt
    <3> QED
        BY <1>2, <3>2, <3>3, <3>4, <3>5 DEF NotEnded
  <2>2. ASSUME ended' = ended, generated' = generated,
               \/ pending' = pending
               \/ pending' = NoSessions
               \/ \E S : pending' = Keep(S)
        PROVE  NotEnded'
      BY <1>2, <2>2 DEF NotEnded, NoSessions, Keep
  <2>3. ASSUME NEW c \in Calls, NEW s \in SessionIds, NEW form \in FinishForms,
               FinishTake(c, s, form)
        PROVE  NotEnded'
      BY <1>2, <2>3, NotEndedTake DEF FinishTake
  <2>4. ASSUME NEW c \in Calls, NEW s \in SessionIds, NEW ok \in BOOLEAN, Cancel(c, s, ok)
        PROVE  NotEnded'
      BY <1>2, <2>4, NotEndedTake DEF Cancel
  <2>5. ASSUME NEW c \in Calls,
               \/ \E request \in PrepareRequests : PrepareAuthorize(c, request)
               \/ PrepareFull(c) \/ FinishCheck(c) \/ FinishSign(c) \/ FinishError(c)
        PROVE  NotEnded'
      BY <2>2, <2>5 DEF PrepareAuthorize, PrepareFull, FinishCheck, FinishSign, FinishError
  <2>6. CASE Tick \/ Restart \/ UNCHANGED vars
      BY <2>2, <2>6 DEF Tick, Restart, vars
  <2> QED
      BY <1>2, <2>1, <2>3, <2>4, <2>5, <2>6
         DEF Next, CallStep, PrepareRefuse, FinishUnknown
<1> QED
    BY <1>1, <1>2, TypeCorrect, NonceInvariant, PTL DEF Spec

(* A set of sessions is no larger than a set of reservations that contains *)
(* all their nonces, since no two sessions share a nonce.                  *)
LEMMA FewerSessions ==
    ASSUME NonceInv, NEW S, S \subseteq DOMAIN pending,
           NEW T, IsFiniteSet(T), \A s \in S : pending[s].nonce \in T
    PROVE  Cardinality(S) <= Cardinality(T)
<1> DEFINE f == [s \in S |-> pending[s].nonce]
<1>1. f \in Injection(S, T)
    BY DEF NonceInv, TableDistinct, Injection, IsInjective
<1> QED
    BY <1>1, FS_Injection

(* Every session that is live at time now stands for an outstanding        *)
(* reservation of its wallet.                                              *)
LEMMA LiveIsOutstanding ==
    ASSUME TypeOK, NonceInv, ReleaseInv, NotEnded, NEW now \in Nat, NEW s \in LiveAt(now)
    PROVE  /\ pending[s].nonce \in Outstanding(now)
           /\ birth[pending[s].nonce].wallet = pending[s].intent.wallet
<1>1. s \in DOMAIN pending /\ pending[s].expires > now /\ pending[s] \in Pending
    BY DEF LiveAt, TypeOK
<1>2. Sound(pending[s]) /\ pending[s].nonce \in 1..generated /\ pending[s].nonce \notin ended
    BY <1>1 DEF ReleaseInv, TableSound, NotEnded, NonceInv, TableUnspent, Unspent
<1>3. pending[s].expires \in Nat /\ birth[pending[s].nonce].at \in Nat
    BY <1>1 DEF Pending, TypeOK
<1> QED
    BY <1>1, <1>2, <1>3 DEF Sound, Outstanding

(* prepare refuses for capacity only when the outstanding reservations of  *)
(* all wallets, or of its own, are as many as the limit allows.            *)
THEOREM RefusalsJustified == Spec => RefusalJustified
<1>1. ASSUME TypeOK, NonceInv, ReleaseInv, NotEnded, [Next]_vars
      PROVE  RefusesJustly
  <2>1. SUFFICES ASSUME NEW c \in Reserving,
                        call'[c] = Idle, epoch' = epoch, generated' = generated
                 PROVE  ~HasRoom(call[c].now, call[c].request.wallet)
    <3>1. ASSUME NEW c \in Reserving, ~HasRoom(call[c].now, call[c].request.wallet)
          PROVE  \/ Cardinality(Outstanding(call[c].now)) >= MaxPending
                 \/ Cardinality(OutstandingOf(call[c].request.wallet, call[c].now))
                       >= MaxPerUser
      <4> DEFINE now == call[c].now
                 wallet == call[c].request.wallet
                 live == LiveAt(now)
                 held == HeldBy(wallet, live)
                 all == Outstanding(now)
                 own == OutstandingOf(wallet, now)
      <4>1. live \subseteq SessionIds /\ held \subseteq SessionIds
          BY <1>1 DEF LiveAt, HeldBy, TypeOK
      <4>2. Cardinality(live) \in Nat /\ Cardinality(held) \in Nat
          BY <4>1, SessionIdsAssumption, SmallerSet
      <4>3. ~(Cardinality(live) < MaxPending /\ Cardinality(held) < MaxPerUser)
          BY <3>1 DEF HasRoom
      <4>4. now \in Nat
          BY <1>1 DEF Reserving, TypeOK, CallState
      <4>5. IsFiniteSet(all) /\ IsFiniteSet(own)
        <5>1. all \subseteq 1..generated /\ own \subseteq 1..generated
            BY DEF Outstanding, OutstandingOf
        <5>2. generated \in Int /\ 1 \in Int
            BY <1>1 DEF TypeOK
        <5>3. IsFiniteSet(1..generated)
            BY <5>2, FS_Interval
        <5> QED
            BY <5>1, <5>3, SmallerSet
      <4>6. Cardinality(all) \in Nat /\ Cardinality(own) \in Nat
          BY <4>5, FS_CardinalityType
      <4>7. \A s \in live : /\ pending[s].nonce \in all
                            /\ birth[pending[s].nonce].wallet = pending[s].intent.wallet
          BY <1>1, <4>4, LiveIsOutstanding
      <4>8. \A s \in held : pending[s].nonce \in own
          BY <4>7 DEF HeldBy, OutstandingOf
      <4>9. live \subseteq DOMAIN pending /\ held \subseteq DOMAIN pending
          BY DEF LiveAt, HeldBy
      <4> HIDE DEF live, held, all, own
      <4>10. Cardinality(live) <= Cardinality(all)
          BY <1>1, <4>5, <4>7, <4>9, FewerSessions
      <4>11. Cardinality(held) <= Cardinality(own)
          BY <1>1, <4>5, <4>8, <4>9, FewerSessions
      <4>12. Cardinality(all) >= MaxPending \/ Cardinality(own) >= MaxPerUser
          BY <4>2, <4>3, <4>6, <4>10, <4>11
      <4> QED
          BY <4>12 DEF all, own
    <3> QED
        BY <3>1 DEF RefusesJustly
  <2>2. c \in Calls /\ call[c].op = "reserve" /\ call[c] # Idle
      BY <2>1 DEF Reserving
  <2>3. ASSUME NEW d \in Calls, NEW state, call' = [call EXCEPT ![d] = state], d # c
        PROVE  FALSE
      BY <1>1, <2>1, <2>2, <2>3 DEF TypeOK
  <2>4. ASSUME NEW d \in Calls, CallStep(d)
        PROVE  d = c /\ PrepareFull(c)
    <3>1. CASE \E request \in PrepareRequests :
                  PrepareAuthorize(d, request) \/ PrepareRefuse(d, request)
        BY <2>1, <2>2, <2>3, <3>1 DEF PrepareAuthorize, PrepareRefuse, vars
    <3>2. CASE PrepareReserve(d)
        BY <1>1, <2>1, <3>2 DEF PrepareReserve, TypeOK
    <3>3. CASE PrepareFull(d)
        BY <2>3, <3>3 DEF PrepareFull
    <3>4. CASE \E s \in SessionIds :
                  \/ \E form \in FinishForms : FinishTake(d, s, form)
                  \/ FinishUnknown(d, s)
                  \/ \E protocol_ok \in BOOLEAN : Cancel(d, s, protocol_ok)
        BY <2>1, <2>2, <2>3, <3>4 DEF FinishTake, FinishUnknown, Cancel, vars
    <3>5. CASE FinishCheck(d) \/ FinishSign(d) \/ FinishError(d)
        BY <1>1, <2>1, <2>2, <2>3, <3>5 DEF FinishCheck, FinishSign, FinishError
    <3> QED
        BY <2>4, <3>1, <3>2, <3>3, <3>4, <3>5 DEF CallStep
  <2>5. CASE Tick \/ UNCHANGED vars
      BY <2>1, <2>2, <2>5 DEF Tick, vars
  <2>6. CASE Restart
      BY <1>1, <2>1, <2>6 DEF Restart, TypeOK
  <2> QED
      BY <1>1, <2>4, <2>5, <2>6 DEF Next, PrepareFull
<1> QED
    BY <1>1, TypeCorrect, NonceInvariant, ReleaseInvariant, EndedInvariant, PTL
       DEF Spec, RefusalJustified, RefusesJustly

-----------------------------------------------------------------------------
(* A step that generates no nonce and signs nothing can only destroy: the  *)
(* nonces that are no longer held, or whose cancellation it acknowledges.  *)
LEMMA OnlyDestroys ==
    ASSUME TypeOK, NonceInv,
           generated' = generated, uses' = uses, cancelled \subseteq cancelled',
           \A n \in Nonces : Held(n)' => Held(n)
    PROVE  Lifecycle!Next
<1> DEFINE S == {m \in Nonces : Status(m) = "reserved" /\ Status(m)' # "reserved"}
<1>1. \A m \in Nonces : \/ Status(m)' = Status(m)
                        \/ Status(m) = "reserved" /\ Status(m)' = "destroyed"
    BY DEF Status
<1>2. Lifecycle!Destroy(S)
    BY <1>1 DEF Lifecycle!Destroy
<1>3. S \in SUBSET Nonces
    OBVIOUS
<1> QED
    BY <1>2, <1>3 DEF Lifecycle!Next

(* prepare's step under the lock reserves the nonce it generates and       *)
(* destroys the nonces of the sessions it prunes.                          *)
LEMMA ReserveRefines ==
    ASSUME TypeOK, NonceInv, NEW c \in Calls, PrepareReserve(c)
    PROVE  Lifecycle!Next
<1> DEFINE live == LiveAt(call[c].now)
           n == generated + 1
           pruned == {m \in Nonces : /\ Status(m) = "reserved"
                                     /\ Status(m)' # "reserved"}
<1>1. PICK s \in SessionIds \ live :
        pending' = [t \in live \cup {s} |->
                      IF t = s THEN NewSession(call[c].request, call[c].now)
                               ELSE pending[t]]
    BY DEF PrepareReserve
<1>2. /\ generated' = n /\ generated \in Nat /\ n \in Nonces
      /\ uses' = uses /\ cancelled' = cancelled
    BY DEF PrepareReserve, TypeOK, Nonces
<1>3. live \subseteq DOMAIN pending
    BY DEF LiveAt
<1>4. /\ s \in DOMAIN pending' /\ pending'[s].nonce = n
      /\ \A t \in DOMAIN pending' : t # s =>
            t \in DOMAIN pending /\ pending'[t] = pending[t]
    BY <1>1, <1>3 DEF NewSession
<1>5. \A d \in Finishing' : d \in Finishing /\ call'[d] = call[d]
    BY DEF PrepareReserve, Finishing, TypeOK
<1>6. Status(n) = "fresh"
    BY <1>2 DEF Status
<1>7. \A m \in Nonces : m = n => Status(m)' = "reserved"
  <2>1. uses[n] = 0 /\ n \notin cancelled
      BY <1>2 DEF NonceInv, FreshUnused
  <2>2. \A m \in Nonces : m = n => Held(m)'
      BY <1>4 DEF Held
  <2> QED
      BY <1>2, <2>1, <2>2 DEF Status
<1>8. \A m \in Nonces : m # n /\ Held(m)' => Held(m)
    BY <1>4, <1>5 DEF Held
<1>9. \A m \in Nonces : m # n => \/ Status(m)' = Status(m)
                                 \/ Status(m) = "reserved" /\ Status(m)' = "destroyed"
    BY <1>2, <1>8 DEF Status, Nonces
<1>10. Lifecycle!Reserve(n, pruned)
    BY <1>2, <1>6, <1>7, <1>9 DEF Lifecycle!Reserve
<1> QED
    BY <1>2, <1>10 DEF Lifecycle!Next

(* A signature is the one signature of a reserved nonce.                   *)
LEMMA SignRefines ==
    ASSUME TypeOK, NonceInv, NEW c \in Calls, FinishSign(c)
    PROVE  Lifecycle!Next
<1> DEFINE n == call[c].taken.nonce
<1>1. c \in Finishing /\ n \in Nonces
    BY DEF FinishSign, Finishing, TypeOK, CallState, Pending
<1>2. /\ generated' = generated /\ cancelled' = cancelled /\ pending' = pending
      /\ uses' = [uses EXCEPT ![n] = @ + 1]
      /\ Finishing' = Finishing \ {c} /\ \A d \in Finishing' : call'[d] = call[d]
    BY DEF FinishSign, Finishing, TypeOK
<1>3. Unspent(n)
    BY <1>1 DEF NonceInv, FlightUnspent
<1>4. Status(n) = "reserved"
    BY <1>1, <1>3 DEF Status, Held, Unspent, TypeOK
<1>5. \A m \in Nonces : m = n => Status(m)' = "signed"
    BY <1>1, <1>2, <1>3 DEF Status, Unspent, TypeOK
<1>6. \A m \in Nonces : m # n => (Held(m)' <=> Held(m))
    BY <1>1, <1>2 DEF Held
<1>7. \A m \in Nonces : m # n => uses'[m] = uses[m]
    BY <1>2 DEF TypeOK
<1>8. \A m \in Nonces : m # n => Status(m)' = Status(m)
    BY <1>2, <1>6, <1>7 DEF Status
<1>9. Lifecycle!Sign(n)
    BY <1>1, <1>4, <1>5, <1>8 DEF Lifecycle!Sign
<1> QED
    BY <1>1, <1>9 DEF Lifecycle!Next

(* Every step of the signer is a step of the lifecycle.                    *)
LEMMA StepRefines ==
    ASSUME TypeOK, NonceInv, [Next]_vars
    PROVE  Lifecycle!Next
<1>1. ASSUME NEW c \in Calls, PrepareReserve(c)
      PROVE  Lifecycle!Next
    BY <1>1, ReserveRefines
<1>2. ASSUME NEW c \in Calls, FinishSign(c)
      PROVE  Lifecycle!Next
    BY <1>2, SignRefines
<1>3. ASSUME NEW c \in Calls,
             \/ \E request \in PrepareRequests : PrepareAuthorize(c, request)
             \/ PrepareFull(c) \/ FinishCheck(c) \/ FinishError(c)
      PROVE  Lifecycle!Next
  <2>1. /\ \A d \in Finishing' : d \in Finishing /\ call'[d].taken = call[d].taken
        /\ DOMAIN pending' \subseteq DOMAIN pending
        /\ \A t \in DOMAIN pending' : pending'[t] = pending[t]
      BY <1>3 DEF PrepareAuthorize, PrepareFull, FinishCheck, FinishError, Keep, TypeOK,
                  Finishing
  <2>2. \A n \in Nonces : Held(n)' => Held(n)
      BY <2>1 DEF Held
  <2> QED
      BY <1>3, <2>2, OnlyDestroys
         DEF PrepareAuthorize, PrepareFull, FinishCheck, FinishError
<1>4. ASSUME NEW c \in Calls, NEW s \in SessionIds, NEW form \in FinishForms,
             FinishTake(c, s, form)
      PROVE  Lifecycle!Next
  <2>1. /\ s \in DOMAIN pending
        /\ \A d \in Finishing' : \/ d \in Finishing /\ call'[d] = call[d]
                                 \/ call'[d].taken = pending[s]
        /\ DOMAIN pending' \subseteq DOMAIN pending
        /\ \A t \in DOMAIN pending' : pending'[t] = pending[t]
      BY <1>4 DEF FinishTake, Keep, TypeOK, Finishing
  <2>2. \A n \in Nonces : Held(n)' => Held(n)
      BY <2>1 DEF Held
  <2> QED
      BY <1>4, <2>2, OnlyDestroys DEF FinishTake
<1>5. ASSUME NEW c \in Calls, NEW s \in SessionIds, NEW protocol_ok \in BOOLEAN,
             Cancel(c, s, protocol_ok)
      PROVE  Lifecycle!Next
  <2>1. /\ DOMAIN pending' \subseteq DOMAIN pending
        /\ \A t \in DOMAIN pending' : pending'[t] = pending[t]
        /\ call' = call /\ cancelled \subseteq cancelled'
      BY <1>5 DEF Cancel, Keep
  <2>2. \A n \in Nonces : Held(n)' => Held(n)
      BY <2>1 DEF Held, Finishing
  <2> QED
      BY <1>5, <2>1, <2>2, OnlyDestroys DEF Cancel
<1>6. CASE Restart
  <2>1. DOMAIN pending' = {} /\ Finishing' = {}
      BY <1>6 DEF Restart, NoSessions, Finishing
  <2>2. \A n \in Nonces : Held(n)' => Held(n)
      BY <2>1 DEF Held
  <2> QED
      BY <1>6, <2>2, OnlyDestroys DEF Restart
<1>7. CASE Tick \/ UNCHANGED vars
  <2>1. \A n \in Nonces : Held(n)' => Held(n)
      BY <1>7 DEF Tick, vars, Held, Finishing
  <2> QED
      BY <1>7, <2>1, OnlyDestroys DEF Tick, vars
<1> QED
    BY <1>1, <1>2, <1>3, <1>4, <1>5, <1>6, <1>7
       DEF Next, CallStep, PrepareRefuse, FinishUnknown

(* The signer implements the one-use nonce: for any number of threads,     *)
(* sessions and restarts, each nonce goes from fresh to reserved and then  *)
(* to one signature or to destruction, and never anywhere else.            *)
THEOREM SignerImplementsLifecycle == Spec => ImplementsLifecycle
<1>1. Init => Lifecycle!Init
    BY DEF Init, Lifecycle!Init, Status, Nonces
<1>2. TypeOK /\ NonceInv /\ [Next]_vars => Lifecycle!Next
    BY StepRefines
<1> QED
    BY <1>1, <1>2, TypeCorrect, NonceInvariant, PTL
       DEF Spec, ImplementsLifecycle, Lifecycle!Spec
=============================================================================
