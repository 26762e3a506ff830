------------------------- MODULE Lwm2mClient_proofs -------------------------
(***************************************************************************)
(* Proofs about Lwm2mClient, for any sessions, queue, locations, objects    *)
(* and limits.                                                              *)
(***************************************************************************)
EXTENDS Lwm2mClient, TLAPS

-----------------------------------------------------------------------------
(* The request queue *)

\* An accepted request takes a free slot and disturbs no other: Posted models
\* wb_coap_client_post as the handlers use it.
LEMMA PostedFacts ==
    ASSUME NEW q \in [Slots -> Exchanges], NEW kind \in Requests, NEW loc \in Locs,
           NEW r \in Posted(q, kind, loc)
    PROVE  /\ r \in [Slots -> Exchanges]
           /\ InFlight(r, kind) # {}
           /\ \A k \in Requests : InFlight(q, k) \subseteq InFlight(r, k)
<1>1. PICK s \in InFlight(q, "free") : r = [q EXCEPT ![s] = Request(kind, loc)]
  BY DEF Posted
<1>2. /\ s \in Slots
      /\ q[s].kind = "free"
  BY <1>1 DEF InFlight
<1>3. Request(kind, loc) \in Exchanges /\ Request(kind, loc).kind = kind
  BY DEF Request, Exchanges, Codes, Locs
<1>5. r \in [Slots -> Exchanges]
  BY <1>1, <1>3
<1>6. s \in InFlight(r, kind)
  BY <1>1, <1>2, <1>3 DEF InFlight
<1>7. ASSUME NEW k \in Requests, NEW t \in InFlight(q, k)
      PROVE  t \in InFlight(r, k)
  <2>1. t # s
    BY <1>2, <1>7 DEF InFlight, Requests
  <2> QED
    BY <1>1, <2>1, <1>7 DEF InFlight
<1> QED
  BY <1>5, <1>6, <1>7

\* Ending requests frees their slots and no other.
LEMMA EndedFacts ==
    ASSUME NEW q \in [Slots -> Exchanges], NEW S
    PROVE  /\ Ended(q, S) \in [Slots -> Exchanges]
           /\ \A k \in Requests : InFlight(Ended(q, S), k) = InFlight(q, k) \ S
           /\ Busy(Ended(q, S)) = Busy(q) \ S
           /\ Busy(Ended(q, Slots)) = {}
<1>1. Empty \in Exchanges /\ Empty.kind = "free"
  BY DEF Empty, Request, Exchanges, Codes, Locs
<1> QED
  BY <1>1 DEF Ended, InFlight, Busy, Requests

\* An answer changes no request.
LEMMA AnswerFacts ==
    ASSUME exch \in [Slots -> Exchanges], NEW s \in Slots, NEW code \in Codes,
           NEW newloc \in Locs, Answer(s, code, newloc)
    PROVE  /\ exch' \in [Slots -> Exchanges]
           /\ \A t \in Slots : exch'[t].kind = exch[t].kind
           /\ \A k \in Requests : InFlight(exch', k) = InFlight(exch, k)
           /\ Busy(exch') = Busy(exch)
<1> DEFINE e == [kind |-> exch[s].kind, loc |-> exch[s].loc,
                 code |-> code, newloc |-> newloc]
<1>1. e \in Exchanges /\ e.kind = exch[s].kind
  BY DEF Exchanges
<1>2. exch' = [exch EXCEPT ![s] = e]
  BY DEF Answer
<1> HIDE DEF e
<1>3. \A t \in Slots : exch'[t].kind = exch[t].kind
  BY <1>1, <1>2
<1> QED
  BY <1>1, <1>2, <1>3 DEF InFlight, Busy

\* What any step of the server leaves alone and keeps well typed.
LEMMA ServerStep ==
    ASSUME TypeOK, Server
    PROVE  /\ exch' \in [Slots -> Exchanges]
           /\ srv' \in Locs
           /\ UNCHANGED <<alloc, running, linkUp>>
           /\ \A k \in Requests : InFlight(exch', k) = InFlight(exch, k)
           /\ Busy(exch') = Busy(exch)
           /\ exch' # exch => linkUp
<1>1. exch \in [Slots -> Exchanges] /\ srv \in Locs
  BY DEF TypeOK, LinkTypeOK
<1>2. CASE Expire
  BY <1>1, <1>2 DEF Expire, Locs
<1>3. ASSUME NEW s \in Slots, ServeRegister(s)
      PROVE  linkUp /\ (\E l \in Locations, c \in Codes, n \in Locs :
                srv' = l /\ Answer(s, c, n)) /\ UNCHANGED <<alloc, running, linkUp>>
  BY <1>3 DEF ServeRegister, Waiting, Locs, Codes
<1>4. ASSUME NEW s \in Slots,
             ServeUpdate(s) \/ ServeDeregister(s) \/ ServeNotify(s) \/ Refuse(s)
      PROVE  linkUp /\ srv' \in {srv, NoLoc} /\ (\E c \in Codes, n \in Locs :
                Answer(s, c, n)) /\ UNCHANGED <<alloc, running, linkUp>>
  BY <1>4 DEF ServeUpdate, ServeDeregister, ServeNotify, Refuse, Waiting, Locs, Codes
<1>5. CASE \E s \in Slots, c \in Codes, n \in Locs :
            /\ linkUp /\ srv' \in Locs /\ Answer(s, c, n)
            /\ UNCHANGED <<alloc, running, linkUp>>
  BY <1>1, <1>5, AnswerFacts
<1> QED
  BY <1>1, <1>2, <1>3, <1>4, <1>5 DEF Server, Locs

-----------------------------------------------------------------------------
(* Type correctness *)

\* The registry of a new client is well typed.
LEMMA EmptyRegistry == <<>> \in Seq(Objects) /\ Len(<<>>) <= MaxObjects
  BY ObjectAssumption

\* One step of any task, of the CoAP client or of the server keeps every variable
\* in its type.
LEMMA TypeStep == TypeOK /\ [Next]_vars => TypeOK'
<1> SUFFICES ASSUME TypeOK, [Next]_vars
             PROVE  TypeOK'
  OBVIOUS
<1> USE LocationAssumption, ObjectAssumption, TimerAssumption
    DEF TypeOK, LinkTypeOK, States, Events
<1>1. CASE ClientInit
  BY <1>1, EmptyRegistry DEF ClientInit, linkVars, Locs
<1>2. CASE AddObject
  BY <1>2 DEF AddObject, linkVars, HasRoom
<1>3. CASE Start
  BY <1>3 DEF Start, linkVars
<1>4. CASE StartFails
  BY <1>4 DEF StartFails, linkVars
<1>5. CASE AppUpdates
  BY <1>5, PostedFacts DEF AppUpdates, UpdateRegistration, linkVars, Requests, Locs
<1>6. CASE Notify
  BY <1>6, PostedFacts DEF Notify, linkVars, clientVars, Requests, Locs
<1>7. CASE BeginStop
  BY <1>7, PostedFacts DEF BeginStop, BeginDeregistration, linkVars, Requests, Locs
<1>8. CASE EndStop
  BY <1>8, EndedFacts DEF EndStop, FinishStop, StopCoap, linkVars, Locs
<1>9. CASE StopAtOnce
  BY <1>9, EndedFacts DEF StopAtOnce, FinishStop, StopCoap, linkVars, Locs
<1>10. CASE BeginDestroy
  BY <1>10, PostedFacts DEF BeginDestroy, BeginDeregistration, linkVars, Requests,
     Locs
<1>11. CASE EndDestroy
  BY <1>11, EndedFacts, EmptyRegistry DEF EndDestroy, FinishStop, StopCoap, Free,
     linkVars, Locs
<1>12. CASE DestroyAtOnce
  <2>1. CASE FinishStop /\ Free
    BY <2>1, EndedFacts, EmptyRegistry DEF FinishStop, StopCoap, Free, Locs
  <2>2. CASE /\ Free
             /\ UNCHANGED <<running, linkUp, exch, srv, state, regLocation, told, app>>
    BY <2>2, EmptyRegistry DEF Free
  <2> QED
    BY <1>12, <2>1, <2>2 DEF DestroyAtOnce
<1>13. CASE TimerFires
  BY <1>13, PostedFacts DEF TimerFires, UpdateRegistration, linkVars, Requests, Locs
<1>14. CASE CoapConnected
  BY <1>14, PostedFacts DEF CoapConnected, SendRegistration, linkVars, Requests,
     Locs
<1>15. CASE CoapDisconnected
  <2>1. PICK kept \in SUBSET Survivors : exch' = Ended(exch, Slots \ kept)
    BY <1>15 DEF CoapDisconnected
  <2>2. exch' \in [Slots -> Exchanges]
    BY <2>1, EndedFacts
  <2> QED
    BY <1>15, <2>2 DEF CoapDisconnected, SessionLost, Locs
<1>16. ASSUME NEW s \in Slots, RegistrationAnswer(s)
      PROVE  TypeOK'
  <2>1. exch' \in [Slots -> Exchanges]
    BY <1>16, EndedFacts DEF RegistrationAnswer
  <2>2. exch[s].newloc \in Locs
    BY DEF Exchanges
  <2>3. AssignedLocation(s) \in Locs
    BY <2>2 DEF AssignedLocation, Locs
  <2>4. regLocation' \in Locs /\ state' \in States /\ told' \in Events
    BY <1>16, <2>3 DEF RegistrationAnswer
  <2>5. timerArmed' \in BOOLEAN
    BY <1>16 DEF RegistrationAnswer, StartUpdateTimer
  <2> QED
    BY <1>16, <2>1, <2>4, <2>5 DEF RegistrationAnswer
<1>17. ASSUME NEW s \in Slots, UpdateAnswer(s)
      PROVE  TypeOK'
  BY <1>17, PostedFacts, EndedFacts DEF UpdateAnswer, SendRegistration, linkVars,
     Requests, Locs
<1>18. ASSUME NEW s \in Slots, DeregistrationAnswer(s)
      PROVE  TypeOK'
  BY <1>18, EndedFacts DEF DeregistrationAnswer, linkVars, Locs
<1>19. ASSUME NEW s \in Slots, IgnoredAnswer(s)
      PROVE  TypeOK'
  BY <1>19, EndedFacts DEF IgnoredAnswer, linkVars, clientVars
<1>20. ASSUME NEW s \in Slots, CoapError(s)
      PROVE  TypeOK'
  BY <1>20, EndedFacts DEF CoapError, ErrorHandled, linkVars
<1>21. CASE Server /\ UNCHANGED clientVars
  BY <1>21, ServerStep DEF clientVars
<1>22. CASE UNCHANGED vars
  BY <1>22 DEF vars, linkVars, clientVars
<1> QED
  BY <1>1, <1>2, <1>3, <1>4, <1>5, <1>6, <1>7, <1>8, <1>9, <1>10, <1>11, <1>12,
     <1>13, <1>14, <1>15, <1>16, <1>17, <1>18, <1>19, <1>20, <1>21, <1>22 DEF Next,
     Application, CoapEvent, CoapResponse

\* The initial state is well typed.
LEMMA TypeInit == Init => TypeOK
<1>1. Empty \in Exchanges
  BY DEF Empty, Request, Exchanges, Codes, Locs
<1> QED
  BY <1>1, EmptyRegistry
     DEF Init, LinkInit, TypeOK, LinkTypeOK, States, Events, Locs

\* Every behaviour of the client keeps TypeOK.
THEOREM TypeCorrect == Spec => []TypeOK
  BY TypeInit, TypeStep, PTL DEF Spec

-----------------------------------------------------------------------------
(* The inductive invariant *)

\* One step of any task, of the CoAP client or of the server keeps IInv.
LEMMA IInvStep == IInv /\ [Next]_vars => IInv'
<1> SUFFICES ASSUME IInv, [Next]_vars
             PROVE  IInv'
  OBVIOUS
<1>0. TypeOK /\ TypeOK'
  BY TypeStep DEF IInv
<1>t. /\ exch \in [Slots -> Exchanges] /\ exch' \in [Slots -> Exchanges]
      /\ regLocation \in Locs /\ coap \in Sessions \cup {NoSession}
      /\ live \in BOOLEAN /\ state \in States /\ NoLoc \in Locs
      /\ "register" \in Requests
  BY <1>0 DEF TypeOK, LinkTypeOK, Locs, Requests
<1> USE SessionAssumption, LocationAssumption, TimerAssumption
    DEF IInv, LocationMatchesState, SessionIsOwned, IdleIsQuiet, DestroyedIsQuiet,
        StateMatchesLink, RegisteringHasRequest, ToldOfRegistration, KeepaliveArmed,
        CallMatchesState, Holding, States
<1>1. CASE ClientInit
  BY <1>1, <1>0, <1>t DEF ClientInit, linkVars
<1>2. CASE AddObject
  BY <1>2, <1>0, <1>t DEF AddObject, linkVars, Ready
<1>3. CASE Start
  BY <1>3, <1>0, <1>t DEF Start, linkVars, Ready
<1>4. CASE StartFails
  BY <1>4, <1>0, <1>t DEF StartFails, linkVars, Ready
<1>5. CASE AppUpdates
  BY <1>5, <1>0, <1>t, PostedFacts DEF AppUpdates, UpdateRegistration, linkVars,
     Requests, Ready
<1>6. CASE Notify
  BY <1>6, <1>0, <1>t, PostedFacts DEF Notify, linkVars, clientVars, Requests
<1>7. CASE BeginStop
  BY <1>7, <1>0, <1>t, PostedFacts DEF BeginStop, BeginDeregistration, linkVars,
     Requests, Ready, MustDeregister
<1>8. CASE EndStop
  BY <1>8, <1>0, <1>t, EndedFacts DEF EndStop, FinishStop, StopCoap, linkVars
<1>9. CASE StopAtOnce
  BY <1>9, <1>0, <1>t, EndedFacts DEF StopAtOnce, FinishStop, StopCoap, linkVars,
     Ready, MustDeregister
<1>10. CASE BeginDestroy
  BY <1>10, <1>0, <1>t, PostedFacts DEF BeginDestroy, BeginDeregistration, linkVars,
     Requests, Ready, MustDeregister
<1>11. CASE EndDestroy
  BY <1>11, <1>0, <1>t, EndedFacts DEF EndDestroy, FinishStop, StopCoap, Free,
     linkVars
<1>12. CASE DestroyAtOnce
  BY <1>12, <1>0, <1>t, EndedFacts DEF DestroyAtOnce, FinishStop, StopCoap, Free,
     linkVars, Ready, MustDeregister
<1>13. CASE TimerFires
  BY <1>13, <1>0, <1>t, PostedFacts DEF TimerFires, UpdateRegistration, linkVars,
     Requests
<1>14. CASE CoapConnected
  BY <1>14, <1>0, <1>t, PostedFacts DEF CoapConnected, SendRegistration, linkVars,
     Requests, Handling
<1>15. CASE CoapDisconnected
  BY <1>15, <1>0, <1>t, EndedFacts DEF CoapDisconnected, SessionLost, linkVars,
     Handling
<1>16. ASSUME NEW s \in Slots, RegistrationAnswer(s)
      PROVE  IInv'
  BY <1>16, <1>0, <1>t, EndedFacts DEF RegistrationAnswer, StartUpdateTimer,
     AssignedLocation, linkVars, Delivered
<1>17. ASSUME NEW s \in Slots, UpdateAnswer(s)
      PROVE  IInv'
  BY <1>17, <1>0, <1>t, PostedFacts, EndedFacts DEF UpdateAnswer, SendRegistration,
     linkVars, Requests, Delivered
<1>18. ASSUME NEW s \in Slots, DeregistrationAnswer(s)
      PROVE  IInv'
  BY <1>18, <1>0, <1>t, EndedFacts DEF DeregistrationAnswer, linkVars, Delivered
<1>19. ASSUME NEW s \in Slots, IgnoredAnswer(s)
      PROVE  IInv'
  BY <1>19, <1>0, <1>t, EndedFacts DEF IgnoredAnswer, linkVars, clientVars,
     Delivered, InFlight
<1>20. ASSUME NEW s \in Slots, CoapError(s)
      PROVE  IInv'
  BY <1>20, <1>0, <1>t, EndedFacts DEF CoapError, ErrorHandled, linkVars
<1>21. CASE Server /\ UNCHANGED clientVars
  BY <1>21, <1>0, <1>t, ServerStep DEF clientVars
<1>22. CASE UNCHANGED vars
  BY <1>22, <1>0, <1>t DEF vars, linkVars, clientVars
<1> QED
  BY <1>1, <1>2, <1>3, <1>4, <1>5, <1>6, <1>7, <1>8, <1>9, <1>10, <1>11, <1>12,
     <1>13, <1>14, <1>15, <1>16, <1>17, <1>18, <1>19, <1>20, <1>21, <1>22 DEF Next,
     Application, CoapEvent, CoapResponse

\* It holds of the initial state.
LEMMA InitIInv == Init => IInv
<1> SUFFICES ASSUME Init
             PROVE  IInv
  OBVIOUS
<1>1. TypeOK
  BY TypeInit
<1>2. Busy(exch) = {}
  BY DEF Init, LinkInit, Busy, Empty, Request
<1> QED
  BY <1>1, <1>2 DEF Init, LinkInit, IInv, LocationMatchesState, SessionIsOwned,
     IdleIsQuiet, DestroyedIsQuiet, StateMatchesLink, RegisteringHasRequest,
     ToldOfRegistration, KeepaliveArmed, CallMatchesState, Holding

\* The inductive invariant holds of every behaviour.
THEOREM Invariant == Spec => []IInv
  BY InitIInv, IInvStep, PTL DEF Spec

-----------------------------------------------------------------------------
(* The life cycle of Registration *)

\* Every step of the client is a step of Registration or leaves it alone.
LEMMA LifecycleStep ==
    ASSUME IInv, [Next]_vars
    PROVE  [Abstract!Next]_<<Phase, regLocation, Belief>>
<1>0. TypeOK /\ TypeOK'
  BY TypeStep DEF IInv
<1>t. /\ state \in States /\ told \in Events \cup {"NOTHING"}
      /\ exch \in [Slots -> Exchanges] /\ regLocation \in Locs
      /\ regLocation' \in Locs
  BY <1>0 DEF TypeOK, LinkTypeOK
<1> USE LocationAssumption
    DEF IInv, LocationMatchesState, StateMatchesLink, CallMatchesState, Holding,
        States, Events, Phase, Belief, Abstract!Next
<1>1. CASE ClientInit
  BY <1>1, <1>t DEF ClientInit, Abstract!Renewed
<1>2. CASE AddObject
  BY <1>2, <1>t DEF AddObject
<1>3. CASE Start
  BY <1>3, <1>t DEF Start, Abstract!TurnOn
<1>4. CASE StartFails
  BY <1>4, <1>t DEF StartFails
<1>5. CASE AppUpdates
  BY <1>5, <1>t DEF AppUpdates, UpdateRegistration
<1>6. CASE Notify
  BY <1>6, <1>t DEF Notify, clientVars
<1>7. CASE BeginStop
  BY <1>7, <1>t DEF BeginStop, BeginDeregistration, Abstract!Leave, MustDeregister
<1>8. CASE EndStop
  BY <1>8, <1>t DEF EndStop, FinishStop, StopCoap, Abstract!TurnOff
<1>9. CASE StopAtOnce
  BY <1>9, <1>t DEF StopAtOnce, FinishStop, StopCoap, Abstract!TurnOff
<1>10. CASE BeginDestroy
  BY <1>10, <1>t DEF BeginDestroy, BeginDeregistration, Abstract!Leave,
     MustDeregister
<1>11. CASE EndDestroy
  BY <1>11, <1>t DEF EndDestroy, FinishStop, StopCoap, Free, Abstract!TurnOff
<1>12. CASE DestroyAtOnce
  BY <1>12, <1>t DEF DestroyAtOnce, FinishStop, StopCoap, Free, Abstract!TurnOff
<1>13. CASE TimerFires
  BY <1>13, <1>t DEF TimerFires, UpdateRegistration
<1>14. CASE CoapConnected
  BY <1>14, <1>t DEF CoapConnected, SendRegistration, Abstract!Connected, Handling
<1>15. CASE CoapDisconnected
  BY <1>15, <1>t DEF CoapDisconnected, SessionLost, Abstract!Lost
<1>16. ASSUME NEW s \in Slots, RegistrationAnswer(s)
      PROVE  [Abstract!Next]_<<Phase, regLocation, Belief>>
  <2>1. AssignedLocation(s) \in Locations
    BY <1>t DEF AssignedLocation, Exchanges, Locs
  <2> QED
    BY <1>16, <1>t, <2>1 DEF RegistrationAnswer, Abstract!Granted, Abstract!Failed
<1>17. ASSUME NEW s \in Slots, UpdateAnswer(s)
      PROVE  [Abstract!Next]_<<Phase, regLocation, Belief>>
  <2>1. CASE state' = "REGISTERED"
    BY <1>17, <1>t, <2>1 DEF UpdateAnswer, SendRegistration, ToldOfRegistration
  <2>2. CASE state' # "REGISTERED"
    BY <1>17, <1>t, <2>2 DEF UpdateAnswer, SendRegistration, Abstract!Renew
  <2> QED
    BY <2>1, <2>2
<1>18. ASSUME NEW s \in Slots, DeregistrationAnswer(s)
      PROVE  [Abstract!Next]_<<Phase, regLocation, Belief>>
  BY <1>18, <1>t DEF DeregistrationAnswer, Abstract!TurnOff
<1>19. ASSUME NEW s \in Slots, IgnoredAnswer(s)
      PROVE  [Abstract!Next]_<<Phase, regLocation, Belief>>
  BY <1>19, <1>t DEF IgnoredAnswer, clientVars
<1>20. ASSUME NEW s \in Slots, CoapError(s)
      PROVE  [Abstract!Next]_<<Phase, regLocation, Belief>>
  BY <1>20, <1>t DEF CoapError, ErrorHandled, Abstract!Failed
<1>21. CASE Server /\ UNCHANGED clientVars
  BY <1>21, <1>t DEF clientVars
<1>22. CASE UNCHANGED vars
  BY <1>22, <1>t DEF vars, linkVars, clientVars
<1> QED
  BY <1>1, <1>2, <1>3, <1>4, <1>5, <1>6, <1>7, <1>8, <1>9, <1>10, <1>11, <1>12,
     <1>13, <1>14, <1>15, <1>16, <1>17, <1>18, <1>19, <1>20, <1>21, <1>22 DEF Next,
     Application, CoapEvent, CoapResponse

\* wb_lwm2m.c implements Registration: for any queue, server and order of events, a
\* registration is got only by asking and being answered, and is given up before
\* another one is asked for.
THEOREM Refinement == Spec => KeepsLifecycle
<1>1. Init => Abstract!Init
  BY DEF Init, Abstract!Init, Phase, Belief
<1>2. IInv /\ [Next]_vars => [Abstract!Next]_<<Phase, regLocation, Belief>>
  BY LifecycleStep
<1> QED
  BY <1>1, <1>2, Invariant, PTL DEF Spec, KeepsLifecycle, Abstract!Spec, Abstract!regVars

-----------------------------------------------------------------------------
(* The client and the server *)

\* An accepted request is the only change to the queue.
LEMMA PostedOnly ==
    ASSUME NEW q \in [Slots -> Exchanges], NEW kind \in Requests, NEW loc \in Locs,
           NEW r \in Posted(q, kind, loc)
    PROVE  \E s \in Slots :
              /\ q[s].kind = "free"
              /\ r[s].kind = kind /\ r[s].code = "none"
              /\ \A t \in Slots \ {s} : r[t] = q[t]
<1>1. PICK s \in InFlight(q, "free") : r = [q EXCEPT ![s] = Request(kind, loc)]
  BY DEF Posted
<1>2. Request(kind, loc).kind = kind /\ Request(kind, loc).code = "none"
  BY DEF Request
<1> QED
  BY <1>1, <1>2 DEF InFlight

\* A step that adds no registration to the queue and alters none in it.
AddsNoRegistration ==
    \A s \in InFlight(exch', "register") :
        s \in InFlight(exch, "register") /\ exch'[s] = exch[s]

\* Such a step keeps what is said of the registrations in flight, if the server at
\* most drops its record and the client at most stops holding its location.
LEMMA QuietStep ==
    ASSUME ServerIInv, AddsNoRegistration, srv' \in {srv, NoLoc},
           state' \in Holding => state \in Holding /\ regLocation' = regLocation
    PROVE  OneRegistration' /\ ServerAgrees' /\ AnswerAgrees'
<1>1. InFlight(exch', "register") \subseteq InFlight(exch, "register")
  BY DEF AddsNoRegistration
<1>2. OneRegistration'
  BY <1>1 DEF ServerIInv, OneRegistration
<1>3. ServerAgrees'
  BY DEF ServerIInv, ServerAgrees
<1>4. AnswerAgrees'
  BY DEF ServerIInv, AnswerAgrees, AddsNoRegistration, AssignedLocation
<1> QED
  BY <1>2, <1>3, <1>4

\* Sending a registration when none is in flight leaves at most that one, and the
\* answer to it is still to come.
LEMMA SendStep ==
    ASSUME TypeOK, NEW q \in [Slots -> Exchanges], SendRegistration(q),
           InFlight(q, "register") = {}
    PROVE  /\ \A s, t \in InFlight(exch', "register") : s = t
           /\ \A s \in InFlight(exch', "register") : exch'[s].code = "none"
           /\ state' \notin Holding
<1>1. state' \notin Holding
  BY DEF SendRegistration, Holding
<1>2. CASE exch' = q
  BY <1>1, <1>2
<1>3. CASE exch' \in Posted(q, "register", NoLoc)
  <2>1. PICK s \in Slots : /\ exch'[s].code = "none"
                           /\ \A t \in Slots \ {s} : exch'[t] = q[t]
    BY <1>3, PostedOnly DEF Requests, Locs
  <2>2. InFlight(exch', "register") \subseteq {s}
    BY <2>1 DEF InFlight
  <2> QED
    BY <1>1, <2>1, <2>2
<1> QED
  BY <1>2, <1>3 DEF SendRegistration

\* Queueing a request that is not a registration is such a step.
LEMMA PostStep ==
    ASSUME exch \in [Slots -> Exchanges], NEW kind \in Requests \ {"register"},
           NEW loc \in Locs, exch' \in Posted(exch, kind, loc)
    PROVE  AddsNoRegistration
<1>1. PICK s \in Slots : /\ exch'[s].kind = kind
                         /\ \A t \in Slots \ {s} : exch'[t] = exch[t]
  BY PostedOnly
<1> QED
  BY <1>1 DEF AddsNoRegistration, InFlight

\* Ending requests is one too.
LEMMA EndStep ==
    ASSUME exch \in [Slots -> Exchanges], NEW S, exch' = Ended(exch, S)
    PROVE  AddsNoRegistration
  BY DEF AddsNoRegistration, InFlight, Ended, Empty, Request

\* An answer of the server to something else than a registration.
LEMMA OtherAnswerStep ==
    ASSUME exch \in [Slots -> Exchanges], NEW s \in Slots, NEW code \in Codes,
           NEW newloc \in Locs, Answer(s, code, newloc), code # "CREATED",
           ServerIInv, srv' \in {srv, NoLoc}, UNCHANGED clientVars
    PROVE  OneRegistration' /\ ServerAgrees' /\ AnswerAgrees'
<1>1. InFlight(exch', "register") = InFlight(exch, "register")
  BY AnswerFacts DEF Requests
<1>2. \A t \in Slots : exch'[t].code = "CREATED" => exch'[t] = exch[t]
  BY DEF Answer
<1>3. OneRegistration'
  BY <1>1 DEF ServerIInv, OneRegistration, clientVars
<1>4. ServerAgrees'
  BY DEF ServerIInv, ServerAgrees, clientVars
<1>5. AnswerAgrees'
  BY <1>1, <1>2 DEF ServerIInv, AnswerAgrees, AssignedLocation, InFlight
<1> QED
  BY <1>3, <1>4, <1>5

\* One step of any task, of the CoAP client or of the server keeps ServerIInv.
LEMMA ServerIInvStep == ServerIInv /\ [Next]_vars => ServerIInv'
<1> SUFFICES ASSUME ServerIInv, [Next]_vars
             PROVE  ServerIInv'
  OBVIOUS
<1>0. IInv /\ IInv'
  BY IInvStep DEF ServerIInv
<1>t. /\ TypeOK /\ TypeOK'
      /\ exch \in [Slots -> Exchanges] /\ exch' \in [Slots -> Exchanges]
      /\ regLocation \in Locs /\ NoLoc \in Locs
  BY <1>0 DEF IInv, TypeOK, LinkTypeOK, Locs
<1>h. state' \in Holding => linkUp'
  BY <1>0 DEF IInv, StateMatchesLink
<1>1. CASE AddObject \/ StartFails \/ Start
  <2>1. UNCHANGED <<exch, srv, linkUp, regLocation>> /\ state' \notin Holding
    BY <1>1 DEF AddObject, StartFails, Start, linkVars, Holding
  <2>2. AddsNoRegistration
    BY <2>1 DEF AddsNoRegistration
  <2> QED
    BY <1>0, <2>1, <2>2, QuietStep DEF ServerIInv, DownIsEmpty
<1>2. CASE ClientInit
  <2>1. UNCHANGED <<exch, srv, linkUp>> /\ state' \notin Holding
    BY <1>2 DEF ClientInit, linkVars, Holding
  <2>2. AddsNoRegistration
    BY <2>1 DEF AddsNoRegistration
  <2> QED
    BY <1>0, <2>1, <2>2, QuietStep DEF ServerIInv, DownIsEmpty
<1>3. CASE UpdateRegistration
  <2>1. /\ UNCHANGED <<srv, linkUp, regLocation>> /\ state \in Holding
        /\ exch' \in Posted(exch, "update", regLocation)
    BY <1>3 DEF UpdateRegistration, Holding
  <2>2. AddsNoRegistration
    BY <1>t, <2>1, PostStep DEF Requests
  <2> QED
    BY <1>0, <1>h, <2>1, <2>2, QuietStep DEF ServerIInv, DownIsEmpty, IInv, StateMatchesLink
<1>4. CASE Notify
  <2>1. /\ UNCHANGED <<srv, linkUp, regLocation, state>> /\ state \in Holding
        /\ exch' \in Posted(exch, "notify", NoLoc)
    BY <1>4 DEF Notify, clientVars, Holding
  <2>2. AddsNoRegistration
    BY <1>t, <2>1, PostStep DEF Requests
  <2> QED
    BY <1>0, <2>1, <2>2, QuietStep DEF ServerIInv, DownIsEmpty, IInv, StateMatchesLink
<1>5. CASE BeginStop \/ BeginDestroy
  <2>1. /\ UNCHANGED <<srv, linkUp, regLocation>> /\ state \in Holding
        /\ exch' \in Posted(exch, "deregister", regLocation) \cup {exch}
    BY <1>5 DEF BeginStop, BeginDestroy, BeginDeregistration, MustDeregister, Holding
  <2>2. AddsNoRegistration
    <3>1. CASE exch' = exch
      BY <3>1 DEF AddsNoRegistration
    <3>2. CASE exch' \in Posted(exch, "deregister", regLocation)
      BY <1>t, <3>2, PostStep DEF Requests
    <3> QED
      BY <2>1, <3>1, <3>2
  <2> QED
    BY <1>0, <2>1, <2>2, QuietStep DEF ServerIInv, DownIsEmpty, IInv, StateMatchesLink
<1>6. CASE FinishStop
  <2>1. UNCHANGED srv /\ state' \notin Holding /\ exch' = Ended(exch, Slots)
    BY <1>6 DEF FinishStop, StopCoap, Holding
  <2>2. AddsNoRegistration
    BY <1>t, <2>1, EndStep
  <2>3. Busy(exch') = {}
    BY <1>t, <2>1, EndedFacts
  <2> QED
    BY <1>0, <2>1, <2>2, <2>3, QuietStep DEF ServerIInv, DownIsEmpty
<1>7. CASE UNCHANGED <<exch, srv, linkUp, state, regLocation>>
  <2>1. AddsNoRegistration
    BY <1>7 DEF AddsNoRegistration
  <2> QED
    BY <1>0, <1>7, <2>1, QuietStep DEF ServerIInv, DownIsEmpty
<1>8. CASE CoapConnected
  <2>1. /\ ~linkUp /\ linkUp' /\ SendRegistration(exch)
        /\ UNCHANGED <<srv, regLocation>>
    BY <1>8 DEF CoapConnected
  <2>2. ~QueueSurvives => InFlight(exch, "register") = {}
    BY <2>1 DEF ServerIInv, DownIsEmpty, InFlight, Busy
  <2> QED
    BY <1>0, <1>t, <2>1, <2>2, SendStep
       DEF ServerIInv, OneRegistration, ServerAgrees, AnswerAgrees, DownIsEmpty
<1>9. CASE CoapDisconnected
  <2>1. PICK kept \in SUBSET Survivors : exch' = Ended(exch, Slots \ kept)
    BY <1>9 DEF CoapDisconnected
  <2>2. AddsNoRegistration
    BY <1>t, <2>1, EndStep
  <2>3. UNCHANGED srv /\ state' \notin Holding
    BY <1>9 DEF CoapDisconnected, SessionLost, Holding
  <2>4. ~QueueSurvives => Busy(exch') = {}
    BY <1>t, <2>1, EndedFacts DEF Survivors
  <2> QED
    BY <1>0, <2>2, <2>3, <2>4, QuietStep DEF ServerIInv, DownIsEmpty
<1>10. ASSUME NEW s \in Slots, RegistrationAnswer(s)
       PROVE  ServerIInv'
  <2>1. /\ linkUp /\ s \in InFlight(exch, "register") /\ exch' = Ended(exch, {s})
        /\ UNCHANGED <<srv, linkUp>>
    BY <1>10 DEF RegistrationAnswer, Delivered, InFlight
  <2>2. InFlight(exch', "register") = InFlight(exch, "register") \ {s}
    BY <1>t, <2>1, EndedFacts DEF Requests
  <2>3. ~QueueSurvives => InFlight(exch', "register") = {}
    BY <2>1, <2>2 DEF ServerIInv, OneRegistration
  <2>4. state' \in Holding =>
           exch[s].code = "CREATED" /\ regLocation' = AssignedLocation(s)
    BY <1>10 DEF RegistrationAnswer, Holding
  <2>5. ServerAgrees'
    BY <2>1, <2>4 DEF ServerIInv, AnswerAgrees, ServerAgrees
  <2> QED
    BY <1>0, <2>1, <2>3, <2>5 DEF ServerIInv, OneRegistration, AnswerAgrees, DownIsEmpty
<1>11. ASSUME NEW s \in Slots, UpdateAnswer(s)
       PROVE  ServerIInv'
  <2>1. linkUp /\ state \in Holding /\ UNCHANGED <<srv, linkUp>>
    BY <1>11 DEF UpdateAnswer, Delivered, Holding
  <2>2. CASE exch' = Ended(exch, {s}) /\ UNCHANGED regLocation
    <3>1. AddsNoRegistration
      BY <1>t, <2>2, EndStep
    <3> QED
      BY <1>0, <2>1, <2>2, <3>1, QuietStep DEF ServerIInv, DownIsEmpty
  <2>3. CASE SendRegistration(Ended(exch, {s}))
    <3>1. ~QueueSurvives => InFlight(Ended(exch, {s}), "register") = {}
      BY <1>t, <2>1, EndedFacts DEF ServerIInv, OneRegistration, Requests
    <3>2. Ended(exch, {s}) \in [Slots -> Exchanges]
      BY <1>t, EndedFacts
    <3> QED
      BY <1>0, <1>t, <2>1, <2>3, <3>1, <3>2, SendStep
         DEF ServerIInv, OneRegistration, ServerAgrees, AnswerAgrees, DownIsEmpty
  <2> QED
    BY <1>11, <2>2, <2>3 DEF UpdateAnswer
<1>12. ASSUME NEW s \in Slots,
              DeregistrationAnswer(s) \/ IgnoredAnswer(s) \/ CoapError(s)
       PROVE  ServerIInv'
  <2>1. /\ linkUp /\ exch' = Ended(exch, {s}) /\ UNCHANGED <<srv, linkUp>>
        /\ state' \in Holding => state \in Holding /\ regLocation' = regLocation
    BY <1>12 DEF DeregistrationAnswer, IgnoredAnswer, CoapError, ErrorHandled, Delivered,
       Holding, clientVars
  <2>2. AddsNoRegistration
    BY <1>t, <2>1, EndStep
  <2> QED
    BY <1>0, <2>1, <2>2, QuietStep DEF ServerIInv, DownIsEmpty
<1>13. ASSUME NEW s \in Slots, ServeRegister(s), UNCHANGED clientVars
       PROVE  ServerIInv'
  <2>1. PICK l \in Locations :
           /\ srv' = l
           /\ Answer(s, "CREATED", IF l \in OmitsLocation THEN NoLoc ELSE l)
    BY <1>13 DEF ServeRegister
  <2>2. /\ linkUp /\ UNCHANGED linkUp /\ s \in InFlight(exch, "register")
        /\ UNCHANGED <<state, regLocation>>
    BY <1>13 DEF ServeRegister, Waiting, InFlight, clientVars
  <2>3. InFlight(exch', "register") = InFlight(exch, "register")
    BY <1>t, <2>1, AnswerFacts DEF Requests, Codes, Locs
  <2>4. OneRegistration' /\ ServerAgrees'
    BY <2>2, <2>3 DEF ServerIInv, OneRegistration, ServerAgrees
  <2>5. exch'[s].newloc = IF l \in OmitsLocation THEN NoLoc ELSE l
    BY <1>t, <2>1 DEF Answer
  <2>6. OmitsLocation \subseteq {EpLoc} => AssignedLocation(s)' = l
    BY <2>5, LocationAssumption DEF AssignedLocation
  <2>7. AnswerAgrees'
    BY <2>1, <2>2, <2>3, <2>6 DEF ServerIInv, OneRegistration, AnswerAgrees
  <2> QED
    BY <1>0, <2>2, <2>4, <2>7 DEF ServerIInv, DownIsEmpty
<1>14. ASSUME NEW s \in Slots, UNCHANGED clientVars,
              ServeUpdate(s) \/ ServeDeregister(s) \/ ServeNotify(s) \/ Refuse(s)
       PROVE  ServerIInv'
  <2>1. PICK code \in Codes : code # "CREATED" /\ Answer(s, code, NoLoc)
    BY <1>14 DEF ServeUpdate, ServeDeregister, ServeNotify, Refuse, Codes
  <2>2. linkUp /\ UNCHANGED linkUp /\ srv' \in {srv, NoLoc}
    BY <1>14 DEF ServeUpdate, ServeDeregister, ServeNotify, Refuse, Waiting
  <2> QED
    BY <1>0, <1>t, <1>14, <2>1, <2>2, OtherAnswerStep DEF ServerIInv, DownIsEmpty
<1>15. CASE Expire /\ UNCHANGED clientVars
  <2>1. UNCHANGED <<exch, linkUp, state, regLocation>> /\ srv' = NoLoc
    BY <1>15 DEF Expire, clientVars
  <2>2. AddsNoRegistration
    BY <2>1 DEF AddsNoRegistration
  <2> QED
    BY <1>0, <2>1, <2>2, QuietStep DEF ServerIInv, DownIsEmpty
<1>16. CASE DestroyAtOnce
  BY <1>6, <1>7, <1>16 DEF DestroyAtOnce
<1>17. CASE AppUpdates \/ TimerFires
  BY <1>3, <1>17 DEF AppUpdates, TimerFires
<1>18. CASE EndStop \/ StopAtOnce \/ EndDestroy
  BY <1>6, <1>18 DEF EndStop, StopAtOnce, EndDestroy
<1>19. CASE UNCHANGED vars
  BY <1>7, <1>19 DEF vars, linkVars, clientVars
<1>20. CASE Application
  BY <1>1, <1>2, <1>4, <1>5, <1>16, <1>17, <1>18, <1>20 DEF Application
<1>21. CASE CoapEvent
  BY <1>8, <1>9, <1>10, <1>11, <1>12, <1>21 DEF CoapEvent, CoapResponse
<1>22. CASE Server /\ UNCHANGED clientVars
  BY <1>13, <1>14, <1>15, <1>22 DEF Server
<1> QED
  BY <1>17, <1>19, <1>20, <1>21, <1>22 DEF Next

\* The client and the server agree in every behaviour.
THEOREM ServerInvariant == Spec => []ServerIInv
<1>1. Init => ServerIInv
  <2> SUFFICES ASSUME Init
               PROVE  ServerIInv
    OBVIOUS
  <2>1. IInv
    BY InitIInv
  <2>2. Busy(exch) = {} /\ InFlight(exch, "register") = {} /\ state \notin Holding
    BY DEF Init, LinkInit, Busy, InFlight, Empty, Request, Holding
  <2> QED
    BY <2>1, <2>2 DEF ServerIInv, OneRegistration, DownIsEmpty, ServerAgrees, AnswerAgrees
<1> QED
  BY <1>1, ServerIInvStep, PTL DEF Spec

-----------------------------------------------------------------------------
(* The properties of the runs, for every value of the constants *)

\* The client has a Location-Path exactly in the states that go on to use it.
THEOREM LocationMatches == Spec => []LocationMatchesState
  BY Invariant, PTL DEF IInv

\* client->coap never dangles, and no other CoAP client ever runs.
THEOREM SessionOwned == Spec => []SessionIsOwned
  BY Invariant, PTL DEF IInv

\* Outside a call an IDLE client has nothing running that could change it.
THEOREM IdleQuiet == Spec => []IdleIsQuiet
  BY Invariant, PTL DEF IInv

\* A client that awaits the answer to its registration has it in flight.
THEOREM RegisteringAsked == Spec => []RegisteringHasRequest
  BY Invariant, PTL DEF IInv

\* A registered client has its keepalive timer, if timers can be created.
THEOREM KeepaliveKept == Spec => []KeepaliveArmed
  BY Invariant, PTL DEF IInv

\* Whatever awaits the server has a session to hear from it.
THEOREM LinkMatches == Spec => []StateMatchesLink
  BY Invariant, PTL DEF IInv

\* The application has been told of every registration the client holds.
THEOREM RegistrationTold == Spec => []ToldOfRegistration
  BY Invariant, PTL DEF IInv

\* After wb_lwm2m_destroy nothing is left that calls back.
THEOREM DestroyedQuiet == Spec => []DestroyedIsQuiet
  BY Invariant, PTL DEF IInv

\* One registration at a time, none once registered.
THEOREM OneRegistrationOnly == Spec => []OneRegistration
  BY ServerInvariant, PTL DEF ServerIInv

\* A registered client and the server name the same location.
THEOREM ServerAgreement == Spec => []ServerAgrees
  BY ServerInvariant, PTL DEF ServerIInv
=============================================================================
