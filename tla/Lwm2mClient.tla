----------------------------- MODULE Lwm2mClient -----------------------------
(***************************************************************************)
(* The client lifecycle of src/src/wb_lwm2m.c: the API calls of the         *)
(* application task, the CoAP event handler and the update timer, each one  *)
(* atomic action, over the CoAP client and server of CoapLink.  The one     *)
(* place where a call blocks while events go on, the 500 ms vTaskDelay of   *)
(* wb_lwm2m_stop after the DELETE, splits stop (and destroy, which calls    *)
(* it) into two actions.                                                    *)
(*                                                                          *)
(* A call that returns an error without changing anything (a NULL handle,   *)
(* the wrong state, an unknown object) is a disabled action.                *)
(***************************************************************************)
EXTENDS CoapLink, Sequences, SequencesExt

CONSTANTS
    Objects,        \* object definitions the application may add
    ObjId,          \* their object IDs, not necessarily distinct
    Notifiable,     \* those with a resource that can be read and encoded
    LinkSize,       \* characters an object takes in the link-format payload
    LinkBufSize,    \* WB_LWM2M_LINK_BUF_SIZE
    MaxObjects,     \* WB_LWM2M_MAX_OBJECTS
    TimerCanFail    \* may xTimerCreate return NULL?

ASSUME ObjectAssumption ==
    /\ Notifiable \subseteq Objects
    /\ LinkSize \in [Objects -> Nat]
    /\ LinkBufSize \in Nat
    /\ MaxObjects \in Nat
ASSUME TimerAssumption == TimerCanFail \in BOOLEAN

VARIABLES
    live,         \* between wb_lwm2m_init and the free of wb_lwm2m_destroy
    objects,      \* client->objects[0 .. object_count - 1]
    coap,         \* client->coap
    state,        \* client->state
    regLocation,  \* client->reg_location
    timerArmed,   \* client->update_timer exists and runs
    app,          \* the application task: between calls, or in the delay of one
    told          \* the lifecycle event last dispatched (ERROR apart)

clientVars == <<live, objects, coap, state, regLocation, timerArmed, app, told>>
vars == <<linkVars, clientVars>>

States == {"IDLE", "CONNECTING", "REGISTERING", "REGISTERED", "UPDATING",
           "DEREGISTERING", "ERROR"}
Events == {"CONNECTED", "DISCONNECTED", "REGISTERED", "REG_FAILED",
           "REG_UPDATED", "DEREGISTERED"}

\* The states in which reg_location is in use.
Holding == {"REGISTERED", "UPDATING", "DEREGISTERING"}

TypeOK ==
    /\ LinkTypeOK
    /\ live \in BOOLEAN
    /\ objects \in Seq(Objects)
    /\ Len(objects) <= MaxObjects
    /\ coap \in Sessions \cup {NoSession}
    /\ state \in States
    /\ regLocation \in Locs
    /\ timerArmed \in BOOLEAN
    /\ app \in {"ready", "stopping", "destroying"}
    /\ told \in Events \cup {"NOTHING"}

Init ==
    /\ LinkInit
    /\ live = FALSE
    /\ objects = <<>>
    /\ coap = NoSession
    /\ state = "IDLE"
    /\ regLocation = NoLoc
    /\ timerArmed = FALSE
    /\ app = "ready"
    /\ told = "NOTHING"

-----------------------------------------------------------------------------
(* send_registration *)

\* Every written piece must leave room for the terminating NUL; LinkSize counts
\* the comma, and the first link has none.
LinkFits(objs) ==
    FoldLeft(LAMBDA sum, o : sum + LinkSize[o], 0, objs) <= LinkBufSize

\* Variant: the result of the POST is not looked at.
SendRegistrationUnchecked(q) ==
    \/ /\ LinkFits(objects)
       /\ exch' \in Posted(q, "register", NoLoc)
       /\ state' = "REGISTERING"
    \/ /\ exch' = q
       /\ state' = "REGISTERING"

\* The call as it ends, with q the queue it starts from: REGISTERING when the
\* payload was built and the POST accepted, otherwise ERROR, and no event.
SendRegistration(q) ==
    \/ /\ LinkFits(objects)
       /\ exch' \in Posted(q, "register", NoLoc)
       /\ state' = "REGISTERING"
    \/ /\ exch' = q
       /\ state' = "ERROR"

\* Variant: stop_update_timer after xTimerStart instead of before it.
StartThenStopTimer == timerArmed' = FALSE

\* start_update_timer: a failing xTimerCreate is noticed by nobody.
StartUpdateTimer == timerArmed' \in (IF TimerCanFail THEN BOOLEAN ELSE {TRUE})

-----------------------------------------------------------------------------
(* The application task *)

Ready == app = "ready" /\ live

ClientInit ==
    /\ app = "ready" /\ ~live
    /\ live' = TRUE
    /\ objects' = <<>>
    /\ coap' = NoSession
    /\ state' = "IDLE"
    /\ regLocation' = NoLoc
    /\ timerArmed' = FALSE
    /\ told' = "NOTHING"
    /\ UNCHANGED <<linkVars, app>>

\* Variant: the count may pass the limit by one.
HasRoomOffByOne == Len(objects) <= MaxObjects
HasRoom == Len(objects) < MaxObjects

AddObject ==
    /\ Ready
    /\ HasRoom
    /\ state = "IDLE"
    /\ \E o \in Objects : objects' = Append(objects, o)
    /\ UNCHANGED <<linkVars, live, coap, state, regLocation, timerArmed, app, told>>

\* client->coap is overwritten, whatever it was.
Start ==
    /\ Ready
    /\ state = "IDLE"
    /\ \E c \in Sessions \ alloc :
          /\ coap' = c
          /\ alloc' = alloc \cup {c}
          /\ running' = running \cup {c}
    /\ state' = "CONNECTING"
    /\ UNCHANGED <<linkUp, exch, srv, live, objects, regLocation, timerArmed, app, told>>

\* Variant: client->coap keeps the session that was just destroyed.
StartFailsDangling ==
    /\ Ready
    /\ state = "IDLE"
    /\ coap' \in Sessions \ alloc
    /\ UNCHANGED <<linkVars, live, objects, state, regLocation, timerArmed, app, told>>

\* wb_coap_client_init returned NULL, or wb_coap_client_start failed and the new
\* session was destroyed: either way client->coap is NULL and the state IDLE.
StartFails ==
    /\ Ready
    /\ state = "IDLE"
    /\ coap' = NoSession
    /\ UNCHANGED <<linkVars, live, objects, state, regLocation, timerArmed, app, told>>

\* wb_lwm2m_update_registration, by the application or by the timer.  A POST that
\* is not accepted puts the state back, so that call changes nothing.
UpdateRegistration ==
    /\ state = "REGISTERED"
    /\ regLocation # NoLoc
    /\ exch' \in Posted(exch, "update", regLocation)
    /\ state' = "UPDATING"
    /\ UNCHANGED <<alloc, running, linkUp, srv, live, objects, coap, regLocation,
                   timerArmed, app, told>>

AppUpdates == Ready /\ UpdateRegistration

\* wb_lwm2m_notify: the first object with that ID counts.  Any task may call it,
\* even while another one is inside wb_lwm2m_stop.
Notify ==
    /\ live
    /\ state = "REGISTERED"
    /\ \E i \in DOMAIN objects :
          /\ objects[i] \in Notifiable
          /\ \A j \in 1 .. i - 1 : ObjId[objects[j]] # ObjId[objects[i]]
    /\ exch' \in Posted(exch, "notify", NoLoc)
    /\ UNCHANGED <<alloc, running, linkUp, srv, clientVars>>

-----------------------------------------------------------------------------
(* wb_lwm2m_stop and wb_lwm2m_destroy *)

MustDeregister == state = "REGISTERED" /\ regLocation # NoLoc

\* Up to the delay: the timer goes, the DELETE is queued or refused (stop does not
\* look), the task sleeps.
BeginDeregistration(call) ==
    /\ MustDeregister
    /\ timerArmed' = FALSE
    /\ state' = "DEREGISTERING"
    /\ exch' \in Posted(exch, "deregister", regLocation) \cup {exch}
    /\ app' = call
    /\ UNCHANGED <<alloc, running, linkUp, srv, live, objects, coap, regLocation, told>>

\* Variant: no wb_coap_client_stop.
StopCoapForgotten == UNCHANGED <<running, linkUp, exch, srv>>

\* wb_coap_client_stop: the session's task has ended, and with it the link and
\* every request.
StopCoap ==
    /\ running' = running \ {coap}
    /\ linkUp' = FALSE
    /\ exch' = Ended(exch, Slots)
    /\ UNCHANGED srv

\* From the delay, or from the start when there is nothing to deregister, to the
\* return of wb_lwm2m_stop.
FinishStop ==
    /\ StopCoap
    /\ state' = "IDLE"
    /\ regLocation' = NoLoc
    /\ told' = "DEREGISTERED"
    /\ app' = "ready"

\* Variant: update_timer is not deleted.
FreeKeepsTimer ==
    /\ live' = FALSE
    /\ objects' = <<>>
    /\ coap' = NoSession
    /\ alloc' = alloc \ {coap}
    /\ UNCHANGED timerArmed

\* The rest of wb_lwm2m_destroy.
Free ==
    /\ live' = FALSE
    /\ objects' = <<>>
    /\ coap' = NoSession
    /\ alloc' = alloc \ {coap}
    /\ timerArmed' = FALSE

BeginStop == Ready /\ BeginDeregistration("stopping")

EndStop ==
    /\ app = "stopping"
    /\ FinishStop
    /\ UNCHANGED <<alloc, live, objects, coap, timerArmed>>

StopAtOnce ==
    /\ Ready
    /\ ~MustDeregister
    /\ timerArmed' = FALSE
    /\ FinishStop
    /\ UNCHANGED <<alloc, live, objects, coap>>

\* destroy calls stop unless the state is IDLE.
BeginDestroy == Ready /\ BeginDeregistration("destroying")

EndDestroy ==
    /\ app = "destroying"
    /\ FinishStop
    /\ Free

DestroyAtOnce ==
    /\ Ready
    /\ ~MustDeregister
    /\ \/ state # "IDLE" /\ FinishStop
       \/ /\ state = "IDLE"
          /\ UNCHANGED <<running, linkUp, exch, srv, state, regLocation, told, app>>
    /\ Free

-----------------------------------------------------------------------------
(* The update timer *)

\* update_timer_cb acts in the state REGISTERED only; the timer reloads itself.
TimerFires == timerArmed /\ UpdateRegistration

-----------------------------------------------------------------------------
(* coap_event_handler, in the task of the running session *)

Handling == running # {}

CoapConnected ==
    /\ Handling
    /\ ~linkUp
    /\ linkUp' = TRUE
    /\ told' = "CONNECTED"
    /\ SendRegistration(exch)
    /\ UNCHANGED <<alloc, running, srv, live, objects, coap, regLocation, timerArmed, app>>

\* Variant: the state is left as it was.
SessionLostKeepsState ==
    /\ timerArmed' = FALSE
    /\ UNCHANGED state
    /\ regLocation' = NoLoc
    /\ told' = "DISCONNECTED"

SessionLost ==
    /\ timerArmed' = FALSE
    /\ state' = "ERROR"
    /\ regLocation' = NoLoc
    /\ told' = "DISCONNECTED"

CoapDisconnected ==
    /\ Handling
    /\ linkUp' = FALSE
    /\ \E kept \in SUBSET Survivors : exch' = Ended(exch, Slots \ kept)
    /\ SessionLost
    /\ UNCHANGED <<alloc, running, srv, live, objects, coap, app>>

Delivered(s) == linkUp /\ exch[s].code # "none"

\* Variant: the Location-Path option is ignored.
AlwaysFallback(s) == EpLoc
AssignedLocation(s) == IF exch[s].newloc # NoLoc THEN exch[s].newloc ELSE EpLoc

\* The answer to POST /rd carries the path "/rd"; the other answers carry other
\* paths, and a state other than REGISTERING does not look at the path.
RegistrationAnswer(s) ==
    /\ Delivered(s)
    /\ state = "REGISTERING"
    /\ exch[s].kind = "register"
    /\ exch' = Ended(exch, {s})
    /\ \/ /\ exch[s].code = "CREATED"
          /\ regLocation' = AssignedLocation(s)
          /\ state' = "REGISTERED"
          /\ StartUpdateTimer
          /\ told' = "REGISTERED"
       \/ /\ exch[s].code # "CREATED"
          /\ state' = "ERROR"
          /\ told' = "REG_FAILED"
          /\ UNCHANGED <<regLocation, timerArmed>>
    /\ UNCHANGED <<alloc, running, linkUp, srv, live, objects, coap, app>>

\* In UPDATING every answer is taken for the update's.
UpdateAnswer(s) ==
    /\ Delivered(s)
    /\ state = "UPDATING"
    /\ \/ /\ exch[s].code = "CHANGED"
          /\ exch' = Ended(exch, {s})
          /\ state' = "REGISTERED"
          /\ told' = "REG_UPDATED"
          /\ UNCHANGED regLocation
       \/ /\ exch[s].code # "CHANGED"
          /\ regLocation' = NoLoc
          /\ SendRegistration(Ended(exch, {s}))
          /\ UNCHANGED told
    /\ UNCHANGED <<alloc, running, linkUp, srv, live, objects, coap, timerArmed, app>>

\* In DEREGISTERING every answer is taken for the deregistration's.
DeregistrationAnswer(s) ==
    /\ Delivered(s)
    /\ state = "DEREGISTERING"
    /\ exch' = Ended(exch, {s})
    /\ state' = "IDLE"
    /\ regLocation' = NoLoc
    /\ told' = "DEREGISTERED"
    /\ UNCHANGED <<alloc, running, linkUp, srv, live, objects, coap, timerArmed, app>>

\* Any other answer is dropped.
IgnoredAnswer(s) ==
    /\ Delivered(s)
    /\ \/ state \notin {"REGISTERING", "UPDATING", "DEREGISTERING"}
       \/ state = "REGISTERING" /\ exch[s].kind # "register"
    /\ exch' = Ended(exch, {s})
    /\ UNCHANGED <<alloc, running, linkUp, srv, clientVars>>

CoapResponse(s) == \/ RegistrationAnswer(s) \/ UpdateAnswer(s)
                   \/ DeregistrationAnswer(s) \/ IgnoredAnswer(s)

\* Variants: every ERROR fails the registration; every ERROR is reported as if it
\* did.
ErrorAlwaysFails == state' = "ERROR" /\ told' = "REG_FAILED"
ErrorAlwaysReported ==
    /\ told' = "REG_FAILED"
    /\ state' = IF state = "REGISTERING" THEN "ERROR" ELSE state

\* Outside REGISTERING only the ERROR event is dispatched.
ErrorHandled ==
    \/ /\ state = "REGISTERING"
       /\ state' = "ERROR"
       /\ told' = "REG_FAILED"
    \/ state # "REGISTERING" /\ UNCHANGED <<state, told>>

\* Variant: an ERROR while REGISTERING sends the registration again.
CoapErrorRetries(s) ==
    /\ linkUp
    /\ exch[s].kind # "free"
    /\ \/ state = "REGISTERING" /\ SendRegistration(Ended(exch, {s}))
       \/ state # "REGISTERING" /\ exch' = Ended(exch, {s}) /\ UNCHANGED state
    /\ UNCHANGED <<alloc, running, linkUp, srv, live, objects, coap, regLocation,
                   timerArmed, app, told>>

\* A request nobody answered in time, whichever it was: the handler does not ask.
CoapError(s) ==
    /\ linkUp
    /\ exch[s].kind # "free"
    /\ exch' = Ended(exch, {s})
    /\ ErrorHandled
    /\ UNCHANGED <<alloc, running, linkUp, srv, live, objects, coap, regLocation,
                   timerArmed, app>>

-----------------------------------------------------------------------------
(* The whole system *)

Application ==
    \/ ClientInit \/ AddObject \/ Start \/ StartFails \/ AppUpdates \/ Notify
    \/ BeginStop \/ EndStop \/ StopAtOnce
    \/ BeginDestroy \/ EndDestroy \/ DestroyAtOnce

CoapEvent ==
    \/ CoapConnected \/ CoapDisconnected
    \/ \E s \in Slots : CoapResponse(s) \/ CoapError(s)

Next ==
    \/ Application
    \/ TimerFires
    \/ CoapEvent
    \/ Server /\ UNCHANGED clientVars

Spec == Init /\ [][Next]_vars

\* CoAP gives every request of a connected session an answer or an error in bounded
\* time.  Nothing else is certain: not that the session comes up, that the server
\* accepts, or that the application calls.
FairSpec ==
    /\ Spec
    /\ \A s \in Slots : WF_vars(CoapResponse(s) \/ CoapError(s))

-----------------------------------------------------------------------------
(* Safety *)

\* The client has a Location-Path exactly in the states that go on to use it: the
\* update, stop and the fallback never run with a stale or an empty one
\* (reg_location against state in every handler).
LocationMatchesState == (regLocation # NoLoc) <=> (state \in Holding)

\* At most one CoAP client runs, it is the one client->coap points to, and that
\* pointer never dangles: start overwrites it, stop leaves it, destroy frees it.
SessionIsOwned ==
    /\ running \subseteq {coap} \ {NoSession}
    /\ coap \in alloc \cup {NoSession}
    /\ running \subseteq alloc

\* A client that is IDLE outside stop's delay is quiet: no CoAP task that could run
\* the event handler, no link, no request under way, although the state passes
\* through IDLE before the session ends.
IdleIsQuiet ==
    (state = "IDLE" /\ app = "ready") =>
        running = {} /\ ~linkUp /\ Busy(exch) = {}

\* After wb_lwm2m_destroy nothing is left that calls back into freed memory.
DestroyedIsQuiet == ~live => (running = {} /\ ~timerArmed)

\* The states that await something of the server have a session to get it from,
\* and CONNECTING never outlasts the connection.
StateMatchesLink ==
    /\ state \in Holding \cup {"REGISTERING"} => linkUp
    /\ linkUp => state # "CONNECTING"
    /\ linkUp => running # {}

\* A client waiting for the answer to its registration has asked: its request is
\* in flight, whatever failed, timed out or was answered in between.
RegisteringHasRequest ==
    state = "REGISTERING" => InFlight(exch, "register") # {}

\* One registration at a time, and none under way once the client is registered,
\* so that no late 2.01 moves the registration the client believes in.
OneRegistration ==
    ~QueueSurvives =>
        /\ \A s, t \in InFlight(exch, "register") : s = t
        /\ state \in Holding => InFlight(exch, "register") = {}

\* A registered client and the server name the same location, unless the server
\* has dropped the registration: for servers that name the location, or assign
\* the one the client falls back to.
ServerAgrees ==
    (~QueueSurvives /\ OmitsLocation \subseteq {EpLoc} /\ state \in Holding)
        => srv \in {NoLoc, regLocation}

\* The application has been told of every registration the client holds, and of
\* nothing since that would take it back.
ToldOfRegistration ==
    state \in {"REGISTERED", "UPDATING"} => told \in {"REGISTERED", "REG_UPDATED"}

\* Once registered, the keepalive is armed through updates, failures and
\* re-registration, if the timer could be created.
KeepaliveArmed ==
    ~TimerCanFail => (state \in {"REGISTERED", "UPDATING"} => timerArmed)

\* What the invariants above need to be inductive: only a live client is in a call
\* or out of IDLE; DEREGISTERING is inside stop or destroy; and while the session
\* runs, IDLE is reached only by an answer, so with the link up.
CallMatchesState ==
    /\ ~live => state = "IDLE" /\ app = "ready"
    /\ state = "DEREGISTERING" => app # "ready"
    /\ (state = "IDLE" /\ running # {}) => linkUp

\* The inductive invariant of Lwm2mClient_proofs.
IInv ==
    /\ TypeOK
    /\ LocationMatchesState
    /\ SessionIsOwned
    /\ IdleIsQuiet
    /\ DestroyedIsQuiet
    /\ StateMatchesLink
    /\ RegisteringHasRequest
    /\ ToldOfRegistration
    /\ KeepaliveArmed
    /\ CallMatchesState

\* What OneRegistration and ServerAgrees need to be inductive: a lost session takes
\* its requests with it, and a 2.01 on its way names the server's registration.
DownIsEmpty == (~QueueSurvives /\ ~linkUp) => Busy(exch) = {}

AnswerAgrees ==
    (~QueueSurvives /\ OmitsLocation \subseteq {EpLoc}) =>
        \A s \in InFlight(exch, "register") :
            exch[s].code = "CREATED" => srv \in {NoLoc, AssignedLocation(s)}

\* The inductive invariant of the client and the server together.
ServerIInv ==
    /\ IInv
    /\ OneRegistration
    /\ DownIsEmpty
    /\ ServerAgrees
    /\ AnswerAgrees

-----------------------------------------------------------------------------
(* What the documentation says and the code does not do *)

\* "Registration update successful" (wb_lwm2m.h:110): REG_UPDATED follows the 2.04
\* of a registration update.  The handler does not look whose answer it has.
UpdateConfirmed ==
    [][(state = "UPDATING" /\ told' = "REG_UPDATED" /\ state' = "REGISTERED") =>
        \E s \in InFlight(exch, "update") :
            exch[s].code = "CHANGED" /\ exch'[s] = Empty]_vars

\* "Sends a Deregistration request" (wb_lwm2m.h:225), "Deregistration successful"
\* (wb_lwm2m.h:111): a held registration ends in DEREGISTERED only after a
\* deregistration was begun.  stop begins none while an update is under way.
StopDeregisters ==
    [][(regLocation # NoLoc /\ state' = "IDLE" /\ told' = "DEREGISTERED") =>
        state = "DEREGISTERING"]_vars

\* "Destroy the LWM2M client and free all resources" (wb_lwm2m.h:233).  A second
\* start after stop overwrites the only pointer to the first CoAP client.
DestroyFreesAll == ~live => alloc = {}

-----------------------------------------------------------------------------
(* Refinement *)

Phase ==
    CASE state = "IDLE" -> "off"
      [] state = "CONNECTING" -> "connecting"
      [] state = "REGISTERING" -> "asking"
      [] state \in {"REGISTERED", "UPDATING"} -> "held"
      [] state = "DEREGISTERING" -> "leaving"
      [] state = "ERROR" -> "broken"

Belief ==
    CASE told = "NOTHING" -> "nothing"
      [] told = "CONNECTED" -> "connected"
      [] told \in {"REGISTERED", "REG_UPDATED"} -> "registered"
      [] told = "REG_FAILED" -> "failed"
      [] told = "DISCONNECTED" -> "disconnected"
      [] told = "DEREGISTERED" -> "deregistered"

Abstract == INSTANCE Registration
            WITH phase <- Phase, location <- regLocation, belief <- Belief

\* The client keeps the registration life cycle of wb_lwm2m.h: a registration is
\* only ever got by asking and being answered, is given up before a new one is
\* asked for, and the events follow.
KeepsLifecycle == Abstract!Spec

-----------------------------------------------------------------------------
(* Liveness, under FairSpec *)

\* A registration that was sent ends: the client does not wait for ever.
RegistrationEnds == (state = "REGISTERING") ~> (state # "REGISTERING")

\* "Registration updates are sent automatically" (wb_lwm2m.h:204): an update ends,
\* so that the next one can be sent.  An ERROR event leaves the client in UPDATING,
\* where the timer does nothing.
UpdateEnds == (state = "UPDATING") ~> (state # "UPDATING")
=============================================================================
