------------------------------ MODULE CoapLink ------------------------------
(***************************************************************************)
(* What wb_lwm2m.c uses and does not contain: the CoAP client component    *)
(* (wb-idf-coap-client) and, behind it, the LwM2M server.  Neither is part  *)
(* of the repository; both are modelled from how src/src/wb_lwm2m.c uses    *)
(* them.                                                                    *)
(*                                                                          *)
(*   - wb_coap_client_init allocates a session, or fails when none is left; *)
(*     _start runs it, _stop joins its task, _destroy gives it back.        *)
(*   - wb_coap_client_post and _delete put one request into a bounded       *)
(*     request queue (a slot of exch) or report an error.                   *)
(*   - A request ends in a RESPONSE event or in an ERROR event, never both. *)
(*     It may be lost before the server sees it, or its answer may be lost. *)
(*   - The session comes up and goes down on its own (CONNECTED and         *)
(*     DISCONNECTED events).  Going down ends every request that has been   *)
(*     answered; requests still waiting in the queue survive only when      *)
(*     QueueSurvives.                                                       *)
(*   - The server holds at most one registration of this endpoint, may      *)
(*     refuse any request and lets a registration expire.                   *)
(***************************************************************************)
EXTENDS Integers, FiniteSets

CONSTANTS
    Sessions,       \* the CoAP clients the heap has room for
    NoSession,      \* the NULL wb_coap_client_handle_t
    Slots,          \* places in the CoAP client's request queue
    Locations,      \* the Location-Paths a server can assign, and EpLoc
    NoLoc,          \* the empty reg_location
    EpLoc,          \* "/rd/<endpoint name>"
    OmitsLocation,  \* locations the server assigns without naming them
    QueueSurvives   \* do waiting requests outlive a lost session?

ASSUME SessionAssumption == NoSession \notin Sessions
ASSUME LocationAssumption ==
    /\ NoLoc \notin Locations
    /\ EpLoc \in Locations
    /\ OmitsLocation \subseteq Locations
ASSUME QueueAssumption == QueueSurvives \in BOOLEAN

VARIABLES
    alloc,    \* sessions between wb_coap_client_init and _destroy
    running,  \* sessions between wb_coap_client_start and _stop
    linkUp,   \* is the running session connected?
    exch,     \* the request queue: one exchange per slot
    srv       \* the location of this endpoint's registration at the server

linkVars == <<alloc, running, linkUp, exch, srv>>

Locs == Locations \cup {NoLoc}
Requests == {"register", "update", "deregister", "notify"}
Codes == {"CREATED", "CHANGED", "DELETED", "REFUSED"}

\* A slot: the request, the path it goes to when that is a location, the code
\* of the answer once the server has produced it, the Location-Path in it.
Exchanges == [kind : Requests \cup {"free"}, loc : Locs,
              code : Codes \cup {"none"}, newloc : Locs]

Request(kind, loc) == [kind |-> kind, loc |-> loc, code |-> "none", newloc |-> NoLoc]
Empty == Request("free", NoLoc)

InFlight(q, kind) == {s \in Slots : q[s].kind = kind}
Busy(q) == {s \in Slots : q[s].kind # "free"}

\* The queues wb_coap_client_post or _delete may leave behind when it accepts a
\* request: none when the queue q is full.
Posted(q, kind, loc) ==
    {[q EXCEPT ![s] = Request(kind, loc)] : s \in InFlight(q, "free")}

\* The queue when the requests in the slots S are over.
Ended(q, S) == [s \in Slots |-> IF s \in S THEN Empty ELSE q[s]]

\* The requests that may outlive the session: those with no answer under way.
Survivors == IF QueueSurvives
             THEN {s \in Busy(exch) : exch[s].code = "none"}
             ELSE {}

LinkTypeOK ==
    /\ alloc \subseteq Sessions
    /\ running \subseteq Sessions
    /\ linkUp \in BOOLEAN
    /\ exch \in [Slots -> Exchanges]
    /\ srv \in Locs

LinkInit ==
    /\ alloc = {}
    /\ running = {}
    /\ linkUp = FALSE
    /\ exch = [s \in Slots |-> Empty]
    /\ srv = NoLoc

-----------------------------------------------------------------------------
(* The server *)

Waiting(s, kind) == linkUp /\ exch[s].kind = kind /\ exch[s].code = "none"

Answer(s, code, newloc) ==
    exch' = [exch EXCEPT ![s] = [kind |-> exch[s].kind, loc |-> exch[s].loc,
                                 code |-> code, newloc |-> newloc]]

\* A registration replaces whatever the endpoint had; the 2.01 names the new
\* location unless this server leaves that one out.
ServeRegister(s) ==
    /\ Waiting(s, "register")
    /\ \E l \in Locations :
          /\ srv' = l
          /\ Answer(s, "CREATED", IF l \in OmitsLocation THEN NoLoc ELSE l)
    /\ UNCHANGED <<alloc, running, linkUp>>

\* An update is 2.04 only for the location on record.
ServeUpdate(s) ==
    /\ Waiting(s, "update")
    /\ exch[s].loc = srv
    /\ Answer(s, "CHANGED", NoLoc)
    /\ UNCHANGED <<alloc, running, linkUp, srv>>

ServeDeregister(s) ==
    /\ Waiting(s, "deregister")
    /\ exch[s].loc = srv
    /\ srv' = NoLoc
    /\ Answer(s, "DELETED", NoLoc)
    /\ UNCHANGED <<alloc, running, linkUp>>

ServeNotify(s) ==
    /\ Waiting(s, "notify")
    /\ Answer(s, "CHANGED", NoLoc)
    /\ UNCHANGED <<alloc, running, linkUp, srv>>

\* 4.xx or 5.xx: any request may meet it.
Refuse(s) ==
    /\ \E kind \in Requests : Waiting(s, kind)
    /\ Answer(s, "REFUSED", NoLoc)
    /\ UNCHANGED <<alloc, running, linkUp, srv>>

\* The lifetime of the registration runs out, or the server restarts.
Expire ==
    /\ srv # NoLoc
    /\ srv' = NoLoc
    /\ UNCHANGED <<alloc, running, linkUp, exch>>

Server ==
    \/ \E s \in Slots : \/ ServeRegister(s) \/ ServeUpdate(s)
                        \/ ServeDeregister(s) \/ ServeNotify(s) \/ Refuse(s)
    \/ Expire
=============================================================================
