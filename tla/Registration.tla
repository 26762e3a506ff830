---------------------------- MODULE Registration ----------------------------
(***************************************************************************)
(* What wb_lwm2m.h promises of a client's registration, with nothing of how *)
(* it is obtained: no timer, no request queue, no link, no server.  phase   *)
(* abstracts wb_lwm2m_state_t (a registration being refreshed is still      *)
(* held), location is the registration the client believes it has, belief   *)
(* is what the event callback has told the application.                     *)
(***************************************************************************)
CONSTANTS Locations, NoLoc

VARIABLES phase, location, belief

regVars == <<phase, location, belief>>

Phases == {"off", "connecting", "asking", "held", "leaving", "broken"}
Beliefs == {"nothing", "connected", "registered", "failed", "disconnected",
            "deregistered"}

Init ==
    /\ phase = "off"
    /\ location = NoLoc
    /\ belief = "nothing"

\* wb_lwm2m_start
TurnOn ==
    /\ phase = "off"
    /\ phase' = "connecting"
    /\ UNCHANGED <<location, belief>>

\* The session is up: the client asks at once, or cannot.
Connected ==
    /\ phase \in {"connecting", "broken"}
    /\ phase' \in {"asking", "broken"}
    /\ belief' = "connected"
    /\ UNCHANGED location

\* The only way to a registration: asking, and being told where it is.
Granted ==
    /\ phase = "asking"
    /\ phase' = "held"
    /\ location' \in Locations
    /\ belief' = "registered"

Failed ==
    /\ phase = "asking"
    /\ phase' = "broken"
    /\ belief' = "failed"
    /\ UNCHANGED location

\* The server no longer knows the registration: it is given up before the client
\* asks for another one, or cannot.
Renew ==
    /\ phase = "held"
    /\ phase' \in {"asking", "broken"}
    /\ location' = NoLoc
    /\ UNCHANGED belief

\* wb_lwm2m_stop of a registered client
Leave ==
    /\ phase = "held"
    /\ phase' = "leaving"
    /\ UNCHANGED <<location, belief>>

\* The session is lost, whatever the client was doing.
Lost ==
    /\ phase' = "broken"
    /\ location' = NoLoc
    /\ belief' = "disconnected"

\* The end of a deregistration, or of wb_lwm2m_stop.
TurnOff ==
    /\ phase' = "off"
    /\ location' = NoLoc
    /\ belief' = "deregistered"

\* A new client (wb_lwm2m_init).
Renewed ==
    /\ phase = "off"
    /\ belief' = "nothing"
    /\ UNCHANGED <<phase, location>>

Next ==
    \/ TurnOn \/ Connected \/ Granted \/ Failed \/ Renew \/ Leave
    \/ Lost \/ TurnOff \/ Renewed

Spec == Init /\ [][Next]_regVars
=============================================================================
