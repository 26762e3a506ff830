------------------------------ MODULE Keepalive ------------------------------
(***************************************************************************)
(* The registration against time: the period start_update_timer computes    *)
(* from the lifetime (src/src/wb_lwm2m.c), the periodic timer, the requests  *)
(* under way and the clock of the server.  The session stays up;            *)
(* Lwm2mClient has the handlers in full.                                     *)
(*                                                                          *)
(* Time passes in ticks of the FreeRTOS timer.  The server (external) may   *)
(* refuse anything and forget the registration at any moment; an exchange    *)
(* ends within Delay of its request.  As in the code, a RESPONSE is not      *)
(* matched with a request: in UPDATING the answer to a notification, or to   *)
(* an older update, is taken for the update's.  Once the client has lost a   *)
(* request of its own nothing is claimed and the clock stops.                *)
(***************************************************************************)
EXTENDS Integers, FiniteSets

CONSTANTS
    Word,             \* 2^32: interval_ms is a uint32_t
    PerSecond,        \* milliseconds in a second
    Share,            \* 800: what the interval takes of each second of lifetime
    Minimum,          \* 10000: the shortest interval, in milliseconds
    DefaultLifetime,  \* 86400: the lifetime of a configuration with 0
    Configured,       \* values of config->lifetime, in seconds
    TickRate,         \* configTICK_RATE_HZ
    TickWord,         \* 2^32 where pdMS_TO_TICKS computes in a TickType_t
    Delay,            \* longest time from a request to its answer, in ticks
    Slots,            \* places for the client's own requests
    MaxOthers,        \* bound: notifications under way at once
    MaxMissed         \* bound: refusals that go unnoticed in a row

ASSUME TimeAssumption ==
    /\ Word \in Nat \ {0}
    /\ PerSecond \in Nat \ {0}
    /\ Share \in 0 .. PerSecond
    /\ Minimum \in Nat
    /\ DefaultLifetime \in Nat \ {0}
    /\ Configured \subseteq Nat
    /\ TickRate \in Nat
    /\ TickWord \in Nat \ {0}
    /\ Delay \in Nat
    /\ Slots # {}
    /\ MaxOthers \in Nat
    /\ MaxMissed \in Nat

VARIABLES
    lifetime,  \* client->lifetime, also lt= of the registration
    state,     \* client->state, while the session is up; "ABORTED" after an assertion
    armed,     \* does update_timer run?
    elapsed,   \* time since it was started or last expired
    exch,      \* the client's updates and registrations under way, one per slot
    others,    \* notifications under way
    known,     \* does the server have the registration?
    since,     \* time since the server last registered or refreshed it, or forgot it
    missed,    \* refused updates whose refusal was ignored, since then
    lost       \* has a request of the client's own been lost, or not been accepted?

vars == <<lifetime, state, armed, elapsed, exch, others, known, since, missed, lost>>

Exchanges == [kind : {"none", "update", "registration"},
              stage : {"sent", "served", "refused"}, age : 0 .. Delay]

Request(kind) == [kind |-> kind, stage |-> "sent", age |-> 0]
Without(s) == [exch EXCEPT ![s] = Request("none")]
Posted(q, kind) == {[q EXCEPT ![s] = Request(kind)] : s \in {t \in Slots : q[t].kind = "none"}}

\* Variant: the whole lifetime instead of 80 % of it.
IntervalWhole(l) ==
    LET ms == (l * PerSecond) % Word IN IF ms < Minimum THEN Minimum ELSE ms

\* interval_ms: the product wraps in 32 bits, the minimum comes after.
Interval(l) ==
    LET ms == (l * Share) % Word IN IF ms < Minimum THEN Minimum ELSE ms

\* pdMS_TO_TICKS (external): the product with the tick rate wraps in a TickType_t.
Ticks(ms) == ((ms * TickRate) % TickWord) \div PerSecond

Period == Ticks(Interval(lifetime))

\* wb_lwm2m_init
StoredLifetime(l) == IF l > 0 THEN l ELSE DefaultLifetime

\* The session has come up and the first registration is sent.
Init ==
    /\ \E l \in Configured : lifetime = StoredLifetime(l)
    /\ state = "REGISTERING"
    /\ armed = FALSE
    /\ elapsed = 0
    /\ exch \in Posted([s \in Slots |-> Request("none")], "registration")
    /\ others = 0
    /\ known = FALSE
    /\ since = 0
    /\ missed = 0
    /\ lost = FALSE

-----------------------------------------------------------------------------
(* The client *)

\* wb_lwm2m_update_registration.  A POST that is not accepted puts the state back.
SendUpdate ==
    /\ state = "REGISTERED"
    /\ \/ /\ exch' \in Posted(exch, "update")
          /\ state' = "UPDATING"
          /\ UNCHANGED lost
       \/ /\ lost' = TRUE
          /\ UNCHANGED <<state, exch>>

\* The timer reloads itself; update_timer_cb acts in REGISTERED only.
TimerFires ==
    /\ armed
    /\ elapsed = Period
    /\ elapsed' = 0
    /\ \/ SendUpdate
       \/ state # "REGISTERED" /\ UNCHANGED <<state, exch, lost>>
    /\ UNCHANGED <<lifetime, armed, others, known, since, missed>>

AppUpdates ==
    /\ SendUpdate
    /\ UNCHANGED <<lifetime, armed, elapsed, others, known, since, missed>>

\* wb_lwm2m_notify, as far as its answer matters here.
Notify ==
    /\ state = "REGISTERED"
    /\ others < MaxOthers
    /\ others' = others + 1
    /\ UNCHANGED <<lifetime, state, armed, elapsed, exch, known, since, missed, lost>>

\* Variant: the state is not looked at.
TakenAnywhere(changed, q) ==
    /\ exch' = q
    /\ state' = IF changed THEN "REGISTERED" ELSE state
    /\ UNCHANGED lost

\* Variant: a refusal is taken for a 2.04.
TakenUnread(changed, q) ==
    /\ exch' = q
    /\ state' = IF state = "UPDATING" THEN "REGISTERED" ELSE state
    /\ UNCHANGED lost

\* A RESPONSE that is not the registration's, q being what stays under way.  In
\* UPDATING 2.04 ends the update and anything else sends the registration, which
\* may not be accepted; in the other states it is ignored.
Taken(changed, q) ==
    \/ /\ state = "UPDATING" /\ changed
       /\ state' = "REGISTERED"
       /\ exch' = q
       /\ UNCHANGED lost
    \/ /\ state = "UPDATING" /\ ~changed
       /\ state' = "REGISTERING"
       /\ exch' \in Posted(q, "registration")
       /\ UNCHANGED lost
    \/ /\ state = "UPDATING" /\ ~changed
       /\ state' = "ERROR"
       /\ exch' = q
       /\ lost' = TRUE
    \/ /\ state # "UPDATING"
       /\ exch' = q
       /\ UNCHANGED <<state, lost>>

\* The answer to an update.  A refusal that comes in REGISTERED is missed.
UpdateAnswer(s) ==
    /\ exch[s].kind = "update"
    /\ exch[s].stage \in {"served", "refused"}
    /\ Taken(exch[s].stage = "served", Without(s))
    /\ \/ /\ state = "REGISTERED" /\ exch[s].stage = "refused"
          /\ missed < MaxMissed
          /\ missed' = missed + 1
       \/ /\ ~(state = "REGISTERED" /\ exch[s].stage = "refused")
          /\ UNCHANGED missed
    /\ UNCHANGED <<lifetime, armed, elapsed, others, known, since>>

\* The answer to a notification: 2.04 or a refusal.
NotificationAnswer ==
    /\ others > 0
    /\ others' = others - 1
    /\ \E changed \in BOOLEAN : Taken(changed, exch)
    /\ UNCHANGED <<lifetime, armed, elapsed, known, since, missed>>

\* start_update_timer: xTimerCreate asserts on a period of 0 ticks, and may find no
\* memory, which nobody notices.
StartUpdateTimer ==
    \/ /\ Period > 0
       /\ state' = "REGISTERED"
       /\ armed' = TRUE
       /\ UNCHANGED lost
    \/ /\ Period > 0
       /\ state' = "REGISTERED"
       /\ armed' = FALSE
       /\ lost' = TRUE
    \/ /\ Period = 0
       /\ state' = "ABORTED"
       /\ armed' = FALSE
       /\ lost' = TRUE

\* 2.01: the timer starts anew.  A refused registration ends in ERROR.
RegistrationAnswer(s) ==
    /\ state = "REGISTERING"
    /\ exch[s].kind = "registration"
    /\ exch' = Without(s)
    /\ \/ /\ exch[s].stage = "served"
          /\ elapsed' = 0
          /\ StartUpdateTimer
       \/ /\ exch[s].stage = "refused"
          /\ state' = "ERROR"
          /\ lost' = TRUE
          /\ UNCHANGED <<armed, elapsed>>
    /\ UNCHANGED <<lifetime, others, known, since, missed>>

\* The ERROR event ends REGISTERING and leaves the other states as they are.
ErrorEvent == state' = IF state = "REGISTERING" THEN "ERROR" ELSE state

\* A request of the client's own, or the answer to it, is lost.
Lose(s) ==
    /\ exch[s].kind # "none"
    /\ exch' = Without(s)
    /\ ErrorEvent
    /\ lost' = TRUE
    /\ UNCHANGED <<lifetime, armed, elapsed, others, known, since, missed>>

\* A notification is lost: in REGISTERING the client gives up its registration.
LoseNotification ==
    /\ others > 0
    /\ others' = others - 1
    /\ ErrorEvent
    /\ lost' = (lost \/ state = "REGISTERING")
    /\ UNCHANGED <<lifetime, armed, elapsed, exch, known, since, missed>>

-----------------------------------------------------------------------------
(* The server and the clock *)

Serve(s) ==
    /\ exch[s].kind # "none"
    /\ exch[s].stage = "sent"
    /\ exch[s].kind = "registration" \/ known
    /\ exch' = [exch EXCEPT ![s].stage = "served"]
    /\ known' = TRUE
    /\ since' = 0
    /\ missed' = 0
    /\ UNCHANGED <<lifetime, state, armed, elapsed, others, lost>>

Refuse(s) ==
    /\ exch[s].kind # "none"
    /\ exch[s].stage = "sent"
    /\ exch' = [exch EXCEPT ![s].stage = "refused"]
    /\ UNCHANGED <<lifetime, state, armed, elapsed, others, known, since, missed, lost>>

\* The registration expires, or the server restarts.
Forget ==
    /\ known
    /\ known' = FALSE
    /\ since' = 0
    /\ missed' = 0
    /\ UNCHANGED <<lifetime, state, armed, elapsed, exch, others, lost>>

\* Neither the timer nor an answer to the client's own requests is late.
Tick ==
    /\ ~lost
    /\ armed => elapsed < Period
    /\ \A s \in Slots : exch[s].kind # "none" => exch[s].age < Delay
    /\ elapsed' = IF armed THEN elapsed + 1 ELSE elapsed
    /\ exch' = [s \in Slots |-> IF exch[s].kind = "none" THEN exch[s]
                                ELSE [exch[s] EXCEPT !.age = @ + 1]]
    /\ since' = since + 1
    /\ UNCHANGED <<lifetime, state, armed, others, known, missed, lost>>

Next ==
    \/ TimerFires \/ AppUpdates \/ Notify
    \/ NotificationAnswer \/ LoseNotification
    \/ \E s \in Slots : \/ UpdateAnswer(s) \/ RegistrationAnswer(s) \/ Lose(s)
                        \/ Serve(s) \/ Refuse(s)
    \/ Forget \/ Tick

Spec == Init /\ [][Next]_vars

-----------------------------------------------------------------------------
TypeOK ==
    /\ lifetime \in Nat \ {0}
    /\ state \in {"REGISTERED", "UPDATING", "REGISTERING", "ERROR", "ABORTED"}
    /\ armed \in BOOLEAN
    /\ elapsed \in 0 .. Period
    /\ exch \in [Slots -> Exchanges]
    /\ others \in Nat
    /\ known \in BOOLEAN
    /\ since \in Nat
    /\ missed \in Nat
    /\ lost \in BOOLEAN

Updates == {s \in Slots : exch[s].kind = "update"}
Registrations == {s \in Slots : exch[s].kind = "registration"}

\* What is under way in each state: an update, though not always the one whose answer
\* ends UPDATING; one registration in REGISTERING and none elsewhere.
Awaited ==
    ~lost => /\ state \notin {"ERROR", "ABORTED"}
             /\ state \in {"REGISTERED", "UPDATING"} => armed
             /\ state = "UPDATING" => Updates # {}
             /\ state = "REGISTERING" <=> Registrations # {}
             /\ \A r, s \in Registrations : r = s

\* How late a refusal can make the next update: an interval and an exchange for each
\* one that the client missed.
Late == Delay + missed * (Period + Delay)

\* How long ago the server refreshed or forgot the registration, when none of the
\* client's requests was lost: a request that was served is younger than that, and
\* otherwise an update is due at the next expiry or is under way.
ClocksAgree ==
    ~lost =>
        /\ \A s \in Slots :
              (exch[s].kind # "none" /\ exch[s].stage = "served") => since <= exch[s].age
        /\ state = "REGISTERED" =>
              \/ since <= Late + elapsed
              \/ \E u \in Updates : since <= Late + Period + exch[u].age
        /\ state = "UPDATING" =>
              \E u \in Updates : since <= Late + Period + exch[u].age
        /\ state = "REGISTERING" =>
              \A r \in Registrations : since <= Late + Delay + Period + exch[r].age

\* The inductive invariant of Keepalive_proofs: the client's state, its requests under
\* way and the server's clock, over every order of their own and of foreign answers.
KeepaliveInv == TypeOK /\ Awaited /\ ClocksAgree

\* A lifetime that leaves time for an update: three exchanges after the minimum
\* interval, and three in the fifth of it that start_update_timer keeps free.
Ample ==
    /\ lifetime * PerSecond * TickRate >= Minimum * TickRate + 3 * Delay * PerSecond
    /\ lifetime * (PerSecond - Share) * TickRate >= 3 * Delay * PerSecond

\* With an ample lifetime a registration never outlives it at the server
\* (wb_lwm2m.c:512, "to avoid expiration"), whatever the two 32-bit products wrap to,
\* unless a request is lost or a refusal is missed: the timer in the wrong unit or a
\* product wrapping upwards would break it.  A period of 0 ticks aborts the client, and
\* nothing is claimed of that one.
RefreshedInTime ==
    (Ample /\ known /\ ~lost /\ missed = 0) => since <= lifetime * TickRate

\* A server that forgot the client has it back within one period and three exchanges
\* of forgetting it, and one period and one exchange more for every refusal the client
\* took no notice of, having taken another answer for the update's (wb_lwm2m.c:396),
\* unless a request is lost.
FoundOut ==
    (~known /\ ~lost) => since <= Period + 3 * Delay + missed * (Period + Delay)
=============================================================================
