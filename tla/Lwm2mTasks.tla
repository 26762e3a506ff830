------------------------------ MODULE Lwm2mTasks ------------------------------
(***************************************************************************)
(* The calls of src/src/wb_lwm2m.c cut at their accesses to the fields that  *)
(* tasks share without a lock: state, reg_location, update_timer and coap.   *)
(*                                                                          *)
(*   "app"    calls start, update_registration, stop and destroy in turn    *)
(*   "coap"   the CoAP client's task: coap_event_handler                    *)
(*   "timer"  the FreeRTOS timer task: update_timer_cb, and the commands     *)
(*            that xTimerStop and xTimerDelete queue                         *)
(*   "other"  any further task, inside wb_lwm2m_notify                       *)
(*                                                                          *)
(* pc is where a task is, "idle" outside the client's code.  Reads next to   *)
(* each other are one step: whatever happens between them happens as well    *)
(* after both.  Which value is written, when, and after which check, is kept; *)
(* objects, events and payloads are in Lwm2mClient.                          *)
(***************************************************************************)
EXTENDS Naturals

CONSTANTS
    Timers,   \* the timers FreeRTOS has memory for
    NoTimer   \* the NULL TimerHandle_t

ASSUME TimerAssumption == NoTimer \notin Timers

VARIABLES
    state,    \* client->state
    located,  \* is client->reg_location not empty?
    timer,    \* client->update_timer
    pool,     \* the FreeRTOS timers
    session,  \* the CoAP client that client->coap points to
    linkUp,   \* is it connected?
    asked,    \* its unanswered requests
    live,     \* between wb_lwm2m_init and the free of wb_lwm2m_destroy
    pc,       \* where each task is
    doing,    \* what stop_update_timer returns to: the call or event under way
    together, \* history: have two tasks been in the timer code at once?
    stale,    \* history: has a state been written after a check that no longer held?
    misuse    \* the first use of something that is gone; nothing happens after it

stateVars == <<state, stale>>
timerVars == <<timer, pool>>
linkVars == <<session, linkUp, asked>>
vars == <<stateVars, located, timerVars, linkVars, live, pc, doing, misuse, together>>

Tasks == {"app", "coap", "timer", "other"}
States == {"IDLE", "CONNECTING", "REGISTERING", "REGISTERED", "UPDATING",
           "DEREGISTERING", "ERROR"}
Answers == {"created", "rejected", "changed", "refused"}

\* The places inside stop_update_timer and start_update_timer.
TimerCode == {"timer_check", "timer_stop", "timer_delete", "timer_clear", "timer_create",
              "timer_made", "timer_start"}
UpdateCode == {"update_check", "updating", "post_update", "restore"}
AppCode == {"init", "connecting", "run", "revert", "stop_check", "deregister", "delete",
            "join", "stopped", "forget", "free_session", "free_client"}
CoapCode == {"dispatch", "register", "post_register", "failed", "lost", "clear",
             "locate", "registered", "fail", "updated", "renew", "gone"}

TypeOK ==
    /\ state \in States
    /\ located \in BOOLEAN
    /\ timer \in Timers \cup {NoTimer}
    /\ pool \in [Timers -> {"free", "dormant", "active", "doomed"}]
    /\ session \in {"none", "stopped", "running"}
    /\ linkUp \in BOOLEAN
    /\ asked \subseteq {"register", "other"}
    /\ live \in BOOLEAN
    /\ pc \in [Tasks -> {"idle", "post_notify"} \cup TimerCode \cup UpdateCode
                        \cup AppCode \cup CoapCode]
    /\ doing \in [{"app", "coap"} -> Answers \cup {"nothing", "stop", "destroy",
                                                   "lost", "error", "renew"}]
    /\ stale \in BOOLEAN
    /\ together \in BOOLEAN
    /\ misuse \in {"none", "timer", "client", "session"}

\* A client fresh from wb_lwm2m_init.
Init ==
    /\ state = "IDLE"
    /\ located = FALSE
    /\ timer = NoTimer
    /\ pool = [h \in Timers |-> "free"]
    /\ session = "none"
    /\ linkUp = FALSE
    /\ asked = {}
    /\ live = TRUE
    /\ pc = [t \in Tasks |-> "idle"]
    /\ doing = [t \in {"app", "coap"} |-> "nothing"]
    /\ stale = FALSE
    /\ together = FALSE
    /\ misuse = "none"

-----------------------------------------------------------------------------
(* Steps *)

At(t, place) == pc[t] = place
Go(t, place) == pc' = [pc EXCEPT ![t] = place]

\* An assignment to state by a task that found it to be old when it decided so.
Moves(old, new) == state' = new /\ stale' = (stale \/ state # old)

\* An assignment to state that asks for nothing.
Sets(s) == state' = s /\ UNCHANGED stale

Finished(t) == doing' = [doing EXCEPT ![t] = "nothing"]

Misuse(what) ==
    /\ misuse' = what
    /\ UNCHANGED <<stateVars, located, timerVars, linkVars, live, pc, doing>>

\* wb_coap_client_post or _delete
Posts(kind, accepted) ==
    /\ asked' = IF accepted THEN asked \cup {kind} ELSE asked
    /\ UNCHANGED <<session, linkUp>>

\* A POST without a CoAP client.
MisuseSession(t) ==
    /\ pc[t] \in {"post_update", "post_notify"}
    /\ session = "none"
    /\ Misuse("session")

-----------------------------------------------------------------------------
(* stop_update_timer, by the application or the CoAP task *)

Usable(h) == h # NoTimer /\ pool[h] \in {"dormant", "active"}

\* FreeRTOS is given a handle that is NULL or deleted; only destroy
\* compares it with NULL at the same step.
MisuseTimer ==
    /\ \/ \E t \in {"app", "coap"} : pc[t] \in {"timer_stop", "timer_delete", "timer_start"}
       \/ timer # NoTimer /\ At("app", "free_session")
    /\ ~Usable(timer)
    /\ Misuse("timer")

AfterStopTimer(t) ==
    CASE t = "app" -> "stop_check"
      [] t = "coap" /\ doing[t] = "lost" -> "lost"
      [] OTHER -> "timer_create"

TimerCheck(t) ==
    /\ At(t, "timer_check")
    /\ Go(t, IF timer # NoTimer THEN "timer_stop" ELSE AfterStopTimer(t))
    /\ UNCHANGED <<stateVars, located, timerVars, linkVars, live, doing, misuse>>

\* xTimerStop only queues a command, which the deletion overtakes in effect.
TimerStop(t) ==
    /\ At(t, "timer_stop")
    /\ Usable(timer)
    /\ Go(t, "timer_delete")
    /\ UNCHANGED <<stateVars, located, timerVars, linkVars, live, doing, misuse>>

\* xTimerDelete: the timer may still expire until its task gets to the command.
TimerDelete(t) ==
    /\ At(t, "timer_delete")
    /\ Usable(timer)
    /\ pool' = [pool EXCEPT ![timer] = "doomed"]
    /\ Go(t, "timer_clear")
    /\ UNCHANGED <<stateVars, located, timer, linkVars, live, doing, misuse>>

\* Variant: the handle is kept.
TimerClearForgotten(t) ==
    /\ At(t, "timer_clear")
    /\ Go(t, AfterStopTimer(t))
    /\ UNCHANGED <<stateVars, located, timerVars, linkVars, live, doing, misuse>>

TimerClear(t) ==
    /\ At(t, "timer_clear")
    /\ timer' = NoTimer
    /\ Go(t, AfterStopTimer(t))
    /\ UNCHANGED <<stateVars, located, pool, linkVars, live, doing, misuse>>

StopUpdateTimer(t) ==
    TimerCheck(t) \/ TimerStop(t) \/ TimerDelete(t) \/ TimerClear(t)

(* The rest of start_update_timer *)

TimerCreate ==
    /\ At("coap", "timer_create")
    /\ \/ \E h \in Timers : /\ pool[h] = "free"
                            /\ timer' = h
                            /\ pool' = [pool EXCEPT ![h] = "dormant"]
       \/ timer' = NoTimer /\ UNCHANGED pool
    /\ Go("coap", "timer_made")
    /\ UNCHANGED <<stateVars, located, linkVars, live, doing, misuse>>

TimerTest ==
    /\ At("coap", "timer_made")
    /\ Go("coap", IF timer # NoTimer THEN "timer_start" ELSE "idle")
    /\ UNCHANGED <<stateVars, located, timerVars, linkVars, live, doing, misuse>>

\* The handle is read anew.
TimerStart ==
    /\ At("coap", "timer_start")
    /\ Usable(timer)
    /\ pool' = [pool EXCEPT ![timer] = "active"]
    /\ Go("coap", "idle")
    /\ UNCHANGED <<stateVars, located, timer, linkVars, live, doing, misuse>>

-----------------------------------------------------------------------------
(* wb_lwm2m_update_registration, by the application or the timer task *)

UpdateCheck(t) ==
    /\ At(t, "update_check")
    /\ Go(t, IF state = "REGISTERED" /\ located THEN "updating" ELSE "idle")
    /\ UNCHANGED <<stateVars, located, timerVars, linkVars, live, doing, misuse>>

Updating(t) ==
    /\ At(t, "updating")
    /\ Moves("REGISTERED", "UPDATING")
    /\ Go(t, "post_update")
    /\ UNCHANGED <<located, timerVars, linkVars, live, doing, misuse>>

PostUpdate(t) ==
    /\ At(t, "post_update")
    /\ session # "none"
    /\ \E accepted \in BOOLEAN :
          /\ Posts("other", accepted)
          /\ Go(t, IF accepted THEN "idle" ELSE "restore")
    /\ UNCHANGED <<stateVars, located, timerVars, live, doing, misuse>>

Restore(t) ==
    /\ At(t, "restore")
    /\ Moves("UPDATING", "REGISTERED")
    /\ Go(t, "idle")
    /\ UNCHANGED <<located, timerVars, linkVars, live, doing, misuse>>

UpdateRegistration(t) == UpdateCheck(t) \/ Updating(t) \/ PostUpdate(t) \/ Restore(t)

-----------------------------------------------------------------------------
(* The application *)

AppUpdate ==
    /\ At("app", "idle")
    /\ Go("app", "update_check")
    /\ UNCHANGED <<stateVars, located, timerVars, linkVars, live, doing, misuse>>

\* wb_lwm2m_start
StartCheck ==
    /\ At("app", "idle")
    /\ state = "IDLE"
    /\ Go("app", "init")
    /\ UNCHANGED <<stateVars, located, timerVars, linkVars, live, doing, misuse>>

InitSession ==
    /\ At("app", "init")
    /\ session' \in {"stopped", "none"}
    /\ Go("app", IF session' = "stopped" THEN "connecting" ELSE "idle")
    /\ linkUp' = FALSE
    /\ asked' = {}
    /\ UNCHANGED <<stateVars, located, timerVars, live, doing, misuse>>

Connecting ==
    /\ At("app", "connecting")
    /\ Sets("CONNECTING")
    /\ Go("app", "run")
    /\ UNCHANGED <<located, timerVars, linkVars, live, doing, misuse>>

RunSession ==
    /\ At("app", "run")
    /\ session' \in {"running", "none"}
    /\ Go("app", IF session' = "running" THEN "idle" ELSE "revert")
    /\ UNCHANGED <<stateVars, located, timerVars, linkUp, asked, live, doing, misuse>>

Revert ==
    /\ At("app", "revert")
    /\ Sets("IDLE")
    /\ Go("app", "idle")
    /\ UNCHANGED <<located, timerVars, linkVars, live, doing, misuse>>

\* wb_lwm2m_stop and wb_lwm2m_destroy begin; destroy stops what is not IDLE.
BeginStop ==
    /\ At("app", "idle")
    /\ doing' = [doing EXCEPT !["app"] = "stop"]
    /\ Go("app", "timer_check")
    /\ UNCHANGED <<stateVars, located, timerVars, linkVars, live, misuse>>

BeginDestroy ==
    /\ At("app", "idle")
    /\ doing' = [doing EXCEPT !["app"] = "destroy"]
    /\ Go("app", IF state # "IDLE" THEN "timer_check" ELSE "free_session")
    /\ UNCHANGED <<stateVars, located, timerVars, linkVars, live, misuse>>

StopCheck ==
    /\ At("app", "stop_check")
    /\ Go("app", IF state = "REGISTERED" /\ located THEN "deregister" ELSE "join")
    /\ UNCHANGED <<stateVars, located, timerVars, linkVars, live, doing, misuse>>

Deregister ==
    /\ At("app", "deregister")
    /\ Moves("REGISTERED", "DEREGISTERING")
    /\ Go("app", "delete")
    /\ UNCHANGED <<located, timerVars, linkVars, live, doing, misuse>>

\* The result is not looked at; the delay that follows is a stay at "join".
Delete ==
    /\ At("app", "delete")
    /\ \E accepted \in BOOLEAN : Posts("other", accepted)
    /\ Go("app", "join")
    /\ UNCHANGED <<stateVars, located, timerVars, live, doing, misuse>>

\* Variant: wb_coap_client_stop does not wait for its task.
StopSessionDetached ==
    /\ At("app", "join")
    /\ session' = IF session = "running" THEN "stopped" ELSE session
    /\ linkUp' = FALSE
    /\ asked' = {}
    /\ Go("app", "stopped")
    /\ UNCHANGED <<stateVars, located, timerVars, live, doing, misuse>>

\* Variant: a client that is IDLE already is taken to have stopped.
StopSessionUnlessIdle ==
    /\ At("app", "join")
    /\ At("coap", "idle")
    /\ session' = IF session = "running" /\ state # "IDLE" THEN "stopped" ELSE session
    /\ Go("app", "stopped")
    /\ UNCHANGED <<stateVars, located, timerVars, linkUp, asked, live, doing, misuse>>

StopSession ==
    /\ At("app", "join")
    /\ session = "running" => At("coap", "idle")
    /\ session' = IF session = "running" THEN "stopped" ELSE session
    /\ linkUp' = FALSE
    /\ asked' = {}
    /\ Go("app", "stopped")
    /\ UNCHANGED <<stateVars, located, timerVars, live, doing, misuse>>

Stopped ==
    /\ At("app", "stopped")
    /\ Sets("IDLE")
    /\ Go("app", "forget")
    /\ UNCHANGED <<located, timerVars, linkVars, live, doing, misuse>>

Forget ==
    /\ At("app", "forget")
    /\ located' = FALSE
    /\ Go("app", IF doing["app"] = "destroy" THEN "free_session" ELSE "idle")
    /\ Finished("app")
    /\ UNCHANGED <<stateVars, timerVars, linkVars, live, misuse>>

\* The rest of wb_lwm2m_destroy; wb_coap_client_destroy ends the session's task.
FreeSession ==
    /\ At("app", "free_session")
    /\ session = "running" => At("coap", "idle")
    /\ timer # NoTimer => Usable(timer)
    /\ timer' = NoTimer
    /\ pool' = [h \in Timers |-> IF h = timer THEN "doomed" ELSE pool[h]]
    /\ session' = "none"
    /\ linkUp' = FALSE
    /\ asked' = {}
    /\ Go("app", "free_client")
    /\ UNCHANGED <<stateVars, located, live, doing, misuse>>

FreeClient ==
    /\ At("app", "free_client")
    /\ live' = FALSE
    /\ Go("app", "idle")
    /\ Finished("app")
    /\ UNCHANGED <<stateVars, located, timerVars, linkVars, misuse>>

Application ==
    \/ StopUpdateTimer("app") \/ UpdateRegistration("app")
    \/ AppUpdate \/ StartCheck \/ InitSession \/ Connecting \/ RunSession \/ Revert
    \/ BeginStop \/ BeginDestroy \/ StopCheck \/ Deregister \/ Delete \/ StopSession
    \/ Stopped \/ Forget \/ FreeSession \/ FreeClient

-----------------------------------------------------------------------------
(* The CoAP task: coap_event_handler *)

Listening == session = "running" /\ At("coap", "idle")

Connected ==
    /\ Listening
    /\ ~linkUp
    /\ linkUp' = TRUE
    /\ Go("coap", "register")
    /\ UNCHANGED <<stateVars, located, timerVars, session, asked, live, doing, misuse>>

\* send_registration
Register ==
    /\ At("coap", "register")
    /\ Sets("REGISTERING")
    /\ Go("coap", "post_register")
    /\ UNCHANGED <<located, timerVars, linkVars, live, doing, misuse>>

\* Variant: the results of the encoder and of the POST are not looked at.
PostRegisterUnchecked ==
    /\ At("coap", "post_register")
    /\ \E accepted \in BOOLEAN : Posts("register", accepted)
    /\ Go("coap", "idle")
    /\ UNCHANGED <<stateVars, located, timerVars, live, doing, misuse>>

PostRegister ==
    /\ At("coap", "post_register")
    /\ \E accepted \in BOOLEAN :
          /\ Posts("register", accepted)
          /\ Go("coap", IF accepted THEN "idle" ELSE "failed")
    /\ UNCHANGED <<stateVars, located, timerVars, live, doing, misuse>>

Failed ==
    /\ At("coap", "failed")
    /\ Sets("ERROR")
    /\ Go("coap", "idle")
    /\ UNCHANGED <<located, timerVars, linkVars, live, doing, misuse>>

Disconnected ==
    /\ Listening
    /\ linkUp
    /\ linkUp' = FALSE
    /\ asked' = {}
    /\ doing' = [doing EXCEPT !["coap"] = "lost"]
    /\ Go("coap", "timer_check")
    /\ UNCHANGED <<stateVars, located, timerVars, session, live, misuse>>

Lost ==
    /\ At("coap", "lost")
    /\ Sets("ERROR")
    /\ Go("coap", "clear")
    /\ UNCHANGED <<located, timerVars, linkVars, live, doing, misuse>>

Clear ==
    /\ At("coap", "clear")
    /\ located' = FALSE
    /\ Go("coap", IF doing["coap"] = "renew" THEN "register" ELSE "idle")
    /\ Finished("coap")
    /\ UNCHANGED <<stateVars, timerVars, linkVars, live, misuse>>

\* RESPONSE, and ERROR for a request that got none.
Ends(kind, event) ==
    /\ Listening
    /\ linkUp
    /\ kind \in asked
    /\ asked' = asked \ {kind}
    /\ doing' = [doing EXCEPT !["coap"] = event]
    /\ Go("coap", "dispatch")
    /\ UNCHANGED <<stateVars, located, timerVars, session, linkUp, live, misuse>>

Answered ==
    \/ \E answer \in {"created", "rejected"} : Ends("register", answer)
    \/ \E answer \in {"changed", "refused"} : Ends("other", answer)

CoapError == \E kind \in asked : Ends(kind, "error")

\* The branch taken; only the answer to /rd counts while REGISTERING.
Branch(event) ==
    CASE state = "REGISTERING" /\ event = "created" -> "locate"
      [] state = "REGISTERING" /\ event \in {"rejected", "error"} -> "fail"
      [] state = "UPDATING" /\ event = "changed" -> "updated"
      [] state = "UPDATING" /\ event \in Answers \ {"changed"} -> "renew"
      [] state = "DEREGISTERING" /\ event \in Answers -> "gone"
      [] OTHER -> "idle"

Dispatch ==
    /\ At("coap", "dispatch")
    /\ Go("coap", Branch(doing["coap"]))
    /\ Finished("coap")
    /\ UNCHANGED <<stateVars, located, timerVars, linkVars, live, misuse>>

\* Variant: an answer without a Location-Path leaves reg_location as it is.
LocateNoFallback ==
    /\ At("coap", "locate")
    /\ located' \in {located, TRUE}
    /\ Go("coap", "registered")
    /\ UNCHANGED <<stateVars, timerVars, linkVars, live, doing, misuse>>

Locate ==
    /\ At("coap", "locate")
    /\ located' = TRUE
    /\ Go("coap", "registered")
    /\ UNCHANGED <<stateVars, timerVars, linkVars, live, doing, misuse>>

\* Variant: start_update_timer does not stop the timer there is.
RegisteredKeepsTimer ==
    /\ At("coap", "registered")
    /\ Moves("REGISTERING", "REGISTERED")
    /\ Go("coap", "timer_create")
    /\ UNCHANGED <<located, timerVars, linkVars, live, doing, misuse>>

Registered ==
    /\ At("coap", "registered")
    /\ Moves("REGISTERING", "REGISTERED")
    /\ Go("coap", "timer_check")
    /\ UNCHANGED <<located, timerVars, linkVars, live, doing, misuse>>

Fail ==
    /\ At("coap", "fail")
    /\ Moves("REGISTERING", "ERROR")
    /\ Go("coap", "idle")
    /\ UNCHANGED <<located, timerVars, linkVars, live, doing, misuse>>

Updated ==
    /\ At("coap", "updated")
    /\ Moves("UPDATING", "REGISTERED")
    /\ Go("coap", "idle")
    /\ UNCHANGED <<located, timerVars, linkVars, live, doing, misuse>>

Renew ==
    /\ At("coap", "renew")
    /\ Moves("UPDATING", "REGISTERING")
    /\ doing' = [doing EXCEPT !["coap"] = "renew"]
    /\ Go("coap", "clear")
    /\ UNCHANGED <<located, timerVars, linkVars, live, misuse>>

Gone ==
    /\ At("coap", "gone")
    /\ Moves("DEREGISTERING", "IDLE")
    /\ Go("coap", "clear")
    /\ UNCHANGED <<located, timerVars, linkVars, live, doing, misuse>>

CoapTask ==
    \/ StopUpdateTimer("coap") \/ TimerCreate \/ TimerTest \/ TimerStart
    \/ Connected \/ Register \/ PostRegister \/ Failed
    \/ Disconnected \/ Lost \/ Clear \/ Answered \/ CoapError \/ Dispatch
    \/ Locate \/ Registered \/ Fail \/ Updated \/ Renew \/ Gone

-----------------------------------------------------------------------------
(* The timer task, and whoever notifies *)

\* update_timer_cb looks at state before wb_lwm2m_update_registration does.
TimerFires ==
    /\ At("timer", "idle")
    /\ \E h \in Timers : pool[h] \in {"active", "doomed"}
    /\ live
    /\ state = "REGISTERED"
    /\ Go("timer", "update_check")
    /\ UNCHANGED <<stateVars, located, timerVars, linkVars, live, doing, misuse>>

\* The deletion takes effect between two callbacks.
Reap ==
    /\ At("timer", "idle")
    /\ \E h \in Timers : pool[h] = "doomed" /\ pool' = [pool EXCEPT ![h] = "free"]
    /\ UNCHANGED <<stateVars, located, timer, linkVars, live, pc, doing, misuse>>

\* wb_lwm2m_notify
NotifyCheck ==
    /\ At("other", "idle")
    /\ live
    /\ state = "REGISTERED"
    /\ Go("other", "post_notify")
    /\ UNCHANGED <<stateVars, located, timerVars, linkVars, live, doing, misuse>>

PostNotify ==
    /\ At("other", "post_notify")
    /\ session # "none"
    /\ \E accepted \in BOOLEAN : Posts("other", accepted)
    /\ Go("other", "idle")
    /\ UNCHANGED <<stateVars, located, timerVars, live, doing, misuse>>

\* A call, or a timer, that outlives the client reads freed memory.
Outlived ==
    /\ ~live
    /\ \/ \E t \in {"timer", "other"} : ~At(t, "idle")
       \/ At("timer", "idle") /\ \E h \in Timers : pool[h] \in {"active", "doomed"}
    /\ Misuse("client")

Acts ==
    \/ live /\ (Application \/ CoapTask \/ UpdateRegistration("timer") \/ PostNotify)
    \/ live /\ (MisuseTimer \/ \E t \in Tasks : MisuseSession(t))
    \/ TimerFires \/ Reap \/ NotifyCheck \/ Outlived

Next ==
    /\ misuse = "none"
    /\ Acts
    /\ together' = (together \/ {pc'["app"], pc'["coap"]} \subseteq TimerCode)

Spec == Init /\ [][Next]_vars

-----------------------------------------------------------------------------
(* Properties.  Those that end in "\/ stale" hold until some task has acted on a  *)
(* check of state that another task has outrun since: the code has no other way   *)
(* to break them.                                                                *)

\* An application that calls update_registration, start or stop in any order against
\* the CoAP and timer tasks never has a registration without the location to update
\* or end it: reg_location is emptied after, and set before, state says so.
HeldHasLocation == state \in {"REGISTERED", "UPDATING"} => located \/ stale

\* Between its calls the application finds the client IDLE only when no CoAP client
\* runs, so that a second start never overwrites the handle of one that does; and stop
\* and a start that failed leave it IDLE, whatever the other tasks were about to do.
IdleMeansStopped ==
    (live /\ At("app", "idle")) =>
        /\ state = "IDLE" => session # "running"
        /\ session # "running" => state = "IDLE" \/ stale

\* No timer is left running with nobody to stop it, through registrations renewed,
\* lost and stopped (update_timer against FreeRTOS's timers), unless the application
\* and the CoAP task have been in stop_update_timer together.
TimerIsOwned == ~together => \A h \in Timers : pool[h] \in {"dormant", "active"} => timer = h

\* A deleted timer is used again only when those two are there together: the
\* handle is read, deleted and set to NULL in separate steps.
TimerMisusedOnlyTogether == misuse = "timer" => together

\* A client that waits for the answer to its registration has asked for one.
AwaitedIsAsked ==
    (state = "REGISTERING" /\ session = "running" /\ At("coap", "idle"))
        => "register" \in asked \/ stale

-----------------------------------------------------------------------------
(* What they need to be inductive *)

Held == {"REGISTERED", "UPDATING"}

\* The CoAP task is in the client only while its session runs; start has none.
CallsMatchSession ==
    /\ session # "running" => At("coap", "idle")
    /\ pc["app"] \in {"connecting", "run", "revert", "stopped", "forget", "free_session",
                     "free_client"} => session # "running"

\* Where reg_location is about to be set or emptied, state does not claim it.
LocationInv ==
    stale \/ /\ state \in Held => located
             /\ At("coap", "registered") => located
             /\ At("coap", "clear") => state \notin Held
             /\ At("app", "forget") => state = "IDLE"

\* IDLE goes with a session that does not run, but for the calls that change both;
\* only stop sets DEREGISTERING, and waits for the answer at "join".
SessionInv ==
    /\ session # "running" =>
           state = "IDLE" \/ pc["app"] \in {"run", "revert", "stopped"} \/ stale
    /\ pc["app"] \in {"init", "connecting"} => session # "running"
    /\ session = "running" /\ state = "IDLE" => pc["app"] \in {"delete", "join"}
    /\ state = "DEREGISTERING" => pc["app"] \in {"delete", "join", "stopped"}
    /\ At("coap", "gone") => pc["app"] \in {"delete", "join"}
    /\ At("app", "run") => state \in {"CONNECTING", "UPDATING", "REGISTERED"}

\* Where the CoAP task is while REGISTERING has no request.
RequestInv ==
    stale \/ (session = "running" /\ state = "REGISTERING" =>
                \/ "register" \in asked
                \/ pc["coap"] \in {"post_register", "failed", "locate", "registered", "fail",
                                   "lost"}
                \/ At("coap", "dispatch") /\ doing["coap"] \in {"created", "rejected", "error"}
                \/ At("coap", "clear") /\ doing["coap"] = "renew"
                \/ At("coap", "register")
                \/ pc["coap"] \in {"timer_check", "timer_stop", "timer_delete", "timer_clear"}
                   /\ doing["coap"] = "lost")

\* While one task at most is in the timer code, the handle is right for each place.
TimerInv ==
    together \/
        /\ ~({pc["app"], pc["coap"]} \subseteq TimerCode)
        /\ misuse # "timer"
        /\ \A h \in Timers : pool[h] \in {"dormant", "active"} => timer = h
        /\ timer # NoTimer =>
               \/ pool[timer] \in {"dormant", "active"}
               \/ \E t \in {"app", "coap"} : At(t, "timer_clear")
        /\ \A t \in {"app", "coap"} :
               /\ pc[t] \in {"timer_stop", "timer_delete", "timer_clear", "timer_start"} =>
                      timer # NoTimer
               /\ At(t, "timer_clear") => pool[timer] \notin {"dormant", "active"}
        /\ At("coap", "timer_create") => timer = NoTimer

\* The inductive invariant of Lwm2mTasks_proofs.
IInv ==
    /\ TypeOK
    /\ CallsMatchSession
    /\ LocationInv
    /\ SessionInv
    /\ RequestInv
    /\ TimerInv
=============================================================================
