-------------------------- MODULE Lwm2mTasks_proofs --------------------------
(* What holds of Lwm2mTasks for any number of timers: one lemma for each conjunct of *)
(* its inductive invariant, with a step for each action.                            *)
EXTENDS Lwm2mTasks, TLAPS

\* Every step keeps the types.
LEMMA TypeOKStep == IInv /\ Next => TypeOK'
<1> SUFFICES ASSUME IInv, misuse = "none", Acts,
                    together' = (together \/ {pc'["app"], pc'["coap"]} \subseteq TimerCode)
             PROVE  TypeOK'
  BY DEF Next
<1> USE TimerAssumption DEF IInv, Tasks, At, Go, Moves, Sets, Finished, Misuse, Posts, Listening,
           Usable, AfterStopTimer, TimerCode, stateVars, timerVars, linkVars,
           TypeOK, States, UpdateCode, AppCode, CoapCode, Answers
<1>1. CASE AppUpdate BY <1>1 DEF AppUpdate
<1>2. CASE StartCheck BY <1>2 DEF StartCheck
<1>3. CASE InitSession BY <1>3 DEF InitSession
<1>4. CASE Connecting BY <1>4 DEF Connecting
<1>5. CASE RunSession BY <1>5 DEF RunSession
<1>6. CASE Revert BY <1>6 DEF Revert
<1>7. CASE BeginStop BY <1>7 DEF BeginStop
<1>8. CASE BeginDestroy BY <1>8 DEF BeginDestroy
<1>9. CASE StopCheck BY <1>9 DEF StopCheck
<1>10. CASE Deregister BY <1>10 DEF Deregister
<1>11. CASE Delete BY <1>11 DEF Delete
<1>12. CASE StopSession BY <1>12 DEF StopSession
<1>13. CASE Stopped BY <1>13 DEF Stopped
<1>14. CASE Forget BY <1>14 DEF Forget
<1>15. CASE FreeSession BY <1>15 DEF FreeSession
<1>16. CASE FreeClient BY <1>16 DEF FreeClient
<1>17. CASE TimerCreate BY <1>17 DEF TimerCreate
<1>18. CASE TimerStart BY <1>18 DEF TimerStart
<1>51. CASE TimerTest BY <1>51 DEF TimerTest
<1>19. CASE Connected BY <1>19 DEF Connected
<1>20. CASE Register BY <1>20 DEF Register
<1>21. CASE PostRegister
  <2>1. PICK accepted \in BOOLEAN :
               /\ At("coap", "post_register")
               /\ Posts("register", accepted)
               /\ Go("coap", IF accepted THEN "idle" ELSE "failed")
               /\ UNCHANGED <<stateVars, located, timerVars, live, doing, misuse>>
    BY <1>21 DEF PostRegister
  <2>2. CASE accepted
    BY <2>1, <2>2
  <2>3. CASE ~accepted
    BY <2>1, <2>3
  <2>4. QED
    BY <2>2, <2>3
<1>22. CASE Failed BY <1>22 DEF Failed
<1>23. CASE Disconnected BY <1>23 DEF Disconnected
<1>24. CASE Lost BY <1>24 DEF Lost
<1>25. CASE Clear BY <1>25 DEF Clear
<1>26. CASE Answered
  <2>1. CASE Ends("register", "created")
    BY <2>1 DEF Ends
  <2>2. CASE Ends("register", "rejected")
    BY <2>2 DEF Ends
  <2>3. CASE Ends("other", "changed")
    BY <2>3 DEF Ends
  <2>4. CASE Ends("other", "refused")
    BY <2>4 DEF Ends
  <2>5. QED
    BY <1>26, <2>1, <2>2, <2>3, <2>4 DEF Answered
<1>27. CASE CoapError
  <2>1. PICK kind \in asked : Ends(kind, "error")
    BY <1>27 DEF CoapError
  <2>2. QED
    BY <2>1 DEF Ends
<1>28. CASE Dispatch BY <1>28 DEF Dispatch, Branch, Answers
<1>29. CASE Locate BY <1>29 DEF Locate
<1>30. CASE Registered BY <1>30 DEF Registered
<1>31. CASE Fail BY <1>31 DEF Fail
<1>32. CASE Updated BY <1>32 DEF Updated
<1>33. CASE Renew BY <1>33 DEF Renew
<1>34. CASE Gone BY <1>34 DEF Gone
<1>35. CASE PostNotify BY <1>35 DEF PostNotify
<1>36. CASE MisuseTimer BY <1>36 DEF MisuseTimer
<1>37. CASE TimerFires BY <1>37 DEF TimerFires
<1>38. CASE Reap BY <1>38 DEF Reap
<1>39. CASE NotifyCheck BY <1>39 DEF NotifyCheck
<1>40. CASE Outlived BY <1>40 DEF Outlived
<1>41. ASSUME NEW t \in {"app", "coap"}, TimerCheck(t) PROVE TypeOK' BY <1>41 DEF TimerCheck
<1>42. ASSUME NEW t \in {"app", "coap"}, TimerStop(t) PROVE TypeOK' BY <1>42 DEF TimerStop
<1>43. ASSUME NEW t \in {"app", "coap"}, TimerDelete(t) PROVE TypeOK' BY <1>43 DEF TimerDelete
<1>44. ASSUME NEW t \in {"app", "coap"}, TimerClear(t) PROVE TypeOK' BY <1>44 DEF TimerClear
<1>45. ASSUME NEW t \in {"app", "timer"}, UpdateCheck(t) PROVE TypeOK' BY <1>45 DEF UpdateCheck
<1>46. ASSUME NEW t \in {"app", "timer"}, Updating(t) PROVE TypeOK' BY <1>46 DEF Updating
<1>47. ASSUME NEW t \in {"app", "timer"}, PostUpdate(t) PROVE TypeOK'
  <2>1. PICK accepted \in BOOLEAN :
               /\ At(t, "post_update")
               /\ Posts("other", accepted)
               /\ Go(t, IF accepted THEN "idle" ELSE "restore")
               /\ UNCHANGED <<stateVars, located, timerVars, live, doing, misuse>>
    BY <1>47 DEF PostUpdate
  <2>2. CASE accepted
    BY <2>1, <2>2
  <2>3. CASE ~accepted
    BY <2>1, <2>3
  <2>4. QED
    BY <2>2, <2>3
<1>48. ASSUME NEW t \in {"app", "timer"}, Restore(t) PROVE TypeOK' BY <1>48 DEF Restore
<1>49. ASSUME NEW t \in Tasks, MisuseSession(t) PROVE TypeOK' BY <1>49 DEF MisuseSession
<1>50. QED
  <2> HIDE TimerAssumption DEF IInv, Tasks, At, Go, Moves, Sets, Finished, Misuse, Posts, Listening,
           Usable, AfterStopTimer, TimerCode, stateVars, timerVars, linkVars,
              TypeOK, States, UpdateCode, AppCode, CoapCode, Answers
  <2>1. QED
    BY <1>1, <1>2, <1>3, <1>4, <1>5, <1>6, <1>7, <1>8, <1>9, <1>10, <1>11, <1>12, 
       <1>13, <1>14, <1>15, <1>16, <1>17, <1>18, <1>19, <1>20, <1>21, <1>22, <1>23, <1>24, 
       <1>25, <1>26, <1>27, <1>28, <1>29, <1>30, <1>31, <1>32, <1>33, <1>34, <1>35, <1>36, 
       <1>37, <1>38, <1>39, <1>40, <1>41, <1>42, <1>43, <1>44, <1>45, <1>46, <1>47, <1>48, 
       <1>49, <1>51
       DEF Acts, Application, CoapTask, StopUpdateTimer, UpdateRegistration

\* Every step keeps the CoAP task out of the client while its session does not run.
LEMMA CallsMatchSessionStep == IInv /\ Next => CallsMatchSession'
<1> SUFFICES ASSUME IInv, misuse = "none", Acts,
                    together' = (together \/ {pc'["app"], pc'["coap"]} \subseteq TimerCode)
             PROVE  CallsMatchSession'
  BY DEF Next
<1> USE TimerAssumption DEF IInv, Tasks, At, Go, Moves, Sets, Finished, Misuse, Posts, Listening,
           Usable, AfterStopTimer, TimerCode, stateVars, timerVars, linkVars,
           TypeOK, CallsMatchSession, SessionInv
<1>1. CASE AppUpdate BY <1>1 DEF AppUpdate
<1>2. CASE StartCheck BY <1>2 DEF StartCheck
<1>3. CASE InitSession BY <1>3 DEF InitSession
<1>4. CASE Connecting BY <1>4 DEF Connecting
<1>5. CASE RunSession BY <1>5 DEF RunSession
<1>6. CASE Revert BY <1>6 DEF Revert
<1>7. CASE BeginStop BY <1>7 DEF BeginStop
<1>8. CASE BeginDestroy BY <1>8 DEF BeginDestroy
<1>9. CASE StopCheck BY <1>9 DEF StopCheck
<1>10. CASE Deregister BY <1>10 DEF Deregister
<1>11. CASE Delete BY <1>11 DEF Delete
<1>12. CASE StopSession BY <1>12 DEF StopSession
<1>13. CASE Stopped BY <1>13 DEF Stopped
<1>14. CASE Forget BY <1>14 DEF Forget
<1>15. CASE FreeSession BY <1>15 DEF FreeSession
<1>16. CASE FreeClient BY <1>16 DEF FreeClient
<1>17. CASE TimerCreate BY <1>17 DEF TimerCreate
<1>18. CASE TimerStart BY <1>18 DEF TimerStart
<1>51. CASE TimerTest BY <1>51 DEF TimerTest
<1>19. CASE Connected BY <1>19 DEF Connected
<1>20. CASE Register BY <1>20 DEF Register
<1>21. CASE PostRegister BY <1>21 DEF PostRegister
<1>22. CASE Failed BY <1>22 DEF Failed
<1>23. CASE Disconnected BY <1>23 DEF Disconnected
<1>24. CASE Lost BY <1>24 DEF Lost
<1>25. CASE Clear BY <1>25 DEF Clear
<1>26. CASE Answered BY <1>26 DEF Answered, Ends
<1>27. CASE CoapError
  <2>1. PICK kind \in asked : Ends(kind, "error")
    BY <1>27 DEF CoapError
  <2>2. QED
    BY <2>1 DEF Ends
<1>28. CASE Dispatch BY <1>28 DEF Dispatch, Branch, Answers
<1>29. CASE Locate BY <1>29 DEF Locate
<1>30. CASE Registered BY <1>30 DEF Registered
<1>31. CASE Fail BY <1>31 DEF Fail
<1>32. CASE Updated BY <1>32 DEF Updated
<1>33. CASE Renew BY <1>33 DEF Renew
<1>34. CASE Gone BY <1>34 DEF Gone
<1>35. CASE PostNotify BY <1>35 DEF PostNotify
<1>36. CASE MisuseTimer BY <1>36 DEF MisuseTimer
<1>37. CASE TimerFires BY <1>37 DEF TimerFires
<1>38. CASE Reap BY <1>38 DEF Reap
<1>39. CASE NotifyCheck BY <1>39 DEF NotifyCheck
<1>40. CASE Outlived BY <1>40 DEF Outlived
<1>41. ASSUME NEW t \in {"app", "coap"}, TimerCheck(t) PROVE CallsMatchSession'
  BY <1>41 DEF TimerCheck
<1>42. ASSUME NEW t \in {"app", "coap"}, TimerStop(t) PROVE CallsMatchSession'
  BY <1>42 DEF TimerStop
<1>43. ASSUME NEW t \in {"app", "coap"}, TimerDelete(t) PROVE CallsMatchSession'
  BY <1>43 DEF TimerDelete
<1>44. ASSUME NEW t \in {"app", "coap"}, TimerClear(t) PROVE CallsMatchSession'
  BY <1>44 DEF TimerClear
<1>45. ASSUME NEW t \in {"app", "timer"}, UpdateCheck(t) PROVE CallsMatchSession'
  BY <1>45 DEF UpdateCheck
<1>46. ASSUME NEW t \in {"app", "timer"}, Updating(t) PROVE CallsMatchSession'
  BY <1>46 DEF Updating
<1>47. ASSUME NEW t \in {"app", "timer"}, PostUpdate(t) PROVE CallsMatchSession'
  BY <1>47 DEF PostUpdate
<1>48. ASSUME NEW t \in {"app", "timer"}, Restore(t) PROVE CallsMatchSession'
  BY <1>48 DEF Restore
<1>49. ASSUME NEW t \in Tasks, MisuseSession(t) PROVE CallsMatchSession'
  BY <1>49 DEF MisuseSession
<1>50. QED
  <2> HIDE TimerAssumption DEF IInv, Tasks, At, Go, Moves, Sets, Finished, Misuse, Posts, Listening,
           Usable, AfterStopTimer, TimerCode, stateVars, timerVars, linkVars,
              TypeOK, CallsMatchSession, SessionInv
  <2>1. QED
    BY <1>1, <1>2, <1>3, <1>4, <1>5, <1>6, <1>7, <1>8, <1>9, <1>10, <1>11, <1>12, 
       <1>13, <1>14, <1>15, <1>16, <1>17, <1>18, <1>19, <1>20, <1>21, <1>22, <1>23, <1>24, 
       <1>25, <1>26, <1>27, <1>28, <1>29, <1>30, <1>31, <1>32, <1>33, <1>34, <1>35, <1>36, 
       <1>37, <1>38, <1>39, <1>40, <1>41, <1>42, <1>43, <1>44, <1>45, <1>46, <1>47, <1>48, 
       <1>49, <1>51
       DEF Acts, Application, CoapTask, StopUpdateTimer, UpdateRegistration

\* Every step keeps reg_location set while state claims a registration, or marks itself stale.
LEMMA LocationInvStep == IInv /\ Next => LocationInv'
<1> SUFFICES ASSUME IInv, misuse = "none", Acts,
                    together' = (together \/ {pc'["app"], pc'["coap"]} \subseteq TimerCode)
             PROVE  LocationInv'
  BY DEF Next
<1> USE TimerAssumption DEF IInv, Tasks, At, Go, Moves, Sets, Finished, Misuse, Posts, Listening,
           Usable, AfterStopTimer, TimerCode, stateVars, timerVars, linkVars,
           TypeOK, CallsMatchSession, LocationInv, Held
<1>1. CASE AppUpdate BY <1>1 DEF AppUpdate
<1>2. CASE StartCheck BY <1>2 DEF StartCheck
<1>3. CASE InitSession BY <1>3 DEF InitSession
<1>4. CASE Connecting BY <1>4 DEF Connecting
<1>5. CASE RunSession BY <1>5 DEF RunSession
<1>6. CASE Revert BY <1>6 DEF Revert
<1>7. CASE BeginStop BY <1>7 DEF BeginStop
<1>8. CASE BeginDestroy BY <1>8 DEF BeginDestroy
<1>9. CASE StopCheck BY <1>9 DEF StopCheck
<1>10. CASE Deregister BY <1>10 DEF Deregister
<1>11. CASE Delete BY <1>11 DEF Delete
<1>12. CASE StopSession BY <1>12 DEF StopSession
<1>13. CASE Stopped BY <1>13 DEF Stopped
<1>14. CASE Forget BY <1>14 DEF Forget
<1>15. CASE FreeSession BY <1>15 DEF FreeSession
<1>16. CASE FreeClient BY <1>16 DEF FreeClient
<1>17. CASE TimerCreate BY <1>17 DEF TimerCreate
<1>18. CASE TimerStart BY <1>18 DEF TimerStart
<1>51. CASE TimerTest BY <1>51 DEF TimerTest
<1>19. CASE Connected BY <1>19 DEF Connected
<1>20. CASE Register BY <1>20 DEF Register
<1>21. CASE PostRegister BY <1>21 DEF PostRegister
<1>22. CASE Failed BY <1>22 DEF Failed
<1>23. CASE Disconnected BY <1>23 DEF Disconnected
<1>24. CASE Lost BY <1>24 DEF Lost
<1>25. CASE Clear BY <1>25 DEF Clear
<1>26. CASE Answered BY <1>26 DEF Answered, Ends
<1>27. CASE CoapError
  <2>1. PICK kind \in asked : Ends(kind, "error")
    BY <1>27 DEF CoapError
  <2>2. QED
    BY <2>1 DEF Ends
<1>28. CASE Dispatch BY <1>28 DEF Dispatch, Branch, Answers
<1>29. CASE Locate BY <1>29 DEF Locate
<1>30. CASE Registered BY <1>30 DEF Registered
<1>31. CASE Fail BY <1>31 DEF Fail
<1>32. CASE Updated BY <1>32 DEF Updated
<1>33. CASE Renew BY <1>33 DEF Renew
<1>34. CASE Gone BY <1>34 DEF Gone
<1>35. CASE PostNotify BY <1>35 DEF PostNotify
<1>36. CASE MisuseTimer BY <1>36 DEF MisuseTimer
<1>37. CASE TimerFires BY <1>37 DEF TimerFires
<1>38. CASE Reap BY <1>38 DEF Reap
<1>39. CASE NotifyCheck BY <1>39 DEF NotifyCheck
<1>40. CASE Outlived BY <1>40 DEF Outlived
<1>41. ASSUME NEW t \in {"app", "coap"}, TimerCheck(t) PROVE LocationInv'
  BY <1>41 DEF TimerCheck
<1>42. ASSUME NEW t \in {"app", "coap"}, TimerStop(t) PROVE LocationInv' BY <1>42 DEF TimerStop
<1>43. ASSUME NEW t \in {"app", "coap"}, TimerDelete(t) PROVE LocationInv'
  BY <1>43 DEF TimerDelete
<1>44. ASSUME NEW t \in {"app", "coap"}, TimerClear(t) PROVE LocationInv'
  BY <1>44 DEF TimerClear
<1>45. ASSUME NEW t \in {"app", "timer"}, UpdateCheck(t) PROVE LocationInv'
  BY <1>45 DEF UpdateCheck
<1>46. ASSUME NEW t \in {"app", "timer"}, Updating(t) PROVE LocationInv' BY <1>46 DEF Updating
<1>47. ASSUME NEW t \in {"app", "timer"}, PostUpdate(t) PROVE LocationInv'
  BY <1>47 DEF PostUpdate
<1>48. ASSUME NEW t \in {"app", "timer"}, Restore(t) PROVE LocationInv' BY <1>48 DEF Restore
<1>49. ASSUME NEW t \in Tasks, MisuseSession(t) PROVE LocationInv' BY <1>49 DEF MisuseSession
<1>50. QED
  <2> HIDE TimerAssumption DEF IInv, Tasks, At, Go, Moves, Sets, Finished, Misuse, Posts, Listening,
           Usable, AfterStopTimer, TimerCode, stateVars, timerVars, linkVars,
              TypeOK, CallsMatchSession, LocationInv, Held
  <2>1. QED
    BY <1>1, <1>2, <1>3, <1>4, <1>5, <1>6, <1>7, <1>8, <1>9, <1>10, <1>11, <1>12, 
       <1>13, <1>14, <1>15, <1>16, <1>17, <1>18, <1>19, <1>20, <1>21, <1>22, <1>23, <1>24, 
       <1>25, <1>26, <1>27, <1>28, <1>29, <1>30, <1>31, <1>32, <1>33, <1>34, <1>35, <1>36, 
       <1>37, <1>38, <1>39, <1>40, <1>41, <1>42, <1>43, <1>44, <1>45, <1>46, <1>47, <1>48, 
       <1>49, <1>51
       DEF Acts, Application, CoapTask, StopUpdateTimer, UpdateRegistration

\* Every step keeps IDLE and a session that runs apart.
LEMMA SessionInvStep == IInv /\ Next => SessionInv'
<1> SUFFICES ASSUME IInv, misuse = "none", Acts,
                    together' = (together \/ {pc'["app"], pc'["coap"]} \subseteq TimerCode)
             PROVE  SessionInv'
  BY DEF Next
<1> USE TimerAssumption DEF IInv, Tasks, At, Go, Moves, Sets, Finished, Misuse, Posts, Listening,
           Usable, AfterStopTimer, TimerCode, stateVars, timerVars, linkVars,
           TypeOK, CallsMatchSession, SessionInv
<1>1. CASE AppUpdate BY <1>1 DEF AppUpdate
<1>2. CASE StartCheck BY <1>2 DEF StartCheck
<1>3. CASE InitSession BY <1>3 DEF InitSession
<1>4. CASE Connecting BY <1>4 DEF Connecting
<1>5. CASE RunSession BY <1>5 DEF RunSession
<1>6. CASE Revert BY <1>6 DEF Revert
<1>7. CASE BeginStop BY <1>7 DEF BeginStop
<1>8. CASE BeginDestroy BY <1>8 DEF BeginDestroy
<1>9. CASE StopCheck BY <1>9 DEF StopCheck
<1>10. CASE Deregister BY <1>10 DEF Deregister
<1>11. CASE Delete BY <1>11 DEF Delete
<1>12. CASE StopSession BY <1>12 DEF StopSession
<1>13. CASE Stopped BY <1>13 DEF Stopped
<1>14. CASE Forget BY <1>14 DEF Forget
<1>15. CASE FreeSession BY <1>15 DEF FreeSession
<1>16. CASE FreeClient BY <1>16 DEF FreeClient
<1>17. CASE TimerCreate BY <1>17 DEF TimerCreate
<1>18. CASE TimerStart BY <1>18 DEF TimerStart
<1>51. CASE TimerTest BY <1>51 DEF TimerTest
<1>19. CASE Connected BY <1>19 DEF Connected
<1>20. CASE Register BY <1>20 DEF Register
<1>21. CASE PostRegister BY <1>21 DEF PostRegister
<1>22. CASE Failed BY <1>22 DEF Failed
<1>23. CASE Disconnected BY <1>23 DEF Disconnected
<1>24. CASE Lost BY <1>24 DEF Lost
<1>25. CASE Clear BY <1>25 DEF Clear
<1>26. CASE Answered BY <1>26 DEF Answered, Ends
<1>27. CASE CoapError
  <2>1. PICK kind \in asked : Ends(kind, "error")
    BY <1>27 DEF CoapError
  <2>2. QED
    BY <2>1 DEF Ends
<1>28. CASE Dispatch BY <1>28 DEF Dispatch, Branch, Answers
<1>29. CASE Locate BY <1>29 DEF Locate
<1>30. CASE Registered BY <1>30 DEF Registered
<1>31. CASE Fail BY <1>31 DEF Fail
<1>32. CASE Updated BY <1>32 DEF Updated
<1>33. CASE Renew BY <1>33 DEF Renew
<1>34. CASE Gone BY <1>34 DEF Gone
<1>35. CASE PostNotify BY <1>35 DEF PostNotify
<1>36. CASE MisuseTimer BY <1>36 DEF MisuseTimer
<1>37. CASE TimerFires BY <1>37 DEF TimerFires
<1>38. CASE Reap BY <1>38 DEF Reap
<1>39. CASE NotifyCheck BY <1>39 DEF NotifyCheck
<1>40. CASE Outlived BY <1>40 DEF Outlived
<1>41. ASSUME NEW t \in {"app", "coap"}, TimerCheck(t) PROVE SessionInv'
  BY <1>41 DEF TimerCheck
<1>42. ASSUME NEW t \in {"app", "coap"}, TimerStop(t) PROVE SessionInv' BY <1>42 DEF TimerStop
<1>43. ASSUME NEW t \in {"app", "coap"}, TimerDelete(t) PROVE SessionInv'
  BY <1>43 DEF TimerDelete
<1>44. ASSUME NEW t \in {"app", "coap"}, TimerClear(t) PROVE SessionInv'
  BY <1>44 DEF TimerClear
<1>45. ASSUME NEW t \in {"app", "timer"}, UpdateCheck(t) PROVE SessionInv'
  BY <1>45 DEF UpdateCheck
<1>46. ASSUME NEW t \in {"app", "timer"}, Updating(t) PROVE SessionInv' BY <1>46 DEF Updating
<1>47. ASSUME NEW t \in {"app", "timer"}, PostUpdate(t) PROVE SessionInv'
  BY <1>47 DEF PostUpdate
<1>48. ASSUME NEW t \in {"app", "timer"}, Restore(t) PROVE SessionInv' BY <1>48 DEF Restore
<1>49. ASSUME NEW t \in Tasks, MisuseSession(t) PROVE SessionInv' BY <1>49 DEF MisuseSession
<1>50. QED
  <2> HIDE TimerAssumption DEF IInv, Tasks, At, Go, Moves, Sets, Finished, Misuse, Posts, Listening,
           Usable, AfterStopTimer, TimerCode, stateVars, timerVars, linkVars,
              TypeOK, CallsMatchSession, SessionInv
  <2>1. QED
    BY <1>1, <1>2, <1>3, <1>4, <1>5, <1>6, <1>7, <1>8, <1>9, <1>10, <1>11, <1>12, 
       <1>13, <1>14, <1>15, <1>16, <1>17, <1>18, <1>19, <1>20, <1>21, <1>22, <1>23, <1>24, 
       <1>25, <1>26, <1>27, <1>28, <1>29, <1>30, <1>31, <1>32, <1>33, <1>34, <1>35, <1>36, 
       <1>37, <1>38, <1>39, <1>40, <1>41, <1>42, <1>43, <1>44, <1>45, <1>46, <1>47, <1>48, 
       <1>49, <1>51
       DEF Acts, Application, CoapTask, StopUpdateTimer, UpdateRegistration

\* Every step keeps a request behind REGISTERING.
LEMMA RequestInvStep == IInv /\ Next => RequestInv'
<1> SUFFICES ASSUME IInv, misuse = "none", Acts,
                    together' = (together \/ {pc'["app"], pc'["coap"]} \subseteq TimerCode)
             PROVE  RequestInv'
  BY DEF Next
<1> USE TimerAssumption DEF IInv, Tasks, At, Go, Moves, Sets, Finished, Misuse, Posts, Listening,
           Usable, AfterStopTimer, TimerCode, stateVars, timerVars, linkVars,
           TypeOK, CallsMatchSession, SessionInv, RequestInv
<1>1. CASE AppUpdate BY <1>1 DEF AppUpdate
<1>2. CASE StartCheck BY <1>2 DEF StartCheck
<1>3. CASE InitSession BY <1>3 DEF InitSession
<1>4. CASE Connecting BY <1>4 DEF Connecting
<1>5. CASE RunSession BY <1>5 DEF RunSession
<1>6. CASE Revert BY <1>6 DEF Revert
<1>7. CASE BeginStop BY <1>7 DEF BeginStop
<1>8. CASE BeginDestroy BY <1>8 DEF BeginDestroy
<1>9. CASE StopCheck BY <1>9 DEF StopCheck
<1>10. CASE Deregister BY <1>10 DEF Deregister
<1>11. CASE Delete BY <1>11 DEF Delete
<1>12. CASE StopSession BY <1>12 DEF StopSession
<1>13. CASE Stopped BY <1>13 DEF Stopped
<1>14. CASE Forget BY <1>14 DEF Forget
<1>15. CASE FreeSession BY <1>15 DEF FreeSession
<1>16. CASE FreeClient BY <1>16 DEF FreeClient
<1>17. CASE TimerCreate BY <1>17 DEF TimerCreate
<1>18. CASE TimerStart BY <1>18 DEF TimerStart
<1>51. CASE TimerTest BY <1>51 DEF TimerTest
<1>19. CASE Connected BY <1>19 DEF Connected
<1>20. CASE Register BY <1>20 DEF Register
<1>21. CASE PostRegister BY <1>21 DEF PostRegister
<1>22. CASE Failed BY <1>22 DEF Failed
<1>23. CASE Disconnected BY <1>23 DEF Disconnected
<1>24. CASE Lost BY <1>24 DEF Lost
<1>25. CASE Clear BY <1>25 DEF Clear
<1>26. CASE Answered BY <1>26 DEF Answered, Ends
<1>27. CASE CoapError
  <2>1. PICK kind \in asked : Ends(kind, "error")
    BY <1>27 DEF CoapError
  <2>2. QED
    BY <2>1 DEF Ends
<1>28. CASE Dispatch BY <1>28 DEF Dispatch, Branch, Answers
<1>29. CASE Locate BY <1>29 DEF Locate
<1>30. CASE Registered BY <1>30 DEF Registered
<1>31. CASE Fail BY <1>31 DEF Fail
<1>32. CASE Updated BY <1>32 DEF Updated
<1>33. CASE Renew BY <1>33 DEF Renew
<1>34. CASE Gone BY <1>34 DEF Gone
<1>35. CASE PostNotify BY <1>35 DEF PostNotify
<1>36. CASE MisuseTimer BY <1>36 DEF MisuseTimer
<1>37. CASE TimerFires BY <1>37 DEF TimerFires
<1>38. CASE Reap BY <1>38 DEF Reap
<1>39. CASE NotifyCheck BY <1>39 DEF NotifyCheck
<1>40. CASE Outlived BY <1>40 DEF Outlived
<1>41. ASSUME NEW t \in {"app", "coap"}, TimerCheck(t) PROVE RequestInv'
  BY <1>41 DEF TimerCheck
<1>42. ASSUME NEW t \in {"app", "coap"}, TimerStop(t) PROVE RequestInv' BY <1>42 DEF TimerStop
<1>43. ASSUME NEW t \in {"app", "coap"}, TimerDelete(t) PROVE RequestInv'
  BY <1>43 DEF TimerDelete
<1>44. ASSUME NEW t \in {"app", "coap"}, TimerClear(t) PROVE RequestInv'
  BY <1>44 DEF TimerClear
<1>45. ASSUME NEW t \in {"app", "timer"}, UpdateCheck(t) PROVE RequestInv'
  BY <1>45 DEF UpdateCheck
<1>46. ASSUME NEW t \in {"app", "timer"}, Updating(t) PROVE RequestInv' BY <1>46 DEF Updating
<1>47. ASSUME NEW t \in {"app", "timer"}, PostUpdate(t) PROVE RequestInv'
  BY <1>47 DEF PostUpdate
<1>48. ASSUME NEW t \in {"app", "timer"}, Restore(t) PROVE RequestInv' BY <1>48 DEF Restore
<1>49. ASSUME NEW t \in Tasks, MisuseSession(t) PROVE RequestInv' BY <1>49 DEF MisuseSession
<1>50. QED
  <2> HIDE TimerAssumption DEF IInv, Tasks, At, Go, Moves, Sets, Finished, Misuse, Posts, Listening,
           Usable, AfterStopTimer, TimerCode, stateVars, timerVars, linkVars,
              TypeOK, CallsMatchSession, SessionInv, RequestInv
  <2>1. QED
    BY <1>1, <1>2, <1>3, <1>4, <1>5, <1>6, <1>7, <1>8, <1>9, <1>10, <1>11, <1>12, 
       <1>13, <1>14, <1>15, <1>16, <1>17, <1>18, <1>19, <1>20, <1>21, <1>22, <1>23, <1>24, 
       <1>25, <1>26, <1>27, <1>28, <1>29, <1>30, <1>31, <1>32, <1>33, <1>34, <1>35, <1>36, 
       <1>37, <1>38, <1>39, <1>40, <1>41, <1>42, <1>43, <1>44, <1>45, <1>46, <1>47, <1>48, 
       <1>49, <1>51
       DEF Acts, Application, CoapTask, StopUpdateTimer, UpdateRegistration

\* Every step that leaves one task in the timer code keeps the handle and the timers together.
LEMMA TimerInvStep == IInv /\ Next => TimerInv'
<1> SUFFICES ASSUME IInv, misuse = "none", Acts,
                    together' = (together \/ {pc'["app"], pc'["coap"]} \subseteq TimerCode)
             PROVE  TimerInv'
  BY DEF Next
<1> USE TimerAssumption DEF IInv, Tasks, At, Go, Moves, Sets, Finished, Misuse, Posts, Listening,
           Usable, AfterStopTimer, TimerCode, stateVars, timerVars, linkVars,
           TypeOK, CallsMatchSession, TimerInv
<1>1. CASE AppUpdate BY <1>1 DEF AppUpdate
<1>2. CASE StartCheck BY <1>2 DEF StartCheck
<1>3. CASE InitSession BY <1>3 DEF InitSession
<1>4. CASE Connecting BY <1>4 DEF Connecting
<1>5. CASE RunSession BY <1>5 DEF RunSession
<1>6. CASE Revert BY <1>6 DEF Revert
<1>7. CASE BeginStop BY <1>7 DEF BeginStop
<1>8. CASE BeginDestroy BY <1>8 DEF BeginDestroy
<1>9. CASE StopCheck BY <1>9 DEF StopCheck
<1>10. CASE Deregister BY <1>10 DEF Deregister
<1>11. CASE Delete BY <1>11 DEF Delete
<1>12. CASE StopSession BY <1>12 DEF StopSession
<1>13. CASE Stopped BY <1>13 DEF Stopped
<1>14. CASE Forget BY <1>14 DEF Forget
<1>15. CASE FreeSession BY <1>15 DEF FreeSession
<1>16. CASE FreeClient BY <1>16 DEF FreeClient
<1>17. CASE TimerCreate
  <2>1. CASE timer' = NoTimer
    BY <1>17, <2>1 DEF TimerCreate
  <2>2. CASE timer' # NoTimer
    BY <1>17, <2>2 DEF TimerCreate
  <2>3. QED
    BY <2>1, <2>2
<1>18. CASE TimerStart BY <1>18 DEF TimerStart
<1>51. CASE TimerTest BY <1>51 DEF TimerTest
<1>19. CASE Connected BY <1>19 DEF Connected
<1>20. CASE Register BY <1>20 DEF Register
<1>21. CASE PostRegister
  <2>1. PICK accepted \in BOOLEAN :
               /\ At("coap", "post_register")
               /\ Posts("register", accepted)
               /\ Go("coap", IF accepted THEN "idle" ELSE "failed")
               /\ UNCHANGED <<stateVars, located, timerVars, live, doing, misuse>>
    BY <1>21 DEF PostRegister
  <2>2. CASE accepted
    BY <2>1, <2>2
  <2>3. CASE ~accepted
    BY <2>1, <2>3
  <2>4. QED
    BY <2>2, <2>3
<1>22. CASE Failed BY <1>22 DEF Failed
<1>23. CASE Disconnected BY <1>23 DEF Disconnected
<1>24. CASE Lost BY <1>24 DEF Lost
<1>25. CASE Clear BY <1>25 DEF Clear
<1>26. CASE Answered BY <1>26 DEF Answered, Ends
<1>27. CASE CoapError
  <2>1. PICK kind \in asked : Ends(kind, "error")
    BY <1>27 DEF CoapError
  <2>2. QED
    BY <2>1 DEF Ends
<1>28. CASE Dispatch BY <1>28 DEF Dispatch, Branch, Answers
<1>29. CASE Locate BY <1>29 DEF Locate
<1>30. CASE Registered BY <1>30 DEF Registered
<1>31. CASE Fail BY <1>31 DEF Fail
<1>32. CASE Updated BY <1>32 DEF Updated
<1>33. CASE Renew BY <1>33 DEF Renew
<1>34. CASE Gone BY <1>34 DEF Gone
<1>35. CASE PostNotify BY <1>35 DEF PostNotify
<1>36. CASE MisuseTimer BY <1>36 DEF MisuseTimer
<1>37. CASE TimerFires BY <1>37 DEF TimerFires
<1>38. CASE Reap BY <1>38 DEF Reap
<1>39. CASE NotifyCheck BY <1>39 DEF NotifyCheck
<1>40. CASE Outlived BY <1>40 DEF Outlived
<1>41. ASSUME NEW t \in {"app", "coap"}, TimerCheck(t) PROVE TimerInv' BY <1>41 DEF TimerCheck
<1>42. ASSUME NEW t \in {"app", "coap"}, TimerStop(t) PROVE TimerInv' BY <1>42 DEF TimerStop
<1>43. ASSUME NEW t \in {"app", "coap"}, TimerDelete(t) PROVE TimerInv'
  BY <1>43 DEF TimerDelete
<1>44. ASSUME NEW t \in {"app", "coap"}, TimerClear(t) PROVE TimerInv'
  <2>1. CASE together
    BY <1>44, <2>1 DEF TimerClear
  <2>2. CASE ~together /\ t = "app"
    BY <1>44, <2>2 DEF TimerClear
  <2>3. CASE ~together /\ t = "coap" /\ doing["coap"] = "lost"
    BY <1>44, <2>3 DEF TimerClear
  <2>4. CASE ~together /\ t = "coap" /\ doing["coap"] # "lost"
    BY <1>44, <2>4 DEF TimerClear
  <2>5. QED
    BY <1>44, <2>1, <2>2, <2>3, <2>4
<1>45. ASSUME NEW t \in {"app", "timer"}, UpdateCheck(t) PROVE TimerInv'
  BY <1>45 DEF UpdateCheck
<1>46. ASSUME NEW t \in {"app", "timer"}, Updating(t) PROVE TimerInv' BY <1>46 DEF Updating
<1>47. ASSUME NEW t \in {"app", "timer"}, PostUpdate(t) PROVE TimerInv'
  <2>1. PICK accepted \in BOOLEAN :
               /\ At(t, "post_update")
               /\ Posts("other", accepted)
               /\ Go(t, IF accepted THEN "idle" ELSE "restore")
               /\ UNCHANGED <<stateVars, located, timerVars, live, doing, misuse>>
    BY <1>47 DEF PostUpdate
  <2>2. CASE accepted
    BY <2>1, <2>2
  <2>3. CASE ~accepted
    BY <2>1, <2>3
  <2>4. QED
    BY <2>2, <2>3
<1>48. ASSUME NEW t \in {"app", "timer"}, Restore(t) PROVE TimerInv' BY <1>48 DEF Restore
<1>49. ASSUME NEW t \in Tasks, MisuseSession(t) PROVE TimerInv' BY <1>49 DEF MisuseSession
<1>50. QED
  <2> HIDE TimerAssumption DEF IInv, Tasks, At, Go, Moves, Sets, Finished, Misuse, Posts, Listening,
           Usable, AfterStopTimer, TimerCode, stateVars, timerVars, linkVars,
              TypeOK, CallsMatchSession, TimerInv
  <2>1. QED
    BY <1>1, <1>2, <1>3, <1>4, <1>5, <1>6, <1>7, <1>8, <1>9, <1>10, <1>11, <1>12, 
       <1>13, <1>14, <1>15, <1>16, <1>17, <1>18, <1>19, <1>20, <1>21, <1>22, <1>23, <1>24, 
       <1>25, <1>26, <1>27, <1>28, <1>29, <1>30, <1>31, <1>32, <1>33, <1>34, <1>35, <1>36, 
       <1>37, <1>38, <1>39, <1>40, <1>41, <1>42, <1>43, <1>44, <1>45, <1>46, <1>47, <1>48, 
       <1>49, <1>51
       DEF Acts, Application, CoapTask, StopUpdateTimer, UpdateRegistration

-----------------------------------------------------------------------------
\* A client fresh from wb_lwm2m_init satisfies the invariant.
LEMMA InitInv == Init => IInv
<1> SUFFICES ASSUME Init PROVE IInv
  OBVIOUS
<1> USE TimerAssumption DEF Init, Tasks, At, TimerCode
<1>1. TypeOK
  BY DEF TypeOK, States, UpdateCode, AppCode, CoapCode, Answers
<1>2. CallsMatchSession /\ LocationInv /\ SessionInv /\ RequestInv
  BY DEF CallsMatchSession, LocationInv, Held, SessionInv, RequestInv
<1>3. TimerInv
  BY DEF TimerInv
<1>4. QED
  BY <1>1, <1>2, <1>3 DEF IInv

\* Every step keeps the invariant.
LEMMA StepInv == IInv /\ [Next]_vars => IInv'
<1> SUFFICES ASSUME IInv, [Next]_vars PROVE IInv'
  OBVIOUS
<1>1. CASE Next
  BY <1>1, TypeOKStep, CallsMatchSessionStep, LocationInvStep, SessionInvStep, RequestInvStep,
     TimerInvStep DEF IInv
<1>2. CASE UNCHANGED vars
  <2> USE <1>2 DEF IInv, vars, stateVars, timerVars, linkVars, At
  <2>1. TypeOK'
    BY DEF TypeOK
  <2>2. CallsMatchSession' /\ LocationInv' /\ SessionInv'
    BY DEF CallsMatchSession, LocationInv, SessionInv
  <2>3. RequestInv'
    BY DEF RequestInv
  <2>4. TimerInv'
    BY DEF TimerInv
  <2>5. QED
    BY <2>1, <2>2, <2>3, <2>4
<1>3. QED
  BY <1>1, <1>2

\* The invariant that the steps of the four tasks keep, however they interleave.
THEOREM Invariant == Spec => []IInv
BY InitInv, StepInv, PTL DEF Spec

\* However the tasks interleave, a registration has its location (reg_location), unless a
\* state was written after a check that no longer held.
THEOREM HasLocation == Spec => []HeldHasLocation
<1>1. IInv => HeldHasLocation
  BY DEF IInv, LocationInv, Held, HeldHasLocation
<1>2. QED
  BY <1>1, Invariant, PTL

\* wb_lwm2m_start finds no CoAP client that runs behind IDLE, and wb_lwm2m_stop leaves IDLE.
THEOREM IdleIsStopped == Spec => []IdleMeansStopped
<1>1. IInv => IdleMeansStopped
  BY DEF IInv, SessionInv, IdleMeansStopped, At
<1>2. QED
  BY <1>1, Invariant, PTL

\* Every running timer is the one update_timer holds, until two tasks were in
\* stop_update_timer at once.
THEOREM TimersAreOwned == Spec => []TimerIsOwned
<1>1. IInv => TimerIsOwned
  BY DEF IInv, TimerInv, TimerIsOwned
<1>2. QED
  BY <1>1, Invariant, PTL

\* Only then does FreeRTOS get a handle that is NULL or deleted.
THEOREM TimerMisuse == Spec => []TimerMisusedOnlyTogether
<1>1. IInv => TimerMisusedOnlyTogether
  BY DEF IInv, TimerInv, TimerMisusedOnlyTogether
<1>2. QED
  BY <1>1, Invariant, PTL

\* A client in REGISTERING, outside coap_event_handler, waits for a request it has sent.
THEOREM Awaited == Spec => []AwaitedIsAsked
<1>1. IInv => AwaitedIsAsked
  BY DEF IInv, RequestInv, AwaitedIsAsked, At, TimerCode
<1>2. QED
  BY <1>1, Invariant, PTL
=============================================================================
