--------------------------- MODULE MechanismProofs ---------------------------
(***************************************************************************)
(* Theorems about the mechanism controller, for every value of its times,  *)
(* retry budget, clock range and set of profiles.                          *)
(***************************************************************************)
EXTENDS Mechanism, TLAPS

(* Where power and control level stand at each point of the code.          *)
PowerInv ==
  /\ pwm1 => ~gpio3
  /\ state = "IDLE" =>
       step \in {"boot", "polled", "starting"} /\ ~pwm1 /\ gpio3
  /\ step \in {"boot", "starting"} => state = "IDLE"
  /\ recovering => state = "IDLE"
  /\ step = "exhausted" => state = "RETRIES_EXHAUSTED"
  /\ state = "RETRIES_EXHAUSTED" => step # "polled"
  /\ state \in Stops /\ step # "before_dead_time" => ~pwm1
  /\ state \in Stops /\ step \in {"polled", "exhausted"} => gpio3
  /\ state \in Drives /\ step # "before_dead_time" => ~gpio3
  /\ state \in {"LOW_DRIVE_CHECK_MEDIA", "RECOVERY_DRIVE_WAIT_ENDPOINT"}
       /\ step = "before_dead_time" => ~pwm1

(* How the retry counter and the outcome follow the expired drives.        *)
RetryInv ==
  /\ state = "IDLE" => return_drive_timeouts = 0
  /\ step = "starting" => expiries = 0
  /\ step = "starting" \/ state # "IDLE" => outcome = "none"
  /\ state \notin {"IDLE", "SUCCESS_SETTLE", "RETRIES_EXHAUSTED"} =>
       /\ expiries = return_drive_timeouts
       /\ return_drive_timeouts < MaxReturnTimeouts
  /\ state = "RETRIES_EXHAUSTED" => expiries = MaxReturnTimeouts
  /\ state = "SUCCESS_SETTLE" /\ step = "polled" => return_drive_timeouts = 0
  /\ step = "exhausted" => return_drive_timeouts = 0
  /\ FailsAfterAllRetries

(* The ticks by which the deadline is behind the counter.                  *)
Late(t) == SignedDifference(t, deadline)

(* How long the motor has run, against the deadline of each phase.         *)
TravelInv ==
  /\ ~pwm1 => travel = 0
  /\ state # "IDLE" => gap <= ServiceGap
  /\ state # "IDLE" /\ step # "polled" => gap = 0
  /\ step = "starting" =>
       gap <= RecoveryTime /\ SignedDifference(now, at) = gap
  /\ step \in {"before_dead_time", "after_dead_time"} =>
       \/ at = now
       \/ /\ state = "LOW_DRIVE_CHECK_MEDIA"
          /\ SignedDifference(now, at) \in 0 .. RecoveryTime
  /\ state = "LOW_DRIVE_CHECK_MEDIA" =>
       IF step # "polled" THEN travel = 0
       ELSE /\ travel - DriveTime <= Late(now)
            /\ \/ Late(now) <= gap - 1
               \/ travel <= gap /\ Late(now) <= RecoveryTime - DriveTime + gap
  /\ state = "NO_MEDIA_GRACE" =>
       IF step # "polled" THEN travel <= DriveTime - 1
       ELSE /\ travel - DriveTime + 1 - NoMediaGrace <= Late(now)
            /\ -NoMediaGrace <= Late(now) /\ Late(now) <= gap - 1
  /\ state = "LOW_DRIVE_WAIT_ENDPOINT" =>
       IF step # "polled"
       THEN travel <= DriveTime - 1 + NoMediaGrace - 1 + ServiceGap
       ELSE /\ travel - 2 * DriveTime - NoMediaGrace + 2 - ServiceGap
                 <= Late(now)
            /\ -DriveTime <= Late(now) /\ Late(now) <= gap - 1
  /\ state = "RECOVERY_DRIVE_WAIT_ENDPOINT" =>
       IF step # "polled" THEN travel = 0
       ELSE /\ travel - DriveTime <= Late(now)
            /\ Late(now) <= gap - 1
  /\ TravelBounded

(* What the switch detector remembers is never ahead of the real switch.   *)
EndpointInv ==
  /\ mechanism_deasserted_seen => opened
  /\ /\ state # "IDLE"
     /\ state = "LOW_DRIVE_CHECK_MEDIA" => step # "before_dead_time"
     => (endpoint \/ opened)

-----------------------------------------------------------------------------
(* Init establishes the type invariant and every step keeps it.            *)
LEMMA TypeInit == Init => TypeOK
<1> SUFFICES ASSUME Init PROVE TypeOK
  OBVIOUS
<1>1. gpio0 \in BOOLEAN
  BY DEF Init
<1>2. now \in Ticks /\ 0 \in Ticks
  BY TimeAssumption DEF Init, Ticks
<1>3. 0 \in 0 .. MaxReturnTimeouts
  BY TimeAssumption
<1>4. QED
  BY <1>1, <1>2, <1>3 DEF Init, TypeOK, States, Steps

(* The budget of returns is a positive number.                              *)
LEMMA BudgetType == MaxReturnTimeouts \in Nat /\ 0 < MaxReturnTimeouts
  BY TimeAssumption

(* A deadline is a value of the clock.                                      *)
LEMMA PlusType == \A t \in Ticks, d \in Nat : d < HalfRange => Plus(t, d) \in Ticks
  BY TimeAssumption DEF Ticks, Plus

(* Every step leaves the variables in their types.                          *)
LEMMA TypeStep == TypeOK /\ RetryInv /\ [Next]_vars => TypeOK'
<1> SUFFICES ASSUME TypeOK, RetryInv, [Next]_vars PROVE TypeOK'
  OBVIOUS
<1> USE DEF TypeOK, context, outputs, clock
<1>1. CASE BootHoming
  BY <1>1, TimeAssumption DEF BootHoming, SampleStart, Steps
<1>2. CASE BootAtEndpoint
  BY <1>2 DEF BootAtEndpoint, Steps
<1>3. CASE RequestEject
  BY <1>3, TimeAssumption DEF RequestEject, SampleStart, Steps
<1>4. CASE StartMotion
  BY <1>4 DEF StartMotion, Enter, Steps, States
<1>5. CASE Service
  <2>1. CASE EndpointReached
    BY <2>1 DEF EndpointReached, Pass, Enter, Steps, States
  <2>2. CASE DeadlineExpired
    BY <2>2 DEF DeadlineExpired, Pass, Enter, Steps, States, AfterDeadline,
       SeenAfterPoll
  <2>3. CASE MediaContextAbsent
    BY <2>3 DEF MediaContextAbsent, Pass, Enter, Steps, States, SeenAfterPoll
  <2>4. CASE RecoveryExpired
    <3>1. /\ return_drive_timeouts' \in 0 .. MaxReturnTimeouts
          /\ expiries' \in 0 .. MaxReturnTimeouts
      BY <2>4, TimeAssumption DEF RecoveryExpired, BudgetUsed, Pass, RetryInv
    <3>2. mechanism_deasserted_seen' \in BOOLEAN
      BY <2>4 DEF RecoveryExpired, BudgetUsed, SeenAfterPoll
    <3>3. state' \in States /\ step' \in Steps
      BY <2>4 DEF RecoveryExpired, BudgetUsed, Enter, States, Steps
    <3>4. QED
      BY <2>4, <3>1, <3>2, <3>3 DEF RecoveryExpired, BudgetUsed, Pass, Enter
  <2>5. CASE KeepWaiting
    BY <2>5 DEF KeepWaiting, Pass, SeenAfterPoll
  <2>6. CASE Settled
    BY <2>6 DEF Settled, Pass, States
  <2>7. CASE BeforeDeadTime
    <3>1. gpio0' \in BOOLEAN /\ pwm1' \in BOOLEAN /\ gpio3' \in BOOLEAN
      BY <2>7 DEF BeforeDeadTime, RemovePower
    <3>2. mechanism_deasserted_seen' \in BOOLEAN /\ opened' \in BOOLEAN
      BY <2>7 DEF BeforeDeadTime, RemovePower
    <3>3. travel' = 0 \/ travel' = travel
      BY <2>7 DEF BeforeDeadTime, RemovePower
    <3>4. step' \in Steps
      BY <2>7 DEF BeforeDeadTime, RemovePower, Steps
    <3>5. UNCHANGED <<state, return_drive_timeouts, deadline,
                      hardware_profile, at, outcome, endpoint, recovering,
                      now, gap, expiries>>
      BY <2>7 DEF BeforeDeadTime, RemovePower
    <3>6. QED
      BY <3>1, <3>2, <3>3, <3>4, <3>5
  <2>8. CASE AfterDeadTime
    <3>1. deadline' \in Ticks
      <4>1. /\ Plus(at, DriveTime) \in Ticks
            /\ Plus(at, SuccessSettle) \in Ticks
            /\ Plus(at, InterphaseTime) \in Ticks
            /\ Plus(at, NoMediaGrace) \in Ticks
        BY PlusType, TimeAssumption
      <4>2. \/ deadline' = Plus(at, DriveTime)
            \/ deadline' = Plus(at, SuccessSettle)
            \/ deadline' = Plus(at, InterphaseTime)
            \/ deadline' = Plus(at, NoMediaGrace)
            \/ deadline' = deadline
        BY <2>8 DEF AfterDeadTime
      <4>3. QED
        BY <4>1, <4>2
    <3>2. return_drive_timeouts' \in 0 .. MaxReturnTimeouts
      <4>1. return_drive_timeouts' \in {0, return_drive_timeouts}
        BY <2>8 DEF AfterDeadTime
      <4>2. QED
        BY <4>1, TimeAssumption
    <3>3. pwm1' \in BOOLEAN /\ gpio3' \in BOOLEAN /\ gpio0' \in BOOLEAN
      BY <2>8 DEF AfterDeadTime
    <3>4. QED
      BY <2>8, <3>1, <3>2, <3>3 DEF AfterDeadTime, Steps
  <2>9. CASE GiveUp
    BY <2>9 DEF GiveUp, Steps, States
  <2>10. QED
    BY <1>5, <2>1, <2>2, <2>3, <2>4, <2>5, <2>6, <2>7, <2>8, <2>9
    DEF Service
<1>6. CASE BeginRecovery
  BY <1>6 DEF BeginRecovery, MechanismIsActive
<1>7. CASE EndRecovery
  BY <1>7 DEF EndRecovery
<1>8. CASE SwitchMoves
  BY <1>8 DEF SwitchMoves
<1>9. CASE Tick
  BY <1>9, PlusType, TimeAssumption DEF Tick
<1>10. CASE UNCHANGED vars
  BY <1>10 DEF vars
<1>11. QED
  BY <1>1, <1>2, <1>3, <1>4, <1>5, <1>6, <1>7, <1>8, <1>9, <1>10 DEF Next

-----------------------------------------------------------------------------
(* Power and control level: every step of the code keeps PowerInv.         *)
LEMMA PowerStep ==
  TypeOK /\ PowerInv /\ [Next]_vars => PowerInv'
<1> SUFFICES ASSUME TypeOK, PowerInv, [Next]_vars
             PROVE  PowerInv'
  OBVIOUS
<1> USE DEF TypeOK, States, Steps, context, outputs, clock
<1>1. CASE BootHoming
  BY <1>1 DEF BootHoming, SampleStart, PowerInv, Drives, Stops
<1>2. CASE BootAtEndpoint
  BY <1>2 DEF BootAtEndpoint, PowerInv, Drives, Stops
<1>3. CASE RequestEject
  BY <1>3 DEF RequestEject, SampleStart, PowerInv, Drives, Stops
<1>4. CASE StartMotion
  BY <1>4 DEF StartMotion, Enter, PowerInv, Drives, Stops
<1>5. CASE Service
  <2>1. CASE EndpointReached
    BY <2>1 DEF EndpointReached, Pass, Enter, Watching, PowerInv, Drives, Stops
  <2>2. CASE DeadlineExpired
    BY <2>2 DEF DeadlineExpired, Pass, Enter, Watching, AfterDeadline, PowerInv, Drives, Stops
  <2>3. CASE MediaContextAbsent
    BY <2>3 DEF MediaContextAbsent, Pass, Enter, PowerInv, Drives, Stops
  <2>4. CASE RecoveryExpired
    BY <2>4 DEF RecoveryExpired, BudgetUsed, Pass, Enter, PowerInv, Drives, Stops
  <2>5. CASE KeepWaiting
    BY <2>5 DEF KeepWaiting, Pass, Watching, PowerInv, Drives, Stops
  <2>6. CASE Settled
    BY <2>6 DEF Settled, Pass, PowerInv, Drives, Stops
  <2>7. CASE BeforeDeadTime
    <3>1. CASE state \in Drives
      <4>1. /\ UNCHANGED <<state, recovering, pwm1>>
            /\ step' = "after_dead_time" /\ gpio3' = FALSE
        BY <2>7, <3>1 DEF BeforeDeadTime, RemovePower, Drives, Stops
      <4>2. QED
        BY <3>1, <4>1 DEF PowerInv, Drives, Stops
    <3>2. CASE state \in Stops
      <4>1. /\ UNCHANGED <<state, recovering, gpio3>>
            /\ step' = "after_dead_time" /\ pwm1' = FALSE
        BY <2>7, <3>2 DEF BeforeDeadTime, RemovePower, Drives, Stops
      <4>2. QED
        BY <3>2, <4>1 DEF PowerInv, Drives, Stops
    <3>3. CASE state = "NO_MEDIA_GRACE"
      <4>1. /\ UNCHANGED <<state, recovering, pwm1, gpio3>>
            /\ step' = "after_dead_time"
        BY <2>7, <3>3 DEF BeforeDeadTime, RemovePower, Drives, Stops
      <4>2. QED
        BY <3>3, <4>1 DEF PowerInv, Drives, Stops
    <3>4. QED
      BY <2>7, <3>1, <3>2, <3>3 DEF BeforeDeadTime, RemovePower
  <2>8. CASE AfterDeadTime
    <3>0. /\ step = "after_dead_time"
          /\ step' = IF state = "RETRIES_EXHAUSTED"
                     THEN "exhausted" ELSE "polled"
          /\ UNCHANGED <<state, recovering>>
      BY <2>8 DEF AfterDeadTime
    <3>1. CASE state \in Drives
      <4>1. UNCHANGED gpio3
        BY <2>8, <3>1 DEF AfterDeadTime, Drives, Stops
      <4>2. QED
        BY <3>0, <3>1, <4>1 DEF PowerInv, Drives, Stops
    <3>2. CASE state \in Stops
      <4>1. pwm1' = pwm1 /\ gpio3' = TRUE
        BY <2>8, <3>2 DEF AfterDeadTime, Drives, Stops
      <4>2. QED
        BY <3>0, <3>2, <4>1 DEF PowerInv, Drives, Stops
    <3>3. CASE state = "NO_MEDIA_GRACE"
      <4>1. pwm1' = pwm1 /\ gpio3' = gpio3
        BY <2>8, <3>3 DEF AfterDeadTime, Drives, Stops
      <4>2. QED
        BY <3>0, <3>3, <4>1 DEF PowerInv, Drives, Stops
    <3>4. QED
      BY <2>8, <3>1, <3>2, <3>3 DEF AfterDeadTime
  <2>9. CASE GiveUp
    BY <2>9 DEF GiveUp, PowerInv, Drives, Stops
  <2>10. QED
    BY <1>5, <2>1, <2>2, <2>3, <2>4, <2>5, <2>6, <2>7, <2>8, <2>9
    DEF Service
<1>6. CASE BeginRecovery
  BY <1>6 DEF BeginRecovery, MechanismIsActive, PowerInv, Drives, Stops
<1>7. CASE EndRecovery
  BY <1>7 DEF EndRecovery, PowerInv, Drives, Stops
<1>8. CASE SwitchMoves
  BY <1>8 DEF SwitchMoves, PowerInv, Drives, Stops
<1>9. CASE Tick
  BY <1>9 DEF Tick, PowerInv, Drives, Stops
<1>10. CASE UNCHANGED vars
  BY <1>10 DEF vars, PowerInv, Drives, Stops
<1>11. QED
  BY <1>1, <1>2, <1>3, <1>4, <1>5, <1>6, <1>7, <1>8, <1>9, <1>10 DEF Next

(* The retry counter: every step keeps RetryInv.                           *)
LEMMA RetryStep ==
  TypeOK /\ PowerInv /\ RetryInv /\ [Next]_vars => RetryInv'
<1> SUFFICES ASSUME TypeOK, PowerInv, RetryInv, [Next]_vars
             PROVE  RetryInv'
  OBVIOUS
<1> USE DEF TypeOK, States, Steps, context, outputs, clock
<1>1. CASE BootHoming
  BY <1>1 DEF BootHoming, SampleStart, RetryInv, PowerInv, FailsAfterAllRetries, Drives, Stops
<1>2. CASE BootAtEndpoint
  BY <1>2 DEF BootAtEndpoint, RetryInv, PowerInv, FailsAfterAllRetries, Drives, Stops
<1>3. CASE RequestEject
  BY <1>3 DEF RequestEject, SampleStart, RetryInv, PowerInv, FailsAfterAllRetries, Drives, Stops
<1>4. CASE StartMotion
  <2>1. /\ step = "starting" /\ state' = "LOW_DRIVE_CHECK_MEDIA"
        /\ step' = "before_dead_time"
        /\ UNCHANGED <<return_drive_timeouts, outcome, expiries>>
    BY <1>4 DEF StartMotion, Enter
  <2>2. state = "IDLE"
    BY <2>1 DEF PowerInv
  <2>3. /\ return_drive_timeouts = 0 /\ expiries = 0
        /\ outcome = "none"
    BY <2>1, <2>2 DEF RetryInv
  <2>4. QED
    BY <2>1, <2>3, BudgetType DEF RetryInv, FailsAfterAllRetries
<1>5. CASE Service
  <2>1. CASE EndpointReached
    BY <2>1 DEF EndpointReached, Pass, Enter, Watching, RetryInv, PowerInv, FailsAfterAllRetries, Drives, Stops
  <2>2. CASE DeadlineExpired
    BY <2>2 DEF DeadlineExpired, Pass, Enter, Watching, AfterDeadline, RetryInv, PowerInv, FailsAfterAllRetries, Drives, Stops
  <2>3. CASE MediaContextAbsent
    BY <2>3 DEF MediaContextAbsent, Pass, Enter, RetryInv, PowerInv, FailsAfterAllRetries, Drives, Stops
  <2>4. CASE RecoveryExpired
    <3>1. /\ return_drive_timeouts' = return_drive_timeouts + 1
          /\ expiries' = expiries + 1
          /\ outcome' = outcome /\ step' = "before_dead_time"
          /\ state = "RECOVERY_DRIVE_WAIT_ENDPOINT"
          /\ state' = IF return_drive_timeouts + 1 >= MaxReturnTimeouts
                      THEN "RETRIES_EXHAUSTED" ELSE "RETURN_PAUSE"
      BY <2>4 DEF RecoveryExpired, BudgetUsed, Pass, Enter
    <3>2. /\ expiries = return_drive_timeouts
          /\ return_drive_timeouts < MaxReturnTimeouts /\ outcome = "none"
      BY <3>1 DEF RetryInv
    <3>3. return_drive_timeouts \in Nat
      BY BudgetType
    <3> HIDE DEF TypeOK, States, Steps
    <3>4. CASE return_drive_timeouts + 1 >= MaxReturnTimeouts
      <4>1. state' = "RETRIES_EXHAUSTED" /\ expiries' = MaxReturnTimeouts
        BY <3>1, <3>2, <3>3, <3>4, BudgetType
      <4>2. outcome' = "none" /\ step' = "before_dead_time"
        BY <3>1, <3>2
      <4>3. QED
        BY <4>1, <4>2, Zenon DEF RetryInv, FailsAfterAllRetries
    <3>5. CASE ~(return_drive_timeouts + 1 >= MaxReturnTimeouts)
      <4>1. /\ state' = "RETURN_PAUSE" /\ expiries' = return_drive_timeouts'
            /\ return_drive_timeouts' < MaxReturnTimeouts
        BY <3>1, <3>2, <3>3, <3>5, BudgetType
      <4>2. outcome' = "none" /\ step' = "before_dead_time"
        BY <3>1, <3>2
      <4>3. QED
        BY <4>1, <4>2, Zenon DEF RetryInv, FailsAfterAllRetries
    <3>6. QED
      BY <3>4, <3>5
  <2>5. CASE KeepWaiting
    BY <2>5 DEF KeepWaiting, Pass, Watching, RetryInv, PowerInv, FailsAfterAllRetries, Drives, Stops
  <2>6. CASE Settled
    BY <2>6 DEF Settled, Pass, RetryInv, PowerInv, FailsAfterAllRetries, Drives, Stops
  <2>7. CASE BeforeDeadTime
    BY <2>7 DEF BeforeDeadTime, RemovePower, RetryInv, PowerInv, FailsAfterAllRetries, Drives, Stops
  <2>8. CASE AfterDeadTime
    BY <2>8, BudgetType DEF AfterDeadTime, RetryInv, PowerInv, FailsAfterAllRetries, Drives, Stops
  <2>9. CASE GiveUp
    BY <2>9 DEF GiveUp, RetryInv, PowerInv, FailsAfterAllRetries, Drives, Stops
  <2>10. QED
    BY <1>5, <2>1, <2>2, <2>3, <2>4, <2>5, <2>6, <2>7, <2>8, <2>9
    DEF Service
<1>6. CASE BeginRecovery
  BY <1>6 DEF BeginRecovery, MechanismIsActive, RetryInv, PowerInv, FailsAfterAllRetries, Drives, Stops
<1>7. CASE EndRecovery
  BY <1>7 DEF EndRecovery, RetryInv, PowerInv, FailsAfterAllRetries, Drives, Stops
<1>8. CASE SwitchMoves
  BY <1>8 DEF SwitchMoves, RetryInv, PowerInv, FailsAfterAllRetries, Drives, Stops
<1>9. CASE Tick
  BY <1>9 DEF Tick, RetryInv, PowerInv, FailsAfterAllRetries, Drives, Stops
<1>10. CASE UNCHANGED vars
  BY <1>10 DEF vars, RetryInv, PowerInv, FailsAfterAllRetries, Drives, Stops
<1>11. QED
  BY <1>1, <1>2, <1>3, <1>4, <1>5, <1>6, <1>7, <1>8, <1>9, <1>10 DEF Next

(* The switch detector: every step keeps EndpointInv.                      *)
LEMMA EndpointStep ==
  TypeOK /\ PowerInv /\ EndpointInv /\ [Next]_vars => EndpointInv'
<1> SUFFICES ASSUME TypeOK, PowerInv, EndpointInv, [Next]_vars
             PROVE  EndpointInv'
  OBVIOUS
<1> USE DEF TypeOK, States, Steps, context, outputs, clock
<1>1. CASE BootHoming
  BY <1>1 DEF BootHoming, SampleStart, EndpointInv, PowerInv, SeenAfterPoll, TransitionComplete, Drives, Stops
<1>2. CASE BootAtEndpoint
  BY <1>2 DEF BootAtEndpoint, EndpointInv, PowerInv, SeenAfterPoll, TransitionComplete, Drives, Stops
<1>3. CASE RequestEject
  BY <1>3 DEF RequestEject, SampleStart, EndpointInv, PowerInv, SeenAfterPoll, TransitionComplete, Drives, Stops
<1>4. CASE StartMotion
  BY <1>4 DEF StartMotion, Enter, EndpointInv, PowerInv, SeenAfterPoll, TransitionComplete, Drives, Stops
<1>5. CASE Service
  <2>1. CASE EndpointReached
    BY <2>1 DEF EndpointReached, Pass, Enter, Watching, EndpointInv, PowerInv, SeenAfterPoll, TransitionComplete, Drives, Stops
  <2>2. CASE DeadlineExpired
    BY <2>2 DEF DeadlineExpired, Pass, Enter, Watching, AfterDeadline, EndpointInv, PowerInv, SeenAfterPoll, TransitionComplete, Drives, Stops
  <2>3. CASE MediaContextAbsent
    BY <2>3 DEF MediaContextAbsent, Pass, Enter, EndpointInv, PowerInv, SeenAfterPoll, TransitionComplete, Drives, Stops
  <2>4. CASE RecoveryExpired
    BY <2>4 DEF RecoveryExpired, BudgetUsed, Pass, Enter, EndpointInv, PowerInv, SeenAfterPoll, TransitionComplete, Drives, Stops
  <2>5. CASE KeepWaiting
    BY <2>5 DEF KeepWaiting, Pass, Watching, EndpointInv, PowerInv, SeenAfterPoll, TransitionComplete, Drives, Stops
  <2>6. CASE Settled
    BY <2>6 DEF Settled, Pass, EndpointInv, PowerInv, SeenAfterPoll, TransitionComplete, Drives, Stops
  <2>7. CASE BeforeDeadTime
    <3>1. CASE state \in Drives
      BY <2>7, <3>1 DEF BeforeDeadTime, RemovePower, EndpointInv, PowerInv, Drives, Stops
    <3>2. CASE state \notin Drives
      <4>1. UNCHANGED <<state, endpoint, opened, mechanism_deasserted_seen>>
        BY <2>7, <3>2 DEF BeforeDeadTime, RemovePower, Drives, Stops
      <4>2. QED
        BY <3>2, <4>1 DEF EndpointInv, Drives
    <3>3. QED
      BY <3>1, <3>2
  <2>8. CASE AfterDeadTime
    BY <2>8 DEF AfterDeadTime, EndpointInv, PowerInv, SeenAfterPoll, TransitionComplete, Drives, Stops
  <2>9. CASE GiveUp
    BY <2>9 DEF GiveUp, EndpointInv, PowerInv, SeenAfterPoll, TransitionComplete, Drives, Stops
  <2>10. QED
    BY <1>5, <2>1, <2>2, <2>3, <2>4, <2>5, <2>6, <2>7, <2>8, <2>9
    DEF Service
<1>6. CASE BeginRecovery
  BY <1>6 DEF BeginRecovery, MechanismIsActive, EndpointInv, PowerInv, SeenAfterPoll, TransitionComplete, Drives, Stops
<1>7. CASE EndRecovery
  BY <1>7 DEF EndRecovery, EndpointInv, PowerInv, SeenAfterPoll, TransitionComplete, Drives, Stops
<1>8. CASE SwitchMoves
  BY <1>8 DEF SwitchMoves, EndpointInv, PowerInv, SeenAfterPoll, TransitionComplete, Drives, Stops
<1>9. CASE Tick
  BY <1>9 DEF Tick, EndpointInv, PowerInv, SeenAfterPoll, TransitionComplete, Drives, Stops
<1>10. CASE UNCHANGED vars
  BY <1>10 DEF vars, EndpointInv, PowerInv, SeenAfterPoll, TransitionComplete, Drives, Stops
<1>11. QED
  BY <1>1, <1>2, <1>3, <1>4, <1>5, <1>6, <1>7, <1>8, <1>9, <1>10 DEF Next

-----------------------------------------------------------------------------
(* The counter's circular arithmetic, as long as differences stay small.   *)
LEMMA TimeTypes ==
  /\ HalfRange \in Nat /\ DriveTime \in Nat /\ InterphaseTime \in Nat
  /\ NoMediaGrace \in Nat /\ SuccessSettle \in Nat
  /\ ServiceGap \in Nat /\ RecoveryTime \in Nat
  BY TimeAssumption

(* The signed difference of two clock values is in half the range.          *)
LEMMA DifferenceType ==
  \A a, b \in Ticks : SignedDifference(a, b) \in -HalfRange .. HalfRange - 1
  BY TimeTypes DEF Ticks, SignedDifference

(* The difference of a clock value with itself is none.                     *)
LEMMA DifferenceSelf == \A a \in Ticks : SignedDifference(a, a) = 0
  BY TimeAssumption DEF Ticks, SignedDifference

(* A tick of the clock adds one, until half the range is reached.           *)
LEMMA DifferenceTick ==
  \A a, b \in Ticks :
    SignedDifference(a, b) < HalfRange - 1 =>
      SignedDifference(Plus(a, 1), b) = SignedDifference(a, b) + 1
  BY TimeTypes DEF Ticks, SignedDifference, Plus

(* A deadline that is set later takes its delay off the difference.         *)
LEMMA DifferenceDelay ==
  \A a, b \in Ticks, d \in Nat :
    d < HalfRange /\ SignedDifference(a, b) - d >= -HalfRange =>
      SignedDifference(a, Plus(b, d)) = SignedDifference(a, b) - d
  BY TimeTypes DEF Ticks, SignedDifference, Plus

-----------------------------------------------------------------------------
(* The travel bound: every step keeps TravelInv.  A tick adds one to the   *)
(* travel, to the gap and to the lateness of the deadline alike; a phase   *)
(* hands over at most what its deadline and one gap allow.                 *)
LEMMA TravelStep ==
  TypeOK /\ PowerInv /\ TravelInv /\ [Next]_vars => TravelInv'
<1> SUFFICES ASSUME TypeOK, PowerInv, TravelInv, [Next]_vars
             PROVE  TravelInv'
  OBVIOUS
<1> USE DEF TypeOK, States, Steps, context, outputs, clock
<1>a. /\ HalfRange \in Nat /\ DriveTime \in Nat /\ InterphaseTime \in Nat
      /\ NoMediaGrace \in Nat /\ SuccessSettle \in Nat
      /\ ServiceGap \in Nat /\ RecoveryTime \in Nat
      /\ 0 < NoMediaGrace /\ ServiceGap < DriveTime
      /\ DriveTime + ServiceGap + RecoveryTime < HalfRange
      /\ NoMediaGrace + ServiceGap < HalfRange
  BY TimeAssumption
<1>b. /\ SignedDifference(now, now) = 0
      /\ SignedDifference(now, at) \in Int
      /\ Late(now) \in Int
  BY <1>a, DifferenceSelf, DifferenceType DEF Late
<1>1. CASE BootHoming \/ RequestEject
  <2>1. /\ state = "IDLE" /\ at' = now /\ gap' = 0 /\ step' = "starting"
        /\ UNCHANGED <<state, now, travel, pwm1>>
    BY <1>1 DEF BootHoming, RequestEject, SampleStart, PowerInv
  <2>2. SignedDifference(now', at') = 0
    BY <2>1, <1>b
  <2>3. QED
    BY <2>1, <2>2, <1>a DEF TravelInv, TravelBounded
<1>2. CASE BootAtEndpoint
  <2>1. /\ state = "IDLE" /\ step' = "polled"
        /\ UNCHANGED <<state, now, travel, pwm1, gap>>
    BY <1>2 DEF BootAtEndpoint, PowerInv
  <2>2. QED
    BY <2>1, <1>a DEF TravelInv, TravelBounded
<1>3. CASE StartMotion
  <2>1. /\ step = "starting" /\ state' = "LOW_DRIVE_CHECK_MEDIA"
        /\ step' = "before_dead_time" /\ gap' = 0
        /\ UNCHANGED <<now, at, travel, pwm1>>
    BY <1>3 DEF StartMotion, Enter
  <2>2. /\ travel = 0
        /\ SignedDifference(now, at) \in 0 .. RecoveryTime
    BY <2>1, <1>a DEF PowerInv, TravelInv
  <2>3. QED
    BY <2>1, <2>2, <1>a DEF TravelInv, TravelBounded
<1>4. CASE \/ EndpointReached \/ DeadlineExpired \/ MediaContextAbsent
           \/ RecoveryExpired
  <2>1. /\ state # "IDLE" /\ step = "polled" /\ step' = "before_dead_time"
        /\ at' = now /\ gap' = 0 /\ UNCHANGED <<now, travel, pwm1, deadline>>
    BY <1>4 DEF EndpointReached, DeadlineExpired, MediaContextAbsent,
       RecoveryExpired, Pass, Enter, Watching
  <2>2. CASE EndpointReached \/ RecoveryExpired
    <3>1. state' \in {"SUCCESS_SETTLE", "RETURN_SETTLE", "RETURN_PAUSE",
                      "RETRIES_EXHAUSTED"}
      BY <2>2 DEF EndpointReached, RecoveryExpired, Enter
    <3>2. QED
      BY <2>1, <3>1, <1>a DEF TravelInv, TravelBounded
  <2>3. CASE DeadlineExpired
    <3>1. \/ state = "NO_MEDIA_GRACE" /\ state' = "LOW_DRIVE_WAIT_ENDPOINT"
          \/ state = "RETURN_PAUSE" /\ state' = "RECOVERY_DRIVE_WAIT_ENDPOINT"
          \/ state = "RETURN_SETTLE" /\ state' = "LOW_DRIVE_CHECK_MEDIA"
          \/ state' = "RETURN_PAUSE"
      BY <2>3 DEF DeadlineExpired, Pass, Enter, Watching, AfterDeadline
    <3>2. state \in {"RETURN_PAUSE", "RETURN_SETTLE"} => travel = 0
      BY <2>1 DEF PowerInv, TravelInv, Stops
    <3>3. state = "NO_MEDIA_GRACE" =>
            travel <= DriveTime - 1 + NoMediaGrace - 1 + ServiceGap
      BY <2>1, <1>a, <1>b DEF TravelInv
    <3>4. QED
      BY <2>1, <3>1, <3>2, <3>3, <1>a DEF TravelInv, TravelBounded
  <2>4. CASE MediaContextAbsent
    <3>1. /\ state = "LOW_DRIVE_CHECK_MEDIA" /\ state' = "NO_MEDIA_GRACE"
          /\ Late(now) < 0
      BY <2>4, <1>b
      DEF MediaContextAbsent, Pass, Enter, DeadlineReached, Late
    <3>2. travel <= DriveTime - 1
      BY <2>1, <3>1, <1>a, <1>b DEF TravelInv
    <3>3. QED
      BY <2>1, <3>1, <3>2, <1>a DEF TravelInv, TravelBounded
  <2>5. QED
    BY <1>4, <2>2, <2>3, <2>4
<1>5. CASE KeepWaiting
  <2>1. /\ step = "polled" /\ gap' = 0 /\ Late(now) < 0
        /\ UNCHANGED <<state, step, now, travel, pwm1, deadline>>
    BY <1>5, <1>b DEF KeepWaiting, Pass, DeadlineReached, Late
  <2>2. Late(now)' = Late(now)
    BY <2>1 DEF Late
  <2>3. QED
    BY <2>1, <2>2, <1>a, <1>b DEF TravelInv, TravelBounded
<1>6. CASE Settled \/ GiveUp
  <2>1. /\ state' = "IDLE" /\ step' = "polled"
        /\ UNCHANGED <<travel, pwm1>>
    BY <1>6 DEF Settled, GiveUp, Pass
  <2>2. QED
    BY <2>1, <1>a DEF TravelInv, TravelBounded
<1>7. CASE BeforeDeadTime
  <2>1. /\ step = "before_dead_time" /\ step' = "after_dead_time"
        /\ UNCHANGED <<state, now, at, gap, deadline>>
    BY <1>7 DEF BeforeDeadTime, RemovePower
  <2>2. \/ pwm1' = pwm1 /\ travel' = travel
        \/ pwm1' = FALSE /\ travel' = 0
    BY <1>7 DEF BeforeDeadTime, RemovePower
  <2>3. gap = 0
    <3>1. state # "IDLE"
      BY <2>1 DEF PowerInv
    <3>2. QED
      BY <2>1, <3>1 DEF TravelInv
  <2>4. CASE pwm1' = pwm1 /\ travel' = travel
    BY <2>1, <2>3, <2>4, <1>a DEF TravelInv, TravelBounded
  <2>5. CASE pwm1' = FALSE /\ travel' = 0
    BY <2>1, <2>3, <2>5, <1>a DEF TravelInv, TravelBounded
  <2>6. QED
    BY <2>2, <2>4, <2>5
<1>8. CASE AfterDeadTime
  <2>1. /\ step = "after_dead_time" /\ step' \in {"polled", "exhausted"}
        /\ UNCHANGED <<state, now, at, gap, travel>>
    BY <1>8 DEF AfterDeadTime
  <2>2. state # "IDLE" /\ gap = 0
    BY <2>1 DEF PowerInv, TravelInv
  <2>3. CASE state \in Drives
    <3>1. /\ deadline' = Plus(at, DriveTime)
          /\ pwm1 => pwm1'
          /\ step' = "polled"
      BY <1>8, <2>3 DEF AfterDeadTime, Drives, Stops
    <3>2. /\ SignedDifference(now, at) \in 0 .. RecoveryTime
          /\ state # "LOW_DRIVE_CHECK_MEDIA" =>
               SignedDifference(now, at) = 0
      <4>1. at = now => SignedDifference(now, at) = 0
        BY <1>b
      <4>2. at = now \/ /\ state = "LOW_DRIVE_CHECK_MEDIA"
                        /\ SignedDifference(now, at) \in 0 .. RecoveryTime
        BY <2>1 DEF TravelInv
      <4>3. QED
        BY <4>1, <4>2, <1>a
    <3>3. Late(now)' = SignedDifference(now, at) - DriveTime
      <4>1. SignedDifference(now, at) - DriveTime >= -HalfRange
        BY <3>2, <1>a
      <4>2. DriveTime < HalfRange
        BY <1>a
      <4>3. SignedDifference(now, Plus(at, DriveTime))
              = SignedDifference(now, at) - DriveTime
        BY <4>1, <4>2, <1>a, DifferenceDelay
      <4>4. QED
        BY <2>1, <3>1, <4>3 DEF Late
    <3>4. QED
      BY <2>1, <2>2, <2>3, <3>1, <3>2, <3>3, <1>a
      DEF Drives, TravelInv, TravelBounded
  <2>4. CASE state \in Stops
    <3>1. pwm1' = pwm1
      BY <1>8, <2>4 DEF AfterDeadTime, Drives, Stops
    <3>2. QED
      BY <2>1, <2>2, <2>4, <3>1, <1>a DEF Stops, TravelInv, TravelBounded
  <2>5. CASE state = "NO_MEDIA_GRACE"
    <3>1. /\ deadline' = Plus(at, NoMediaGrace) /\ pwm1' = pwm1
          /\ step' = "polled"
      BY <1>8, <2>5 DEF AfterDeadTime, Drives, Stops
    <3>2. at = now
      BY <2>1, <2>5 DEF TravelInv
    <3>3. Late(now)' = -NoMediaGrace
      BY <2>1, <3>1, <3>2, <1>a, <1>b, DifferenceDelay DEF Late
    <3>4. QED
      BY <2>1, <2>2, <2>5, <3>1, <3>3, <1>a DEF TravelInv, TravelBounded
  <2>6. QED
    BY <1>8, <2>3, <2>4, <2>5 DEF AfterDeadTime
<1>9. CASE BeginRecovery \/ EndRecovery
  <2>1. /\ state = "IDLE" /\ UNCHANGED <<state, step, now, at, travel, pwm1>>
        /\ step = "starting" => gap' = gap
    BY <1>9 DEF BeginRecovery, MechanismIsActive, EndRecovery, PowerInv
  <2>2. QED
    BY <2>1, <1>a DEF TravelInv, TravelBounded
<1>10. CASE Tick
  <2>1. /\ now' = Plus(now, 1)
        /\ UNCHANGED <<state, step, at, deadline, pwm1>>
        /\ travel' = IF pwm1 THEN travel + 1 ELSE travel
    BY <1>10 DEF Tick
  <2>2. CASE state = "IDLE"
    <3>1. ~pwm1 /\ travel' = travel
      BY <2>1, <2>2 DEF PowerInv
    <3>2. step = "starting" =>
            /\ gap < RecoveryTime /\ gap' = gap + 1
            /\ SignedDifference(now', at') = SignedDifference(now, at) + 1
      <4>1. step = "starting" => gap < RecoveryTime /\ gap' = gap + 1
        BY <1>10, <2>2 DEF Tick
      <4>2. QED
        BY <2>1, <4>1, <1>a, <1>b, DifferenceTick DEF TravelInv
    <3>3. step \notin {"before_dead_time", "after_dead_time"}
      BY <2>2 DEF PowerInv
    <3>4. QED
      BY <2>1, <2>2, <3>1, <3>2, <3>3, <1>a DEF TravelInv, TravelBounded
  <2>3. CASE state # "IDLE"
    <3>1. step = "polled" /\ gap < ServiceGap /\ gap' = gap + 1
      BY <1>10, <2>3 DEF Tick, PowerInv
    <3>2. CASE state \in Drives \cup {"NO_MEDIA_GRACE"}
      <4>1. Late(now) < HalfRange - 1
        BY <3>1, <3>2, <1>a, <1>b DEF TravelInv, Drives
      <4>2. Late(now)' = Late(now) + 1
        BY <2>1, <4>1, DifferenceTick DEF Late
      <4>3. travel' \in {travel, travel + 1} /\ (~pwm1' => travel' = 0)
        BY <2>1 DEF TravelInv
      <4>4. QED
        BY <2>1, <2>3, <3>1, <3>2, <4>2, <4>3, <1>a, <1>b
        DEF TravelInv, TravelBounded, Drives
    <3>3. CASE state \in Stops
      <4>1. ~pwm1 /\ travel' = travel
        BY <2>1, <3>1, <3>3 DEF PowerInv
      <4>2. QED
        BY <2>1, <3>1, <3>3, <4>1, <1>a DEF TravelInv, TravelBounded, Stops
    <3>4. QED
      BY <2>3, <3>2, <3>3 DEF Drives, Stops
  <2>4. QED
    BY <2>2, <2>3
<1>11. CASE SwitchMoves
  BY <1>11 DEF SwitchMoves, TravelInv, TravelBounded, Late, SignedDifference
<1>12. CASE UNCHANGED vars
  BY <1>12 DEF vars, TravelInv, TravelBounded, Late, SignedDifference
<1>13. QED
  BY <1>1, <1>2, <1>3, <1>4, <1>5, <1>6, <1>7, <1>8, <1>9, <1>10, <1>11,
     <1>12 DEF Next, Service

-----------------------------------------------------------------------------
(* The inductive invariant.                                                *)
IInv == TypeOK /\ PowerInv /\ RetryInv /\ TravelInv /\ EndpointInv

(* The initial states satisfy every part of the invariant.                 *)
LEMMA InvInit == Init => IInv
<1> SUFFICES ASSUME Init PROVE IInv
  OBVIOUS
<1>1. TypeOK
  BY TypeInit
<1>2. PowerInv
  BY DEF Init, PowerInv, Stops, Drives
<1>3. RetryInv
  BY DEF Init, RetryInv, FailsAfterAllRetries
<1>4. TravelInv
  BY TimeAssumption DEF Init, TravelInv, TravelBounded
<1>5. EndpointInv
  BY DEF Init, EndpointInv
<1>6. QED
  BY <1>1, <1>2, <1>3, <1>4, <1>5 DEF IInv

(* Every step keeps the invariant.                                         *)
LEMMA InvStep == IInv /\ [Next]_vars => IInv'
  BY TypeStep, PowerStep, RetryStep, TravelStep, EndpointStep DEF IInv

(* The invariant holds in every reachable state of rdx_mechanism.c.        *)
THEOREM Invariant == Spec => []IInv
  BY InvInit, InvStep, PTL DEF Spec

(* Every variable keeps its type: the counter and every deadline stay in   *)
(* the range of the hardware counter, the retry counter in its budget.     *)
THEOREM TypeCorrect == Spec => []TypeOK
<1>1. IInv => TypeOK
  BY DEF IInv
<1>2. QED
  BY <1>1, Invariant, PTL

(* No blocking recovery while the motor has power, for any timing.         *)
THEOREM RecoveryNeverUnderPower == Spec => []NoRecoveryUnderPower
<1>1. IInv => NoRecoveryUnderPower
  BY DEF IInv, PowerInv, NoRecoveryUnderPower
<1>2. QED
  BY <1>1, Invariant, PTL

(* One powered run never exceeds the bound, for every choice of times the  *)
(* assumption admits, across counter wrap and late starts.                 *)
THEOREM TravelIsBounded == Spec => []TravelBounded
<1>1. IInv => TravelBounded
  BY DEF IInv, TravelInv
<1>2. QED
  BY <1>1, Invariant, PTL

(* A reported failure has used up the retry budget of its own cycle.       *)
THEOREM FailureUsesBudget == Spec => []FailsAfterAllRetries
<1>1. IInv => FailsAfterAllRetries
  BY DEF IInv, RetryInv
<1>2. QED
  BY <1>1, Invariant, PTL

(* GPIO3 is still while PWM1 runs: only the dead time's first half moves   *)
(* it in a drive, when power is still off, and a stop removes power first. *)
THEOREM ControlIsStill == Spec => ControlStillWhilePowered
<1>1. IInv /\ [Next]_vars => [pwm1 /\ pwm1' => gpio3' = gpio3]_vars
  <2> SUFFICES ASSUME IInv, [Next]_vars, pwm1, pwm1'
               PROVE  gpio3' = gpio3
    OBVIOUS
  <2>1. ~gpio3
    BY DEF IInv, PowerInv
  <2>2. PowerInv' /\ TypeOK'
    BY InvStep DEF IInv
  <2>3. QED
    BY <2>1, <2>2 DEF PowerInv, TypeOK, IInv
<1>2. QED
  BY <1>1, Invariant, PTL DEF Spec, ControlStillWhilePowered

(* The switch completes a phase only by a real opening and closing.        *)
THEOREM CompletionIsTravel == Spec => CompletionNeedsTravel
<1> DEFINE Completes == /\ state' \in {"SUCCESS_SETTLE", "RETURN_SETTLE"}
                        /\ state' # state
                        => opened /\ endpoint
<1>1. IInv /\ [Next]_vars => [Completes]_vars
  <2> SUFFICES ASSUME IInv, Next,
                      state' \in {"SUCCESS_SETTLE", "RETURN_SETTLE"},
                      state' # state
               PROVE  opened /\ endpoint
    BY DEF vars, context
  <2>1. EndpointReached
    <3> USE DEF context
    <3>1. ~(BootHoming \/ BootAtEndpoint \/ RequestEject \/ StartMotion)
      BY DEF BootHoming, BootAtEndpoint, RequestEject, SampleStart,
             StartMotion, Enter
    <3>2. ~(BeginRecovery \/ EndRecovery \/ SwitchMoves \/ Tick)
      BY DEF BeginRecovery, MechanismIsActive, EndRecovery, SwitchMoves, Tick
    <3>3. ~(BeforeDeadTime \/ AfterDeadTime \/ GiveUp \/ KeepWaiting
            \/ Settled)
      BY DEF BeforeDeadTime, RemovePower, AfterDeadTime, GiveUp, KeepWaiting, Settled
    <3>4. ~(DeadlineExpired \/ MediaContextAbsent \/ RecoveryExpired)
      BY DEF DeadlineExpired, MediaContextAbsent, RecoveryExpired, Pass,
             Enter, Watching, AfterDeadline
    <3>5. QED
      BY <3>1, <3>2, <3>3, <3>4 DEF Next, Service
  <2>2. QED
    BY <2>1 DEF EndpointReached, TransitionComplete, IInv, EndpointInv
<1>2. QED
  BY <1>1, Invariant, PTL DEF Spec, CompletionNeedsTravel

-----------------------------------------------------------------------------
(* The controller's safety refinement: with motion as                      *)
(* rdx_mechanism_is_active and power as PWM1, every step of the controller *)
(* is a step of the contract or changes nothing the contract sees.         *)
LEMMA ContractInit == Init => Contract!Init
  BY DEF Init, Contract!Init, MechanismIsActive

(* Every step maps to a step of the contract or to a stutter.               *)
LEMMA ContractStep ==
  IInv /\ [Next]_vars => [Contract!Next]_<<MechanismIsActive, pwm1, outcome>>
<1> SUFFICES ASSUME IInv, [Next]_vars
             PROVE  [Contract!Next]_<<MechanismIsActive, pwm1, outcome>>
  OBVIOUS
<1> USE DEF MechanismIsActive, IInv, TypeOK, PowerInv, States, Steps, context, outputs, clock
<1>1. CASE BootHoming \/ RequestEject
  <2>1. state = "IDLE" /\ outcome' = "none" /\ UNCHANGED <<state, pwm1>>
    BY <1>1 DEF BootHoming, RequestEject, SampleStart
  <2>2. QED
    BY <2>1 DEF Contract!Next, Contract!Accept
<1>2. CASE StartMotion
  <2>1. /\ state = "IDLE" /\ outcome = "none"
        /\ state' = "LOW_DRIVE_CHECK_MEDIA" /\ UNCHANGED <<pwm1, outcome>>
    BY <1>2 DEF StartMotion, Enter, RetryInv
  <2>2. QED
    BY <2>1 DEF Contract!Next, Contract!Begin
<1>3. CASE Settled \/ GiveUp
  <2>1. /\ state # "IDLE" /\ ~pwm1 /\ state' = "IDLE" /\ pwm1' = pwm1
        /\ outcome' \in {"succeeded", "failed"}
    BY <1>3 DEF Settled, GiveUp, Pass, Stops
  <2>2. QED
    BY <2>1 DEF Contract!Next, Contract!End
<1>4. CASE BeforeDeadTime
  <2>1. /\ UNCHANGED <<state, outcome>>
        /\ pwm1' = pwm1 \/ pwm1' = FALSE
    BY <1>4 DEF BeforeDeadTime, RemovePower
  <2>2. QED
    BY <2>1 DEF Contract!Next, Contract!RemovePower
<1>5. CASE AfterDeadTime
  <2>1. /\ state # "IDLE" /\ UNCHANGED <<state, outcome>>
        /\ pwm1' = pwm1 \/ pwm1' = TRUE
    BY <1>5 DEF AfterDeadTime
  <2>2. QED
    BY <2>1 DEF Contract!Next, Contract!ApplyPower
<1>6. CASE \/ EndpointReached \/ DeadlineExpired \/ MediaContextAbsent
           \/ RecoveryExpired \/ KeepWaiting
  <2>1. state # "IDLE" /\ state' # "IDLE" /\ UNCHANGED <<pwm1, outcome>>
    BY <1>6 DEF EndpointReached, DeadlineExpired, MediaContextAbsent,
       RecoveryExpired, KeepWaiting, Pass, Enter, Watching, AfterDeadline
  <2>2. QED
    BY <2>1
<1>7. CASE \/ BootAtEndpoint \/ BeginRecovery \/ EndRecovery \/ SwitchMoves
           \/ Tick \/ UNCHANGED vars
  <2>1. UNCHANGED <<state, pwm1, outcome>>
    BY <1>7 DEF BootAtEndpoint, BeginRecovery, EndRecovery, SwitchMoves,
       Tick, vars
  <2>2. QED
    BY <2>1
<1>8. QED
  BY <1>1, <1>2, <1>3, <1>4, <1>5, <1>6, <1>7 DEF Next, Service

(* The controller implements the contract's safety part for every value of *)
(* its constants; the contract's fairness is left to model checking.       *)
THEOREM ImplementsContractSafely == Spec => Contract!Safe
<1>1. Contract!vars = <<MechanismIsActive, pwm1, outcome>>
  BY DEF Contract!vars
<1>2. IInv /\ [Next]_vars => [Contract!Next]_(Contract!vars)
  BY ContractStep DEF Contract!vars
<1>3. QED
  BY ContractInit, <1>2, Invariant, PTL DEF Spec, Contract!Safe

=============================================================================
