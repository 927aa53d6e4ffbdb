------------------------------ MODULE Mechanism ------------------------------
(***************************************************************************)
(* The eject motor controller, src/src/rdx_mount/rdx_mechanism.c.          *)
(*                                                                         *)
(* One foreground pass of rdx_mechanism_service is split at the points     *)
(* where an interrupt can be told apart: the new state is published        *)
(* first, the first half of the outputs follows, then the dead time, then  *)
(* the second half.  Between any two of them the SATA receiver-error       *)
(* interrupt may run; while it blocks, the foreground does nothing but the *)
(* RTI counter goes on.                                                    *)
(*                                                                         *)
(* Time is in ticks.  The counter wraps at 2 * HalfRange, and a deadline   *)
(* is compared as the code compares it, by the sign of the difference.     *)
(***************************************************************************)
EXTENDS Integers

CONSTANTS
  HalfRange,         \* half the range of the RTI counter (2^31 ms)
  DriveTime,         \* RDX_MECHANISM_DRIVE_TIME_MS
  InterphaseTime,    \* RDX_MECHANISM_INTERPHASE_TIME_MS
  NoMediaGrace,      \* RDX_MECHANISM_NO_MEDIA_GRACE_MS
  SuccessSettle,     \* RDX_MECHANISM_SUCCESS_SETTLE_MS
  MaxReturnTimeouts, \* RDX_MECHANISM_MAX_RETURN_TIMEOUTS
  ServiceGap,        \* most ticks between two foreground passes in motion
  RecoveryTime,      \* most ticks a blocking link recovery takes
  Profiles           \* hardware profiles considered

ASSUME TimeAssumption ==
  /\ HalfRange \in Nat /\ DriveTime \in Nat /\ InterphaseTime \in Nat
  /\ NoMediaGrace \in Nat /\ SuccessSettle \in Nat
  /\ ServiceGap \in Nat /\ RecoveryTime \in Nat
  /\ MaxReturnTimeouts \in Nat \ {0}
  /\ 0 < ServiceGap /\ ServiceGap < DriveTime
  /\ 0 < NoMediaGrace /\ 0 < InterphaseTime /\ 0 < SuccessSettle
  /\ DriveTime + ServiceGap + RecoveryTime < HalfRange
  /\ NoMediaGrace + ServiceGap < HalfRange
  /\ InterphaseTime + ServiceGap < HalfRange
  /\ SuccessSettle + ServiceGap < HalfRange

(* RDX_MECHANISM_STATE_T, states 0 to 8 in order. *)
States == {"IDLE", "LOW_DRIVE_CHECK_MEDIA", "NO_MEDIA_GRACE",
           "LOW_DRIVE_WAIT_ENDPOINT", "SUCCESS_SETTLE", "RETURN_PAUSE",
           "RECOVERY_DRIVE_WAIT_ENDPOINT", "RETURN_SETTLE",
           "RETRIES_EXHAUSTED"}

Drives == {"LOW_DRIVE_CHECK_MEDIA", "LOW_DRIVE_WAIT_ENDPOINT",
           "RECOVERY_DRIVE_WAIT_ENDPOINT"}
Stops  == {"SUCCESS_SETTLE", "RETURN_PAUSE", "RETURN_SETTLE",
           "RETRIES_EXHAUSTED"}

VARIABLES
  state, return_drive_timeouts, mechanism_deasserted_seen, deadline,
                      \* RDX_MECHANISM_CONTEXT_T
  hardware_profile,
  step,               \* where the foreground is inside the controller
  at,                 \* the `now` argument of the pass in progress
  outcome,            \* last RDX_MECHANISM_EVENT_T returned since a start
  pwm1, gpio3, gpio0, \* motor PWM, motor control level, profile output
  endpoint,           \* GPIO2 asserted (active low, decoded)
  now,                \* RTI millisecond counter
  recovering,         \* receiver-error ISR is inside blocking recovery
  gap,                \* ticks since the last pass or since the recovery began;
                      \* bounds Tick, stands for no state of the program
  \* History variables, read by properties only.
  travel,             \* ticks the motor has been powered without a stop
  opened,             \* the switch has been open since the drive was seeded
  expiries            \* recovery drives expired since the last start

context == <<state, return_drive_timeouts, mechanism_deasserted_seen,
             deadline, hardware_profile>>
outputs == <<pwm1, gpio3, gpio0>>
clock   == <<now, gap, travel>>
vars == <<context, step, at, outcome, outputs, endpoint, recovering, clock,
          opened, expiries>>

Ticks == 0 .. 2 * HalfRange - 1
Plus(t, d) == IF t + d < 2 * HalfRange THEN t + d ELSE t + d - 2 * HalfRange

PlainDifference(a, b) == a - b   \* mutant: the comparison ignores the wrap

(* (INT32_T)(a - b) for two counter readings. *)
SignedDifference(a, b) ==
  LET d == IF a >= b THEN a - b ELSE a - b + 2 * HalfRange
  IN  IF d < HalfRange THEN d ELSE d - 2 * HalfRange

DeadlineReached(t) == SignedDifference(t, deadline) >= 0

EndpointClosed == endpoint   \* mutant: the switch need not have been open

(* rdx_mechanism_transition_complete: the switch closes after it was seen  *)
(* open; a poll of an open switch is remembered.                           *)
TransitionComplete == endpoint /\ mechanism_deasserted_seen
SeenAfterPoll      == IF endpoint THEN mechanism_deasserted_seen ELSE TRUE

ActiveWhenServiced == state # "IDLE" /\ step = "polled"   \* mutant: too late

(* rdx_mechanism_is_active: what the interrupt handlers ask.               *)
MechanismIsActive == state # "IDLE"

BudgetUsedEarly(n) == n + 1 >= MaxReturnTimeouts   \* mutant: off by one
BudgetUsed(n)      == n >= MaxReturnTimeouts

-----------------------------------------------------------------------------
Init ==
  /\ state = "IDLE"
  /\ return_drive_timeouts = 0
  /\ mechanism_deasserted_seen = FALSE
  /\ deadline = 0
  /\ hardware_profile \in Profiles
  /\ step = "boot"
  /\ at = 0
  /\ outcome = "none"
  /\ pwm1 = FALSE
  /\ gpio3 = TRUE
  /\ gpio0 = (hardware_profile = "38h")
  /\ endpoint \in BOOLEAN
  /\ now \in Ticks
  /\ recovering = FALSE
  /\ gap = 0 /\ travel = 0
  /\ opened = FALSE
  /\ expiries = 0

(* rdx_mechanism_enter_state, first statement: the state is published      *)
(* before any output changes.                                              *)
Enter(s) ==
  /\ state' = s
  /\ step' = "before_dead_time"
  /\ UNCHANGED <<deadline, hardware_profile, outputs>>

(* A start samples the counter first; the ISR may delay what follows.      *)
SampleStart ==
  /\ at' = now
  /\ gap' = 0
  /\ outcome' = "none"
  /\ expiries' = 0
  /\ step' = "starting"
  /\ UNCHANGED <<state, mechanism_deasserted_seen, deadline,
                 hardware_profile, outputs, endpoint, recovering, now,
                 travel, opened>>

(* rdx_mechanism_start_boot_homing, once after boot, if the switch is open *)
BootHoming ==
  /\ step = "boot" /\ ~recovering
  /\ ~endpoint
  /\ SampleStart
  /\ UNCHANGED return_drive_timeouts

BootAtEndpoint ==
  /\ step = "boot" /\ ~recovering
  /\ endpoint
  /\ step' = "polled"
  /\ UNCHANGED <<context, at, outcome, outputs, endpoint, recovering, clock,
                 opened, expiries>>

(* rdx_mechanism_start; the eject coordinator calls it only when idle.     *)
RequestEject ==
  /\ step = "polled" /\ ~recovering
  /\ state = "IDLE"
  /\ SampleStart
  /\ return_drive_timeouts' = 0

StartMotion ==
  /\ step = "starting" /\ ~recovering
  /\ Enter("LOW_DRIVE_CHECK_MEDIA")
  /\ gap' = 0
  /\ UNCHANGED <<return_drive_timeouts, mechanism_deasserted_seen, at,
                 outcome, endpoint, recovering, now, travel, opened,
                 expiries>>

-----------------------------------------------------------------------------
(* rdx_mechanism_service: one pass of the foreground in a state S.         *)
Pass(S) ==
  /\ step = "polled" /\ ~recovering
  /\ state \in S
  /\ at' = now
  /\ gap' = 0
  /\ UNCHANGED <<endpoint, recovering, now, travel, opened>>

(* The phases that poll the switch; state 7 only waits for its deadline.   *)
Watching == {"LOW_DRIVE_CHECK_MEDIA", "NO_MEDIA_GRACE",
             "LOW_DRIVE_WAIT_ENDPOINT", "RETURN_PAUSE",
             "RECOVERY_DRIVE_WAIT_ENDPOINT"}

LowDriveAfterPause(s) ==   \* mutant: a retry is a low drive, not counted
  CASE s = "NO_MEDIA_GRACE" -> "LOW_DRIVE_WAIT_ENDPOINT"
    [] s \in {"RETURN_PAUSE", "RETURN_SETTLE"} -> "LOW_DRIVE_CHECK_MEDIA"
    [] OTHER -> "RETURN_PAUSE"

AfterDeadline(s) ==
  CASE s = "NO_MEDIA_GRACE" -> "LOW_DRIVE_WAIT_ENDPOINT"
    [] s = "RETURN_PAUSE"   -> "RECOVERY_DRIVE_WAIT_ENDPOINT"
    [] s = "RETURN_SETTLE"  -> "LOW_DRIVE_CHECK_MEDIA"
    [] OTHER                -> "RETURN_PAUSE"

EndpointReached ==
  /\ Pass(Watching)
  /\ TransitionComplete
  /\ Enter(IF state = "RECOVERY_DRIVE_WAIT_ENDPOINT"
           THEN "RETURN_SETTLE" ELSE "SUCCESS_SETTLE")
  /\ UNCHANGED <<mechanism_deasserted_seen, return_drive_timeouts, outcome,
                 expiries>>

DeadlineExpired ==
  /\ Pass((Watching \ {"RECOVERY_DRIVE_WAIT_ENDPOINT"})
          \cup {"RETURN_SETTLE"})
  /\ state \in Watching => ~TransitionComplete
  /\ DeadlineReached(now)
  /\ Enter(AfterDeadline(state))
  /\ mechanism_deasserted_seen' =
       IF state \in Watching THEN SeenAfterPoll ELSE mechanism_deasserted_seen
  /\ UNCHANGED <<return_drive_timeouts, outcome, expiries>>

(* rdx_mechanism_media_context_absent: GPIO5, the SATA link and the ADC    *)
(* are inputs; the deadline is looked at first.                            *)
MediaContextAbsent ==
  /\ Pass({"LOW_DRIVE_CHECK_MEDIA"})
  /\ ~TransitionComplete
  /\ ~DeadlineReached(now)
  /\ Enter("NO_MEDIA_GRACE")
  /\ mechanism_deasserted_seen' = SeenAfterPoll
  /\ UNCHANGED <<return_drive_timeouts, outcome, expiries>>

RecoveryExpired ==
  /\ Pass({"RECOVERY_DRIVE_WAIT_ENDPOINT"})
  /\ ~TransitionComplete
  /\ DeadlineReached(now)
  /\ return_drive_timeouts' = return_drive_timeouts + 1
  /\ Enter(IF BudgetUsed(return_drive_timeouts')
           THEN "RETRIES_EXHAUSTED" ELSE "RETURN_PAUSE")
  /\ mechanism_deasserted_seen' = SeenAfterPoll
  /\ expiries' = expiries + 1
  /\ UNCHANGED outcome

KeepWaiting ==
  /\ Pass(Watching \cup {"RETURN_SETTLE", "SUCCESS_SETTLE"})
  /\ state \in Watching => ~TransitionComplete
  /\ ~DeadlineReached(now)
  /\ mechanism_deasserted_seen' =
       IF state \in Watching THEN SeenAfterPoll ELSE mechanism_deasserted_seen
  /\ UNCHANGED <<state, return_drive_timeouts, deadline, hardware_profile,
                 step, outcome, outputs, expiries>>

Settled ==
  /\ Pass({"SUCCESS_SETTLE"})
  /\ DeadlineReached(now)
  /\ state' = "IDLE"
  /\ outcome' = "succeeded"
  /\ UNCHANGED <<return_drive_timeouts, mechanism_deasserted_seen, deadline,
                 hardware_profile, step, outputs, expiries>>

-----------------------------------------------------------------------------
RaiseControlFirst ==   \* mutant: the two halves of a stop swapped
  gpio3' = TRUE /\ UNCHANGED <<pwm1, gpio0, travel>>
KeepPower ==           \* mutant: a stop without its first half
  UNCHANGED <<outputs, travel>>

(* rdx_mechanism_stop_motor, before the dead time.                         *)
RemovePower ==
  /\ pwm1' = FALSE
  /\ travel' = 0
  /\ gpio0' = IF hardware_profile = "38h" THEN gpio0 ELSE FALSE
  /\ UNCHANGED gpio3

(* The rest of rdx_mechanism_enter_state.  A drive seeds the switch        *)
(* detector and lowers GPIO3; a stop removes PWM1 and the profile output.  *)
BeforeDeadTime ==
  /\ step = "before_dead_time" /\ ~recovering
  /\ step' = "after_dead_time"
  /\ \/ /\ state \in Drives
        /\ gpio3' = FALSE
        /\ IF state = "LOW_DRIVE_WAIT_ENDPOINT"
           THEN UNCHANGED <<mechanism_deasserted_seen, opened>>
           ELSE /\ opened' = IF endpoint THEN FALSE ELSE TRUE
                /\ mechanism_deasserted_seen' = opened'
        /\ UNCHANGED <<pwm1, gpio0, travel>>
     \/ /\ state \in Stops
        /\ RemovePower
        /\ UNCHANGED <<mechanism_deasserted_seen, opened>>
     \/ /\ state = "NO_MEDIA_GRACE"
        /\ UNCHANGED <<outputs, travel, mechanism_deasserted_seen, opened>>
  /\ UNCHANGED <<state, return_drive_timeouts, deadline, hardware_profile,
                 at, outcome, endpoint, recovering, now, gap, expiries>>

(* A drive applies power, a stop raises GPIO3; then the phase's deadline.  *)
(* Profile 36h has no powered recovery; 35h and 37h assert GPIO0 in it.    *)
AfterDeadTime ==
  /\ step = "after_dead_time" /\ ~recovering
  /\ step' = IF state = "RETRIES_EXHAUSTED" THEN "exhausted" ELSE "polled"
  /\ \/ /\ state \in Drives
        /\ pwm1' = IF /\ state = "RECOVERY_DRIVE_WAIT_ENDPOINT"
                      /\ hardware_profile = "36h"
                   THEN pwm1 ELSE TRUE
        /\ gpio0' = IF /\ state = "RECOVERY_DRIVE_WAIT_ENDPOINT"
                       /\ hardware_profile \in {"35h", "37h"}
                    THEN TRUE ELSE gpio0
        /\ deadline' = Plus(at, DriveTime)
        /\ UNCHANGED <<gpio3, return_drive_timeouts>>
     \/ /\ state \in Stops
        /\ gpio3' = TRUE
        /\ return_drive_timeouts' =
             IF state \in {"SUCCESS_SETTLE", "RETRIES_EXHAUSTED"}
             THEN 0 ELSE return_drive_timeouts
        /\ deadline' =
             CASE state = "SUCCESS_SETTLE" -> Plus(at, SuccessSettle)
               [] state = "RETURN_PAUSE"   -> Plus(at, InterphaseTime)
               [] OTHER                    -> deadline
        /\ UNCHANGED <<pwm1, gpio0>>
     \/ /\ state = "NO_MEDIA_GRACE"
        /\ deadline' = Plus(at, NoMediaGrace)
        /\ UNCHANGED <<outputs, return_drive_timeouts>>
  /\ UNCHANGED <<state, mechanism_deasserted_seen, hardware_profile, at,
                 outcome, endpoint, recovering, clock, opened, expiries>>

(* The third expired recovery drive ends the cycle in the same pass.       *)
GiveUp ==
  /\ step = "exhausted" /\ ~recovering
  /\ state' = "IDLE"
  /\ outcome' = "failed"
  /\ step' = "polled"
  /\ UNCHANGED <<return_drive_timeouts, mechanism_deasserted_seen, deadline,
                 hardware_profile, at, outputs, endpoint, recovering, clock,
                 opened, expiries>>

-----------------------------------------------------------------------------
(* ahci_rx_error_isr: blocking recovery, unless rdx_mechanism_is_active.   *)
BeginRecovery ==
  /\ ~recovering
  /\ ~MechanismIsActive
  /\ recovering' = TRUE
  /\ gap' = IF step = "starting" THEN gap ELSE 0
  /\ UNCHANGED <<context, step, at, outcome, outputs, endpoint, now, travel,
                 opened, expiries>>

EndRecovery ==
  /\ recovering
  /\ recovering' = FALSE
  /\ gap' = IF step = "starting" THEN gap ELSE 0
  /\ UNCHANGED <<context, step, at, outcome, outputs, endpoint, now, travel,
                 opened, expiries>>

SwitchMoves ==
  /\ endpoint' = ~endpoint
  /\ opened' = IF endpoint THEN TRUE ELSE opened
  /\ UNCHANGED <<context, step, at, outcome, outputs, recovering, clock,
                 expiries>>

(* The dead time and the stores around it take no tick.  The bounds are    *)
(* ServiceGap between passes in motion and RecoveryTime inside the ISR.    *)
Tick ==
  /\ \/ recovering /\ gap < RecoveryTime
     \/ ~recovering /\ step = "polled" /\ state # "IDLE" /\ gap < ServiceGap
     \/ ~recovering /\ step \in {"boot", "polled"} /\ state = "IDLE"
  /\ now' = Plus(now, 1)
  /\ gap' = IF recovering \/ state # "IDLE" THEN gap + 1 ELSE gap
  /\ travel' = IF pwm1 THEN travel + 1 ELSE travel
  /\ UNCHANGED <<context, step, at, outcome, outputs, endpoint, recovering,
                 opened, expiries>>

Service ==
  \/ EndpointReached \/ DeadlineExpired \/ MediaContextAbsent
  \/ RecoveryExpired \/ KeepWaiting \/ Settled
  \/ BeforeDeadTime \/ AfterDeadTime \/ GiveUp

Next ==
  \/ BootHoming \/ BootAtEndpoint \/ RequestEject \/ StartMotion \/ Service
  \/ BeginRecovery \/ EndRecovery \/ SwitchMoves \/ Tick

(* The main loop keeps calling, the ISR returns, time passes.              *)
Spec ==
  /\ Init /\ [][Next]_vars
  /\ WF_vars(StartMotion) /\ WF_vars(Service)
  /\ WF_vars(EndRecovery) /\ WF_vars(Tick)

-----------------------------------------------------------------------------
Steps == {"boot", "polled", "starting", "before_dead_time",
          "after_dead_time", "exhausted"}

(* Every variable stays in the range its C type and the state table give. *)
TypeOK ==
  /\ state \in States
  /\ return_drive_timeouts \in 0 .. MaxReturnTimeouts
  /\ mechanism_deasserted_seen \in BOOLEAN
  /\ deadline \in Ticks
  /\ hardware_profile \in Profiles
  /\ step \in Steps
  /\ at \in Ticks
  /\ outcome \in {"none", "succeeded", "failed"}
  /\ pwm1 \in BOOLEAN /\ gpio3 \in BOOLEAN /\ gpio0 \in BOOLEAN
  /\ endpoint \in BOOLEAN
  /\ now \in Ticks
  /\ recovering \in BOOLEAN
  /\ gap \in Nat /\ travel \in Nat
  /\ opened \in BOOLEAN
  /\ expiries \in 0 .. MaxReturnTimeouts

(* Blocking link recovery never holds the processor while the motor has    *)
(* power (rdx_mechanism.c:420 and ahci.c:3308): ownership is published     *)
(* before the first output and given up after the last.                    *)
NoRecoveryUnderPower == recovering => ~pwm1 /\ gpio3

(* However the phases re-arm the deadline, wherever the counter wraps and  *)
(* however late a start is, one powered run is bounded: the initial drive  *)
(* is left for the grace period before its deadline, the other two phases  *)
(* end at the first pass at or after theirs (571-612).                     *)
TravelBounded ==
  travel <= 2 * (DriveTime - 1) + (NoMediaGrace - 1) + 2 * ServiceGap

(* GPIO3 never changes while PWM1 runs: the dead time separates the two in *)
(* both directions, whatever phase follows whatever phase (310-330).       *)
ControlStillWhilePowered == [][pwm1 /\ pwm1' => gpio3' = gpio3]_vars

(* A phase is completed by the switch only after the switch was really     *)
(* open since the drive began, and is closed now (346-368).                *)
CompletionNeedsTravel ==
  [][ /\ state' \in {"SUCCESS_SETTLE", "RETURN_SETTLE"}
      /\ state' # state
      => opened /\ endpoint ]_vars

(* A cycle fails only after the whole retry budget was used in that cycle, *)
(* although boot homing never clears the counter (516-525, 646-659).       *)
FailsAfterAllRetries ==
  outcome = "failed" => expiries = MaxReturnTimeouts

(* The controller implements its contract, with the motor's power as PWM1  *)
(* and motion as rdx_mechanism_is_active(): a motion has one outcome,      *)
(* published after power is off, and power is always removed again.        *)
Contract == INSTANCE MechanismContract
              WITH moving <- MechanismIsActive, powered <- pwm1
ImplementsContract == Contract!Spec

(* If the return endpoint stops being reached, the cycle ends.  State 7    *)
(* returns to state 1 without using up a retry, so a switch that answers   *)
(* every recovery drive and no low drive keeps the cycle going.            *)
CycleEnds ==
  <>[](state # "RETURN_SETTLE") => [](state # "IDLE" => <>(state = "IDLE"))

=============================================================================
