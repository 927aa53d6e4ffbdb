-------------------------- MODULE EjectCoordinator --------------------------
(***************************************************************************)
(* The foreground loop around an eject: rdx_hardware.c (cartridge and      *)
(* button inputs, rdx_hardware_service_eject), the deferred discovery of   *)
(* ahci.c that it shares the SATA port with, the host commands of scsi.c   *)
(* and rdx_manager_control.c that reach it from the USB interrupt, and the *)
(* SATA interrupts.  The motor is a MechanismContract.                     *)
(*                                                                         *)
(* `at` is where the foreground is in one turn of main.c's loop; interrupt *)
(* handlers run between any two of its steps.  GPIO levels and debounce    *)
(* timers are inputs, chosen when they are read.                           *)
(***************************************************************************)
EXTENDS Integers

CONSTANTS
  MaxCallbacks,  \* bound: host commands stop when this many are queued
  CountWrap      \* bound: the load counter is kept modulo this

ASSUME BoundsAssumption ==
  MaxCallbacks \in Nat \ {0} /\ CountWrap \in Nat \ {0, 1}

VARIABLES
  at,
  eject_requested, eject_state,       \* rdx_hardware
  cartridge_stable, ejected_latched, logical_unloaded,
  button_stable, button_armed,
  drive_load_count, policy,           \* rdx_control, pages 31h and 33h
  physical_eject_inhibited,
  prevented,                          \* scsi_medium_removal_prevented
  ready,                              \* ata_dev[0].bDeviceInitComplete
  port,       \* what PxIE, the RX mask and ahci_hotplug_* say together
  slot,       \* PxCI | PxSACT: free, active, or lost (nobody completes it)
  callbacks,  \* ATA callbacks queued for the foreground
  moving, powered, outcome,           \* the mechanism, by its contract
  homing      \* history: the motion in progress is the one after boot

requests == <<eject_requested, eject_state>>
cartridge == <<cartridge_stable, ejected_latched, logical_unloaded>>
button == <<button_stable, button_armed>>
control == <<drive_load_count, policy, physical_eject_inhibited, prevented>>
media == <<ready, port>>
ata == <<ready, port, slot, callbacks>>
motor == <<moving, powered, outcome, homing>>
vars == <<at, requests, cartridge, button, control, ata, motor>>

M == INSTANCE MechanismContract

Loop == {"boot", "ahci_service", "discovery", "callback", "cartridge",
         "button", "temperature", "eject", "masked", "teardown", "start"}
Policies == {{}, {"unload"}, {"unload", "reload"}}

CartridgeAvailable == cartridge_stable /\ ~ejected_latched
EjectInProgress    == eject_requested \/ eject_state # "IDLE"
AtaIsIdle          == slot = "free" /\ callbacks = 0
DiscoveryPending   == port \in {"queued", "quiesced"}

-----------------------------------------------------------------------------
(* main.c up to rdx_hardware_start: blocking discovery has ended in        *)
(* admission, in failure (an IDENTIFY that timed out still owns PxCI) or   *)
(* in a new link change.                                                   *)
Init ==
  /\ at = "boot"
  /\ eject_requested = FALSE /\ eject_state = "IDLE"
  /\ cartridge_stable = FALSE /\ ejected_latched = FALSE
  /\ logical_unloaded = FALSE
  /\ button_stable \in BOOLEAN /\ button_armed = ~button_stable
  /\ drive_load_count = 0 /\ policy = {}
  /\ physical_eject_inhibited = FALSE /\ prevented = FALSE
  /\ \/ ready = TRUE  /\ port = "admitted" /\ slot = "free"
     \/ ready = FALSE /\ port = "failed"   /\ slot \in {"free", "lost"}
     \/ ready = FALSE /\ port = "queued"   /\ slot = "free"
  /\ callbacks = 0
  /\ M!Init
  /\ homing = FALSE

Boot ==
  /\ at = "boot"
  /\ at' = "ahci_service"
  /\ \/ /\ M!Begin
        /\ homing' = TRUE
        /\ eject_state' = "MECHANISM_ACTIVE"
     \/ UNCHANGED <<motor, eject_state>>
  /\ UNCHANGED <<eject_requested, cartridge, button, control, ata>>

(* ahci_schedule_media_discovery: media closed, PxIE and RX masked.        *)
ScheduleDiscovery ==
  /\ ready' = FALSE
  /\ port' = IF DiscoveryPending THEN port ELSE "queued"

(* ahci_recover_local_command(TRUE) for a polled command that timed out.   *)
RecoverLocalCommand == ScheduleDiscovery /\ slot' = "free"

(* A stopped port, reset or not; a reset closes admitted media.            *)
StopAndMaybeReset ==
  /\ slot' = "free"
  /\ ScheduleDiscovery \/ UNCHANGED media

QueueUnlessPending ==
  callbacks' = IF callbacks = 0 THEN 1 ELSE callbacks

-----------------------------------------------------------------------------
Ungated    == TRUE                \* mutant: discovery while an eject runs
ForegroundMayTouchPort == ~EjectInProgress

Undrained  == TRUE                \* mutant: callbacks are not waited for
CallbacksDrained == callbacks = 0

(* ahci_service: one deferred step, never while an eject is in progress.   *)
AhciService ==
  /\ at = "ahci_service"
  /\ \/ /\ ForegroundMayTouchPort /\ CallbacksDrained
        /\ \/ port = "queued" /\ port' = "quiesced" /\ slot' = "free"
                              /\ at' = "callback"
           \/ port = "quiesced" /\ port' = "discovering" /\ slot' = slot
                                /\ at' = "discovery"
     \/ /\ at' = "callback"
        /\ UNCHANGED <<port, slot>>
        /\ \/ ~ForegroundMayTouchPort \/ ~CallbacksDrained
           \/ port # "queued"     \* nothing pending, or DET not ready
  /\ UNCHANGED <<requests, cartridge, button, control, ready, callbacks,
                 motor>>

(* ahci_init_port returns: admitted, changed under our feet, or failed.    *)
FinishDiscovery ==
  /\ at = "discovery"
  /\ at' = "callback"
  /\ \/ ready' = TRUE  /\ port' = "admitted" /\ slot' = "free"
     \/ ready' = FALSE /\ port' = "queued"   /\ slot' = "free"
     \/ ready' = FALSE /\ port' = "failed"   /\ slot' \in {"free", "lost"}
  /\ UNCHANGED <<requests, cartridge, button, control, callbacks, motor>>

DrainOutsideEject ==              \* mutant: an eject also stops callbacks
  callbacks > 0 /\ ~EjectInProgress
CallbackIsNext == callbacks > 0

(* main.c:233: at most one callback a turn, with USB interrupts masked.    *)
DrainCallback ==
  /\ at = "callback"
  /\ at' = "cartridge"
  /\ callbacks' = IF CallbackIsNext THEN callbacks - 1 ELSE callbacks
  /\ UNCHANGED <<requests, cartridge, button, control, ready, port, slot,
                 motor>>

-----------------------------------------------------------------------------
RemovedKeepsUnload(present) ==    \* mutant: removal forgets a latch
  IF present THEN FALSE ELSE logical_unloaded
UnloadAfterChange(present) == FALSE

(* rdx_hardware_service_cartridge_input: a debounced level is committed,   *)
(* an insertion only when no eject is under way.                           *)
CommitCartridge(present) ==
  /\ present # cartridge_stable
  /\ present => eject_state = "IDLE"
  /\ cartridge_stable' = present
  /\ ejected_latched' = FALSE
  /\ logical_unloaded' = UnloadAfterChange(present)
  /\ policy' = IF present THEN policy ELSE {}
  /\ IF present /\ ~ready THEN ScheduleDiscovery ELSE UNCHANGED media

ServiceCartridgeInput ==
  /\ at = "cartridge"
  /\ at' = "button"
  /\ \/ \E present \in BOOLEAN : CommitCartridge(present)
     \/ UNCHANGED <<cartridge, policy, media>>
  /\ UNCHANGED <<requests, button, drive_load_count,
                 physical_eject_inhibited, prevented, slot, callbacks, motor>>

(* rdx_hardware_service_eject_button: a debounced edge or nothing.         *)
PressEjectButton ==
  /\ ~button_stable
  /\ button_stable' = TRUE
  /\ IF button_armed /\ CartridgeAvailable
     THEN /\ button_armed' = FALSE
          /\ eject_requested' = (eject_requested \/
                                 (~physical_eject_inhibited /\ ~prevented))
     ELSE UNCHANGED <<button_armed, eject_requested>>

ReleaseEjectButton ==
  /\ button_stable
  /\ button_stable' = FALSE
  /\ button_armed' = TRUE
  /\ UNCHANGED eject_requested

ServiceEjectButton ==
  /\ at = "button"
  /\ at' = "temperature"
  /\ \/ PressEjectButton \/ ReleaseEjectButton
     \/ UNCHANGED <<button, eject_requested>>
  /\ UNCHANGED <<eject_state, cartridge, control, ata, motor>>

(* rdx_hardware_service_temperature: a polled SMART read, with USB masked, *)
(* may end in the recovery of the local command.                           *)
SampleTemperature ==
  /\ at = "temperature"
  /\ at' = "eject"
  /\ \/ /\ ~EjectInProgress /\ CartridgeAvailable /\ AtaIsIdle /\ ready
        /\ RecoverLocalCommand
     \/ UNCHANGED <<media, slot>>
  /\ UNCHANGED <<requests, cartridge, button, control, callbacks, motor>>

-----------------------------------------------------------------------------
(* rdx_hardware_service_eject, first half: decide a request.               *)
UncountedAccept(n) == n           \* mutant: the count is forgotten
CountAccept(n)     == (n + 1) % CountWrap

DecideRequest ==
  /\ at = "eject"
  /\ eject_state = "IDLE" /\ eject_requested
  /\ IF CartridgeAvailable
     THEN /\ eject_state' = "WAIT_FOR_IO"
          /\ drive_load_count' = CountAccept(drive_load_count)
          /\ UNCHANGED <<at, eject_requested>>
     ELSE /\ eject_requested' = FALSE
          /\ at' = "ahci_service"
          /\ UNCHANGED <<eject_state, drive_load_count>>
  /\ UNCHANGED <<cartridge, button, policy, physical_eject_inhibited,
                 prevented, ata, motor>>

NoRequest ==
  /\ at = "eject"
  /\ eject_state = "IDLE" /\ ~eject_requested
  /\ at' = "ahci_service"
  /\ UNCHANGED <<requests, cartridge, button, control, ata, motor>>

(* Wait until the port and the queue are idle; standby only for media that *)
(* is ready and, by the raw GPIO5 level, still in the bay.                 *)
WaitForIo ==
  /\ at = "eject"
  /\ eject_state = "WAIT_FOR_IO"
  /\ IF AtaIsIdle
     THEN at' \in IF ready THEN {"masked", "teardown"} ELSE {"teardown"}
     ELSE at' = "ahci_service"
  /\ UNCHANGED <<requests, cartridge, button, control, ata, motor>>

(* The second look and rdx_prepare_mechanism_eject, with USB masked.  A    *)
(* standby that times out is recovered, any failure is only advisory.      *)
PrepareEject ==
  /\ at = "masked"
  /\ IF AtaIsIdle
     THEN /\ at' = "teardown"
          /\ UNCHANGED <<media, slot>> \/ (ready /\ RecoverLocalCommand)
     ELSE /\ at' = "ahci_service"
          /\ UNCHANGED <<media, slot>>
  /\ UNCHANGED <<requests, cartridge, button, control, callbacks, motor>>

(* rdx_hardware_teardown_eject_media                                       *)
TeardownMedia ==
  /\ ready' = FALSE
  /\ ejected_latched' = TRUE
  /\ logical_unloaded' = FALSE
  /\ policy' = {}

TeardownBeforeMotion ==
  /\ at = "teardown"
  /\ at' = "start"
  /\ TeardownMedia
  /\ M!Accept
  /\ UNCHANGED <<requests, cartridge_stable, button, drive_load_count,
                 physical_eject_inhibited, prevented, port, slot, callbacks,
                 homing>>

StartMechanism ==
  /\ at = "start"
  /\ at' = "ahci_service"
  /\ M!Begin
  /\ eject_state' = "MECHANISM_ACTIVE"
  /\ UNCHANGED <<eject_requested, cartridge, button, control, ata, homing>>

(* rdx_hardware_finish_eject and rdx_hardware_fail_eject, which differ in  *)
(* indications only.                                                       *)
FinishEject ==
  /\ TeardownMedia
  /\ eject_requested' = FALSE
  /\ eject_state' = "IDLE"
  /\ homing' = FALSE

(* One pass of rdx_mechanism_service and its event.                        *)
ServiceMechanism ==
  /\ at = "eject"
  /\ eject_state = "MECHANISM_ACTIVE"
  /\ at' = "ahci_service"
  /\ \/ M!End /\ FinishEject
     \/ /\ M!ApplyPower \/ M!RemovePower
           \/ UNCHANGED <<moving, powered, outcome>>
        /\ UNCHANGED <<requests, ejected_latched, logical_unloaded, policy,
                       ready, homing>>
  /\ UNCHANGED <<cartridge_stable, button, drive_load_count,
                 physical_eject_inhibited, prevented, port, slot, callbacks>>

Foreground ==
  \/ Boot \/ AhciService \/ FinishDiscovery \/ DrainCallback
  \/ ServiceCartridgeInput \/ ServiceEjectButton \/ SampleTemperature
  \/ DecideRequest \/ NoRequest \/ WaitForIo \/ PrepareEject
  \/ TeardownBeforeMotion \/ StartMechanism \/ ServiceMechanism

-----------------------------------------------------------------------------
(* Host commands and bus events: the USB interrupt, masked at "masked".    *)
Usb ==
  /\ at # "masked"
  /\ UNCHANGED <<at, eject_state, cartridge_stable, ejected_latched, button,
                 drive_load_count, motor>>

(* A medium command passes the readiness gate and takes a slot.            *)
HostMedia ==
  /\ Usb
  /\ ready /\ ~logical_unloaded
  /\ slot = "free" /\ callbacks < MaxCallbacks
  /\ slot' = "active"
  /\ UNCHANGED <<eject_requested, logical_unloaded, policy,
                 physical_eject_inhibited, prevented, media, callbacks>>

(* PREVENT needs visible media, ALLOW does not.                            *)
HostPreventAllow ==
  /\ Usb
  /\ prevented' \in IF ready /\ ~logical_unloaded THEN BOOLEAN ELSE {FALSE}
  /\ UNCHANGED <<eject_requested, logical_unloaded, policy,
                 physical_eject_inhibited, ata>>

LogicalUnload(unloaded) ==
  unloaded \/ (CartridgeAvailable /\ ready /\ eject_state = "IDLE")

(* START STOP with LOEJ=1 START=0: page 31h may consume it.                *)
HostLoej ==
  /\ Usb
  /\ ~prevented
  /\ IF "unload" \in policy
     THEN /\ IF "reload" \in policy
             THEN logical_unloaded' = FALSE /\ policy' = {}
             ELSE /\ logical_unloaded' = LogicalUnload(logical_unloaded)
                  /\ UNCHANGED policy
          /\ UNCHANGED eject_requested
     ELSE /\ eject_requested' = TRUE
          /\ UNCHANGED <<logical_unloaded, policy>>
  /\ UNCHANGED <<physical_eject_inhibited, prevented, ata>>

ReloadBitConsumed == {}

(* MODE SELECT of page 31h; "reload" alone is the explicit reload action.  *)
HostDriveControl ==
  /\ Usb
  /\ \/ policy' \in Policies /\ UNCHANGED logical_unloaded
     \/ /\ logical_unloaded
        /\ logical_unloaded' = FALSE
        /\ policy' = ReloadBitConsumed
  /\ UNCHANGED <<eject_requested, physical_eject_inhibited, prevented, ata>>

(* MODE SELECT of page 33h.                                                *)
HostInhibitButton ==
  /\ Usb
  /\ physical_eject_inhibited' \in BOOLEAN
  /\ UNCHANGED <<eject_requested, logical_unloaded, policy, prevented, ata>>

(* A polled command in a SCSI handler (STOP's flush) may time out.         *)
HostPolledCommandFails ==
  /\ Usb
  /\ ready /\ ~logical_unloaded /\ slot = "free"
  /\ RecoverLocalCommand
  /\ UNCHANGED <<eject_requested, logical_unloaded, policy,
                 physical_eject_inhibited, prevented, callbacks>>

(* USB bus reset or Mass Storage Reset: ahci_reset_lun.                    *)
HostReset ==
  /\ Usb
  /\ ready
  /\ StopAndMaybeReset
  /\ callbacks' \in {0, 1}   \* one error callback if USB is configured
  /\ UNCHANGED <<eject_requested, logical_unloaded, policy,
                 physical_eject_inhibited, prevented>>

HostSteps ==
  \/ HostMedia \/ HostPreventAllow \/ HostLoej \/ HostDriveControl
  \/ HostInhibitButton \/ HostPolledCommandFails \/ HostReset

-----------------------------------------------------------------------------
(* The SATA interrupts.                                                    *)
Sata ==
  UNCHANGED <<at, requests, cartridge, button, control, motor>>

(* The device completes a command; PxIE decides whether anyone is told.    *)
AtaCompletes ==
  /\ Sata
  /\ slot = "active"
  /\ slot' = "free"
  /\ callbacks' = IF port = "admitted" THEN callbacks + 1 ELSE callbacks
  /\ UNCHANGED media

(* ahci_fatal_error_recovery from the AHCI interrupt.                      *)
AtaFails ==
  /\ Sata
  /\ slot = "active" /\ port = "admitted"
  /\ StopAndMaybeReset
  /\ IF ready THEN QueueUnlessPending \/ UNCHANGED callbacks
              ELSE UNCHANGED callbacks

LostCommand == IF slot = "active" THEN "lost" ELSE slot

(* ahci_handle_media_link_change: the port is not stopped here.            *)
LinkChange ==
  /\ Sata
  /\ port \in {"admitted", "failed"}
  /\ ScheduleDiscovery
  /\ slot' = LostCommand
  /\ IF ready THEN QueueUnlessPending \/ UNCHANGED callbacks
              ELSE UNCHANGED callbacks

(* ahci_rx_error_isr: bookkeeping only while the mechanism moves, else the *)
(* threshold path, a stop and, unless a polled command is out, a COMRESET. *)
RxError ==
  /\ Sata
  /\ port = "admitted"
  /\ IF moving
     THEN ScheduleDiscovery /\ slot' \in {slot, LostCommand}
     ELSE /\ slot' = "free"
          /\ IF ready THEN ScheduleDiscovery ELSE UNCHANGED media
  /\ IF ready THEN QueueUnlessPending ELSE UNCHANGED callbacks

SataInterrupt == AtaCompletes \/ AtaFails \/ LinkChange \/ RxError

Next == Foreground \/ HostSteps \/ SataInterrupt

(* The loop runs on, discovery is bounded by its time-outs, and a device   *)
(* that holds a command answers it.                                        *)
Spec ==
  /\ Init /\ [][Next]_vars
  /\ WF_vars(Foreground) /\ WF_vars(AtaCompletes)

-----------------------------------------------------------------------------
TypeOK ==
  /\ at \in Loop
  /\ eject_requested \in BOOLEAN
  /\ eject_state \in {"IDLE", "WAIT_FOR_IO", "MECHANISM_ACTIVE"}
  /\ cartridge_stable \in BOOLEAN /\ ejected_latched \in BOOLEAN
  /\ logical_unloaded \in BOOLEAN
  /\ button_stable \in BOOLEAN /\ button_armed \in BOOLEAN
  /\ drive_load_count \in 0 .. CountWrap - 1
  /\ policy \in Policies
  /\ physical_eject_inhibited \in BOOLEAN /\ prevented \in BOOLEAN
  /\ ready \in BOOLEAN
  /\ port \in {"admitted", "failed", "queued", "quiesced", "discovering"}
  /\ slot \in {"free", "active", "lost"}
  /\ callbacks \in 0 .. MaxCallbacks + 1
  /\ moving \in BOOLEAN /\ powered \in BOOLEAN /\ homing \in BOOLEAN
  /\ outcome \in {"none", "succeeded", "failed"}

(* Once a requested motion has begun, no medium is published until it has  *)
(* ended, although discovery, link changes and resets go on around it      *)
(* (rdx_hardware.c:180-188, ahci.c:2812-2818).                             *)
NoMediaInMotion == moving /\ ~homing => ~ready

(* Discovery reuses slot 0 only of a stopped port, closed to the host, and *)
(* after every queued callback was delivered (ahci.c:2826-2856).           *)
DiscoveryOwnsPort == at = "discovery" => AtaIsIdle /\ ~ready

(* A logical unload hides one cartridge: it never outlives its removal or  *)
(* its eject, so the next cartridge does not inherit it                    *)
(* (rdx_hardware.c:197-200, 803-818).                                      *)
UnloadEndsWithCartridge == logical_unloaded => CartridgeAvailable /\ ~moving

(* The coordinator implements its contract: an accepted request is counted *)
(* once and not cancelled, a request is always decided.                    *)
Phase ==
  CASE eject_state = "MECHANISM_ACTIVE"            -> "moving"
    [] eject_state = "WAIT_FOR_IO"                 -> "accepted"
    [] eject_state = "IDLE" /\ eject_requested     -> "requested"
    [] OTHER                                       -> "none"
Contract == INSTANCE EjectContract WITH
              phase <- Phase, count <- drive_load_count, booted <- at # "boot"
ImplementsContract == Contract!Spec

(* Host commands and resets stop coming, at some time.                     *)
HostGoesQuiet == <>[][~HostMedia /\ ~HostReset]_vars

(* An accepted eject reaches the motor once the host is quiet, whatever    *)
(* errors and callbacks are still on their way, if no command is ever left *)
(* without an answer (rdx_hardware.c:613-648).                             *)
EjectMovesWhenAnswered ==
  HostGoesQuiet /\ [](slot # "lost")
    => (eject_state = "WAIT_FOR_IO" ~> moving)

(* The same without the assumption on the link, as firmware-behavior.md:70 *)
(* has it ("A normal accepted press ... starts the mechanism state         *)
(* machine") and rdx_hardware.c:615-617: "Once accepted, the count, media  *)
(* teardown, and mechanism sequence proceed without a second interlock".   *)
(* The code does not keep this: a link change or a failed IDENTIFY leaves  *)
(* PxCI set, only ahci_service would stop the port, and it waits for the   *)
(* eject.                                                                  *)
AcceptedEjectMoves ==
  HostGoesQuiet => (eject_state = "WAIT_FOR_IO" ~> moving)

(* rdx_hardware.h:72: "The runtime waits for outstanding ATA work to       *)
(* quiesce before operating the mechanism."  The code does not keep this:  *)
(* USB is unmasked, or was never masked, between the last look at the port *)
(* and the withdrawal of the medium.                                       *)
MotionStartsQuiescent == [][~moving /\ moving' /\ ~homing' => AtaIsIdle]_vars

(* rdx_hardware.c:219-225: state 8 completes "without restoring cartridge  *)
(* access".  The code does not keep this: a link change after the failure  *)
(* has the cartridge discovered and published again, still latched, and    *)
(* no eject request is then accepted for it.                               *)
FaultHidesMedia ==
  ejected_latched /\ outcome = "failed" /\ eject_state = "IDLE" => ~ready

=============================================================================
