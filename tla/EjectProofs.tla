----------------------------- MODULE EjectProofs -----------------------------
(***************************************************************************)
(* Theorems about the eject coordinator, for every number of host commands *)
(* that may be queued and every range of the load counter.                 *)
(***************************************************************************)
EXTENDS EjectCoordinator, TLAPS

(* Who owns the SATA port: only an admitted port serves the host, and a    *)
(* port that has been quiesced stays silent until discovery is over.       *)
PortInv ==
  /\ ready => port = "admitted"
  /\ port = "discovering" <=> at = "discovery"
  /\ port = "quiesced" => slot = "free"
  /\ at = "discovery" => slot = "free" /\ callbacks = 0
  /\ callbacks <= MaxCallbacks
  /\ slot = "active" /\ port = "admitted" => callbacks < MaxCallbacks

(* Where the foreground can be in each state of the request, and what it   *)
(* has withdrawn by the time it starts the motor.                          *)
RequestInv ==
  /\ moving <=> eject_state = "MECHANISM_ACTIVE"
  /\ homing => moving
  /\ at \in {"masked", "teardown", "start"} => eject_state = "WAIT_FOR_IO"
  /\ at \in {"boot", "discovery"} => eject_state = "IDLE"
  /\ at = "boot" => ~cartridge_stable
  /\ at = "start" => ~ready /\ ejected_latched

IInv ==
  /\ TypeOK
  /\ PortInv
  /\ RequestInv
  /\ NoMediaInMotion
  /\ UnloadEndsWithCartridge

-----------------------------------------------------------------------------
(* What the bounds' assumption says in arithmetic.                         *)
LEMMA BoundsType ==
  /\ MaxCallbacks \in Nat /\ 1 <= MaxCallbacks
  /\ CountWrap \in Nat /\ 2 <= CountWrap
  BY BoundsAssumption

(* The load counter wraps within its range.                                *)
LEMMA CountType ==
  ASSUME NEW n \in 0 .. CountWrap - 1
  PROVE  CountAccept(n) \in 0 .. CountWrap - 1
  BY BoundsType DEF CountAccept

(* The initial states satisfy the inductive invariant.                     *)
LEMMA InvInit == Init => IInv
<1> SUFFICES ASSUME Init PROVE IInv
  OBVIOUS
<1> USE BoundsType DEF Init, M!Init
<1>1. TypeOK
  <2>1. /\ at \in Loop /\ policy \in Policies
        /\ eject_state \in {"IDLE", "WAIT_FOR_IO", "MECHANISM_ACTIVE"}
        /\ drive_load_count \in 0 .. CountWrap - 1
        /\ callbacks \in 0 .. MaxCallbacks + 1
    BY DEF Loop, Policies
  <2>2. /\ button_stable \in BOOLEAN /\ button_armed \in BOOLEAN
        /\ ready \in BOOLEAN
    OBVIOUS
  <2>3. /\ port \in {"admitted", "failed", "queued", "quiesced",
                     "discovering"}
        /\ slot \in {"free", "active", "lost"}
        /\ outcome \in {"none", "succeeded", "failed"}
    OBVIOUS
  <2>4. QED
    BY <2>1, <2>2, <2>3 DEF TypeOK
<1>2. PortInv
  BY DEF PortInv
<1>3. RequestInv
  BY DEF RequestInv
<1>4. NoMediaInMotion /\ UnloadEndsWithCartridge
  BY DEF NoMediaInMotion, UnloadEndsWithCartridge
<1>5. QED
  BY <1>1, <1>2, <1>3, <1>4 DEF IInv

(* Every step keeps the types; the bound of callbacks comes from PortInv.   *)
LEMMA TypeStep ==
  TypeOK /\ PortInv /\ [Next]_vars => TypeOK'
<1> SUFFICES ASSUME TypeOK, PortInv, [Next]_vars PROVE TypeOK'
  OBVIOUS
<1> USE BoundsType DEF TypeOK, requests, cartridge, button, control, media,
   ata, motor
<1>1. CASE Boot
  <2>1. /\ at' \in Loop
        /\ eject_state' \in {"IDLE", "WAIT_FOR_IO", "MECHANISM_ACTIVE"}
        /\ moving' \in BOOLEAN
        /\ homing' \in BOOLEAN
    BY <1>1 DEF Boot, M!Begin, Loop
  <2>2. UNCHANGED <<eject_requested, cartridge_stable, ejected_latched,
                     logical_unloaded, button_stable, button_armed, drive_load_count, policy,
                     physical_eject_inhibited, prevented, ready, port, slot, callbacks,
                     powered, outcome>>
    BY <1>1 DEF Boot, M!Begin
  <2>3. QED
    BY <2>1, <2>2
<1>2. CASE AhciService
  <2>1. /\ at' \in Loop
        /\ port' \in {"admitted", "failed", "queued", "quiesced",
                         "discovering"}
        /\ slot' \in {"free", "active", "lost"}
    BY <1>2 DEF AhciService, ForegroundMayTouchPort, EjectInProgress,
       CallbacksDrained, Loop
  <2>2. UNCHANGED <<eject_requested, eject_state, cartridge_stable,
                     ejected_latched, logical_unloaded, button_stable, button_armed,
                     drive_load_count, policy, physical_eject_inhibited, prevented, ready,
                     callbacks, moving, powered, outcome, homing>>
    BY <1>2 DEF AhciService, ForegroundMayTouchPort, EjectInProgress,
       CallbacksDrained
  <2>3. QED
    BY <2>1, <2>2
<1>3. CASE FinishDiscovery
  <2>1. /\ at' \in Loop
        /\ ready' \in BOOLEAN
        /\ port' \in {"admitted", "failed", "queued", "quiesced",
                         "discovering"}
        /\ slot' \in {"free", "active", "lost"}
    BY <1>3 DEF FinishDiscovery, Loop
  <2>2. UNCHANGED <<eject_requested, eject_state, cartridge_stable,
                     ejected_latched, logical_unloaded, button_stable, button_armed,
                     drive_load_count, policy, physical_eject_inhibited, prevented, callbacks,
                     moving, powered, outcome, homing>>
    BY <1>3 DEF FinishDiscovery
  <2>3. QED
    BY <2>1, <2>2
<1>4. CASE DrainCallback
  <2>1. at' \in Loop
    BY <1>4 DEF DrainCallback, CallbackIsNext, Loop
  <2>2. callbacks' \in 0 .. MaxCallbacks + 1
    BY <1>4 DEF DrainCallback, CallbackIsNext
  <2>3. UNCHANGED <<eject_requested, eject_state, cartridge_stable,
                     ejected_latched, logical_unloaded, button_stable, button_armed,
                     drive_load_count, policy, physical_eject_inhibited, prevented, ready,
                     port, slot, moving, powered, outcome, homing>>
    BY <1>4 DEF DrainCallback, CallbackIsNext
  <2>4. QED
    BY <2>1, <2>2, <2>3
<1>5. CASE ServiceCartridgeInput
  <2>1. /\ at' \in Loop
        /\ cartridge_stable' \in BOOLEAN
        /\ ejected_latched' \in BOOLEAN
        /\ logical_unloaded' \in BOOLEAN
        /\ policy' \in Policies
        /\ ready' \in BOOLEAN
        /\ port' \in {"admitted", "failed", "queued", "quiesced",
                         "discovering"}
    BY <1>5 DEF ServiceCartridgeInput, CommitCartridge, ScheduleDiscovery,
       DiscoveryPending, UnloadAfterChange, Loop, Policies
  <2>2. UNCHANGED <<eject_requested, eject_state, button_stable, button_armed,
                     drive_load_count, physical_eject_inhibited, prevented, slot, callbacks,
                     moving, powered, outcome, homing>>
    BY <1>5 DEF ServiceCartridgeInput, CommitCartridge, ScheduleDiscovery,
       DiscoveryPending, UnloadAfterChange
  <2>3. QED
    BY <2>1, <2>2
<1>6. CASE ServiceEjectButton
  <2>1. /\ at' \in Loop
        /\ eject_requested' \in BOOLEAN
        /\ button_stable' \in BOOLEAN
        /\ button_armed' \in BOOLEAN
    BY <1>6 DEF ServiceEjectButton, PressEjectButton, ReleaseEjectButton, Loop
  <2>2. UNCHANGED <<eject_state, cartridge_stable, ejected_latched,
                     logical_unloaded, drive_load_count, policy, physical_eject_inhibited,
                     prevented, ready, port, slot, callbacks, moving, powered, outcome,
                     homing>>
    BY <1>6 DEF ServiceEjectButton, PressEjectButton, ReleaseEjectButton
  <2>3. QED
    BY <2>1, <2>2
<1>7. CASE SampleTemperature
  <2>1. /\ at' \in Loop
        /\ ready' \in BOOLEAN
        /\ port' \in {"admitted", "failed", "queued", "quiesced",
                         "discovering"}
        /\ slot' \in {"free", "active", "lost"}
    BY <1>7 DEF SampleTemperature, RecoverLocalCommand, ScheduleDiscovery,
       DiscoveryPending, Loop
  <2>2. UNCHANGED <<eject_requested, eject_state, cartridge_stable,
                     ejected_latched, logical_unloaded, button_stable, button_armed,
                     drive_load_count, policy, physical_eject_inhibited, prevented, callbacks,
                     moving, powered, outcome, homing>>
    BY <1>7 DEF SampleTemperature, RecoverLocalCommand, ScheduleDiscovery,
       DiscoveryPending
  <2>3. QED
    BY <2>1, <2>2
<1>8. CASE DecideRequest
  <2>1. /\ at' \in Loop
        /\ eject_requested' \in BOOLEAN
        /\ eject_state' \in {"IDLE", "WAIT_FOR_IO", "MECHANISM_ACTIVE"}
    BY <1>8 DEF DecideRequest, CountAccept, Loop
  <2>2. drive_load_count' \in 0 .. CountWrap - 1
    BY <1>8, CountType DEF DecideRequest, CountAccept
  <2>3. UNCHANGED <<cartridge_stable, ejected_latched, logical_unloaded,
                     button_stable, button_armed, policy, physical_eject_inhibited, prevented,
                     ready, port, slot, callbacks, moving, powered, outcome, homing>>
    BY <1>8 DEF DecideRequest, CountAccept
  <2>4. QED
    BY <2>1, <2>2, <2>3
<1>9. CASE NoRequest
  <2>1. at' \in Loop
    BY <1>9 DEF NoRequest, Loop
  <2>2. UNCHANGED <<eject_requested, eject_state, cartridge_stable,
                     ejected_latched, logical_unloaded, button_stable, button_armed,
                     drive_load_count, policy, physical_eject_inhibited, prevented, ready,
                     port, slot, callbacks, moving, powered, outcome, homing>>
    BY <1>9 DEF NoRequest
  <2>3. QED
    BY <2>1, <2>2
<1>10. CASE WaitForIo
  <2>1. at' \in Loop
    BY <1>10 DEF WaitForIo, AtaIsIdle, Loop
  <2>2. UNCHANGED <<eject_requested, eject_state, cartridge_stable,
                     ejected_latched, logical_unloaded, button_stable, button_armed,
                     drive_load_count, policy, physical_eject_inhibited, prevented, ready,
                     port, slot, callbacks, moving, powered, outcome, homing>>
    BY <1>10 DEF WaitForIo, AtaIsIdle
  <2>3. QED
    BY <2>1, <2>2
<1>11. CASE PrepareEject
  <2>1. /\ at' \in Loop
        /\ ready' \in BOOLEAN
        /\ port' \in {"admitted", "failed", "queued", "quiesced",
                         "discovering"}
        /\ slot' \in {"free", "active", "lost"}
    BY <1>11 DEF PrepareEject, AtaIsIdle, RecoverLocalCommand,
       ScheduleDiscovery, DiscoveryPending, Loop
  <2>2. UNCHANGED <<eject_requested, eject_state, cartridge_stable,
                     ejected_latched, logical_unloaded, button_stable, button_armed,
                     drive_load_count, policy, physical_eject_inhibited, prevented, callbacks,
                     moving, powered, outcome, homing>>
    BY <1>11 DEF PrepareEject, AtaIsIdle, RecoverLocalCommand,
       ScheduleDiscovery, DiscoveryPending
  <2>3. QED
    BY <2>1, <2>2
<1>12. CASE TeardownBeforeMotion
  <2>1. /\ at' \in Loop
        /\ ejected_latched' \in BOOLEAN
        /\ logical_unloaded' \in BOOLEAN
        /\ policy' \in Policies
        /\ ready' \in BOOLEAN
        /\ outcome' \in {"none", "succeeded", "failed"}
    BY <1>12 DEF TeardownBeforeMotion, TeardownMedia, M!Accept, Loop, Policies
  <2>2. UNCHANGED <<eject_requested, eject_state, cartridge_stable,
                     button_stable, button_armed, drive_load_count, physical_eject_inhibited,
                     prevented, port, slot, callbacks, moving, powered, homing>>
    BY <1>12 DEF TeardownBeforeMotion, TeardownMedia, M!Accept
  <2>3. QED
    BY <2>1, <2>2
<1>13. CASE StartMechanism
  <2>1. /\ at' \in Loop
        /\ eject_state' \in {"IDLE", "WAIT_FOR_IO", "MECHANISM_ACTIVE"}
        /\ moving' \in BOOLEAN
    BY <1>13 DEF StartMechanism, M!Begin, Loop
  <2>2. UNCHANGED <<eject_requested, cartridge_stable, ejected_latched,
                     logical_unloaded, button_stable, button_armed, drive_load_count, policy,
                     physical_eject_inhibited, prevented, ready, port, slot, callbacks,
                     powered, outcome, homing>>
    BY <1>13 DEF StartMechanism, M!Begin
  <2>3. QED
    BY <2>1, <2>2
<1>14. CASE ServiceMechanism
  <2>1. /\ at' \in Loop
        /\ eject_requested' \in BOOLEAN
        /\ eject_state' \in {"IDLE", "WAIT_FOR_IO", "MECHANISM_ACTIVE"}
        /\ ejected_latched' \in BOOLEAN
        /\ logical_unloaded' \in BOOLEAN
        /\ policy' \in Policies
        /\ ready' \in BOOLEAN
        /\ moving' \in BOOLEAN
        /\ powered' \in BOOLEAN
        /\ outcome' \in {"none", "succeeded", "failed"}
        /\ homing' \in BOOLEAN
    BY <1>14, ZenonT(60) DEF ServiceMechanism, FinishEject, TeardownMedia, M!End,
       M!ApplyPower, M!RemovePower, Loop, Policies
  <2>2. UNCHANGED <<cartridge_stable, button_stable, button_armed,
                     drive_load_count, physical_eject_inhibited, prevented, port, slot,
                     callbacks>>
    BY <1>14 DEF ServiceMechanism, FinishEject, TeardownMedia, M!End,
       M!ApplyPower, M!RemovePower
  <2>3. QED
    BY <2>1, <2>2
<1>15. CASE HostMedia
  <2>1. slot' \in {"free", "active", "lost"}
    BY <1>15 DEF HostMedia, Usb
  <2>2. UNCHANGED <<at, eject_requested, eject_state, cartridge_stable,
                     ejected_latched, logical_unloaded, button_stable, button_armed,
                     drive_load_count, policy, physical_eject_inhibited, prevented, ready,
                     port, callbacks, moving, powered, outcome, homing>>
    BY <1>15 DEF HostMedia, Usb
  <2>3. QED
    BY <2>1, <2>2
<1>16. CASE HostPreventAllow
  <2>1. prevented' \in BOOLEAN
    BY <1>16 DEF HostPreventAllow, Usb
  <2>2. UNCHANGED <<at, eject_requested, eject_state, cartridge_stable,
                     ejected_latched, logical_unloaded, button_stable, button_armed,
                     drive_load_count, policy, physical_eject_inhibited, ready, port, slot,
                     callbacks, moving, powered, outcome, homing>>
    BY <1>16 DEF HostPreventAllow, Usb
  <2>3. QED
    BY <2>1, <2>2
<1>17. CASE HostLoej
  <2>1. /\ eject_requested' \in BOOLEAN
        /\ logical_unloaded' \in BOOLEAN
        /\ policy' \in Policies
    BY <1>17 DEF HostLoej, Usb, LogicalUnload, CartridgeAvailable, Policies
  <2>2. UNCHANGED <<at, eject_state, cartridge_stable, ejected_latched,
                     button_stable, button_armed, drive_load_count, physical_eject_inhibited,
                     prevented, ready, port, slot, callbacks, moving, powered, outcome,
                     homing>>
    BY <1>17 DEF HostLoej, Usb, LogicalUnload, CartridgeAvailable
  <2>3. QED
    BY <2>1, <2>2
<1>18. CASE HostDriveControl
  <2>1. /\ logical_unloaded' \in BOOLEAN
        /\ policy' \in Policies
    BY <1>18 DEF HostDriveControl, Usb, ReloadBitConsumed, Policies
  <2>2. UNCHANGED <<at, eject_requested, eject_state, cartridge_stable,
                     ejected_latched, button_stable, button_armed, drive_load_count,
                     physical_eject_inhibited, prevented, ready, port, slot, callbacks, moving,
                     powered, outcome, homing>>
    BY <1>18 DEF HostDriveControl, Usb, ReloadBitConsumed
  <2>3. QED
    BY <2>1, <2>2
<1>19. CASE HostInhibitButton
  <2>1. physical_eject_inhibited' \in BOOLEAN
    BY <1>19 DEF HostInhibitButton, Usb
  <2>2. UNCHANGED <<at, eject_requested, eject_state, cartridge_stable,
                     ejected_latched, logical_unloaded, button_stable, button_armed,
                     drive_load_count, policy, prevented, ready, port, slot, callbacks, moving,
                     powered, outcome, homing>>
    BY <1>19 DEF HostInhibitButton, Usb
  <2>3. QED
    BY <2>1, <2>2
<1>20. CASE HostPolledCommandFails
  <2>1. /\ ready' \in BOOLEAN
        /\ port' \in {"admitted", "failed", "queued", "quiesced",
                         "discovering"}
        /\ slot' \in {"free", "active", "lost"}
    BY <1>20 DEF HostPolledCommandFails, Usb, RecoverLocalCommand,
       ScheduleDiscovery, DiscoveryPending
  <2>2. UNCHANGED <<at, eject_requested, eject_state, cartridge_stable,
                     ejected_latched, logical_unloaded, button_stable, button_armed,
                     drive_load_count, policy, physical_eject_inhibited, prevented, callbacks,
                     moving, powered, outcome, homing>>
    BY <1>20 DEF HostPolledCommandFails, Usb, RecoverLocalCommand,
       ScheduleDiscovery, DiscoveryPending
  <2>3. QED
    BY <2>1, <2>2
<1>21. CASE HostReset
  <2>1. /\ ready' \in BOOLEAN
        /\ port' \in {"admitted", "failed", "queued", "quiesced",
                         "discovering"}
        /\ slot' \in {"free", "active", "lost"}
    BY <1>21 DEF HostReset, Usb, StopAndMaybeReset, ScheduleDiscovery,
       DiscoveryPending
  <2>2. callbacks' \in 0 .. MaxCallbacks + 1
    BY <1>21 DEF HostReset, Usb, StopAndMaybeReset, ScheduleDiscovery,
       DiscoveryPending
  <2>3. UNCHANGED <<at, eject_requested, eject_state, cartridge_stable,
                     ejected_latched, logical_unloaded, button_stable, button_armed,
                     drive_load_count, policy, physical_eject_inhibited, prevented, moving,
                     powered, outcome, homing>>
    BY <1>21 DEF HostReset, Usb, StopAndMaybeReset, ScheduleDiscovery,
       DiscoveryPending
  <2>4. QED
    BY <2>1, <2>2, <2>3
<1>22. CASE AtaCompletes
  <2>1. slot' \in {"free", "active", "lost"}
    BY <1>22 DEF AtaCompletes, Sata
  <2>2. callbacks' \in 0 .. MaxCallbacks + 1
    BY <1>22 DEF AtaCompletes, Sata, PortInv
  <2>3. UNCHANGED <<at, eject_requested, eject_state, cartridge_stable,
                     ejected_latched, logical_unloaded, button_stable, button_armed,
                     drive_load_count, policy, physical_eject_inhibited, prevented, ready,
                     port, moving, powered, outcome, homing>>
    BY <1>22 DEF AtaCompletes, Sata
  <2>4. QED
    BY <2>1, <2>2, <2>3
<1>23. CASE AtaFails
  <2>1. /\ ready' \in BOOLEAN
        /\ port' \in {"admitted", "failed", "queued", "quiesced",
                         "discovering"}
        /\ slot' \in {"free", "active", "lost"}
    BY <1>23 DEF AtaFails, Sata, StopAndMaybeReset, ScheduleDiscovery,
       DiscoveryPending, QueueUnlessPending
  <2>2. callbacks' \in 0 .. MaxCallbacks + 1
    BY <1>23 DEF AtaFails, Sata, StopAndMaybeReset, ScheduleDiscovery,
       DiscoveryPending, QueueUnlessPending
  <2>3. UNCHANGED <<at, eject_requested, eject_state, cartridge_stable,
                     ejected_latched, logical_unloaded, button_stable, button_armed,
                     drive_load_count, policy, physical_eject_inhibited, prevented, moving,
                     powered, outcome, homing>>
    BY <1>23 DEF AtaFails, Sata, StopAndMaybeReset, ScheduleDiscovery,
       DiscoveryPending, QueueUnlessPending
  <2>4. QED
    BY <2>1, <2>2, <2>3
<1>24. CASE LinkChange
  <2>1. /\ ready' \in BOOLEAN
        /\ port' \in {"admitted", "failed", "queued", "quiesced",
                         "discovering"}
        /\ slot' \in {"free", "active", "lost"}
    BY <1>24 DEF LinkChange, Sata, ScheduleDiscovery, DiscoveryPending,
       LostCommand, QueueUnlessPending
  <2>2. callbacks' \in 0 .. MaxCallbacks + 1
    BY <1>24 DEF LinkChange, Sata, ScheduleDiscovery, DiscoveryPending,
       LostCommand, QueueUnlessPending
  <2>3. UNCHANGED <<at, eject_requested, eject_state, cartridge_stable,
                     ejected_latched, logical_unloaded, button_stable, button_armed,
                     drive_load_count, policy, physical_eject_inhibited, prevented, moving,
                     powered, outcome, homing>>
    BY <1>24 DEF LinkChange, Sata, ScheduleDiscovery, DiscoveryPending,
       LostCommand, QueueUnlessPending
  <2>4. QED
    BY <2>1, <2>2, <2>3
<1>25. CASE RxError
  <2>1. /\ ready' \in BOOLEAN
        /\ port' \in {"admitted", "failed", "queued", "quiesced",
                         "discovering"}
        /\ slot' \in {"free", "active", "lost"}
    BY <1>25 DEF RxError, Sata, ScheduleDiscovery, DiscoveryPending,
       LostCommand, QueueUnlessPending
  <2>2. callbacks' \in 0 .. MaxCallbacks + 1
    BY <1>25 DEF RxError, Sata, ScheduleDiscovery, DiscoveryPending,
       LostCommand, QueueUnlessPending
  <2>3. UNCHANGED <<at, eject_requested, eject_state, cartridge_stable,
                     ejected_latched, logical_unloaded, button_stable, button_armed,
                     drive_load_count, policy, physical_eject_inhibited, prevented, moving,
                     powered, outcome, homing>>
    BY <1>25 DEF RxError, Sata, ScheduleDiscovery, DiscoveryPending,
       LostCommand, QueueUnlessPending
  <2>4. QED
    BY <2>1, <2>2, <2>3
<1>26. CASE UNCHANGED vars
  BY <1>26 DEF vars
<1>27. QED
  BY <1>1, <1>2, <1>3, <1>4, <1>5, <1>6, <1>7, <1>8, <1>9, <1>10, <1>11, <1>12,
     <1>13, <1>14, <1>15, <1>16, <1>17, <1>18, <1>19, <1>20, <1>21, <1>22,
     <1>23, <1>24, <1>25, <1>26 DEF Next, Foreground, HostSteps, SataInterrupt

(* Every step keeps the ownership of the port.                             *)
LEMMA PortStep ==
  TypeOK /\ PortInv /\ [Next]_vars => PortInv'
<1> SUFFICES ASSUME TypeOK, PortInv, [Next]_vars PROVE PortInv'
  OBVIOUS
<1> USE DEF TypeOK, requests, cartridge, button, control, media, ata, motor, PortInv
<1>1. CASE Boot
    BY <1>1 DEF Boot, M!Begin, Loop
<1>2. CASE AhciService
    BY <1>2 DEF AhciService, ForegroundMayTouchPort, EjectInProgress,
     CallbacksDrained, Loop
<1>3. CASE FinishDiscovery
    BY <1>3 DEF FinishDiscovery, Loop
<1>4. CASE DrainCallback
    BY <1>4, BoundsType DEF DrainCallback, CallbackIsNext, Loop
<1>5. CASE ServiceCartridgeInput
    BY <1>5 DEF ServiceCartridgeInput, CommitCartridge, ScheduleDiscovery,
     DiscoveryPending, UnloadAfterChange, Loop
<1>6. CASE ServiceEjectButton
    BY <1>6 DEF ServiceEjectButton, PressEjectButton, ReleaseEjectButton, Loop
<1>7. CASE SampleTemperature
    BY <1>7 DEF SampleTemperature, RecoverLocalCommand, ScheduleDiscovery,
     DiscoveryPending, Loop
<1>8. CASE DecideRequest
    BY <1>8 DEF DecideRequest, CountAccept, Loop
<1>9. CASE NoRequest
    BY <1>9 DEF NoRequest, Loop
<1>10. CASE WaitForIo
    BY <1>10 DEF WaitForIo, AtaIsIdle, Loop
<1>11. CASE PrepareEject
    BY <1>11 DEF PrepareEject, AtaIsIdle, RecoverLocalCommand,
     ScheduleDiscovery, DiscoveryPending, Loop
<1>12. CASE TeardownBeforeMotion
    BY <1>12 DEF TeardownBeforeMotion, TeardownMedia, M!Accept, Loop
<1>13. CASE StartMechanism
    BY <1>13 DEF StartMechanism, M!Begin, Loop
<1>14. CASE ServiceMechanism
    BY <1>14 DEF ServiceMechanism, FinishEject, TeardownMedia, M!End,
     M!ApplyPower, M!RemovePower, Loop
<1>15. CASE HostMedia
    BY <1>15, BoundsType DEF HostMedia, Usb
<1>16. CASE HostPreventAllow
    BY <1>16, BoundsType DEF HostPreventAllow, Usb
<1>17. CASE HostLoej
    BY <1>17, BoundsType DEF HostLoej, Usb, LogicalUnload,
     CartridgeAvailable
<1>18. CASE HostDriveControl
    BY <1>18, BoundsType DEF HostDriveControl, Usb, ReloadBitConsumed
<1>19. CASE HostInhibitButton
    BY <1>19, BoundsType DEF HostInhibitButton, Usb
<1>20. CASE HostPolledCommandFails
    BY <1>20, BoundsType DEF HostPolledCommandFails, Usb,
     RecoverLocalCommand, ScheduleDiscovery, DiscoveryPending
<1>21. CASE HostReset
  <2>1. callbacks' <= MaxCallbacks
    BY <1>21, BoundsType DEF HostReset
  <2>2. slot' = "free"
    BY <1>21 DEF HostReset, StopAndMaybeReset
  <2>3. at # "discovery" /\ at' = at
    BY <1>21 DEF HostReset, Usb
  <2>4. (ready' => port' = "admitted") /\ port' # "discovering"
    BY <1>21, <2>3 DEF HostReset, StopAndMaybeReset, ScheduleDiscovery,
       DiscoveryPending
  <2>5. QED
    BY <2>1, <2>2, <2>3, <2>4
<1>22. CASE AtaCompletes
    BY <1>22, BoundsType DEF AtaCompletes, Sata
<1>23. CASE AtaFails
    BY <1>23, BoundsType DEF AtaFails, Sata, StopAndMaybeReset,
     ScheduleDiscovery, DiscoveryPending, QueueUnlessPending
<1>24. CASE LinkChange
    BY <1>24, BoundsType DEF LinkChange, Sata, ScheduleDiscovery,
     DiscoveryPending, LostCommand, QueueUnlessPending
<1>25. CASE RxError
    BY <1>25, BoundsType DEF RxError, Sata, ScheduleDiscovery,
     DiscoveryPending, LostCommand, QueueUnlessPending
<1>26. CASE UNCHANGED vars
  BY <1>26 DEF vars
<1>27. QED
    BY <1>1, <1>2, <1>3, <1>4, <1>5, <1>6, <1>7, <1>8, <1>9, <1>10, <1>11,
     <1>12, <1>13, <1>14, <1>15, <1>16, <1>17, <1>18, <1>19, <1>20, <1>21,
     <1>22, <1>23, <1>24, <1>25, <1>26 DEF Next, Foreground, HostSteps,
     SataInterrupt

(* Every step keeps the request and the foreground in step.                *)
LEMMA RequestStep ==
  TypeOK /\ PortInv /\ RequestInv /\ [Next]_vars => RequestInv'
<1> SUFFICES ASSUME TypeOK, PortInv, RequestInv, [Next]_vars PROVE RequestInv'
  OBVIOUS
<1> USE DEF TypeOK, requests, cartridge, button, control, media, ata, motor, RequestInv
<1>1. CASE Boot
    BY <1>1 DEF Boot, M!Begin
<1>2. CASE AhciService
    BY <1>2 DEF AhciService, ForegroundMayTouchPort, EjectInProgress,
     CallbacksDrained
<1>3. CASE FinishDiscovery
    BY <1>3 DEF FinishDiscovery
<1>4. CASE DrainCallback
    BY <1>4 DEF DrainCallback, CallbackIsNext
<1>5. CASE ServiceCartridgeInput
    BY <1>5 DEF ServiceCartridgeInput, CommitCartridge, ScheduleDiscovery,
     DiscoveryPending, UnloadAfterChange
<1>6. CASE ServiceEjectButton
    BY <1>6 DEF ServiceEjectButton, PressEjectButton, ReleaseEjectButton
<1>7. CASE SampleTemperature
    BY <1>7 DEF SampleTemperature, RecoverLocalCommand, ScheduleDiscovery,
     DiscoveryPending
<1>8. CASE DecideRequest
    BY <1>8 DEF DecideRequest, CountAccept
<1>9. CASE NoRequest
    BY <1>9 DEF NoRequest
<1>10. CASE WaitForIo
    BY <1>10 DEF WaitForIo, AtaIsIdle
<1>11. CASE PrepareEject
    BY <1>11 DEF PrepareEject, AtaIsIdle, RecoverLocalCommand,
     ScheduleDiscovery, DiscoveryPending
<1>12. CASE TeardownBeforeMotion
    BY <1>12 DEF TeardownBeforeMotion, TeardownMedia, M!Accept
<1>13. CASE StartMechanism
    BY <1>13 DEF StartMechanism, M!Begin
<1>14. CASE ServiceMechanism
    BY <1>14 DEF ServiceMechanism, FinishEject, TeardownMedia, M!End,
     M!ApplyPower, M!RemovePower
<1>15. CASE HostMedia
    BY <1>15 DEF HostMedia, Usb
<1>16. CASE HostPreventAllow
    BY <1>16 DEF HostPreventAllow, Usb
<1>17. CASE HostLoej
    BY <1>17 DEF HostLoej, Usb, LogicalUnload, CartridgeAvailable
<1>18. CASE HostDriveControl
    BY <1>18 DEF HostDriveControl, Usb, ReloadBitConsumed
<1>19. CASE HostInhibitButton
    BY <1>19 DEF HostInhibitButton, Usb
<1>20. CASE HostPolledCommandFails
    BY <1>20 DEF HostPolledCommandFails, Usb, RecoverLocalCommand,
     ScheduleDiscovery, DiscoveryPending
<1>21. CASE HostReset
    BY <1>21 DEF HostReset, Usb, StopAndMaybeReset, ScheduleDiscovery,
     DiscoveryPending
<1>22. CASE AtaCompletes
    BY <1>22 DEF AtaCompletes, Sata
<1>23. CASE AtaFails
    BY <1>23 DEF AtaFails, Sata, StopAndMaybeReset, ScheduleDiscovery,
     DiscoveryPending, QueueUnlessPending
<1>24. CASE LinkChange
    BY <1>24 DEF LinkChange, Sata, ScheduleDiscovery, DiscoveryPending,
     LostCommand, QueueUnlessPending
<1>25. CASE RxError
    BY <1>25 DEF RxError, Sata, ScheduleDiscovery, DiscoveryPending,
     LostCommand, QueueUnlessPending
<1>26. CASE UNCHANGED vars
  BY <1>26 DEF vars
<1>27. QED
    BY <1>1, <1>2, <1>3, <1>4, <1>5, <1>6, <1>7, <1>8, <1>9, <1>10, <1>11,
     <1>12, <1>13, <1>14, <1>15, <1>16, <1>17, <1>18, <1>19, <1>20, <1>21,
     <1>22, <1>23, <1>24, <1>25, <1>26 DEF Next, Foreground, HostSteps,
     SataInterrupt

(* No step publishes a medium while a requested motion is under way.       *)
LEMMA MotionStep ==
  TypeOK /\ PortInv /\ RequestInv /\ NoMediaInMotion /\ [Next]_vars => NoMediaInMotion'
<1> SUFFICES ASSUME TypeOK, PortInv, RequestInv, NoMediaInMotion, [Next]_vars PROVE NoMediaInMotion'
  OBVIOUS
<1> USE DEF TypeOK, requests, cartridge, button, control, media, ata, motor, RequestInv, NoMediaInMotion
<1>1. CASE Boot
    BY <1>1 DEF Boot, M!Begin
<1>2. CASE AhciService
    BY <1>2 DEF AhciService, ForegroundMayTouchPort, EjectInProgress,
     CallbacksDrained
<1>3. CASE FinishDiscovery
    BY <1>3 DEF FinishDiscovery
<1>4. CASE DrainCallback
    BY <1>4 DEF DrainCallback, CallbackIsNext
<1>5. CASE ServiceCartridgeInput
    BY <1>5 DEF ServiceCartridgeInput, CommitCartridge, ScheduleDiscovery,
     DiscoveryPending, UnloadAfterChange
<1>6. CASE ServiceEjectButton
    BY <1>6 DEF ServiceEjectButton, PressEjectButton, ReleaseEjectButton
<1>7. CASE SampleTemperature
    BY <1>7 DEF SampleTemperature, RecoverLocalCommand, ScheduleDiscovery,
     DiscoveryPending
<1>8. CASE DecideRequest
    BY <1>8 DEF DecideRequest, CountAccept
<1>9. CASE NoRequest
    BY <1>9 DEF NoRequest
<1>10. CASE WaitForIo
    BY <1>10 DEF WaitForIo, AtaIsIdle
<1>11. CASE PrepareEject
    BY <1>11 DEF PrepareEject, AtaIsIdle, RecoverLocalCommand,
     ScheduleDiscovery, DiscoveryPending
<1>12. CASE TeardownBeforeMotion
    BY <1>12 DEF TeardownBeforeMotion, TeardownMedia, M!Accept
<1>13. CASE StartMechanism
    BY <1>13 DEF StartMechanism, M!Begin
<1>14. CASE ServiceMechanism
    BY <1>14 DEF ServiceMechanism, FinishEject, TeardownMedia, M!End,
     M!ApplyPower, M!RemovePower
<1>15. CASE HostMedia
    BY <1>15 DEF HostMedia, Usb
<1>16. CASE HostPreventAllow
    BY <1>16 DEF HostPreventAllow, Usb
<1>17. CASE HostLoej
    BY <1>17 DEF HostLoej, Usb, LogicalUnload, CartridgeAvailable
<1>18. CASE HostDriveControl
    BY <1>18 DEF HostDriveControl, Usb, ReloadBitConsumed
<1>19. CASE HostInhibitButton
    BY <1>19 DEF HostInhibitButton, Usb
<1>20. CASE HostPolledCommandFails
    BY <1>20 DEF HostPolledCommandFails, Usb, RecoverLocalCommand,
     ScheduleDiscovery, DiscoveryPending
<1>21. CASE HostReset
    BY <1>21 DEF HostReset, Usb, StopAndMaybeReset, ScheduleDiscovery,
     DiscoveryPending
<1>22. CASE AtaCompletes
    BY <1>22 DEF AtaCompletes, Sata
<1>23. CASE AtaFails
    BY <1>23 DEF AtaFails, Sata, StopAndMaybeReset, ScheduleDiscovery,
     DiscoveryPending, QueueUnlessPending
<1>24. CASE LinkChange
    BY <1>24 DEF LinkChange, Sata, ScheduleDiscovery, DiscoveryPending,
     LostCommand, QueueUnlessPending
<1>25. CASE RxError
    BY <1>25 DEF RxError, Sata, ScheduleDiscovery, DiscoveryPending,
     LostCommand, QueueUnlessPending
<1>26. CASE UNCHANGED vars
  BY <1>26 DEF vars
<1>27. QED
    BY <1>1, <1>2, <1>3, <1>4, <1>5, <1>6, <1>7, <1>8, <1>9, <1>10, <1>11,
     <1>12, <1>13, <1>14, <1>15, <1>16, <1>17, <1>18, <1>19, <1>20, <1>21,
     <1>22, <1>23, <1>24, <1>25, <1>26 DEF Next, Foreground, HostSteps,
     SataInterrupt

(* No step keeps a logical unload for a cartridge that has gone.           *)
LEMMA UnloadStep ==
  TypeOK /\ RequestInv /\ UnloadEndsWithCartridge /\ [Next]_vars => UnloadEndsWithCartridge'
<1> SUFFICES ASSUME TypeOK, RequestInv, UnloadEndsWithCartridge, [Next]_vars PROVE UnloadEndsWithCartridge'
  OBVIOUS
<1> USE DEF TypeOK, requests, cartridge, button, control, media, ata, motor, RequestInv, UnloadEndsWithCartridge, CartridgeAvailable
<1>1. CASE Boot
    BY <1>1 DEF Boot, M!Begin
<1>2. CASE AhciService
    BY <1>2 DEF AhciService, ForegroundMayTouchPort, EjectInProgress,
     CallbacksDrained
<1>3. CASE FinishDiscovery
    BY <1>3 DEF FinishDiscovery
<1>4. CASE DrainCallback
    BY <1>4 DEF DrainCallback, CallbackIsNext
<1>5. CASE ServiceCartridgeInput
    BY <1>5 DEF ServiceCartridgeInput, CommitCartridge, ScheduleDiscovery,
     DiscoveryPending, UnloadAfterChange
<1>6. CASE ServiceEjectButton
    BY <1>6 DEF ServiceEjectButton, PressEjectButton, ReleaseEjectButton
<1>7. CASE SampleTemperature
    BY <1>7 DEF SampleTemperature, RecoverLocalCommand, ScheduleDiscovery,
     DiscoveryPending
<1>8. CASE DecideRequest
    BY <1>8 DEF DecideRequest, CountAccept
<1>9. CASE NoRequest
    BY <1>9 DEF NoRequest
<1>10. CASE WaitForIo
    BY <1>10 DEF WaitForIo, AtaIsIdle
<1>11. CASE PrepareEject
    BY <1>11 DEF PrepareEject, AtaIsIdle, RecoverLocalCommand,
     ScheduleDiscovery, DiscoveryPending
<1>12. CASE TeardownBeforeMotion
    BY <1>12 DEF TeardownBeforeMotion, TeardownMedia, M!Accept
<1>13. CASE StartMechanism
    BY <1>13 DEF StartMechanism, M!Begin
<1>14. CASE ServiceMechanism
    BY <1>14 DEF ServiceMechanism, FinishEject, TeardownMedia, M!End,
     M!ApplyPower, M!RemovePower
<1>15. CASE HostMedia
    BY <1>15 DEF HostMedia, Usb
<1>16. CASE HostPreventAllow
    BY <1>16 DEF HostPreventAllow, Usb
<1>17. CASE HostLoej
    BY <1>17 DEF HostLoej, Usb, LogicalUnload, CartridgeAvailable
<1>18. CASE HostDriveControl
    BY <1>18 DEF HostDriveControl, Usb, ReloadBitConsumed
<1>19. CASE HostInhibitButton
    BY <1>19 DEF HostInhibitButton, Usb
<1>20. CASE HostPolledCommandFails
    BY <1>20 DEF HostPolledCommandFails, Usb, RecoverLocalCommand,
     ScheduleDiscovery, DiscoveryPending
<1>21. CASE HostReset
    BY <1>21 DEF HostReset, Usb, StopAndMaybeReset, ScheduleDiscovery,
     DiscoveryPending
<1>22. CASE AtaCompletes
    BY <1>22 DEF AtaCompletes, Sata
<1>23. CASE AtaFails
    BY <1>23 DEF AtaFails, Sata, StopAndMaybeReset, ScheduleDiscovery,
     DiscoveryPending, QueueUnlessPending
<1>24. CASE LinkChange
    BY <1>24 DEF LinkChange, Sata, ScheduleDiscovery, DiscoveryPending,
     LostCommand, QueueUnlessPending
<1>25. CASE RxError
    BY <1>25 DEF RxError, Sata, ScheduleDiscovery, DiscoveryPending,
     LostCommand, QueueUnlessPending
<1>26. CASE UNCHANGED vars
  BY <1>26 DEF vars
<1>27. QED
    BY <1>1, <1>2, <1>3, <1>4, <1>5, <1>6, <1>7, <1>8, <1>9, <1>10, <1>11,
     <1>12, <1>13, <1>14, <1>15, <1>16, <1>17, <1>18, <1>19, <1>20, <1>21,
     <1>22, <1>23, <1>24, <1>25, <1>26 DEF Next, Foreground, HostSteps,
     SataInterrupt

(* The invariant is inductive.                                             *)
LEMMA InvStep == IInv /\ [Next]_vars => IInv'
  BY TypeStep, PortStep, RequestStep, MotionStep, UnloadStep DEF IInv

(* The inductive invariant holds in every reachable state.                 *)
THEOREM Invariant == Spec => []IInv
  BY InvInit, InvStep, PTL DEF Spec

-----------------------------------------------------------------------------
(* Every variable keeps its type; in particular the callback queue never   *)
(* outgrows what its bound stands for (rdx_hardware.c, ahci.c).            *)
THEOREM TypeCorrect == Spec => []TypeOK
<1>1. IInv => TypeOK
  BY DEF IInv
<1>2. QED
  BY <1>1, Invariant, PTL

(* No medium is published while a requested motion is under way, whatever  *)
(* link changes, resets and discoveries fall into it                       *)
(* (rdx_hardware.c:180-188, ahci.c:2812-2818).                             *)
THEOREM MotionHidesMedia == Spec => []NoMediaInMotion
<1>1. IInv => NoMediaInMotion
  BY DEF IInv
<1>2. QED
  BY <1>1, Invariant, PTL

(* Discovery runs on a stopped port that is closed to the host, with no    *)
(* callback left in the queue (ahci.c:2826-2856).                          *)
THEOREM DiscoveryIsAlone == Spec => []DiscoveryOwnsPort
<1>1. IInv => DiscoveryOwnsPort
  BY DEF IInv, PortInv, DiscoveryOwnsPort, AtaIsIdle
<1>2. QED
  BY <1>1, Invariant, PTL

(* A logical unload never outlives the cartridge it hides, so the next one *)
(* does not inherit it (rdx_hardware.c:197-200, 803-818).                  *)
THEOREM UnloadIsOfOneCartridge == Spec => []UnloadEndsWithCartridge
<1>1. IInv => UnloadEndsWithCartridge
  BY DEF IInv
<1>2. QED
  BY <1>1, Invariant, PTL

-----------------------------------------------------------------------------
(* The initial states are initial states of the contract.                  *)
LEMMA ContractInit == Init => Contract!Init
  BY DEF Init, Contract!Init, Phase

(* Every step decides, counts, starts or ends as the contract has it, or   *)
(* leaves the contract's state alone.                                      *)
LEMMA ContractStep ==
  IInv /\ [Next]_vars
    => [Contract!Next]_<<Phase, drive_load_count, at # "boot">>
<1> SUFFICES ASSUME IInv, [Next]_vars
             PROVE  [Contract!Next]_<<Phase, drive_load_count, at # "boot">>
  OBVIOUS
<1> USE DEF IInv, TypeOK, RequestInv, requests, cartridge, button, control,
   ata, motor
<1>1. CASE Boot
  BY <1>1 DEF Boot, M!Begin, Contract!Boot, Contract!Next, Phase
<1>2. CASE AhciService
  BY <1>2 DEF AhciService, Phase
<1>3. CASE FinishDiscovery
  BY <1>3 DEF FinishDiscovery, Phase
<1>4. CASE DrainCallback
  BY <1>4 DEF DrainCallback, Phase
<1>5. CASE ServiceCartridgeInput
  BY <1>5 DEF ServiceCartridgeInput, Phase
<1>6. CASE ServiceEjectButton
  BY <1>6 DEF ServiceEjectButton, PressEjectButton, ReleaseEjectButton,
     Contract!Request, Contract!Next, Phase
<1>7. CASE SampleTemperature
  BY <1>7 DEF SampleTemperature, Phase
<1>8. CASE DecideRequest
  BY <1>8 DEF DecideRequest, CountAccept, Contract!Drop, Contract!Accept,
     Contract!Next, Phase
<1>9. CASE NoRequest
  BY <1>9 DEF NoRequest, Phase
<1>10. CASE WaitForIo
  BY <1>10 DEF WaitForIo, Phase
<1>11. CASE PrepareEject
  BY <1>11 DEF PrepareEject, Phase
<1>12. CASE TeardownBeforeMotion
  BY <1>12 DEF TeardownBeforeMotion, Phase
<1>13. CASE StartMechanism
  BY <1>13 DEF StartMechanism, Contract!Move, Contract!Next, Phase
<1>14. CASE ServiceMechanism
  BY <1>14 DEF ServiceMechanism, FinishEject, Contract!Finish, Contract!Next,
     Phase
<1>15. CASE HostMedia
  BY <1>15 DEF HostMedia, Usb, Phase
<1>16. CASE HostPreventAllow
  BY <1>16 DEF HostPreventAllow, Usb, Phase
<1>17. CASE HostLoej
  BY <1>17 DEF HostLoej, Usb, Contract!Request, Contract!Next, Phase
<1>18. CASE HostDriveControl
  BY <1>18 DEF HostDriveControl, Usb, Phase
<1>19. CASE HostInhibitButton
  BY <1>19 DEF HostInhibitButton, Usb, Phase
<1>20. CASE HostPolledCommandFails
  BY <1>20 DEF HostPolledCommandFails, Usb, Phase
<1>21. CASE HostReset
  BY <1>21 DEF HostReset, Usb, Phase
<1>22. CASE AtaCompletes
  BY <1>22 DEF AtaCompletes, Sata, Phase
<1>23. CASE AtaFails
  BY <1>23 DEF AtaFails, Sata, Phase
<1>24. CASE LinkChange
  BY <1>24 DEF LinkChange, Sata, Phase
<1>25. CASE RxError
  BY <1>25 DEF RxError, Sata, Phase
<1>26. CASE UNCHANGED vars
  BY <1>26 DEF vars, Phase
<1>27. QED
  BY <1>1, <1>2, <1>3, <1>4, <1>5, <1>6, <1>7, <1>8, <1>9, <1>10, <1>11, <1>12,
     <1>13, <1>14, <1>15, <1>16, <1>17, <1>18, <1>19, <1>20, <1>21, <1>22,
     <1>23, <1>24, <1>25, <1>26 DEF Next, Foreground, HostSteps, SataInterrupt

(* The coordinator implements its contract: a request is decided once, an  *)
(* accepted request is counted exactly once and never cancelled, and the   *)
(* motor starts for accepted requests and once for homing                  *)
(* (rdx_hardware.c:570-680).                                               *)
THEOREM Implementation == Spec => Contract!Safe
<1>1. IInv /\ [Next]_vars => [Contract!Next]_(Contract!vars)
  BY ContractStep DEF Contract!vars
<1>2. QED
  BY ContractInit, <1>1, Invariant, PTL DEF Spec, Contract!Safe

=============================================================================
