---------------------------- MODULE MediaDiscovery ----------------------------
(***************************************************************************)
(* From a cartridge in the bay to a medium the host may use: discovery in  *)
(* ahci.c, admission in sata_media.c and rdx_unlock.c, and the commands    *)
(* that scsi.c and rdx_runtime_ata.c run while the link may change under   *)
(* them.                                                                   *)
(*                                                                         *)
(* Four parties: the hardware (bay, link, connect-change latch), the two   *)
(* SATA interrupts, the USB interrupt, and the foreground, which it        *)
(* preempts.  Code that masks the interrupts is one step; the hardware     *)
(* moves at any time.                                                      *)
(*                                                                         *)
(* PxIS.PCS shows PxSERR.DIAG.X, so whatever clears PxSERR clears the      *)
(* connect change (ahci.c:238 relies on it).  erased says that one went so *)
(* and nobody has looked at it; a new discovery starts from what is there. *)
(*                                                                         *)
(* A media epoch is compared, never ordered: fresh holds who captured the  *)
(* epoch that is still the current one.  reinit_wait_for_callbacks only    *)
(* repeats the test of callbacks_are_pending and is left out.              *)
(***************************************************************************)
EXTENDS Integers, FiniteSets

CONSTANTS
  Disks,         \* disks that may be put into a cartridge
  Answer,        \* how each of them answers
  MaxInsertions, \* bound: insertions and link losses
  MaxErrors      \* bound: link errors and command timeouts

Answers == {"locked", "refuses", "clear", "hidden", "broken", "plain",
            "packet", "flaky"}

ASSUME DiscoveryAssumption ==
  /\ Answer \in [Disks -> Answers]
  /\ MaxInsertions \in Nat /\ MaxErrors \in Nat

VARIABLES
  bay,       \* the cartridge: its disk and the number of its link-up
  det,       \* PxSSTS.DET: the link is up
  latched,   \* PxIS and PxSERR: a connect change
  erased,    \* history: a connect change was cleared unseen
  p,         \* the port: ata_dev, hot-plug flags, PxIE, slot zero
  failed,    \* the disk whose access attempt was rejected
  fg,        \* the foreground
  info,      \* the cartridge the last IDENTIFY described
  u,         \* the SCSI command that the USB interrupt is handling
  tries,     \* history: rejected attempts of a link-up
  errors     \* bound

vars == <<bay, det, latched, erased, p, failed, fg, info, u, tries, errors>>

None == [d |-> "none", n |-> 0]
Cartridges == [d : Disks, n : 1 .. MaxInsertions] \cup {None}

Quiet == [pc |-> "none", polled |-> FALSE, kind |-> "none", at |-> None]

-----------------------------------------------------------------------------
(* Operators on the port, named after the functions.                       *)
Reset(q) == [q EXCEPT !.kind = "none", !.mapped = None, !.fresh = {}]

ScheduleStillReady(q) ==                 \* mutant: the medium stays ready
  [Reset(q) EXCEPT !.late = TRUE, !.slider = None, !.pxie = "off",
                   !.rx = FALSE, !.quiesced = q.pending /\ q.quiesced,
                   !.pending = TRUE]
Schedule(q) ==
  [Reset(q) EXCEPT !.ready = FALSE, !.late = TRUE, !.slider = None,
                   !.pxie = "off", !.rx = FALSE,
                   !.quiesced = q.pending /\ q.quiesced, !.pending = TRUE]

ErrorCallback(q) == [q EXCEPT !.cb = TRUE]

(* A COMRESET empties the slot; after a failed one the medium is withdrawn *)
(* by the caller just the same.                                            *)
ahci_port_reset(q, reset) == IF reset THEN [q EXCEPT !.slot = "none"] ELSE q

(* ahci_recover_local_command: the caller completes the command.           *)
RecoverLocal(q, reset) == Schedule(ahci_port_reset(q, reset))

(* ahci_fatal_error_recovery, for a port that was reset or was not.        *)
FatalRecovery(q, reset) ==
  LET r == ahci_port_reset(q, reset) IN
  IF q.ready THEN ErrorCallback(IF reset THEN Schedule(r) ELSE r) ELSE r

Capture(q, who) == [q EXCEPT !.fresh = @ \cup {who}]

SessionIsCurrent(who) ==
  p.ready /\ p.kind # "none" /\ who \in p.fresh

SubmissionIsCurrent ==
  SessionIsCurrent("command") /\ det /\ ~latched

(* The two SATA interrupts are masked while a command is submitted.        *)
SataMasked == u.pc \in {"build", "issued"}

UsbRuns == u.pc # "none"

(* A write to PxSERR; all that restarts or resets the port does one.       *)
ClearsPxSERR == latched' = FALSE /\ erased' = (erased \/ latched)

KeepsPxSERR == UNCHANGED <<latched, erased>>

Init ==
  /\ bay = None /\ det = FALSE /\ latched = FALSE /\ erased = FALSE
  /\ p = [ready |-> FALSE, late |-> FALSE, pending |-> FALSE,
          quiesced |-> FALSE, kind |-> "none", mapped |-> None,
          slider |-> None, pxie |-> "off", rx |-> FALSE, slot |-> "none",
          cb |-> FALSE, fresh |-> {}]
  /\ failed = "none" /\ fg = "boot" /\ info = None /\ u = Quiet
  /\ tries = [n \in 1 .. MaxInsertions |-> 0] /\ errors = 0

-----------------------------------------------------------------------------
(* The hardware.  A link that comes up again counts as a new insertion.    *)
Number == IF bay = None THEN 0 ELSE bay.n

Inserts(d, n) ==
  /\ ~det /\ n <= MaxInsertions
  /\ bay' = [d |-> d, n |-> n]
  /\ det' = TRUE /\ latched' = TRUE
  /\ UNCHANGED <<erased, p, failed, fg, info, u, tries, errors>>

LinkLost ==
  /\ det /\ det' = FALSE /\ latched' = TRUE
  /\ UNCHANGED <<bay, erased, p, failed, fg, info, u, tries, errors>>

LinkUp == \E d \in Disks : Inserts(d, Number + 1)

-----------------------------------------------------------------------------
(* The port's interrupt: what is enabled is handled, a connect change      *)
(* first if one look at PxIS shows it; one that comes after the look finds *)
(* the handler of the command at work.                                     *)
ahci_isr(cause) ==
  /\ ~SataMasked
  /\ IF cause = "change" THEN latched /\ p.pxie # "off"
     ELSE p.slot = "host" /\ p.pxie = "default"

Forget == IF det THEN failed ELSE "none"

LinkChange ==
  /\ ahci_isr("change")
  /\ latched' = FALSE /\ UNCHANGED erased
  /\ failed' = Forget
  /\ \/ p' = (IF p.ready THEN ErrorCallback(Schedule(p)) ELSE Schedule(p))
     \/ p' = Schedule(p)                \* USB not configured
  /\ UNCHANGED <<bay, det, fg, info, u, tries, errors>>

Completion ==
  /\ ahci_isr("command")
  /\ p' = [p EXCEPT !.slot = "none", !.cb = TRUE]
  /\ UNCHANGED <<bay, det, latched, erased, failed, fg, info, u, tries, errors>>

TaskFileError ==
  /\ ahci_isr("command")
  /\ errors < MaxErrors /\ errors' = errors + 1
  /\ \E reset \in BOOLEAN :
       p' = [FatalRecovery(p, reset) EXCEPT !.slot = "none"]
  /\ ClearsPxSERR
  /\ UNCHANGED <<bay, det, failed, fg, info, u, tries>>

(* ahci_rx_error_isr beyond its thresholds.  While the mechanism moves it  *)
(* leaves the slot to discovery and looks at the link instead.             *)
ReceiverError ==
  /\ p.rx /\ ~SataMasked
  /\ errors < MaxErrors /\ errors' = errors + 1
  /\ \E moving \in BOOLEAN :
       /\ failed' = IF moving THEN Forget ELSE failed
       /\ IF moving THEN KeepsPxSERR ELSE ClearsPxSERR
       /\ LET q == IF moving THEN p ELSE [p EXCEPT !.slot = "none"] IN
          p' = IF p.ready THEN ErrorCallback(Schedule(q))
               ELSE IF moving THEN Schedule(q) ELSE q
  /\ UNCHANGED <<bay, det, fg, info, u, tries>>

-----------------------------------------------------------------------------
(* The foreground: callbacks, the debounced insertion, ahci_service.       *)
Callbacks ==
  /\ fg = "idle" /\ ~UsbRuns /\ p.cb
  /\ p' = [p EXCEPT !.cb = FALSE]
  /\ UNCHANGED <<bay, det, latched, erased, failed, fg, info, u, tries, errors>>

MediaInserted ==
  /\ fg = "idle" /\ ~UsbRuns /\ bay # None /\ ~p.ready
  /\ p' = Schedule(p)
  /\ UNCHANGED <<bay, det, latched, erased, failed, fg, info, u, tries, errors>>

Serves == fg = "idle" /\ ~UsbRuns /\ p.pending /\ ~p.cb

Quiesce ==
  /\ Serves /\ ~p.quiesced
  /\ p' = [p EXCEPT !.quiesced = TRUE]
  /\ UNCHANGED <<bay, det, latched, erased, failed, fg, info, u, tries, errors>>

WaitForLink ==
  /\ Serves /\ p.quiesced /\ ~det /\ failed # "none"
  /\ failed' = "none"
  /\ UNCHANGED <<bay, det, latched, erased, p, fg, info, u, tries, errors>>

(* ahci_init_port up to the wait for the PHY.                              *)
Begin(q) ==
  Capture([Reset(q) EXCEPT !.ready = FALSE, !.late = FALSE, !.slider = None,
                           !.rx = FALSE, !.pxie = "off", !.slot = "none",
                           !.pending = FALSE, !.quiesced = FALSE],
          "discovery")

Discover ==
  /\ \/ Serves /\ p.quiesced /\ det
     \/ fg = "boot"
  /\ p' = Begin(p) /\ fg' = "phy"
  /\ latched' = FALSE /\ erased' = FALSE
  /\ UNCHANGED <<bay, det, failed, info, u, tries, errors>>

Failed(q) ==
  [q EXCEPT !.late = TRUE, !.pxie = IF q.pending THEN "off" ELSE "change"]

Step(at) == fg = at /\ ~UsbRuns

Undisturbed(at) ==
  det /\ ~latched /\ (at \in {"negotiate", "admit"} => bay = info)

GiveUp(at) ==
  /\ Step(at)
  /\ Undisturbed(at) => Answer[bay.d] = "flaky"
  /\ p' = Failed(p) /\ fg' = "idle"
  /\ UNCHANGED <<bay, det, latched, erased, failed, info, u, tries, errors>>

(* The link is up and the disk has sent its signature.  ahci_start clears  *)
(* PxSERR; what is there now is what IDENTIFY will ask.  An ATAPI device   *)
(* fails sata_media_start_after_identify.                                  *)
LinkReady ==
  /\ Step("phy") /\ det
  /\ latched' = FALSE /\ fg' = "identify"
  /\ UNCHANGED <<bay, det, erased, p, failed, info, u, tries, errors>>

StartsAfterIdentify(d) == Answer[d] # "packet"

(* What IDENTIFY said, by the cartridge that said it.                      *)
ahci_save_device_info == info' = bay

ahci_identify_device == Step("identify") /\ det /\ ahci_save_device_info

Identify ==
  /\ ahci_identify_device
  /\ IF StartsAfterIdentify(bay.d)
     THEN p' = p /\ fg' = "negotiate"
     ELSE p' = Failed(p) /\ fg' = "idle"
  /\ UNCHANGED <<bay, det, latched, erased, failed, u, tries, errors>>

(* A second attempt at the speed of the link, then the transfer modes.  The *)
(* COMRESET is not itself a connect change.                                 *)
Negotiate ==
  /\ Step("negotiate") /\ det /\ bay.d = info.d
  /\ ClearsPxSERR \/ KeepsPxSERR
  /\ fg' = "prepare"
  /\ UNCHANGED <<bay, det, p, failed, info, u, tries, errors>>

(* sata_media_prepare.  The fingerprint of a disk stands for itself.       *)
Accessed == Answer[info.d] \in {"locked", "refuses", "hidden", "flaky"}

RepeatedPrepare ==                       \* mutant: no throttle
  /\ Step("prepare")
  /\ p' = Reset(p) /\ fg' = "admit"
  /\ UNCHANGED <<bay, det, latched, erased, failed, info, u, tries, errors>>
Prepare ==
  /\ Step("prepare")
  /\ IF Accessed /\ failed = info.d
     THEN p' = Failed(Reset(p)) /\ fg' = "idle"
     ELSE p' = Reset(p) /\ fg' = "admit"
  /\ UNCHANGED <<bay, det, latched, erased, failed, info, u, tries, errors>>

(* The disk answers the access attempt or the inspection.  Disks are not   *)
(* exchanged between two commands; one exchanged during a command fails it.*)
Admits(kind) ==
  /\ failed' = IF Accessed THEN "none" ELSE failed
  /\ p' = Capture([p EXCEPT !.kind = kind,
                            !.mapped = IF kind = "rdx" THEN bay ELSE None],
                  "discovery")
  /\ fg' = "sample" /\ UNCHANGED tries

Rejects ==
  /\ failed' = info.d /\ tries' = [tries EXCEPT ![bay.n] = @ + 1]
  /\ p' = Failed(p) /\ fg' = "idle"

Invalid ==
  /\ p' = Failed(p) /\ fg' = "idle" /\ UNCHANGED <<failed, tries>>

Admit ==
  /\ Step("admit") /\ det /\ bay.d = info.d
  /\ LET a == Answer[info.d] IN
     \/ a \in {"locked", "hidden", "clear", "flaky"} /\ Admits("rdx")
     \/ a = "plain" /\ Admits("generic")
     \/ a \in {"refuses", "flaky"} /\ Rejects
     \/ a = "broken" /\ Invalid
  /\ UNCHANGED <<bay, det, latched, erased, info, u, errors>>

(* The slider is sampled before the medium is published.  PxSERR is cleared *)
(* first and PxIS but for the connect change, which goes with PxSERR.       *)
Sample ==
  /\ Step("sample")
  /\ \E sensed \in BOOLEAN :
       p' = [p EXCEPT !.slider = IF sensed THEN bay ELSE None]
  /\ ClearsPxSERR /\ fg' = "publish"
  /\ UNCHANGED <<bay, det, failed, info, u, tries, errors>>

Published(q) ==
  [q EXCEPT !.ready = TRUE, !.pxie = "default", !.rx = TRUE]

Publish ==
  /\ Step("publish")
  /\ IF "discovery" \in p.fresh /\ det /\ ~latched
     THEN p' = Published(p) /\ UNCHANGED failed
     ELSE p' = Failed(Schedule(p)) /\ failed' = Forget
  /\ fg' = "idle"
  /\ UNCHANGED <<bay, det, latched, erased, info, u, tries, errors>>

-----------------------------------------------------------------------------
(* Polled commands: the completion interrupts belong to the session, the   *)
(* connect change stays enabled.  It is taken for a new medium's if the    *)
(* epoch moved.                                                            *)
Owned(q) == [Capture(q, "session") EXCEPT !.pxie = "owned"]

EagerRestore(q, current) ==             \* mutant: the saved mask returns
  [q EXCEPT !.slot = "none", !.pxie = "default", !.rx = TRUE]
Restored(q, current) ==
  [q EXCEPT !.slot = "none", !.pxie = IF current THEN "default" ELSE "off",
            !.rx = IF current THEN TRUE ELSE @]

(* rdx_runtime_ata.c in the foreground, with USB masked.                   *)
StartRead ==
  /\ fg = "idle" /\ ~UsbRuns /\ p.ready /\ p.kind # "none" /\ p.slot = "none"
  /\ p' = Owned(p) /\ fg' = "read"
  /\ UNCHANGED <<bay, det, latched, erased, failed, info, u, tries, errors>>

IssueRead ==
  /\ fg = "read"
  /\ IF SessionIsCurrent("session")
     THEN p' = [p EXCEPT !.slot = "session"] /\ fg' = "wait"
     ELSE p' = [p EXCEPT !.pxie = "off"] /\ fg' = "idle"
  /\ UNCHANGED <<bay, det, latched, erased, failed, info, u, tries, errors>>

FinishRead ==
  /\ fg = "wait" /\ fg' = "idle"
  /\ p' = Restored(p, SessionIsCurrent("session"))
  /\ UNCHANGED <<bay, det, latched, erased, failed, info, u, tries, errors>>

ReadTimeout ==
  /\ fg = "wait" /\ fg' = "idle"
  /\ p.slot = "session" /\ errors < MaxErrors /\ errors' = errors + 1
  /\ p' = RecoverLocal(p, TRUE) /\ ClearsPxSERR
  /\ UNCHANGED <<bay, det, failed, info, u, tries>>

-----------------------------------------------------------------------------
(* A SCSI command that reads or writes.                                    *)
UsbMasked == fg \in {"read", "wait"}

Handles(q, v) ==
  p' = q /\ u' = v /\ UNCHANGED <<bay, det, failed, fg, info, tries>>

Command(q, v) == Handles(q, v) /\ KeepsPxSERR /\ UNCHANGED errors

StartCommand ==
  /\ ~UsbRuns /\ ~UsbMasked /\ p.ready /\ p.slot = "none" /\ ~p.cb
  /\ \E polled \in BOOLEAN :
       Command(Capture(p, "command"),
               [Quiet EXCEPT !.pc = "kind", !.polled = polled])

(* sata_media_translate_lba reads the layout, then the offset.             *)
ReadKind ==
  /\ u.pc = "kind"
  /\ Command(p, IF p.kind = "none" THEN Quiet
                ELSE [u EXCEPT !.pc = "offset", !.kind = p.kind])

AddOffset ==
  /\ u.pc = "offset"
  /\ Command(p, [u EXCEPT !.at = p.mapped,
                          !.pc = IF u.polled THEN "begin" ELSE "submit"])

BeginPolled ==
  /\ u.pc = "begin"
  /\ IF p.ready /\ p.kind # "none"
     THEN Command(Owned(p), [u EXCEPT !.pc = "submit"])
     ELSE Command(p, Quiet)

Submit ==
  /\ u.pc = "submit"
  /\ IF SubmissionIsCurrent THEN Command(p, [u EXCEPT !.pc = "build"])
     ELSE Command(RecoverLocal(p, FALSE), Quiet)

Issue ==
  /\ u.pc = "build"
  /\ IF SubmissionIsCurrent
     THEN Command([p EXCEPT !.slot = IF u.polled THEN "session" ELSE "host"],
                  [u EXCEPT !.pc = "issued"])
     ELSE Command(RecoverLocal(p, FALSE), Quiet)

Issued ==
  /\ u.pc = "issued"
  /\ IF SubmissionIsCurrent
     THEN Command(p, IF u.polled THEN [u EXCEPT !.pc = "wait"] ELSE Quiet)
     ELSE Handles(RecoverLocal(p, TRUE), Quiet) /\ ClearsPxSERR
          /\ UNCHANGED errors

FinishPolled ==
  /\ u.pc = "wait" /\ Command(Restored(p, SessionIsCurrent("session")), Quiet)

PolledTimeout ==
  /\ u.pc = "wait" /\ p.slot = "session"
  /\ errors < MaxErrors /\ errors' = errors + 1
  /\ Handles(RecoverLocal(p, TRUE), Quiet) /\ ClearsPxSERR

(* ahci_reset_lun on a USB reset or disconnect.                            *)
ResetLun ==
  /\ ~UsbRuns /\ ~UsbMasked /\ p.ready
  /\ \E reset, configured \in BOOLEAN :
       LET r == FatalRecovery([p EXCEPT !.cb = FALSE, !.slot = "none"], reset)
       IN  p' = [r EXCEPT !.cb = configured,
                          !.pxie = IF r.ready THEN "default" ELSE "off"]
  /\ ClearsPxSERR
  /\ UNCHANGED <<bay, det, failed, fg, info, u, tries, errors>>

-----------------------------------------------------------------------------
Interrupts == LinkChange \/ Completion \/ TaskFileError \/ ReceiverError

Discovery ==
  \/ Discover \/ LinkReady \/ Identify \/ Negotiate \/ Prepare \/ Admit
  \/ Sample \/ Publish
  \/ \E at \in {"phy", "identify", "negotiate", "admit"} : GiveUp(at)

Foreground ==
  \/ Callbacks \/ Quiesce \/ WaitForLink \/ Discovery
  \/ IssueRead \/ FinishRead \/ ReadTimeout

Usb ==
  \/ ReadKind \/ AddOffset \/ BeginPolled \/ Submit \/ Issue \/ Issued
  \/ FinishPolled \/ PolledTimeout

Next ==
  \/ LinkLost \/ LinkUp
  \/ Interrupts \/ Foreground \/ Usb
  \/ MediaInserted \/ StartRead \/ StartCommand \/ ResetLun

(* Interrupts are served, handlers return, the main loop turns, and a disk *)
(* that is there completes its commands.                                   *)
Spec ==
  /\ Init /\ [][Next]_vars
  /\ WF_vars(LinkChange) /\ WF_vars(Completion)
  /\ WF_vars(Foreground) /\ WF_vars(Usb)

-----------------------------------------------------------------------------
TypeOK ==
  /\ bay \in Cartridges /\ info \in Cartridges
  /\ det \in BOOLEAN /\ latched \in BOOLEAN /\ erased \in BOOLEAN
  /\ p \in [ready : BOOLEAN, late : BOOLEAN, pending : BOOLEAN,
            quiesced : BOOLEAN, kind : {"none", "rdx", "generic"},
            mapped : Cartridges, slider : Cartridges,
            pxie : {"off", "change", "default", "owned"}, rx : BOOLEAN,
            slot : {"none", "host", "session"}, cb : BOOLEAN,
            fresh : SUBSET {"discovery", "command", "session"}]
  /\ failed \in Disks \cup {"none"}
  /\ fg \in {"boot", "idle", "phy", "identify", "negotiate", "prepare",
             "admit", "sample", "publish", "read", "wait"}
  /\ u \in [pc : {"none", "kind", "offset", "begin", "submit", "build",
                  "issued", "wait"},
            polled : BOOLEAN, kind : {"none", "rdx", "generic"},
            at : Cartridges]
  /\ tries \in [1 .. MaxInsertions -> Nat] /\ errors \in 0 .. MaxErrors

(* While the host may use a medium and no link change waits to be served,  *)
(* geometry, extent and write protection are those of the cartridge in the *)
(* bay: none was examined before a change of cartridge (ahci.c:2346).      *)
PublishedIsInBay ==
  p.ready /\ ~latched =>
    /\ info = bay
    /\ p.kind = "rdx" => p.mapped = bay
    /\ p.slider \in {bay, None}

(* A command put into the slot was translated with the layout of the       *)
(* cartridge it goes to, unless the link has changed under the masks and   *)
(* the last check will take it back (scsi.c:846, sata_media.c:511).        *)
IssuedWhereMapped ==
  u.pc = "issued" /\ det /\ ~latched =>
    /\ p.ready /\ u.kind = p.kind
    /\ u.kind = "rdx" => u.at = bay

(* What the host is told of, and what it reads and writes, is the          *)
(* cartridge in the bay: none is taken for the one before it, as long as   *)
(* no connect change has been lost with PxSERR.  That one can be lost, and *)
(* the medium be mistaken then, DiscoverySerr.cfg shows.                   *)
HostSeesTheBay == ~erased => PublishedIsInBay /\ IssuedWhereMapped

(* An idle foreground leaves the port to discovery, isolated; or empty and *)
(* listening for the link, with the transport told so; or ready and        *)
(* listening for everything.  No session and no reset may leave the port   *)
(* deaf, or reopen one that discovery owns.                                *)
PortListens ==
  fg = "idle" /\ ~UsbRuns =>
    IF p.pending THEN p.pxie = "off" /\ ~p.rx /\ ~p.ready
    ELSE IF p.ready THEN p.pxie = "default" /\ p.rx
    ELSE p.pxie = "change" /\ p.late

(* A disk that rejected the access attempt is not asked again while it     *)
(* stays connected (sata_media.c:139).                                     *)
OneRejectedAttempt == \A n \in DOMAIN tries : tries[n] <= 1

(* A cartridge that can be admitted and stays connected is offered to the  *)
(* host again and again, whatever came before it: no link change, rejected *)
(* disk, error or reset leaves the bay ignored.  Only a connect change lost *)
(* with PxSERR may.                                                        *)
Admissible ==
  /\ det /\ ~erased
  /\ Answer[bay.d] \in {"locked", "clear", "hidden", "plain"}
=============================================================================
