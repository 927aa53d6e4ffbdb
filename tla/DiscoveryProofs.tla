--------------------------- MODULE DiscoveryProofs ---------------------------
(***************************************************************************)
(* Proofs about MediaDiscovery, for every set of disks, whatever they      *)
(* answer, and every number of insertions and errors: the port is never    *)
(* left deaf, a rejected disk is asked once, and the host sees the          *)
(* cartridge in the bay unless a connect change was lost with PxSERR.      *)
(*                                                                         *)
(* The properties speak of the foreground at rest or of a medium that is   *)
(* ready; IInv says what each place of the code may count on in between.   *)
(***************************************************************************)
EXTENDS MediaDiscovery, TLAPS

Port ==
  [ready : BOOLEAN, late : BOOLEAN, pending : BOOLEAN,
   quiesced : BOOLEAN, kind : {"none", "rdx", "generic"},
   mapped : Cartridges, slider : Cartridges,
   pxie : {"off", "change", "default", "owned"}, rx : BOOLEAN,
   slot : {"none", "host", "session"}, cb : BOOLEAN,
   fresh : SUBSET {"discovery", "command", "session"}]

Places ==
  {"boot", "idle", "phy", "identify", "negotiate", "prepare", "admit",
   "sample", "publish", "read", "wait"}

Handler ==
  [pc : {"none", "kind", "offset", "begin", "submit", "build", "issued",
         "wait"},
   polled : BOOLEAN, kind : {"none", "rdx", "generic"}, at : Cartridges]

-----------------------------------------------------------------------------
(* The inductive invariant.                                                *)

(* The port belongs to start-up or to discovery.                           *)
Examines == fg \notin {"idle", "read", "wait"}

(* A polled session owns the completion interrupts.                        *)
PollsForUsb == u.polled /\ u.pc \in {"submit", "build", "issued", "wait"}
SessionRuns == UsbMasked \/ PollsForUsb

(* Discovery has the port to itself, with every source of it masked; an    *)
(* isolated port stays so until discovery; and a session or a command      *)
(* that finds no isolation still has its medium.                           *)
PortInv ==
  /\ Examines => /\ ~p.ready /\ ~p.pending /\ ~p.rx
                 /\ p.pxie = "off" /\ p.slot = "none"
  /\ fg \in {"sample", "publish"} => p.kind # "none"
  /\ UsbRuns => fg = "idle"
  /\ u.pc \in {"begin", "wait"} => u.polled
  /\ p.pending => ~p.ready /\ ~p.rx /\ p.pxie = "off"
  /\ p.ready => /\ p.rx /\ p.kind # "none"
                /\ p.pxie = IF SessionRuns THEN "owned" ELSE "default"
  /\ SessionRuns /\ ~p.pending => p.ready /\ "session" \in p.fresh
  /\ UsbRuns /\ ~p.pending => p.ready
  /\ fg = "idle" /\ ~UsbRuns /\ ~p.pending /\ ~p.ready =>
       p.pxie = "change" /\ ~p.rx /\ p.late

(* What discovery has learnt of the bay is true of it unless a connect     *)
(* change says otherwise, or one that did was lost.                        *)
ExaminedInv ==
  ~latched /\ ~erased =>
    /\ fg \in {"negotiate", "prepare", "admit", "sample", "publish"} =>
         info = bay
    /\ fg \in {"sample", "publish"} => (p.kind = "rdx" => p.mapped = bay)
    /\ fg = "publish" => p.slider \in {bay, None}

(* A command holds the layout of the medium whose epoch it captured, and   *)
(* behind the masks that epoch cannot move.                                *)
CommandInv ==
  /\ u.pc \in {"offset", "begin", "submit", "build", "issued", "wait"}
       /\ "command" \in p.fresh =>
       /\ u.kind = p.kind
       /\ u.pc # "offset" => u.at = p.mapped
  /\ u.pc = "issued" => p.ready /\ "command" \in p.fresh

(* A disk that has used up its attempt is remembered while it is connected, *)
(* and one that is to be asked now has not.                                *)
AttemptInv ==
  /\ det => bay # None
  /\ \A n \in 1 .. MaxInsertions : n > Number => tries[n] = 0
  /\ \A n \in 1 .. MaxInsertions : tries[n] <= 1
  /\ det /\ tries[bay.n] = 1 => failed = bay.d
  /\ fg = "admit" /\ det /\ bay.d = info.d /\ Accessed => tries[bay.n] = 0

IInv ==
  /\ TypeOK /\ PortInv /\ AttemptInv /\ CommandInv
  /\ ~erased => PublishedIsInBay
  /\ ExaminedInv

-----------------------------------------------------------------------------
(* What the operators on the port do to it.                                *)

(* No cartridge is a value of its type.                                    *)
LEMMA NoneType == None \in Cartridges
  BY DEF None, Cartridges

(* No command is a value of its type.                                      *)
LEMMA QuietType == Quiet \in Handler
  BY NoneType DEF Quiet, Handler

(* What the bounds' assumption says in arithmetic.                         *)
LEMMA BoundsType ==
  MaxInsertions \in Nat /\ MaxErrors \in Nat
  BY DiscoveryAssumption

(* Reset forgets the medium and its epoch.                                 *)
LEMMA ResetPort ==
  ASSUME NEW q \in Port
  PROVE  /\ Reset(q) \in Port
         /\ Reset(q).kind = "none" /\ Reset(q).fresh = {}
         /\ Reset(q).ready = q.ready /\ Reset(q).pending = q.pending
         /\ Reset(q).rx = q.rx /\ Reset(q).pxie = q.pxie
         /\ Reset(q).slot = q.slot /\ Reset(q).late = q.late
         /\ Reset(q).slider = q.slider
  BY NoneType DEF Reset, Port

(* Scheduling discovery isolates the port.                                 *)
LEMMA SchedulePort ==
  ASSUME NEW q \in Port
  PROVE  /\ Schedule(q) \in Port
         /\ Schedule(q).fresh = {} /\ Schedule(q).pxie = "off"
         /\ ~Schedule(q).ready /\ ~Schedule(q).rx /\ Schedule(q).pending
         /\ Schedule(q).slot = q.slot
<1> DEFINE r == Reset(q)
<1>1. r \in Port /\ r.kind = "none" /\ r.fresh = {} /\ r.slot = q.slot
  BY ResetPort
<1>2. PICK b \in BOOLEAN : b = (q.pending /\ q.quiesced)
  OBVIOUS
<1>3. Schedule(q) = [r EXCEPT !.ready = FALSE, !.late = TRUE,
                              !.slider = None, !.pxie = "off", !.rx = FALSE,
                              !.quiesced = b, !.pending = TRUE]
  BY <1>2 DEF Schedule
<1> HIDE DEF r
<1>4. QED
  BY <1>1, <1>3, NoneType, ZenonT(60) DEF Port

(* A port reset touches the slot only.                                     *)
LEMMA PortResetPort ==
  ASSUME NEW q \in Port, NEW reset \in BOOLEAN
  PROVE  LET r == ahci_port_reset(q, reset) IN
         /\ r \in Port
         /\ r.ready = q.ready /\ r.pending = q.pending /\ r.rx = q.rx
         /\ r.pxie = q.pxie /\ r.late = q.late /\ r.kind = q.kind
         /\ r.mapped = q.mapped /\ r.slider = q.slider /\ r.fresh = q.fresh
         /\ r.slot \in {q.slot, "none"}
  BY DEF ahci_port_reset, Port

(* A callback that is queued changes nothing else.                         *)
LEMMA CallbackPort ==
  ASSUME NEW q \in Port
  PROVE  LET r == ErrorCallback(q) IN
         /\ r \in Port
         /\ r.ready = q.ready /\ r.pending = q.pending /\ r.rx = q.rx
         /\ r.pxie = q.pxie /\ r.late = q.late /\ r.kind = q.kind
         /\ r.mapped = q.mapped /\ r.slider = q.slider /\ r.fresh = q.fresh
         /\ r.slot = q.slot
  BY DEF ErrorCallback, Port

(* Recovery of a failed command schedules discovery.                       *)
LEMMA RecoverPort ==
  ASSUME NEW q \in Port, NEW reset \in BOOLEAN
  PROVE  LET r == RecoverLocal(q, reset) IN
         /\ r \in Port
         /\ r.fresh = {} /\ r.pxie = "off"
         /\ ~r.ready /\ ~r.rx /\ r.pending
  BY SchedulePort, PortResetPort DEF RecoverLocal

(* Recovery of a fatal error keeps a ready port as it is or isolates it.   *)
LEMMA FatalPort ==
  ASSUME NEW q \in Port, NEW reset \in BOOLEAN
  PROVE  LET r == FatalRecovery(q, reset) IN
         /\ r \in Port
         /\ \/ /\ r.fresh = {} /\ r.pxie = "off"
               /\ ~r.ready /\ ~r.rx /\ r.pending
            \/ /\ r.ready = q.ready /\ r.pending = q.pending /\ r.rx = q.rx
               /\ r.pxie = q.pxie /\ r.late = q.late /\ r.kind = q.kind
               /\ r.mapped = q.mapped /\ r.slider = q.slider
               /\ r.fresh = q.fresh
<1> DEFINE r == ahci_port_reset(q, reset)
<1>1. r \in Port
  BY PortResetPort
<1>2. CASE ~q.ready
  <2>1. FatalRecovery(q, reset) = r
    BY <1>1, <1>2, PortResetPort DEF FatalRecovery
  <2>2. /\ r \in Port
        /\ r.ready = q.ready /\ r.pending = q.pending /\ r.rx = q.rx
        /\ r.pxie = q.pxie /\ r.late = q.late /\ r.kind = q.kind
        /\ r.mapped = q.mapped /\ r.slider = q.slider /\ r.fresh = q.fresh
    BY PortResetPort
  <2> HIDE DEF r
  <2>3. QED
    BY <2>1, <2>2
<1>3. CASE q.ready /\ ~reset
  <2>1. FatalRecovery(q, reset) = ErrorCallback(r)
    BY <1>1, <1>3, PortResetPort DEF FatalRecovery
  <2>2. /\ r \in Port
        /\ r.ready = q.ready /\ r.pending = q.pending /\ r.rx = q.rx
        /\ r.pxie = q.pxie /\ r.late = q.late /\ r.kind = q.kind
        /\ r.mapped = q.mapped /\ r.slider = q.slider /\ r.fresh = q.fresh
    BY PortResetPort
  <2> HIDE DEF r
  <2>3. QED
    BY <2>1, <2>2, CallbackPort
<1>4. CASE q.ready /\ reset
  <2>1. Schedule(r) \in Port /\ FatalRecovery(q, reset) = ErrorCallback(Schedule(r))
    BY <1>1, <1>4, SchedulePort DEF FatalRecovery
  <2>2. QED
    BY <1>1, <2>1, SchedulePort, CallbackPort
<1>5. QED
  BY <1>2, <1>3, <1>4

(* Discovery begins on an isolated, empty port.                            *)
LEMMA BeginPort ==
  ASSUME NEW q \in Port
  PROVE  /\ Begin(q) \in Port
         /\ ~Begin(q).ready /\ ~Begin(q).pending /\ ~Begin(q).rx
         /\ Begin(q).pxie = "off" /\ Begin(q).slot = "none"
         /\ Begin(q).fresh = {"discovery"}
<1>1. /\ Reset(q) \in Port /\ Reset(q).fresh = {}
  BY ResetPort
<1>2. QED
  BY <1>1, NoneType, ZenonT(60) DEF Begin, Capture, Port

(* A failed examination leaves the port empty, and listening unless it was *)
(* isolated meanwhile.                                                     *)
LEMMA FailedPort ==
  ASSUME NEW q \in Port
  PROVE  /\ Failed(q) \in Port /\ Failed(q).late
         /\ Failed(q).pxie = IF q.pending THEN "off" ELSE "change"
         /\ Failed(q).ready = q.ready /\ Failed(q).pending = q.pending
         /\ Failed(q).rx = q.rx /\ Failed(q).fresh = q.fresh
         /\ Failed(q).slot = q.slot
  BY DEF Failed, Port

(* Capturing the epoch changes nothing else.                               *)
LEMMA CapturePort ==
  ASSUME NEW q \in Port, NEW who \in {"discovery", "command", "session"}
  PROVE  LET r == Capture(q, who) IN
         /\ r \in Port
         /\ r.ready = q.ready /\ r.pending = q.pending /\ r.rx = q.rx
         /\ r.pxie = q.pxie /\ r.late = q.late /\ r.kind = q.kind
         /\ r.mapped = q.mapped /\ r.slider = q.slider
         /\ r.fresh = q.fresh \cup {who} /\ r.slot = q.slot
  BY DEF Capture, Port

(* A session takes the completion interrupts.                              *)
LEMMA OwnedPort ==
  ASSUME NEW q \in Port
  PROVE  LET r == Owned(q) IN
         /\ r \in Port
         /\ r.ready = q.ready /\ r.pending = q.pending /\ r.rx = q.rx
         /\ r.pxie = "owned" /\ r.late = q.late /\ r.kind = q.kind
         /\ r.mapped = q.mapped /\ r.slider = q.slider
         /\ r.fresh = q.fresh \cup {"session"} /\ r.slot = q.slot
<1>1. Capture(q, "session") \in Port
  BY CapturePort
<1>2. QED
  BY <1>1, CapturePort DEF Owned, Port

(* A session gives the port back to its medium, or leaves it isolated.     *)
LEMMA RestoredPort ==
  ASSUME NEW q \in Port, NEW current \in BOOLEAN
  PROVE  LET r == Restored(q, current) IN
         /\ r \in Port
         /\ r.ready = q.ready /\ r.pending = q.pending
         /\ r.rx = (current \/ q.rx)
         /\ r.pxie = (IF current THEN "default" ELSE "off")
         /\ r.late = q.late /\ r.kind = q.kind
         /\ r.mapped = q.mapped /\ r.slider = q.slider
         /\ r.fresh = q.fresh /\ r.slot = "none"
  BY DEF Restored, Port

(* Publication opens the port.                                             *)
LEMMA PublishedPort ==
  ASSUME NEW q \in Port
  PROVE  LET r == Published(q) IN
         /\ r \in Port
         /\ r.ready /\ r.rx /\ r.pxie = "default"
         /\ r.pending = q.pending /\ r.late = q.late /\ r.kind = q.kind
         /\ r.mapped = q.mapped /\ r.slider = q.slider
         /\ r.fresh = q.fresh /\ r.slot = q.slot
  BY DEF Published, Port
-----------------------------------------------------------------------------
(* Every step keeps the types.                                             *)
LEMMA TypeStep ==
  TypeOK /\ [Next]_vars => TypeOK'
<1> SUFFICES ASSUME TypeOK, [Next]_vars PROVE TypeOK'
  OBVIOUS
<1>0. /\ bay \in Cartridges /\ info \in Cartridges
      /\ det \in BOOLEAN /\ latched \in BOOLEAN /\ erased \in BOOLEAN
      /\ p \in Port
      /\ failed \in Disks \cup {"none"} /\ fg \in Places /\ u \in Handler
      /\ tries \in [1 .. MaxInsertions -> Nat] /\ errors \in 0 .. MaxErrors
  BY DEF TypeOK, Port, Places, Handler
<1> USE <1>0, NoneType, QuietType, BoundsType
<1>1. CASE LinkLost
  <2>1. det' \in BOOLEAN
    BY <1>1 DEF LinkLost
  <2>2. latched' \in BOOLEAN
    BY <1>1 DEF LinkLost
  <2>3. UNCHANGED <<bay, erased, p, failed, fg, info, u, tries, errors>>
    BY <1>1 DEF LinkLost
  <2>4. QED
    BY <2>1, <2>2, <2>3 DEF TypeOK, Port, Places, Handler
<1>2. CASE LinkUp
  <2>1. bay' \in Cartridges
    BY <1>2 DEF LinkUp, Inserts, Number, Cartridges
  <2>2. det' \in BOOLEAN
    BY <1>2 DEF LinkUp, Inserts, Number
  <2>3. latched' \in BOOLEAN
    BY <1>2 DEF LinkUp, Inserts, Number
  <2>4. UNCHANGED <<erased, p, failed, fg, info, u, tries, errors>>
    BY <1>2 DEF LinkUp, Inserts, Number
  <2>5. QED
    BY <2>1, <2>2, <2>3, <2>4 DEF TypeOK, Port, Places, Handler
<1>3. CASE LinkChange
  <2>1. latched' \in BOOLEAN /\ erased' \in BOOLEAN
    BY <1>3 DEF LinkChange, Forget, ClearsPxSERR, KeepsPxSERR
  <2>2. p' \in Port
    BY <1>3, SchedulePort, CallbackPort DEF LinkChange, Forget
  <2>3. failed' \in Disks \cup {"none"}
    BY <1>3 DEF LinkChange, Forget, Cartridges
  <2>4. UNCHANGED <<bay, det, fg, info, u, tries, errors>>
    BY <1>3 DEF LinkChange, Forget
  <2>5. QED
    BY <2>1, <2>2, <2>3, <2>4 DEF TypeOK, Port, Places, Handler
<1>4. CASE Completion
  <2>1. p' \in Port
    BY <1>4 DEF Completion, Port
  <2>2. UNCHANGED <<bay, det, latched, erased, failed, fg, info, u, tries, errors>>
    BY <1>4 DEF Completion
  <2>3. QED
    BY <2>1, <2>2 DEF TypeOK, Port, Places, Handler
<1>5. CASE TaskFileError
  <2>1. p' \in Port
    BY <1>5, FatalPort DEF TaskFileError, Port
  <2>2. errors' \in 0 .. MaxErrors
    BY <1>5 DEF TaskFileError
  <2>3. UNCHANGED <<bay, det, failed, fg, info, u, tries>>
    BY <1>5 DEF TaskFileError
  <2>4. latched' \in BOOLEAN /\ erased' \in BOOLEAN
    BY <1>5 DEF TaskFileError, ClearsPxSERR, KeepsPxSERR
  <2>5. QED
    BY <2>1, <2>2, <2>3, <2>4 DEF TypeOK, Port, Places, Handler
<1>6. CASE ReceiverError
  <2>1. p' \in Port
    BY <1>6, SchedulePort, CallbackPort DEF ReceiverError, Forget, Port
  <2>2. failed' \in Disks \cup {"none"}
    BY <1>6 DEF ReceiverError, Forget, Cartridges
  <2>3. errors' \in 0 .. MaxErrors
    BY <1>6 DEF ReceiverError, Forget
  <2>4. UNCHANGED <<bay, det, fg, info, u, tries>>
    BY <1>6 DEF ReceiverError, Forget
  <2>5. latched' \in BOOLEAN /\ erased' \in BOOLEAN
    BY <1>6 DEF ReceiverError, Forget, ClearsPxSERR, KeepsPxSERR
  <2>6. QED
    BY <2>1, <2>2, <2>3, <2>4, <2>5 DEF TypeOK, Port, Places, Handler
<1>7. CASE Callbacks
  <2>1. p' \in Port
    BY <1>7 DEF Callbacks, Port
  <2>2. UNCHANGED <<bay, det, latched, erased, failed, fg, info, u, tries, errors>>
    BY <1>7 DEF Callbacks
  <2>3. QED
    BY <2>1, <2>2 DEF TypeOK, Port, Places, Handler
<1>8. CASE Quiesce
  <2>1. p' \in Port
    BY <1>8 DEF Quiesce, Port
  <2>2. UNCHANGED <<bay, det, latched, erased, failed, fg, info, u, tries, errors>>
    BY <1>8 DEF Quiesce
  <2>3. QED
    BY <2>1, <2>2 DEF TypeOK, Port, Places, Handler
<1>9. CASE WaitForLink
  <2>1. failed' \in Disks \cup {"none"}
    BY <1>9 DEF WaitForLink, Cartridges
  <2>2. UNCHANGED <<bay, det, latched, erased, p, fg, info, u, tries, errors>>
    BY <1>9 DEF WaitForLink
  <2>3. QED
    BY <2>1, <2>2 DEF TypeOK, Port, Places, Handler
<1>10. CASE Discover
  <2>1. latched' \in BOOLEAN /\ erased' \in BOOLEAN
    BY <1>10 DEF Discover, ClearsPxSERR, KeepsPxSERR
  <2>2. p' \in Port
    BY <1>10, BeginPort DEF Discover
  <2>3. fg' \in Places
    BY <1>10 DEF Discover, Places
  <2>4. UNCHANGED <<bay, det, failed, info, u, tries, errors>>
    BY <1>10 DEF Discover
  <2>5. QED
    BY <2>1, <2>2, <2>3, <2>4 DEF TypeOK, Port, Places, Handler
<1>11. CASE LinkReady
  <2>1. latched' \in BOOLEAN /\ erased' \in BOOLEAN
    BY <1>11 DEF LinkReady, Step, ClearsPxSERR, KeepsPxSERR
  <2>2. fg' \in Places
    BY <1>11 DEF LinkReady, Step, Places
  <2>3. UNCHANGED <<bay, det, p, failed, info, u, tries, errors>>
    BY <1>11 DEF LinkReady, Step
  <2>4. QED
    BY <2>1, <2>2, <2>3 DEF TypeOK, Port, Places, Handler
<1>12. CASE Identify
  <2>1. p' \in Port
    BY <1>12, FailedPort DEF Identify, Step, ahci_identify_device,
       ahci_save_device_info
  <2>2. fg' \in Places
    BY <1>12 DEF Identify, Step, ahci_identify_device, ahci_save_device_info,
       Places
  <2>3. info' \in Cartridges
    BY <1>12 DEF Identify, Step, ahci_identify_device, ahci_save_device_info
  <2>4. UNCHANGED <<bay, det, latched, erased, failed, u, tries, errors>>
    BY <1>12 DEF Identify, Step, ahci_identify_device, ahci_save_device_info
  <2>5. QED
    BY <2>1, <2>2, <2>3, <2>4 DEF TypeOK, Port, Places, Handler
<1>13. CASE Negotiate
  <2>1. latched' \in BOOLEAN /\ erased' \in BOOLEAN
    BY <1>13 DEF Negotiate, Step, ClearsPxSERR, KeepsPxSERR
  <2>2. fg' \in Places
    BY <1>13 DEF Negotiate, Step, Places
  <2>3. UNCHANGED <<bay, det, p, failed, info, u, tries, errors>>
    BY <1>13 DEF Negotiate, Step
  <2>4. QED
    BY <2>1, <2>2, <2>3 DEF TypeOK, Port, Places, Handler
<1>14. CASE Prepare
  <2>1. p' \in Port
    BY <1>14, FailedPort, ResetPort DEF Prepare, Step, Port
  <2>2. fg' \in Places
    BY <1>14 DEF Prepare, Step, Places
  <2>3. UNCHANGED <<bay, det, latched, erased, failed, info, u, tries, errors>>
    BY <1>14 DEF Prepare, Step
  <2>4. QED
    BY <2>1, <2>2, <2>3 DEF TypeOK, Port, Places, Handler
<1>15. CASE Admit
  <2>1. p' \in Port
    <3>1. \/ p' = Failed(p)
          \/ \E kind \in {"rdx", "generic"}, at \in Cartridges :
               p' = Capture([p EXCEPT !.kind = kind, !.mapped = at],
                            "discovery")
      BY <1>15 DEF Admit, Admits, Rejects, Invalid
    <3>2. \A kind \in {"rdx", "generic"}, at \in Cartridges :
            [p EXCEPT !.kind = kind, !.mapped = at] \in Port
      BY DEF Port
    <3>3. CASE p' = Failed(p)
      BY <3>3, FailedPort
    <3>4. CASE \E kind \in {"rdx", "generic"}, at \in Cartridges :
                 p' = Capture([p EXCEPT !.kind = kind, !.mapped = at],
                              "discovery")
      <4>1. PICK kind \in {"rdx", "generic"}, at \in Cartridges :
              p' = Capture([p EXCEPT !.kind = kind, !.mapped = at],
                           "discovery")
        BY <3>4
      <4> DEFINE q == [p EXCEPT !.kind = kind, !.mapped = at]
      <4>2. q \in Port
        BY <3>2
      <4> HIDE DEF q
      <4>3. Capture(q, "discovery") \in Port
        BY <4>2, CapturePort
      <4>4. QED
        BY <4>1, <4>3 DEF q
    <3>5. QED
      BY <3>1, <3>3, <3>4
  <2>2. failed' \in Disks \cup {"none"}
    <3>1. info.d \in Disks \cup {"none"}
      BY DEF Cartridges, None
    <3>2. QED
      BY <1>15, <3>1 DEF Admit, Admits, Rejects, Invalid
  <2>3. fg' \in Places
    BY <1>15 DEF Admit, Step, Admits, Rejects, Invalid, Places
  <2>4. tries' \in [1 .. MaxInsertions -> Nat]
    BY <1>15 DEF Admit, Step, Admits, Rejects, Invalid
  <2>5. UNCHANGED <<bay, det, latched, erased, info, u, errors>>
    BY <1>15 DEF Admit, Step, Admits, Rejects, Invalid
  <2>6. QED
    BY <2>1, <2>2, <2>3, <2>4, <2>5 DEF TypeOK, Port, Places, Handler
<1>16. CASE Sample
  <2>1. latched' \in BOOLEAN /\ erased' \in BOOLEAN
    BY <1>16 DEF Sample, Step, ClearsPxSERR, KeepsPxSERR
  <2>2. p' \in Port
    BY <1>16 DEF Sample, Step, Port
  <2>3. fg' \in Places
    BY <1>16 DEF Sample, Step, Places
  <2>4. UNCHANGED <<bay, det, failed, info, u, tries, errors>>
    BY <1>16 DEF Sample, Step
  <2>5. QED
    BY <2>1, <2>2, <2>3, <2>4 DEF TypeOK, Port, Places, Handler
<1>17. CASE Publish
  <2>1. p' \in Port
    BY <1>17, PublishedPort, FailedPort, SchedulePort DEF Publish, Step, Forget
  <2>2. failed' \in Disks \cup {"none"}
    BY <1>17 DEF Publish, Step, Forget, Cartridges
  <2>3. fg' \in Places
    BY <1>17 DEF Publish, Step, Forget, Places
  <2>4. UNCHANGED <<bay, det, latched, erased, info, u, tries, errors>>
    BY <1>17 DEF Publish, Step, Forget
  <2>5. QED
    BY <2>1, <2>2, <2>3, <2>4 DEF TypeOK, Port, Places, Handler
<1>18. CASE \E at \in {"phy", "identify", "negotiate", "admit"} : GiveUp(at)
  <2>1. p' \in Port
    BY <1>18, FailedPort DEF GiveUp, Step
  <2>2. fg' \in Places
    BY <1>18 DEF GiveUp, Step, Places
  <2>3. UNCHANGED <<bay, det, latched, erased, failed, info, u, tries, errors>>
    BY <1>18 DEF GiveUp, Step
  <2>4. QED
    BY <2>1, <2>2, <2>3 DEF TypeOK, Port, Places, Handler
<1>19. CASE IssueRead
  <2>1. p' \in Port
    BY <1>19 DEF IssueRead, Port, Port
  <2>2. fg' \in Places
    BY <1>19 DEF IssueRead, Places
  <2>3. UNCHANGED <<bay, det, latched, erased, failed, info, u, tries, errors>>
    BY <1>19 DEF IssueRead
  <2>4. QED
    BY <2>1, <2>2, <2>3 DEF TypeOK, Port, Places, Handler
<1>20. CASE FinishRead
  <2>1. p' \in Port
    <3>1. PICK c \in BOOLEAN : c = SessionIsCurrent("session")
      BY DEF SessionIsCurrent
    <3>2. p' = Restored(p, c)
      BY <1>20, <3>1 DEF FinishRead
    <3>3. QED
      BY <3>2, RestoredPort
  <2>2. fg' \in Places
    BY <1>20 DEF FinishRead, Places
  <2>3. UNCHANGED <<bay, det, latched, erased, failed, info, u, tries, errors>>
    BY <1>20 DEF FinishRead
  <2>4. QED
    BY <2>1, <2>2, <2>3 DEF TypeOK, Port, Places, Handler
<1>21. CASE ReadTimeout
  <2>1. p' \in Port
    BY <1>21, RecoverPort DEF ReadTimeout
  <2>2. fg' \in Places
    BY <1>21 DEF ReadTimeout, Places
  <2>3. errors' \in 0 .. MaxErrors
    BY <1>21 DEF ReadTimeout
  <2>4. UNCHANGED <<bay, det, failed, info, u, tries>>
    BY <1>21 DEF ReadTimeout
  <2>5. latched' \in BOOLEAN /\ erased' \in BOOLEAN
    BY <1>21 DEF ReadTimeout, ClearsPxSERR, KeepsPxSERR
  <2>6. QED
    BY <2>1, <2>2, <2>3, <2>4, <2>5 DEF TypeOK, Port, Places, Handler
<1>22. CASE ReadKind
  <2>1. p' \in Port
    BY <1>22 DEF ReadKind, Command, Handles, KeepsPxSERR
  <2>2. u' \in Handler
    BY <1>22 DEF ReadKind, Command, Handles, KeepsPxSERR, Port, Handler
  <2>3. UNCHANGED <<bay, det, latched, erased, failed, fg, info, tries, errors>>
    BY <1>22 DEF ReadKind, Command, Handles, KeepsPxSERR
  <2>4. QED
    BY <2>1, <2>2, <2>3 DEF TypeOK, Port, Places, Handler
<1>23. CASE AddOffset
  <2>1. p' \in Port
    BY <1>23 DEF AddOffset, Command, Handles, KeepsPxSERR
  <2>2. u' \in Handler
    <3>1. p.mapped \in Cartridges
      BY DEF Port
    <3>2. QED
      BY <1>23, <3>1 DEF AddOffset, Command, Handles, KeepsPxSERR, Handler
  <2>3. UNCHANGED <<bay, det, latched, erased, failed, fg, info, tries, errors>>
    BY <1>23 DEF AddOffset, Command, Handles, KeepsPxSERR
  <2>4. QED
    BY <2>1, <2>2, <2>3 DEF TypeOK, Port, Places, Handler
<1>24. CASE BeginPolled
  <2>1. p' \in Port
    BY <1>24, OwnedPort DEF BeginPolled, Command, Handles, KeepsPxSERR
  <2>2. u' \in Handler
    BY <1>24 DEF BeginPolled, Command, Handles, KeepsPxSERR, Handler
  <2>3. UNCHANGED <<bay, det, latched, erased, failed, fg, info, tries, errors>>
    BY <1>24 DEF BeginPolled, Command, Handles, KeepsPxSERR
  <2>4. QED
    BY <2>1, <2>2, <2>3 DEF TypeOK, Port, Places, Handler
<1>25. CASE Submit
  <2>1. p' \in Port
    BY <1>25, RecoverPort DEF Submit, Command, Handles, KeepsPxSERR
  <2>2. u' \in Handler
    BY <1>25 DEF Submit, Command, Handles, KeepsPxSERR, Handler
  <2>3. UNCHANGED <<bay, det, latched, erased, failed, fg, info, tries, errors>>
    BY <1>25 DEF Submit, Command, Handles, KeepsPxSERR
  <2>4. QED
    BY <2>1, <2>2, <2>3 DEF TypeOK, Port, Places, Handler
<1>26. CASE Issue
  <2>1. p' \in Port
    <3>1. \/ p' = RecoverLocal(p, FALSE)
          \/ \E at \in {"host", "session"} : p' = [p EXCEPT !.slot = at]
      BY <1>26 DEF Issue, Command, Handles, KeepsPxSERR
    <3>2. \A at \in {"host", "session"} : [p EXCEPT !.slot = at] \in Port
      BY DEF Port
    <3>3. QED
      BY <3>1, <3>2, RecoverPort
  <2>2. u' \in Handler
    BY <1>26 DEF Issue, Command, Handles, KeepsPxSERR, Handler
  <2>3. UNCHANGED <<bay, det, latched, erased, failed, fg, info, tries, errors>>
    BY <1>26 DEF Issue, Command, Handles, KeepsPxSERR
  <2>4. QED
    BY <2>1, <2>2, <2>3 DEF TypeOK, Port, Places, Handler
<1>27. CASE Issued
  <2>1. p' \in Port
    BY <1>27, RecoverPort DEF Issued, Command, Handles, KeepsPxSERR
  <2>2. u' \in Handler
    BY <1>27 DEF Issued, Command, Handles, KeepsPxSERR, Handler
  <2>3. UNCHANGED <<bay, det, failed, fg, info, tries, errors>>
    BY <1>27 DEF Issued, Command, Handles, KeepsPxSERR
  <2>4. latched' \in BOOLEAN /\ erased' \in BOOLEAN
    BY <1>27 DEF Issued, Command, Handles, ClearsPxSERR, KeepsPxSERR
  <2>5. QED
    BY <2>1, <2>2, <2>3, <2>4 DEF TypeOK, Port, Places, Handler
<1>28. CASE FinishPolled
  <2>1. p' \in Port
    <3>1. PICK c \in BOOLEAN : c = SessionIsCurrent("session")
      BY DEF SessionIsCurrent
    <3>2. p' = Restored(p, c)
      BY <1>28, <3>1 DEF FinishPolled, Command, Handles, KeepsPxSERR
    <3>3. QED
      BY <3>2, RestoredPort
  <2>2. u' \in Handler
    BY <1>28 DEF FinishPolled, Command, Handles, KeepsPxSERR, Handler
  <2>3. UNCHANGED <<bay, det, latched, erased, failed, fg, info, tries, errors>>
    BY <1>28 DEF FinishPolled, Command, Handles, KeepsPxSERR
  <2>4. QED
    BY <2>1, <2>2, <2>3 DEF TypeOK, Port, Places, Handler
<1>29. CASE PolledTimeout
  <2>1. p' \in Port
    BY <1>29, RecoverPort DEF PolledTimeout, Handles
  <2>2. u' \in Handler
    BY <1>29 DEF PolledTimeout, Handles, Handler
  <2>3. errors' \in 0 .. MaxErrors
    BY <1>29 DEF PolledTimeout, Handles
  <2>4. UNCHANGED <<bay, det, failed, fg, info, tries>>
    BY <1>29 DEF PolledTimeout, Handles
  <2>5. latched' \in BOOLEAN /\ erased' \in BOOLEAN
    BY <1>29 DEF PolledTimeout, Handles, ClearsPxSERR, KeepsPxSERR
  <2>6. QED
    BY <2>1, <2>2, <2>3, <2>4, <2>5 DEF TypeOK, Port, Places, Handler
<1>30. CASE MediaInserted
  <2>1. p' \in Port
    BY <1>30, SchedulePort DEF MediaInserted
  <2>2. UNCHANGED <<bay, det, latched, erased, failed, fg, info, u, tries, errors>>
    BY <1>30 DEF MediaInserted
  <2>3. QED
    BY <2>1, <2>2 DEF TypeOK, Port, Places, Handler
<1>31. CASE StartRead
  <2>1. p' \in Port
    BY <1>31, OwnedPort DEF StartRead
  <2>2. fg' \in Places
    BY <1>31 DEF StartRead, Places
  <2>3. UNCHANGED <<bay, det, latched, erased, failed, info, u, tries, errors>>
    BY <1>31 DEF StartRead
  <2>4. QED
    BY <2>1, <2>2, <2>3 DEF TypeOK, Port, Places, Handler
<1>32. CASE StartCommand
  <2>1. p' \in Port
    BY <1>32, CapturePort DEF StartCommand, Command, Handles, KeepsPxSERR
  <2>2. u' \in Handler
    BY <1>32 DEF StartCommand, Command, Handles, KeepsPxSERR, Handler
  <2>3. UNCHANGED <<bay, det, latched, erased, failed, fg, info, tries, errors>>
    BY <1>32 DEF StartCommand, Command, Handles, KeepsPxSERR
  <2>4. QED
    BY <2>1, <2>2, <2>3 DEF TypeOK, Port, Places, Handler
<1>33. CASE ResetLun
  <2>1. p' \in Port
    <3>1. PICK reset \in BOOLEAN, configured \in BOOLEAN :
            LET r == FatalRecovery([p EXCEPT !.cb = FALSE, !.slot = "none"],
                                   reset)
            IN  p' = [r EXCEPT !.cb = configured,
                               !.pxie = IF r.ready THEN "default" ELSE "off"]
      BY <1>33 DEF ResetLun
    <3> DEFINE r == FatalRecovery([p EXCEPT !.cb = FALSE, !.slot = "none"],
                                  reset)
    <3>2. [p EXCEPT !.cb = FALSE, !.slot = "none"] \in Port
      BY DEF Port
    <3>3. r \in Port
      BY <3>2, FatalPort
    <3> HIDE DEF r
    <3>4. QED
      BY <3>1, <3>3 DEF Port, r
  <2>2. UNCHANGED <<bay, det, failed, fg, info, u, tries, errors>>
    BY <1>33 DEF ResetLun
  <2>3. latched' \in BOOLEAN /\ erased' \in BOOLEAN
    BY <1>33 DEF ResetLun, ClearsPxSERR, KeepsPxSERR
  <2>4. QED
    BY <2>1, <2>2, <2>3 DEF TypeOK, Port, Places, Handler
<1>34. CASE UNCHANGED vars
  BY <1>34 DEF vars, TypeOK
<1>35. QED
  BY <1>1, <1>2, <1>3, <1>4, <1>5, <1>6, <1>7, <1>8, <1>9, <1>10, <1>11, <1>12,
     <1>13, <1>14, <1>15, <1>16, <1>17, <1>18, <1>19, <1>20, <1>21, <1>22,
     <1>23, <1>24, <1>25, <1>26, <1>27, <1>28, <1>29, <1>30, <1>31, <1>32,
     <1>33, <1>34 DEF Next, Interrupts, Foreground, Discovery, Usb

(* What the types say of the port and the handler.                                    *)
LEMMA PortType == TypeOK => p \in Port /\ u \in Handler
  BY DEF TypeOK, Port, Handler

(* Every step keeps the port to whom it belongs.                           *)
LEMMA PortStep ==
  TypeOK /\ PortInv /\ [Next]_vars => PortInv'
<1> SUFFICES ASSUME TypeOK, PortInv, [Next]_vars PROVE PortInv'
  OBVIOUS
<1>0. p \in Port /\ u \in Handler
  BY PortType
<1> USE <1>0 DEF PortInv, Examines, SessionRuns, PollsForUsb, UsbMasked,
   UsbRuns
<1>1. CASE LinkLost
  BY <1>1 DEF LinkLost
<1>2. CASE LinkUp
  BY <1>2 DEF LinkUp, Inserts
<1>3. CASE LinkChange
  BY <1>3, SchedulePort, CallbackPort DEF LinkChange, ahci_isr
<1>4. CASE Completion
  BY <1>4 DEF Completion, ahci_isr, Port
<1>5. CASE TaskFileError
  BY <1>5, FatalPort DEF TaskFileError, ahci_isr, Port
<1>6. CASE ReceiverError
  BY <1>6, SchedulePort, CallbackPort DEF ReceiverError, Port
<1>7. CASE Callbacks
  BY <1>7 DEF Callbacks, Port
<1>8. CASE Quiesce
  BY <1>8 DEF Quiesce, Serves, Port
<1>9. CASE WaitForLink
  BY <1>9 DEF WaitForLink, Serves
<1>10. CASE Discover
  BY <1>10, BeginPort DEF Discover, Serves
<1>11. CASE LinkReady
  BY <1>11 DEF LinkReady, Step
<1>12. CASE Identify
  BY <1>12, FailedPort DEF Identify, Step, ahci_identify_device,
     ahci_save_device_info
<1>13. CASE Negotiate
  BY <1>13 DEF Negotiate, Step
<1>14. CASE Prepare
  BY <1>14, FailedPort, ResetPort DEF Prepare, Step
<1>15. CASE Admit
  <2>1. \/ p' = Failed(p) /\ fg' = "idle"
        \/ \E kind \in {"rdx", "generic"}, at \in Cartridges :
             /\ p' = Capture([p EXCEPT !.kind = kind, !.mapped = at],
                             "discovery")
             /\ fg' = "sample"
    <3>1. bay \in Cartridges
      BY DEF TypeOK
    <3>2. QED
      BY <1>15, <3>1, NoneType DEF Admit, Admits, Rejects, Invalid
  <2>2. fg = "admit" /\ ~UsbRuns /\ UNCHANGED u
    BY <1>15 DEF Admit, Step
  <2>3. CASE p' = Failed(p) /\ fg' = "idle"
    BY <2>2, <2>3, FailedPort
  <2>4. CASE \E kind \in {"rdx", "generic"}, at \in Cartridges :
               /\ p' = Capture([p EXCEPT !.kind = kind, !.mapped = at],
                               "discovery")
               /\ fg' = "sample"
    <3>1. PICK kind \in {"rdx", "generic"}, at \in Cartridges :
            /\ p' = Capture([p EXCEPT !.kind = kind, !.mapped = at],
                            "discovery")
            /\ fg' = "sample"
      BY <2>4
    <3> DEFINE q == [p EXCEPT !.kind = kind, !.mapped = at]
    <3>2. /\ q \in Port /\ q.ready = p.ready /\ q.pending = p.pending
          /\ q.rx = p.rx /\ q.pxie = p.pxie /\ q.slot = p.slot
          /\ q.kind = kind
      BY DEF Port
    <3>3. p' = Capture(q, "discovery")
      BY <3>1
    <3> HIDE DEF q
    <3>4. QED
      BY <2>2, <3>1, <3>2, <3>3, CapturePort
  <2>5. QED
    BY <2>1, <2>3, <2>4
<1>16. CASE Sample
  BY <1>16 DEF Sample, Step, Port
<1>17. CASE Publish
  <2>1. /\ fg = "publish" /\ fg' = "idle" /\ ~UsbRuns /\ UNCHANGED u
        /\ p' \in {Published(p), Failed(Schedule(p))}
    BY <1>17 DEF Publish, Step
  <2>2. CASE p' = Published(p)
    BY <1>17, <2>1, <2>2, PublishedPort DEF Publish
  <2>3. CASE p' = Failed(Schedule(p))
    <3>1. /\ Schedule(p) \in Port /\ Schedule(p).pending
          /\ ~Schedule(p).ready /\ ~Schedule(p).rx
      BY SchedulePort
    <3>2. QED
      BY <2>1, <2>3, <3>1, FailedPort
  <2>4. QED
    BY <2>1, <2>2, <2>3
<1>18. CASE \E at \in {"phy", "identify", "negotiate", "admit"} : GiveUp(at)
  BY <1>18, FailedPort DEF GiveUp, Step
<1>19. CASE IssueRead
  BY <1>19 DEF IssueRead, SessionIsCurrent, Port
<1>20. CASE FinishRead
  <2>1. PICK c \in BOOLEAN : c = SessionIsCurrent("session")
    BY DEF SessionIsCurrent
  <2>2. p' = Restored(p, c) /\ fg = "wait" /\ fg' = "idle" /\ UNCHANGED u
    BY <1>20, <2>1 DEF FinishRead, Command, Handles, KeepsPxSERR
  <2>3. c <=> ~p.pending
    BY <2>1, <2>2 DEF SessionIsCurrent
  <2>4. QED
    BY <2>2, <2>3, RestoredPort DEF Quiet
<1>21. CASE ReadTimeout
  BY <1>21, RecoverPort DEF ReadTimeout
<1>22. CASE ReadKind
  BY <1>22 DEF ReadKind, Command, Handles, KeepsPxSERR, Quiet
<1>23. CASE AddOffset
  BY <1>23 DEF AddOffset, Command, Handles, KeepsPxSERR, Handler
<1>24. CASE BeginPolled
  <2>1. CASE p.ready /\ p.kind # "none"
    <3>1. p' = Owned(p) /\ u' = [u EXCEPT !.pc = "submit"] /\ fg' = fg
      BY <1>24, <2>1 DEF BeginPolled, Command, Handles, KeepsPxSERR
    <3>2. u.pc = "begin" /\ u'.pc = "submit" /\ u'.polled = u.polled
      BY <1>24, <3>1 DEF BeginPolled, Handler
    <3>3. QED
      BY <2>1, <3>1, <3>2, OwnedPort
  <2>2. CASE ~(p.ready /\ p.kind # "none")
    BY <1>24, <2>2 DEF BeginPolled, Command, Handles, KeepsPxSERR, Quiet
  <2>3. QED
    BY <2>1, <2>2
<1>25. CASE Submit
  <2>1. \/ p' = RecoverLocal(p, FALSE) /\ u' = Quiet
        \/ /\ p' = p
           /\ u' = [u EXCEPT !.pc = "build"]
    BY <1>25 DEF Submit, Command, Handles, KeepsPxSERR
  <2>2. UsbRuns /\ u.pc = "submit" /\ fg' = fg
    BY <1>25 DEF Submit, Command, Handles, KeepsPxSERR
  <2>3. CASE p' = RecoverLocal(p, FALSE) /\ u' = Quiet
    BY <2>2, <2>3, RecoverPort DEF Quiet
  <2>4. CASE /\ p' = p
             /\ u' = [u EXCEPT !.pc = "build"]
    BY <2>2, <2>4 DEF Port, Handler
  <2>5. QED
    BY <2>1, <2>3, <2>4
<1>26. CASE Issue
  <2>1. \/ p' = RecoverLocal(p, FALSE) /\ u' = Quiet
        \/ /\ \E at \in {"host", "session"} : p' = [p EXCEPT !.slot = at]
           /\ u' = [u EXCEPT !.pc = "issued"]
    BY <1>26 DEF Issue, Command, Handles, KeepsPxSERR
  <2>2. UsbRuns /\ u.pc = "build" /\ fg' = fg
    BY <1>26 DEF Issue, Command, Handles, KeepsPxSERR
  <2>3. CASE p' = RecoverLocal(p, FALSE) /\ u' = Quiet
    BY <2>2, <2>3, RecoverPort DEF Quiet
  <2>4. CASE /\ \E at \in {"host", "session"} : p' = [p EXCEPT !.slot = at]
             /\ u' = [u EXCEPT !.pc = "issued"]
    BY <2>2, <2>4 DEF Port, Handler
  <2>5. QED
    BY <2>1, <2>3, <2>4
<1>27. CASE Issued
  <2>1. \/ p' = RecoverLocal(p, TRUE) /\ u' = Quiet
        \/ p' = p /\ u.polled /\ u' = [u EXCEPT !.pc = "wait"]
        \/ p' = p /\ ~u.polled /\ u' = Quiet
    BY <1>27 DEF Issued, Command, Handles, KeepsPxSERR
  <2>2. UsbRuns /\ u.pc = "issued" /\ fg' = fg
    BY <1>27 DEF Issued, Command, Handles, KeepsPxSERR
  <2>3. CASE p' = RecoverLocal(p, TRUE) /\ u' = Quiet
    BY <2>2, <2>3, RecoverPort DEF Quiet
  <2>4. CASE p' = p /\ u.polled /\ u' = [u EXCEPT !.pc = "wait"]
    BY <2>2, <2>4 DEF Handler
  <2>5. CASE p' = p /\ ~u.polled /\ u' = Quiet
    BY <2>2, <2>5 DEF Quiet
  <2>6. QED
    BY <2>1, <2>3, <2>4, <2>5
<1>28. CASE FinishPolled
  <2>1. PICK c \in BOOLEAN : c = SessionIsCurrent("session")
    BY DEF SessionIsCurrent
  <2>2. p' = Restored(p, c) /\ fg = fg' /\ u.pc = "wait" /\ u' = Quiet
    BY <1>28, <2>1 DEF FinishPolled, Command, Handles, KeepsPxSERR
  <2>3. c <=> ~p.pending
    BY <2>1, <2>2 DEF SessionIsCurrent
  <2>4. QED
    BY <2>2, <2>3, RestoredPort DEF Quiet
<1>29. CASE PolledTimeout
  BY <1>29, RecoverPort DEF PolledTimeout, Handles, Quiet
<1>30. CASE MediaInserted
  BY <1>30, SchedulePort DEF MediaInserted
<1>31. CASE StartRead
  BY <1>31, OwnedPort DEF StartRead
<1>32. CASE StartCommand
  BY <1>32, CapturePort DEF StartCommand, Command, Handles, KeepsPxSERR, Quiet
<1>33. CASE ResetLun
  <2>1. PICK reset \in BOOLEAN, configured \in BOOLEAN :
          LET r == FatalRecovery([p EXCEPT !.cb = FALSE, !.slot = "none"],
                                 reset)
          IN  p' = [r EXCEPT !.cb = configured,
                             !.pxie = IF r.ready THEN "default" ELSE "off"]
    BY <1>33 DEF ResetLun
  <2> DEFINE q == [p EXCEPT !.cb = FALSE, !.slot = "none"]
             r == FatalRecovery(q, reset)
  <2>2. q \in Port
    BY DEF Port
  <2>3. /\ q.ready = p.ready /\ q.rx = p.rx /\ q.pxie = p.pxie
        /\ q.pending = p.pending /\ q.fresh = p.fresh /\ q.kind = p.kind
    BY DEF Port
  <2>4. p' = [r EXCEPT !.cb = configured,
                       !.pxie = IF r.ready THEN "default" ELSE "off"]
    BY <2>1
  <2>5. p.ready /\ ~SessionRuns /\ ~UsbRuns /\ UNCHANGED <<fg, u>>
    BY <1>33 DEF ResetLun
  <2> HIDE DEF q
  <2>6. /\ r \in Port
        /\ \/ ~r.ready /\ ~r.rx /\ r.pending
           \/ /\ r.ready = p.ready /\ r.rx = p.rx
              /\ r.pending = p.pending /\ r.kind = p.kind
    BY <2>2, <2>3, FatalPort
  <2> HIDE DEF r
  <2>7. /\ p'.ready = r.ready /\ p'.rx = r.rx /\ p'.kind = r.kind
        /\ p'.pending = r.pending
        /\ p'.pxie = IF r.ready THEN "default" ELSE "off"
    BY <2>4, <2>6 DEF Port
  <2>8. QED
    BY <2>5, <2>6, <2>7
<1>34. CASE UNCHANGED vars
  BY <1>34 DEF vars
<1>35. QED
  BY <1>1, <1>2, <1>3, <1>4, <1>5, <1>6, <1>7, <1>8, <1>9, <1>10, <1>11, <1>12,
     <1>13, <1>14, <1>15, <1>16, <1>17, <1>18, <1>19, <1>20, <1>21, <1>22,
     <1>23, <1>24, <1>25, <1>26, <1>27, <1>28, <1>29, <1>30, <1>31, <1>32,
     <1>33, <1>34 DEF Next, Interrupts, Foreground, Discovery, Usb
(* Every step keeps the account of rejected attempts.                      *)
LEMMA AttemptStep ==
  TypeOK /\ PortInv /\ AttemptInv /\ [Next]_vars => AttemptInv'
<1> SUFFICES ASSUME TypeOK, PortInv, AttemptInv, [Next]_vars
             PROVE  AttemptInv'
  OBVIOUS
<1>0. /\ bay \in Cartridges /\ det \in BOOLEAN
      /\ tries \in [1 .. MaxInsertions -> Nat]
      /\ MaxInsertions \in Nat
      /\ bay = None \/ (bay.n \in 1 .. MaxInsertions /\ bay # None)
  BY BoundsType DEF TypeOK, Cartridges, None
<1> USE <1>0 DEF AttemptInv, Number, Accessed
<1>s. ASSUME UNCHANGED <<bay, det, tries, info, failed>>,
             fg' # "admit" \/ fg' = fg
      PROVE  AttemptInv'
  BY <1>s
<1>1. CASE LinkLost
  BY <1>1 DEF LinkLost
<1>2. CASE LinkUp
  <2>1. PICK d \in Disks : Inserts(d, Number + 1)
    BY <1>2 DEF LinkUp
  <2>2. PICK n \in 1 .. MaxInsertions : n = Number + 1
    BY <2>1 DEF Inserts
  <2>3. /\ bay'.n = n /\ bay' # None /\ Number' = n
        /\ UNCHANGED <<tries, failed, fg, info>>
    BY <2>1, <2>2 DEF Inserts, None
  <2>4. \A m \in 1 .. MaxInsertions : m >= n => tries[m] = 0
    BY <2>2
  <2>5. tries[bay'.n] = 0
    BY <2>3, <2>4
  <2>6. QED
    BY <2>3, <2>4, <2>5
<1>3. CASE LinkChange
  BY <1>3 DEF LinkChange, Forget
<1>4. CASE Completion
  BY <1>4, <1>s DEF Completion
<1>5. CASE TaskFileError
  BY <1>5, <1>s DEF TaskFileError
<1>6. CASE ReceiverError
  BY <1>6 DEF ReceiverError, Forget
<1>7. CASE Callbacks
  BY <1>7, <1>s DEF Callbacks
<1>8. CASE Quiesce
  BY <1>8, <1>s DEF Quiesce
<1>9. CASE WaitForLink
  BY <1>9 DEF WaitForLink
<1>10. CASE Discover
  BY <1>10, <1>s DEF Discover
<1>11. CASE LinkReady
  BY <1>11, <1>s DEF LinkReady, Step
<1>12. CASE Identify
  BY <1>12 DEF Identify, Step, ahci_identify_device, ahci_save_device_info
<1>13. CASE Negotiate
  BY <1>13, <1>s DEF Negotiate, Step
<1>14. CASE Prepare
  BY <1>14 DEF Prepare, Step
<1>15. CASE Admit
  BY <1>15, SMTT(40) DEF Admit, Step, Admits, Rejects, Invalid
<1>16. CASE Sample
  BY <1>16, <1>s DEF Sample, Step
<1>17. CASE Publish
  BY <1>17 DEF Publish, Step, Forget
<1>18. CASE \E at \in {"phy", "identify", "negotiate", "admit"} : GiveUp(at)
  BY <1>18, <1>s DEF GiveUp, Step
<1>19. CASE IssueRead
  BY <1>19, <1>s DEF IssueRead
<1>20. CASE FinishRead
  BY <1>20, <1>s DEF FinishRead
<1>21. CASE ReadTimeout
  BY <1>21, <1>s DEF ReadTimeout
<1>22. CASE ReadKind
  BY <1>22, <1>s DEF ReadKind, Command, Handles, KeepsPxSERR
<1>23. CASE AddOffset
  BY <1>23, <1>s DEF AddOffset, Command, Handles, KeepsPxSERR
<1>24. CASE BeginPolled
  BY <1>24, <1>s DEF BeginPolled, Command, Handles, KeepsPxSERR
<1>25. CASE Submit
  BY <1>25, <1>s DEF Submit, Command, Handles, KeepsPxSERR
<1>26. CASE Issue
  BY <1>26, <1>s DEF Issue, Command, Handles, KeepsPxSERR
<1>27. CASE Issued
  BY <1>27, <1>s DEF Issued, Command, Handles, KeepsPxSERR
<1>28. CASE FinishPolled
  BY <1>28, <1>s DEF FinishPolled, Command, Handles, KeepsPxSERR
<1>29. CASE PolledTimeout
  BY <1>29, <1>s DEF PolledTimeout, Handles
<1>30. CASE MediaInserted
  BY <1>30, <1>s DEF MediaInserted
<1>31. CASE StartRead
  BY <1>31, <1>s DEF StartRead
<1>32. CASE StartCommand
  BY <1>32, <1>s DEF StartCommand, Command, Handles, KeepsPxSERR
<1>33. CASE ResetLun
  BY <1>33, <1>s DEF ResetLun
<1>34. CASE UNCHANGED vars
  BY <1>34, <1>s DEF vars
<1>35. QED
  BY <1>1, <1>2, <1>3, <1>4, <1>5, <1>6, <1>7, <1>8, <1>9, <1>10, <1>11, <1>12,
     <1>13, <1>14, <1>15, <1>16, <1>17, <1>18, <1>19, <1>20, <1>21, <1>22,
     <1>23, <1>24, <1>25, <1>26, <1>27, <1>28, <1>29, <1>30, <1>31, <1>32,
     <1>33, <1>34 DEF Next, Interrupts, Foreground, Discovery, Usb
(* What was learnt of the bay stays true of it, or a connect change says    *)
(* otherwise, or was lost.                                                 *)
LEMMA HostStep ==
  ASSUME TypeOK, PortInv, ~erased => PublishedIsInBay, ExaminedInv, [Next]_vars
  PROVE  (~erased => PublishedIsInBay)' /\ ExaminedInv'
<1>0. /\ p \in Port /\ u \in Handler /\ latched \in BOOLEAN
      /\ erased \in BOOLEAN /\ det \in BOOLEAN
      /\ bay \in Cartridges /\ None \in Cartridges
  BY PortType, NoneType DEF TypeOK
<1> USE <1>0 DEF PublishedIsInBay, ExaminedInv, PortInv, Examines, UsbRuns,
   SessionRuns, UsbMasked, ClearsPxSERR, KeepsPxSERR
<1>s. ASSUME p'.ready => p.ready, p'.kind = p.kind, p'.mapped = p.mapped,
             p'.slider = p.slider, UNCHANGED <<bay, info>>,
             ~erased' => ~erased /\ latched' = latched,
             fg' \in {"idle", "read", "wait"}
      PROVE  (~erased => PublishedIsInBay)' /\ ExaminedInv'
  BY <1>s
<1>1. CASE LinkLost
  BY <1>1 DEF LinkLost
<1>2. CASE LinkUp
  BY <1>2 DEF LinkUp, Inserts
<1>3. CASE LinkChange
  BY <1>3, SchedulePort, CallbackPort DEF LinkChange, ahci_isr
<1>4. CASE Completion
  BY <1>4 DEF Completion, ahci_isr, Port
<1>5. CASE TaskFileError
  BY <1>5, FatalPort DEF TaskFileError, ahci_isr, Port
<1>6. CASE ReceiverError
  BY <1>6, SchedulePort, CallbackPort DEF ReceiverError, Port
<1>7. CASE Callbacks
  BY <1>7 DEF Callbacks, Port
<1>8. CASE Quiesce
  BY <1>8 DEF Quiesce, Serves, Port
<1>9. CASE WaitForLink
  BY <1>9 DEF WaitForLink, Serves
<1>10. CASE Discover
  BY <1>10, BeginPort DEF Discover, Serves
<1>11. CASE LinkReady
  BY <1>11 DEF LinkReady, Step
<1>12. CASE Identify
  BY <1>12, FailedPort DEF Identify, Step, ahci_identify_device,
     ahci_save_device_info
<1>13. CASE Negotiate
  BY <1>13 DEF Negotiate, Step
<1>14. CASE Prepare
  BY <1>14, FailedPort, ResetPort DEF Prepare, Step
<1>15. CASE Admit
  <2>1. \/ p' = Failed(p) /\ fg' = "idle"
        \/ \E kind \in {"rdx", "generic"} :
             /\ p' = Capture([p EXCEPT !.kind = kind,
                                       !.mapped = IF kind = "rdx" THEN bay
                                                  ELSE None],
                             "discovery")
             /\ fg' = "sample"
    BY <1>15 DEF Admit, Admits, Rejects, Invalid
  <2>2. fg = "admit" /\ UNCHANGED <<bay, info, latched, erased>>
    BY <1>15 DEF Admit, Step
  <2>3. CASE p' = Failed(p) /\ fg' = "idle"
    BY <2>2, <2>3, FailedPort
  <2>4. CASE \E kind \in {"rdx", "generic"} :
               /\ p' = Capture([p EXCEPT !.kind = kind,
                                         !.mapped = IF kind = "rdx" THEN bay
                                                    ELSE None],
                               "discovery")
               /\ fg' = "sample"
    <3>1. PICK kind \in {"rdx", "generic"} :
            /\ p' = Capture([p EXCEPT !.kind = kind,
                                      !.mapped = IF kind = "rdx" THEN bay
                                                 ELSE None],
                            "discovery")
            /\ fg' = "sample"
      BY <2>4
    <3> DEFINE q == [p EXCEPT !.kind = kind,
                              !.mapped = IF kind = "rdx" THEN bay ELSE None]
    <3>2. /\ q \in Port /\ q.kind = kind /\ (kind = "rdx" => q.mapped = bay)
          /\ q.ready = p.ready
      BY DEF Port
    <3>3. p' = Capture(q, "discovery")
      BY <3>1
    <3> HIDE DEF q
    <3>4. /\ p'.kind = kind /\ p'.mapped = q.mapped /\ p'.ready = p.ready
      BY <3>2, <3>3, CapturePort
    <3>5. QED
      BY <2>2, <3>1, <3>2, <3>4
  <2>5. QED
    BY <2>1, <2>3, <2>4
<1>16. CASE Sample
  BY <1>16 DEF Sample, Step, Port
<1>17. CASE Publish
  BY <1>17, PublishedPort, FailedPort, SchedulePort DEF Publish, Step
<1>18. CASE \E at \in {"phy", "identify", "negotiate", "admit"} : GiveUp(at)
  BY <1>18, FailedPort DEF GiveUp, Step
<1>19. CASE IssueRead
  BY <1>19 DEF IssueRead, Port
<1>20. CASE FinishRead
  <2>1. PICK c \in BOOLEAN : c = SessionIsCurrent("session")
    BY DEF SessionIsCurrent
  <2>2. /\ p' = Restored(p, c) /\ fg' = "idle"
        /\ UNCHANGED <<bay, info, latched, erased>>
    BY <1>20, <2>1 DEF FinishRead, Command, Handles, KeepsPxSERR
  <2>3. QED
    BY <1>s, <2>2, RestoredPort
<1>21. CASE ReadTimeout
  BY <1>21, RecoverPort DEF ReadTimeout
<1>22. CASE ReadKind
  BY <1>22 DEF ReadKind, Command, Handles, KeepsPxSERR
<1>23. CASE AddOffset
  BY <1>23 DEF AddOffset, Command, Handles, KeepsPxSERR
<1>24. CASE BeginPolled
  BY <1>24, OwnedPort DEF BeginPolled, Command, Handles, KeepsPxSERR
<1>25. CASE Submit
  BY <1>25, RecoverPort, ZenonT(60) DEF Submit, Command, Handles, KeepsPxSERR
<1>26. CASE Issue
  <2>1. /\ \/ p' = RecoverLocal(p, FALSE)
           \/ \E at \in {"host", "session"} : p' = [p EXCEPT !.slot = at]
        /\ fg = "idle" /\ fg' = fg /\ UNCHANGED <<bay, info, latched, erased>>
    BY <1>26 DEF Issue, Command, Handles, KeepsPxSERR
  <2>2. CASE p' = RecoverLocal(p, FALSE)
    BY <2>1, <2>2, RecoverPort
  <2>3. CASE \E at \in {"host", "session"} : p' = [p EXCEPT !.slot = at]
    BY <1>s, <2>1, <2>3 DEF Port
  <2>4. QED
    BY <2>1, <2>2, <2>3
<1>27. CASE Issued
  BY <1>27, RecoverPort, ZenonT(60) DEF Issued, Command, Handles, KeepsPxSERR
<1>28. CASE FinishPolled
  <2>1. PICK c \in BOOLEAN : c = SessionIsCurrent("session")
    BY DEF SessionIsCurrent
  <2>2. /\ p' = Restored(p, c) /\ fg' = "idle"
        /\ UNCHANGED <<bay, info, latched, erased>>
    BY <1>28, <2>1 DEF FinishPolled, Command, Handles, KeepsPxSERR
  <2>3. QED
    BY <1>s, <2>2, RestoredPort
<1>29. CASE PolledTimeout
  BY <1>29, RecoverPort DEF PolledTimeout, Handles
<1>30. CASE MediaInserted
  BY <1>30, SchedulePort DEF MediaInserted
<1>31. CASE StartRead
  BY <1>31, OwnedPort DEF StartRead
<1>32. CASE StartCommand
  BY <1>32, CapturePort DEF StartCommand, Command, Handles, KeepsPxSERR
<1>33. CASE ResetLun
  <2>1. PICK reset \in BOOLEAN, configured \in BOOLEAN :
          LET r == FatalRecovery([p EXCEPT !.cb = FALSE, !.slot = "none"],
                                 reset)
          IN  p' = [r EXCEPT !.cb = configured,
                             !.pxie = IF r.ready THEN "default" ELSE "off"]
    BY <1>33 DEF ResetLun
  <2> DEFINE q == [p EXCEPT !.cb = FALSE, !.slot = "none"]
             r == FatalRecovery(q, reset)
  <2>2. q \in Port
    BY DEF Port
  <2>3. /\ q.ready = p.ready /\ q.mapped = p.mapped
        /\ q.slider = p.slider /\ q.kind = p.kind
    BY DEF Port
  <2>4. p' = [r EXCEPT !.cb = configured,
                       !.pxie = IF r.ready THEN "default" ELSE "off"]
    BY <2>1
  <2>5. /\ p.ready /\ ~UsbRuns /\ UNCHANGED <<bay, info, fg, u>>
        /\ ~erased' => ~erased /\ latched' = latched
        /\ fg \in {"idle", "read", "wait"}
    BY <1>33 DEF ResetLun
  <2> HIDE DEF q
  <2>6. /\ r \in Port
        /\ \/ ~r.ready
           \/ /\ r.ready = p.ready /\ r.kind = p.kind
              /\ r.mapped = p.mapped /\ r.slider = p.slider
    BY <2>2, <2>3, FatalPort
  <2> HIDE DEF r
  <2>7. /\ p'.ready = r.ready /\ p'.kind = r.kind
        /\ p'.mapped = r.mapped /\ p'.slider = r.slider
    BY <2>4, <2>6 DEF Port
  <2>8. QED
    BY <1>s, <2>5, <2>6, <2>7
<1>34. CASE UNCHANGED vars
  BY <1>34 DEF vars
<1>35. QED
  BY <1>1, <1>2, <1>3, <1>4, <1>5, <1>6, <1>7, <1>8, <1>9, <1>10, <1>11, <1>12,
     <1>13, <1>14, <1>15, <1>16, <1>17, <1>18, <1>19, <1>20, <1>21, <1>22,
     <1>23, <1>24, <1>25, <1>26, <1>27, <1>28, <1>29, <1>30, <1>31, <1>32,
     <1>33, <1>34 DEF Next, Interrupts, Foreground, Discovery, Usb

(* A command keeps what it was translated with for as long as its epoch.   *)
LEMMA CommandStep ==
  ASSUME TypeOK, PortInv, CommandInv, [Next]_vars
  PROVE  CommandInv'
<1>0. /\ p \in Port /\ u \in Handler /\ latched \in BOOLEAN
      /\ det \in BOOLEAN /\ bay \in Cartridges /\ None \in Cartridges
  BY PortType, NoneType DEF TypeOK
<1> USE <1>0 DEF CommandInv, PortInv, Examines, UsbRuns, SessionRuns, UsbMasked
<1>q. ASSUME u' = Quiet PROVE CommandInv'
  BY <1>q DEF Quiet
<1>r. ASSUME UNCHANGED u, u.pc # "issued", p'.fresh = {} PROVE CommandInv'
  BY <1>r
<1>s. ASSUME UNCHANGED u, p'.ready = p.ready, p'.kind = p.kind,
             p'.mapped = p.mapped,
             "command" \in p'.fresh <=> "command" \in p.fresh
      PROVE  CommandInv'
  BY <1>s
<1>1. CASE LinkLost
  BY <1>1 DEF LinkLost
<1>2. CASE LinkUp
  BY <1>2 DEF LinkUp, Inserts
<1>3. CASE LinkChange
  <2>1. UNCHANGED u /\ u.pc # "issued"
    BY <1>3 DEF LinkChange, ahci_isr, SataMasked
  <2>2. p' \in {ErrorCallback(Schedule(p)), Schedule(p)}
    BY <1>3 DEF LinkChange
  <2>3. p'.fresh = {}
    BY <2>2, SchedulePort, CallbackPort
  <2>4. QED
    BY <1>r, <2>1, <2>3
<1>4. CASE Completion
  BY <1>4 DEF Completion, ahci_isr, Port
<1>5. CASE TaskFileError
  <2>1. UNCHANGED u /\ u.pc # "issued"
    BY <1>5 DEF TaskFileError, ahci_isr, SataMasked
  <2>2. PICK reset \in BOOLEAN :
          p' = [FatalRecovery(p, reset) EXCEPT !.slot = "none"]
    BY <1>5 DEF TaskFileError
  <2> DEFINE r == FatalRecovery(p, reset)
  <2>3. /\ r \in Port
        /\ \/ r.fresh = {}
           \/ /\ r.ready = p.ready /\ r.kind = p.kind
              /\ r.mapped = p.mapped /\ r.fresh = p.fresh
    BY FatalPort
  <2>4. p' = [r EXCEPT !.slot = "none"]
    BY <2>2
  <2> HIDE DEF r
  <2>5. /\ p'.fresh = r.fresh /\ p'.ready = r.ready
        /\ p'.kind = r.kind /\ p'.mapped = r.mapped
    BY <2>3, <2>4 DEF Port
  <2>6. QED
    BY <1>r, <1>s, <2>1, <2>3, <2>5
<1>6. CASE ReceiverError
  <2>1. UNCHANGED u /\ u.pc # "issued"
    BY <1>6 DEF ReceiverError, SataMasked
  <2>2. PICK q \in {p, [p EXCEPT !.slot = "none"]} :
          p' \in {ErrorCallback(Schedule(q)), Schedule(q), q}
    BY <1>6 DEF ReceiverError
  <2>3. /\ q \in Port /\ q.ready = p.ready /\ q.kind = p.kind
        /\ q.mapped = p.mapped /\ q.fresh = p.fresh
    BY DEF Port
  <2>4. CASE p' = q
    BY <1>s, <2>1, <2>3, <2>4
  <2>5. CASE p' \in {ErrorCallback(Schedule(q)), Schedule(q)}
    <3>1. p'.fresh = {}
      BY <2>3, <2>5, SchedulePort, CallbackPort
    <3>2. QED
      BY <1>r, <2>1, <3>1
  <2>6. QED
    BY <2>2, <2>4, <2>5
<1>7. CASE Callbacks
  BY <1>7 DEF Callbacks, Port
<1>8. CASE Quiesce
  BY <1>8 DEF Quiesce, Serves, Port
<1>9. CASE WaitForLink
  BY <1>9 DEF WaitForLink, Serves
<1>10. CASE Discover
  BY <1>10, BeginPort DEF Discover, Serves
<1>11. CASE LinkReady
  BY <1>11 DEF LinkReady, Step
<1>12. CASE Identify
  BY <1>12, FailedPort DEF Identify, Step, ahci_identify_device,
     ahci_save_device_info
<1>13. CASE Negotiate
  BY <1>13 DEF Negotiate, Step
<1>14. CASE Prepare
  BY <1>14, FailedPort, ResetPort DEF Prepare, Step
<1>15. CASE Admit
  BY <1>15, FailedPort, CapturePort DEF Admit, Step, Admits, Rejects, Invalid,
     Port
<1>16. CASE Sample
  BY <1>16 DEF Sample, Step, Port
<1>17. CASE Publish
  BY <1>17, PublishedPort, FailedPort, SchedulePort DEF Publish, Step
<1>18. CASE \E at \in {"phy", "identify", "negotiate", "admit"} : GiveUp(at)
  BY <1>18, FailedPort DEF GiveUp, Step
<1>19. CASE IssueRead
  BY <1>19 DEF IssueRead, Port
<1>20. CASE FinishRead
  BY <1>20, RestoredPort DEF FinishRead
<1>21. CASE ReadTimeout
  BY <1>21, RecoverPort DEF ReadTimeout
<1>22. CASE ReadKind
  <2>1. CASE p.kind = "none"
    BY <1>22, <1>q, <2>1 DEF ReadKind, Command, Handles, KeepsPxSERR
  <2>2. CASE p.kind # "none"
    BY <1>22, <2>2 DEF ReadKind, Command, Handles, KeepsPxSERR, Handler
  <2>3. QED
    BY <2>1, <2>2
<1>23. CASE AddOffset
  BY <1>23 DEF AddOffset, Command, Handles, KeepsPxSERR, Handler
<1>24. CASE BeginPolled
  <2>1. CASE p.ready /\ p.kind # "none"
    <3>1. /\ p' = Owned(p) /\ u.pc = "begin"
          /\ u' = [u EXCEPT !.pc = "submit"]
      BY <1>24, <2>1 DEF BeginPolled, Command, Handles, KeepsPxSERR
    <3>2. QED
      BY <3>1, OwnedPort DEF Handler
  <2>2. CASE ~(p.ready /\ p.kind # "none")
    BY <1>24, <1>q, <2>2 DEF BeginPolled, Command, Handles, KeepsPxSERR
  <2>3. QED
    BY <2>1, <2>2
<1>25. CASE Submit
  <2>1. CASE SubmissionIsCurrent
    BY <1>25, <2>1 DEF Submit, Command, Handles, KeepsPxSERR, Handler
  <2>2. CASE ~SubmissionIsCurrent
    BY <1>25, <1>q, <2>2 DEF Submit, Command, Handles, KeepsPxSERR
  <2>3. QED
    BY <2>1, <2>2
<1>26. CASE Issue
  <2>1. CASE SubmissionIsCurrent
    <3>1. PICK at \in {"host", "session"} :
            /\ p' = [p EXCEPT !.slot = at] /\ u.pc = "build"
            /\ u' = [u EXCEPT !.pc = "issued"]
      BY <1>26, <2>1 DEF Issue, Command, Handles, KeepsPxSERR
    <3>2. /\ p'.ready = p.ready /\ p'.kind = p.kind
          /\ p'.mapped = p.mapped /\ p'.fresh = p.fresh
      BY <3>1 DEF Port
    <3>3. p.ready /\ "command" \in p.fresh
      BY <2>1 DEF SubmissionIsCurrent, SessionIsCurrent
    <3>4. QED
      BY <3>1, <3>2, <3>3 DEF Handler
  <2>2. CASE ~SubmissionIsCurrent
    BY <1>26, <1>q, <2>2 DEF Issue, Command, Handles, KeepsPxSERR
  <2>3. QED
    BY <2>1, <2>2
<1>27. CASE Issued
  <2>1. CASE SubmissionIsCurrent /\ u.polled
    BY <1>27, <2>1 DEF Issued, Command, Handles, KeepsPxSERR, Handler
  <2>2. CASE ~SubmissionIsCurrent \/ ~u.polled
    BY <1>27, <1>q, <2>2 DEF Issued, Command, Handles, KeepsPxSERR
  <2>3. QED
    BY <2>1, <2>2
<1>28. CASE FinishPolled
  BY <1>28, <1>q DEF FinishPolled, Command, Handles, KeepsPxSERR
<1>29. CASE PolledTimeout
  BY <1>29, <1>q DEF PolledTimeout, Handles
<1>30. CASE MediaInserted
  BY <1>30, SchedulePort DEF MediaInserted
<1>31. CASE StartRead
  BY <1>31, OwnedPort DEF StartRead
<1>32. CASE StartCommand
  BY <1>32, CapturePort DEF StartCommand, Command, Handles, KeepsPxSERR
<1>33. CASE ResetLun
  BY <1>33, FatalPort DEF ResetLun, Port
<1>34. CASE UNCHANGED vars
  BY <1>34 DEF vars
<1>35. QED
  BY <1>1, <1>2, <1>3, <1>4, <1>5, <1>6, <1>7, <1>8, <1>9, <1>10, <1>11, <1>12,
     <1>13, <1>14, <1>15, <1>16, <1>17, <1>18, <1>19, <1>20, <1>21, <1>22,
     <1>23, <1>24, <1>25, <1>26, <1>27, <1>28, <1>29, <1>30, <1>31, <1>32,
     <1>33, <1>34 DEF Next, Interrupts, Foreground, Discovery, Usb
-----------------------------------------------------------------------------
(* The initial states satisfy the inductive invariant.                     *)
LEMMA InvInit == Init => IInv
<1> SUFFICES ASSUME Init PROVE IInv
  OBVIOUS
<1>1. TypeOK
  <2>1. p \in Port
    BY NoneType DEF Init, Port
  <2>2. /\ bay \in Cartridges /\ info \in Cartridges /\ u \in Handler
        /\ failed \in Disks \cup {"none"} /\ fg \in Places
    BY NoneType, QuietType DEF Init, Places
  <2>3. det \in BOOLEAN /\ latched \in BOOLEAN /\ erased \in BOOLEAN
    BY DEF Init
  <2>4. tries \in [1 .. MaxInsertions -> Nat] /\ errors \in 0 .. MaxErrors
    BY BoundsType DEF Init
  <2>5. QED
    BY <2>1, <2>2, <2>3, <2>4 DEF TypeOK, Port, Places, Handler
<1>2. PortInv
  BY DEF Init, PortInv, Examines, SessionRuns, PollsForUsb, UsbMasked,
     UsbRuns, Quiet
<1>3. AttemptInv
  BY DEF Init, AttemptInv, Number
<1>4. CommandInv
  BY DEF Init, CommandInv, Quiet
<1>5. PublishedIsInBay /\ ExaminedInv
  BY DEF Init, PublishedIsInBay, ExaminedInv
<1>6. QED
  BY <1>1, <1>2, <1>3, <1>4, <1>5 DEF IInv

(* Every step keeps the inductive invariant.                               *)
LEMMA InvStep == IInv /\ [Next]_vars => IInv'
<1> SUFFICES ASSUME IInv, [Next]_vars PROVE IInv'
  OBVIOUS
<1>1. TypeOK'
  BY TypeStep DEF IInv
<1>2. PortInv'
  BY PortStep DEF IInv
<1>3. AttemptInv'
  BY AttemptStep DEF IInv
<1>4. CommandInv'
  BY CommandStep DEF IInv
<1>5. (~erased => PublishedIsInBay)' /\ ExaminedInv'
  BY HostStep DEF IInv
<1>6. QED
  BY <1>1, <1>2, <1>3, <1>4, <1>5 DEF IInv

(* The inductive invariant holds in every reachable state.                 *)
THEOREM Invariant == Spec => []IInv
  BY InvInit, InvStep, PTL DEF Spec

(* Every variable stays in its range.                                      *)
THEOREM TypeCorrect == Spec => []TypeOK
<1>1. IInv => TypeOK
  BY DEF IInv
<1>2. QED
  BY <1>1, Invariant, PTL

(* Whatever the link, the interrupts, the sessions and the resets do, an   *)
(* idle foreground never leaves the port deaf, nor open to the host while  *)
(* discovery owns it (ahci.c:2264-2480, rdx_runtime_ata.c).                *)
THEOREM PortIsNeverDeaf == Spec => []PortListens
<1>1. IInv => PortListens
  BY DEF IInv, PortInv, PortListens, SessionRuns, PollsForUsb, UsbMasked,
     UsbRuns
<1>2. QED
  BY <1>1, Invariant, PTL

(* No disk, whatever it answers and however often the link errs or is      *)
(* examined again, is asked for access a second time while it stays        *)
(* connected (sata_media.c:139).                                           *)
THEOREM RejectedOnce == Spec => []OneRejectedAttempt
<1>1. IInv => OneRejectedAttempt
  BY DEF IInv, TypeOK, AttemptInv, OneRejectedAttempt
<1>2. QED
  BY <1>1, Invariant, PTL

(* Wherever the link changes, the medium that the host is told of, and the *)
(* one its commands reach, is the cartridge in the bay; it is mistaken only *)
(* where a write to PxSERR has erased a connect change that nobody had seen *)
(* since discovery began (ahci.c:2323, ahci.c:2346, scsi.c:846).           *)
THEOREM HostNeverMistaken == Spec => []HostSeesTheBay
<1>1. IInv => HostSeesTheBay
  <2> SUFFICES ASSUME IInv, ~erased
               PROVE  PublishedIsInBay /\ IssuedWhereMapped
    BY DEF HostSeesTheBay
  <2>1. PublishedIsInBay
    BY DEF IInv
  <2>2. IssuedWhereMapped
    BY <2>1 DEF IInv, PublishedIsInBay, CommandInv, IssuedWhereMapped
  <2>3. QED
    BY <2>1, <2>2
<1>2. QED
  BY <1>1, Invariant, PTL
=============================================================================
