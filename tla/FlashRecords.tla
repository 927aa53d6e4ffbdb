---------------------------- MODULE FlashRecords ----------------------------
(***************************************************************************)
(* What the dock keeps in its serial flash and who writes it: the boot     *)
(* image by the firmware download (rdx_manager_protocol.c), the            *)
(* manufacturing sector by the serial utility and the restore              *)
(* (rdx_manager_serial.c, rdx_manufacturing.c), and the state record with  *)
(* operation mode and load count (rdx_manager_control.c).                  *)
(*                                                                         *)
(* A writer decides what to do and leaves a job: the erases and programs   *)
(* it makes through spi.c, in order.  The USB interrupt runs over the      *)
(* foreground, the periodic timer over both; power may go at any moment.   *)
(***************************************************************************)
EXTENDS Integers, Sequences

CONSTANTS
  Units,       \* bound: units of the boot image, the first vector word first
  Sectors,     \* the units of each sector of the boot region, in order
  Pages,       \* bound: pages of the manufacturing sector
  Images,      \* bound: images that the host may send
  Serials,     \* bound: serial numbers
  Modes,       \* bound: operation modes that are asked for
  ResetDelay,  \* RDX_UPDATE_RESET_DELAY_TICKS
  MaxStarts,   \* bound: losses of power and resets
  MaxWrites    \* bound: writes, of which each may be refused or fail

(* Images that pass the digest check: the compatibility image, known as a   *)
(* whole, and one that brings the digest of its own payload.                *)
Compatible == "compatible"
Custom == "custom"

ASSUME FlashAssumption ==
  /\ Units \in Nat \ {0, 1} /\ Pages \in Nat \ {0}
  /\ Sectors \in Seq(SUBSET (1 .. Units))
  /\ UNION {Sectors[s] : s \in DOMAIN Sectors} = 1 .. Units
  /\ 1 \in Sectors[1]
  /\ Modes \subseteq 0 .. 3 /\ ResetDelay \in Nat \ {0}
  /\ MaxStarts \in Nat /\ MaxWrites \in Nat

VARIABLES
  on,       \* the firmware runs
  flash,    \* boot units, manufacturing pages, state record
  control,  \* rdx_control: load count, operation mode, saved mode; the serial number
  update,   \* rdx_update, and rdx_update_reset_ticks
  started,  \* rdx_serial_mutation_started and rdx_mfg_mutation_started
  spi,      \* rdx_spi_owned by a frame of the foreground; rdx_spi_faulted
  job,      \* of the foreground and of the USB interrupt: what is to be written
  masked,   \* the foreground has masked the USB interrupt
  kept,     \* history: records as the last write that was reported good left them
  torn,     \* history: records whose write was cut off since
  bound     \* bounds: starts and writes so far

vars == <<on, flash, control, update, started, spi, job, masked, kept, torn, bound>>

NoJob == [ops |-> <<>>, what |-> "none", want |-> <<>>]
Busy(who) == job[who].what # "none"
ForegroundRuns == on /\ ~Busy("usb")
UsbRuns == on /\ ~Busy("usb") /\ ~masked

Record(c, m) == [ok |-> TRUE, count |-> c, mode |-> m]
NoRecord == [ok |-> FALSE, count |-> 0, mode |-> 0]

-----------------------------------------------------------------------------
(* The flash.  A program can only clear bits.                               *)

Programmed(old, new) == IF old \in {"erased", new} THEN new ELSE "torn"

Erase(f, op) ==
  CASE op.at = "boot"  -> [f EXCEPT !.boot = [u \in 1 .. Units |->
                                     IF u \in Sectors[op.n] THEN "erased" ELSE @[u]]]
    [] op.at = "mfg"   -> [f EXCEPT !.mfg = [n \in 1 .. Pages |-> "erased"]]
    [] op.at = "state" -> [f EXCEPT !.state = NoRecord]

Program(f, op) ==
  CASE op.at = "boot"  -> [f EXCEPT !.boot[op.n] = Programmed(@, op.value)]
    [] op.at = "mfg"   -> [f EXCEPT !.mfg[op.n] = Programmed(@, op.value)]
    [] op.at = "state" -> [f EXCEPT !.state = IF @ = NoRecord THEN op.value ELSE NoRecord]

Done(f, op) == IF op.does = "erase" THEN Erase(f, op) ELSE Program(f, op)

(* Cells that an erase or program was working on when it was cut off.       *)
CutOff(f, op) ==
  CASE op.at = "state" -> [f EXCEPT !.state = NoRecord]
    [] op.at = "mfg"   -> [f EXCEPT !.mfg = [n \in 1 .. Pages |->
                             IF op.does = "erase" \/ n = op.n THEN "torn" ELSE @[n]]]
    [] op.at = "boot"  -> [f EXCEPT !.boot = [u \in 1 .. Units |->
                             IF u \in (IF op.does = "erase" THEN Sectors[op.n] ELSE {op.n})
                             THEN "torn" ELSE @[u]]]

ToErase(at, n) == [does |-> "erase", at |-> at, n |-> n, value |-> "none"]
ToProgram(at, n, v) == [does |-> "program", at |-> at, n |-> n, value |-> v]

(* A frame of the analogue converter in the foreground owns the bus while   *)
(* the USB interrupt is served; a fault of the bounded operations keeps     *)
(* everybody off it until the next start.  Otherwise SpiOps never fails.    *)
rdx_spi_acquire(who) == ~spi.faulted /\ ~(who = "usb" /\ spi.frame)
SpiOps(who) == rdx_spi_acquire(who)

rdx_mcp3008_read_channel ==
  /\ ForegroundRuns /\ ~Busy("fg") /\ ~spi.faulted
  /\ spi' = [spi EXCEPT !.frame = ~@]
  /\ UNCHANGED <<on, flash, control, update, started, job, masked, kept, torn, bound>>

-----------------------------------------------------------------------------
(* The state record: read, changed in one field, erased, programmed.        *)

rdx_control_record_is_valid(r) == r.ok

StateRecord ==
  IF rdx_control_record_is_valid(flash.state) THEN flash.state ELSE Record(0, 0)

Saving(r) == <<ToErase("state", 1), ToProgram("state", 1, r)>>

rdx_control_save_operation_mode(who, m) ==
  /\ job' = [job EXCEPT ![who] = [ops |-> Saving([StateRecord EXCEPT !.mode = m]),
                                  what |-> "mode", want |-> <<m>>]]
  /\ masked' = (who = "fg" \/ masked)

(* A plausible bug: the count is saved with the USB interrupt enabled.      *)
SaveCountUnmasked(n) ==
  /\ job' = [job EXCEPT !["fg"] = [ops |-> Saving([StateRecord EXCEPT !.count = n]),
                                   what |-> "count", want |-> <<n>>]]
  /\ UNCHANGED masked

rdx_control_save_drive_load_count(n) ==
  /\ job' = [job EXCEPT !["fg"] = [ops |-> Saving([StateRecord EXCEPT !.count = n]),
                                   what |-> "count", want |-> <<n>>]]
  /\ masked' = TRUE

Write == bound.writes < MaxWrites /\ bound' = [bound EXCEPT !.writes = @ + 1]

(* An accepted eject.                                                       *)
rdx_manager_increment_drive_load_count ==
  /\ ForegroundRuns /\ ~Busy("fg") /\ ~spi.frame /\ Write
  /\ control' = [control EXCEPT !.count = @ + 1]
  /\ IF SpiOps("fg") THEN rdx_control_save_drive_load_count(control.count + 1)
                     ELSE UNCHANGED <<job, masked>>
  /\ UNCHANGED <<on, flash, update, started, spi, kept, torn>>

rdx_manager_set_button_operation_mode(m) ==
  /\ ForegroundRuns /\ ~Busy("fg") /\ ~spi.frame /\ Write /\ m \in {1, 2}
  /\ control' = [control EXCEPT !.mode = m]
  /\ IF SpiOps("fg") THEN rdx_control_save_operation_mode("fg", m)
                     ELSE UNCHANGED <<job, masked>>
  /\ UNCHANGED <<on, flash, update, started, spi, kept, torn>>

(* MODE SELECT of the operation page.                                       *)
rdx_control_apply_mode_page(mode, save) ==
  LET m == IF mode = 0 THEN 1 ELSE mode
  IN  /\ UsbRuns /\ Write
      /\ control' = [control EXCEPT !.mode = m]
      /\ IF save /\ SpiOps("usb") THEN rdx_control_save_operation_mode("usb", m)
                                  ELSE UNCHANGED <<job, masked>>
      /\ UNCHANGED <<on, flash, update, started, spi, kept, torn>>

rdx_manager_identity_init(f) == IF f.mfg[1] \in Serials THEN f.mfg[1] ELSE "default"

rdx_manager_control_init(f) ==
  LET r == f.state
      m == IF rdx_control_record_is_valid(r) /\ r.mode # 0 THEN r.mode ELSE 1
  IN  [count |-> IF rdx_control_record_is_valid(r) THEN r.count ELSE 0,
       mode |-> m, saved |-> m, serial |-> rdx_manager_identity_init(f)]

-----------------------------------------------------------------------------
(* The firmware download.  A container is a header, with the mark and the   *)
(* digest of a custom image, and the units of the boot image; chunks may    *)
(* be cut anywhere, and the host may send any image in any chunk.           *)

NoUpdate == [started |-> FALSE, failed |-> FALSE, valid |-> FALSE, got |-> <<>>, ticks |-> 0]

(* The mark and the two digests are gathered chunk by chunk; one image may  *)
(* be started only if all that came was its.                                *)
rdx_custom_update_is_valid(got) == \A n \in DOMAIN got : got[n] = Custom

ImageValid(got) == (\A n \in DOMAIN got : got[n] = Compatible) \/ rdx_custom_update_is_valid(got)

(* A plausible bug: the boot region is erased from its end.                 *)
EraseBackwards == [s \in DOMAIN Sectors |-> ToErase("boot", Len(Sectors) + 1 - s)]

rdx_erase_boot_image == [s \in DOMAIN Sectors |-> ToErase("boot", s)]

rdx_program_flash(first, last, image) ==
  [k \in 1 .. last - first + 1 |-> ToProgram("boot", first + k - 1, image)]

(* The header is not for the flash, and the first vector word is withheld.  *)
rdx_program_container_payload(at, n, image) ==
  rdx_program_flash(IF at < 2 THEN 2 ELSE at, at + n - 1, image)

(* Neither way of writing is open to a host that has used another one since *)
(* the start.                                                               *)
WriteBufferAllowed == ~started.mfg /\ ~started.serial

rdx_begin_update == [NoUpdate EXCEPT !.started = TRUE, !.ticks = update.ticks]

Download(first, n, image) ==
  LET u == IF first THEN rdx_begin_update ELSE update
      at == Len(u.got)
      got == u.got \o [k \in 1 .. n |-> image]
      programs == rdx_program_container_payload(at, n, image)
      ops == (IF first THEN rdx_erase_boot_image ELSE <<>>) \o programs
      whole == Len(got) = Units + 1
  IN  /\ UsbRuns /\ Write /\ WriteBufferAllowed
      /\ at + n <= Units + 1 /\ u.started /\ ~u.failed
      /\ IF ops = <<>> \/ SpiOps("usb")
         THEN /\ update' = [u EXCEPT !.got = got, !.valid = whole /\ ImageValid(got),
                                     !.failed = whole /\ ~ImageValid(got)]
              /\ job' = [job EXCEPT !["usb"] = [ops |-> ops, what |-> "download", want |-> <<>>]]
         ELSE /\ update' = [u EXCEPT !.failed = TRUE, !.started = ~first]
              /\ UNCHANGED job
      /\ UNCHANGED <<on, flash, control, started, spi, masked, kept, torn>>

Activate ==
  /\ UsbRuns /\ Write /\ WriteBufferAllowed
  /\ update.started /\ update.valid /\ ~update.failed
  /\ SpiOps("usb")
  /\ job' = [job EXCEPT !["usb"] = [ops |-> rdx_program_flash(1, 1, update.got[2]),
                                    what |-> "activate", want |-> <<>>]]
  /\ UNCHANGED <<on, flash, control, update, started, spi, masked, kept, torn>>

rdx_manager_handle_write_buffer ==
  \/ \E first \in BOOLEAN, n \in 1 .. 2, image \in Images : Download(first, n, image)
  \/ Activate

-----------------------------------------------------------------------------
(* The manufacturing sector.  The host sends what it has read of it, and    *)
(* the command is refused if that is not what is there.  The bay must be    *)
(* empty and the port idle, which is looked at again and again; the refusals *)
(* that change nothing are left out.                                        *)

Writing(sector, erase, pages, what) ==
  [ops |-> (IF erase THEN <<ToErase("mfg", 1)>> ELSE <<>>)
             \o [n \in 1 .. pages |-> ToProgram("mfg", n, sector[n])],
   what |-> what, want |-> sector]

rdx_manager_serial_write(serial, fallback) ==
  LET sector == [flash.mfg EXCEPT ![1] = serial]
  IN  /\ UsbRuns /\ Write /\ WriteBufferAllowed /\ ~update.started
      /\ SpiOps("usb")
      /\ IF fallback THEN flash.mfg[1] = "erased" ELSE flash.mfg[1] \in Serials \ {serial}
      /\ started' = [started EXCEPT !.serial = TRUE]
      /\ job' = [job EXCEPT !["usb"] =
                   Writing(sector, ~fallback, IF fallback THEN 1 ELSE Pages, "serial")]
      /\ UNCHANGED <<on, flash, control, update, spi, masked, kept, torn>>

rdx_manager_manufacturing_restore_blocked ==
  update.started \/ update.failed \/ update.ticks > 0 \/ started.serial

(* The sector is read, which may run out of time; the write is then latched *)
(* before the write-enable; the bay is looked at once more after it, and    *)
(* the write then disabled.                                                 *)
rdx_mfg_restore_locked(serial) ==
  LET sector == [flash.mfg EXCEPT ![1] = serial]
  IN  \/ spi' = [spi EXCEPT !.faulted = TRUE] /\ UNCHANGED <<job, started>>
      \/ /\ flash.mfg[1] # serial
         /\ started' = [started EXCEPT !.mfg = TRUE]
         /\ \/ /\ job' = [job EXCEPT !["usb"] = Writing(sector, TRUE, Pages, "restore")]
               /\ UNCHANGED spi
            \/ UNCHANGED <<job, spi>>
            \/ spi' = [spi EXCEPT !.faulted = TRUE] /\ UNCHANGED job

rdx_manager_handle_manufacturing(serial) ==
  /\ UsbRuns /\ Write /\ ~rdx_manager_manufacturing_restore_blocked
  /\ ~started.mfg /\ rdx_spi_acquire("usb")
  /\ rdx_mfg_restore_locked(serial)
  /\ UNCHANGED <<on, flash, control, update, masked, kept, torn>>

-----------------------------------------------------------------------------
(* The jobs go on, step by step, and end.                                   *)

Runs(who) == on /\ Busy(who) /\ (who = "fg" => ~Busy("usb"))

FlashStep(who) ==
  /\ Runs(who) /\ job[who].ops # <<>>
  /\ flash' = Done(flash, Head(job[who].ops))
  /\ job' = [job EXCEPT ![who].ops = Tail(@)]
  /\ UNCHANGED <<on, control, update, started, spi, masked, kept, torn, bound>>

(* A bounded operation runs out of time, an erase, a program or a read of   *)
(* what was written: the bus is not used again.                             *)
SpiOpsBounded ==
  /\ Runs("usb") /\ job["usb"].what = "restore"
  /\ LET op == Head(job["usb"].ops)
     IN  \/ job["usb"].ops # <<>> /\ flash' \in {flash, CutOff(flash, op), Done(flash, op)}
         \/ job["usb"].ops = <<>> /\ UNCHANGED flash
  /\ spi' = [spi EXCEPT !.faulted = TRUE]
  /\ job' = [job EXCEPT !["usb"] = NoJob]
  /\ torn' = torn \cup {"mfg"}
  /\ UNCHANGED <<on, control, update, started, masked, kept, bound>>

SavedAs(r) == IF "state" \in torn THEN flash.state ELSE r

Reported(j) ==
  CASE j.what = "mode" ->
         /\ control' = [control EXCEPT !.saved = j.want[1]]
         /\ kept' = [kept EXCEPT !.state = SavedAs([@ EXCEPT !.ok = TRUE, !.mode = j.want[1]])]
         /\ torn' = torn \ {"state"}
         /\ UNCHANGED update
    [] j.what = "count" ->
         /\ kept' = [kept EXCEPT !.state = SavedAs([@ EXCEPT !.ok = TRUE, !.count = j.want[1]])]
         /\ torn' = torn \ {"state"}
         /\ UNCHANGED <<control, update>>
    [] j.what = "activate" ->
         update' = [update EXCEPT !.ticks = ResetDelay] /\ UNCHANGED <<control, kept, torn>>
    [] j.what = "download" -> UNCHANGED <<control, update, kept, torn>>
    [] OTHER ->
         (* Every page is read back. *)
         /\ kept' = [kept EXCEPT !.mfg = IF flash.mfg = j.want THEN j.want ELSE @]
         /\ torn' = IF flash.mfg = j.want THEN torn \ {"mfg"} ELSE torn \cup {"mfg"}
         /\ UNCHANGED <<control, update>>

JobEnds(who) ==
  /\ Runs(who) /\ job[who].ops = <<>>
  /\ Reported(job[who])
  /\ job' = [job EXCEPT ![who] = NoJob]
  /\ masked' = (masked /\ who # "fg")
  /\ UNCHANGED <<on, flash, started, spi, bound>>

-----------------------------------------------------------------------------
(* Starts.  The boot loader starts an image whose first vector word is      *)
(* there.  A job that is cut off leaves its operation not begun or half     *)
(* done; done altogether is the next state's choice.                        *)

Boots(f) == f.boot[1] \notin {"erased", "torn"}

rdx_manager_protocol_init(f) ==
  /\ on' = Boots(f)
  /\ flash' = f
  /\ control' = rdx_manager_control_init(f)
  /\ update' = NoUpdate
  /\ started' = [serial |-> FALSE, mfg |-> FALSE]
  /\ spi' = [frame |-> FALSE, faulted |-> FALSE]
  /\ job' = [who \in {"fg", "usb"} |-> NoJob]
  /\ masked' = FALSE

Half(who) ==
  IF job[who].ops = <<>> THEN {flash} ELSE {flash, CutOff(flash, Head(job[who].ops))}

CutOffPlaces ==
  UNION {CASE job[who].what \in {"mode", "count"}     -> {"state"}
           [] job[who].what \in {"serial", "restore"} -> {"mfg"}
           [] OTHER                                   -> {} : who \in {"fg", "usb"}}

Restart ==
  /\ bound.starts < MaxStarts
  /\ bound' = [bound EXCEPT !.starts = @ + 1]
  /\ \E f \in Half(IF Busy("usb") THEN "usb" ELSE "fg") : rdx_manager_protocol_init(f)
  /\ torn' = torn \cup CutOffPlaces
  /\ UNCHANGED kept

PowerLoss == on /\ Restart

(* The timer outranks the USB interrupt and does not look at the flash.     *)
rdx_manager_protocol_tick ==
  /\ on /\ update.ticks > 0
  /\ IF update.ticks = 1 THEN Restart
     ELSE /\ update' = [update EXCEPT !.ticks = @ - 1]
          /\ UNCHANGED <<on, flash, control, started, spi, job, masked, kept, torn, bound>>

(* The unit reset of SEND DIAGNOSTIC.                                       *)
rdx_manager_handle_send_diagnostic == UsbRuns /\ Restart

Init ==
  /\ \E page \in {"erased", "torn"} \cup Serials, m \in {0, 2} :
       flash = [boot |-> [u \in 1 .. Units |-> "factory"],
                mfg |-> [n \in 1 .. Pages |-> IF n = 1 THEN page ELSE "calibration"],
                state |-> IF m = 0 THEN NoRecord ELSE Record(1, m)]
  /\ on = TRUE /\ control = rdx_manager_control_init(flash)
  /\ update = NoUpdate /\ started = [serial |-> FALSE, mfg |-> FALSE]
  /\ spi = [frame |-> FALSE, faulted |-> FALSE]
  /\ job = [who \in {"fg", "usb"} |-> NoJob] /\ masked = FALSE
  /\ kept = [state |-> flash.state, mfg |-> flash.mfg] /\ torn = {}
  /\ bound = [starts |-> 0, writes |-> 0]

Next ==
  \/ rdx_mcp3008_read_channel
  \/ rdx_manager_increment_drive_load_count
  \/ \E m \in Modes : rdx_manager_set_button_operation_mode(m)
  \/ \E m \in Modes, save \in BOOLEAN : rdx_control_apply_mode_page(m, save)
  \/ rdx_manager_handle_write_buffer
  \/ \E s \in Serials, fallback \in BOOLEAN : rdx_manager_serial_write(s, fallback)
  \/ \E s \in Serials : rdx_manager_handle_manufacturing(s)
  \/ \E who \in {"fg", "usb"} : FlashStep(who) \/ JobEnds(who)
  \/ SpiOpsBounded
  \/ PowerLoss \/ rdx_manager_protocol_tick \/ rdx_manager_handle_send_diagnostic

Spec == Init /\ [][Next]_vars

-----------------------------------------------------------------------------
TypeOK ==
  /\ on \in BOOLEAN /\ masked \in BOOLEAN /\ torn \subseteq {"state", "mfg"}
  /\ flash.boot \in [1 .. Units -> Images \cup {"factory", "erased", "torn"}]
  /\ flash.mfg \in [1 .. Pages -> Serials \cup {"calibration", "erased", "torn"}]
  /\ control.mode \in 1 .. 3 /\ control.saved \in 1 .. 3
  /\ update.ticks \in 0 .. ResetDelay /\ Len(update.got) <= Units + 1

(* Whenever the first vector word is in the flash, and so at every loss of  *)
(* power, the image behind it is whole, of one piece and one that may be    *)
(* started, however the host cuts and mixes and repeats the download        *)
(* (rdx_manager_protocol.c:378-463, 836-942).                               *)
BootsWhole ==
  Boots(flash) =>
    /\ flash.boot[1] \in {"factory", Compatible, Custom}
    /\ \A u \in 1 .. Units : flash.boot[u] = flash.boot[1]

(* Between two writes the flash holds what the last one reported good has   *)
(* left, whoever wrote in between: a save of the mode keeps the count and   *)
(* one of the count the mode, and the manufacturing sector keeps all its    *)
(* pages; and the dock shows the host what is there, except for a write     *)
(* that has been cut off, by the timer's reset too                          *)
(* (rdx_manager_control.c:111-208, rdx_manager_serial.c:177-300).           *)
RecordsKept ==
  on /\ ~Busy("fg") /\ ~Busy("usb") =>
    /\ "state" \notin torn =>
         /\ flash.state = kept.state
         /\ control.saved = IF kept.state.mode = 0 THEN 1 ELSE kept.state.mode
         /\ control.count >= kept.state.count
    /\ "mfg" \notin torn =>
         /\ flash.mfg = kept.mfg
         /\ ~started.serial /\ ~started.mfg =>
              control.serial = rdx_manager_identity_init([mfg |-> kept.mfg])
=============================================================================
