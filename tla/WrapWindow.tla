----------------------------- MODULE WrapWindow -----------------------------
(***************************************************************************)
(* The memory wrap window between the SATA port and the USB controller     *)
(* (mww.c) and the ring of transfer request blocks through which the USB   *)
(* controller walks it (usb_hal.c, usb_hal_isr.c).                          *)
(*                                                                         *)
(* The window holds Block units; its offsets and the pointers of the       *)
(* driver count modulo twice that, so that full and empty differ.  The     *)
(* port and the controller move one unit at a time; each runs ahead until  *)
(* the window is full, or empty.  On the way in the controller may read    *)
(* again what it has read, so the driver itself moves the read offset when *)
(* a block is complete.                                                    *)
(***************************************************************************)
EXTENDS Integers, Sequences, SequencesExt

CONSTANTS
  Half,       \* bound: units in half a window
  RingSize,   \* bound: blocks of a ring, the link to the first included
  Entry,      \* bound: units of an entry of the scatter list
  MaxEntries, \* bound: entries of the scatter list
  Lengths,    \* bound: lengths of the transfers
  Classes,    \* bound: the transports, "bot" and "uas"
  Commands    \* bound: commands, of which each may fail

Block == 2 * Half
Span == 2 * Block
Dirs == {"in", "out"}

(* A block of the way in is half a window long (32 KB of 64 for Bulk-Only,  *)
(* 16 of 32 for UAS), one of the way out twice or four times the window.    *)
Chunk(dir) == IF dir = "in" THEN Half ELSE 2 * Block

ASSUME WindowAssumption ==
  /\ Half \in Nat \ {0} /\ RingSize \in Nat \ {0, 1}
  /\ Entry \in Nat \ {0} /\ MaxEntries \in Nat
  /\ Lengths \subseteq Nat \ {0} /\ Classes \subseteq {"bot", "uas"}
  /\ Commands \in Nat

VARIABLES
  class,    \* active_mass_storage_class
  w,        \* the two windows: offsets and contents
  ring,     \* their rings: the blocks and TRB_RING_INFO_T
  ep,       \* EP_INFO_T of the data pipe in use
  usb,      \* the USB controller: where it is in the ring
  sata,     \* the SATA port: the command and what it has moved
  ev,       \* events of the controller that wait: their direction and kind
  stale,    \* history: a command of UAS has failed over a waiting block's end
  mixed,    \* history: a unit that was not the next one was taken, and if over
            \* a window that is stale
  commands  \* bound: commands so far

vars == <<class, w, ring, ep, usb, sata, ev, stale, mixed, commands>>

Blocks == RingSize - 1
Least(a, b) == IF a <= b THEN a ELSE b
Wrapped(a) == a % Span

-----------------------------------------------------------------------------
(* The driver.                                                              *)

(* The offsets and the driver's pointer into the window go together.        *)
mww_init_read_only ==
  /\ w' = [w EXCEPT !["in"].wr = 0, !["in"].rd = 0]
  /\ ring' = [ring EXCEPT !["in"].buffer = 0]

mww_init_write_only ==
  /\ w' = [w EXCEPT !["out"].wr = 0, !["out"].rd = 0]
  /\ ring' = [ring EXCEPT !["out"].buffer = 0]

mww_reset_rw_offsets(x) == [d \in Dirs |-> [x[d] EXCEPT !.wr = 0, !.rd = 0]]

(* The scatter list: every entry begins at the start of the window.         *)
ahci_setup_PRDT(n) ==
  IF n > MaxEntries * Entry THEN <<>>
  ELSE [k \in 1 .. (n + Entry - 1) \div Entry |-> Least(Entry, n - (k - 1) * Entry)]

(* The block at the index of the ring is filled.                            *)
Filled(r, dir) ==
  LET n == Least(r.remaining, Chunk(dir))
      at == Wrapped(r.buffer)
  IN  [r EXCEPT !.trb[r.index] = [buf |-> at, len |-> n, status |-> n, hwo |-> TRUE,
                                  lst |-> r.remaining = n],
                !.buffer = at + n, !.remaining = @ - n, !.index = (@ + 1) % Blocks]

(* A plausible bug: the last block of a long transfer is never filled.      *)
NextTrbButLast(r, dir) == IF r.remaining <= Chunk(dir) THEN r ELSE Filled(r, dir)

usb_hal_config_next_trb(r, dir) == IF r.remaining = 0 THEN r ELSE Filled(r, dir)

(* All blocks of the ring are filled, as far as the transfer goes.          *)
usb_hal_config_trb_ring(r, dir, n) ==
  FoldLeft(LAMBDA x, k : IF x.remaining = 0 THEN x ELSE Filled(x, dir),
           [r EXCEPT !.remaining = n, !.index = 0, !.pending = 0],
           [k \in 1 .. Blocks |-> k])

usb_hal_io_request(dir, n) ==
  /\ ring' = [ring EXCEPT ![dir] = usb_hal_config_trb_ring(@, dir, n)]
  /\ ep' = [active |-> TRUE, left |-> n, count |-> 0]
  /\ usb' = [on |-> TRUE, at |-> 0, off |-> 0, moved |-> 0]

(* The end of a transfer sets the offsets so that the controller, which may *)
(* be waiting for the window, can finish its access.                        *)
usb_hal_dep_cmd(x, dir) ==
  IF dir = "out" THEN [x EXCEPT !.rd = x.wr] ELSE [x EXCEPT !.wr = Wrapped(x.rd + Block)]

Moved(r) == r.trb[r.pending].len - r.trb[r.pending].status

(* On the way in the driver gives back what the controller has read.        *)
Released(x, r, dir) ==
  IF dir = "in" THEN [x EXCEPT !.rd = Wrapped(r.trb[r.pending].buf + Moved(r))] ELSE x

Counted(r) == [ep EXCEPT !.left = @ - Moved(r), !.count = @ + Moved(r)]

(* It does not look whether the transfer is still under way.                *)
usb_hal_handle_xfer_in_progress(dir) ==
  LET r == ring[dir]
  IN  /\ w' = [w EXCEPT ![dir] = Released(@, r, dir)]
      /\ ep' = Counted(r)
      /\ ring' = [ring EXCEPT ![dir] =
                    usb_hal_config_next_trb([r EXCEPT !.pending = (@ + 1) % Blocks], dir)]

usb_hal_handle_xfer_complete(dir) ==
  LET r == ring[dir]
  IN  /\ w' = IF ep.active THEN [w EXCEPT ![dir] = Released(@, r, dir)] ELSE w
      /\ ep' = IF ep.active THEN [Counted(r) EXCEPT !.active = FALSE] ELSE ep
      /\ UNCHANGED ring

usb_hal_isr ==
  /\ ev # <<>>
  /\ ev' = Tail(ev)
  /\ \/ Head(ev).t = "progress" /\ usb_hal_handle_xfer_in_progress(Head(ev).dir)
     \/ Head(ev).t = "complete" /\ usb_hal_handle_xfer_complete(Head(ev).dir)
  /\ UNCHANGED <<class, usb, sata, stale, mixed, commands>>

-----------------------------------------------------------------------------
(* The port and the controller move the data.                               *)

Fill(x) == Wrapped(x.wr - x.rd + Span)

Taken(unit, next) ==
  mixed' = IF unit = next THEN mixed ELSE mixed \cup {IF stale THEN "stale" ELSE "fresh"}

(* The port goes on where it is, whatever the entry says.                   *)
SataWrites ==
  /\ sata.dir = "in" /\ Fill(w["in"]) < Block
  /\ w' = [w EXCEPT !["in"].mem[w["in"].wr % Block] = sata.moved, !["in"].wr = Wrapped(@ + 1)]
  /\ UNCHANGED mixed

SataReads ==
  /\ sata.dir = "out" /\ Fill(w["out"]) > 0
  /\ Taken(w["out"].mem[w["out"].rd % Block], sata.moved)
  /\ w' = [w EXCEPT !["out"].rd = Wrapped(@ + 1)]

SataMoves ==
  /\ sata.list # <<>>
  /\ SataWrites \/ SataReads
  /\ sata' = [sata EXCEPT !.moved = @ + 1,
                          !.list = IF Head(@) = 1 THEN Tail(@) ELSE [@ EXCEPT ![1] = @ - 1]]
  /\ UNCHANGED <<class, ring, ep, usb, ev, stale, commands>>

Trb == ring[sata.dir].trb[usb.at]
Address == Wrapped(Trb.buf + usb.off)

UsbReads ==
  /\ sata.dir = "in" /\ Address # w["in"].wr
  /\ Taken(w["in"].mem[Address % Block], usb.moved)
  /\ UNCHANGED w

UsbWrites ==
  /\ sata.dir = "out" /\ Fill(w["out"]) < Block
  /\ w' = [w EXCEPT !["out"].mem[Address % Block] = usb.moved, !["out"].wr = Wrapped(Address + 1)]
  /\ UNCHANGED mixed

(* The controller takes the blocks that are marked as its own, round the    *)
(* ring; the last block of the transfer ends it.                            *)
UsbMoves ==
  LET over == usb.off + 1 = Trb.len
      end == [dir |-> sata.dir, t |-> IF Trb.lst THEN "complete" ELSE "progress"]
  IN  /\ usb.on /\ Trb.hwo
      /\ UsbReads \/ UsbWrites
      /\ ring' = [ring EXCEPT ![sata.dir].trb[usb.at] =
                    [@ EXCEPT !.status = @ - 1, !.hwo = ~over]]
      /\ usb' = [on |-> ~(over /\ Trb.lst),
                 at |-> IF over THEN (usb.at + 1) % Blocks ELSE usb.at,
                 off |-> IF over THEN 0 ELSE usb.off + 1, moved |-> usb.moved + 1]
      /\ ev' = IF over THEN Append(ev, end) ELSE ev
      /\ UNCHANGED <<class, ep, sata, stale, commands>>

-----------------------------------------------------------------------------
(* A READ or WRITE.  Bulk-Only sets the window up for every command and UAS *)
(* goes on where it is; then the command goes to the drive, and the         *)
(* transfer to the controller.  The answer to the last command has used the *)
(* same events before.                                                      *)

NoCommand == [dir |-> "none", n |-> 0, list |-> <<>>, moved |-> 0, issued |-> FALSE]

(* A plausible bug: the window stays as the last command left it.           *)
SetUpNothing(dir) == UNCHANGED <<w, ring>>

SetUp(dir) ==
  \/ class = "bot" /\ dir = "in" /\ mww_init_read_only
  \/ class = "bot" /\ dir = "out" /\ mww_init_write_only
  \/ class = "uas" /\ UNCHANGED <<w, ring>>

Command(dir, n) ==
  /\ sata.dir = "none" /\ ev = <<>> /\ commands < Commands
  /\ ahci_setup_PRDT(n) # <<>>
  /\ SetUp(dir)
  /\ sata' = [NoCommand EXCEPT !.dir = dir, !.n = n, !.list = ahci_setup_PRDT(n)]
  /\ commands' = commands + 1
  /\ UNCHANGED <<class, ep, usb, ev, stale, mixed>>

Transfer ==
  /\ sata.dir # "none" /\ ~sata.issued
  /\ usb_hal_io_request(sata.dir, sata.n)
  /\ sata' = [sata EXCEPT !.issued = TRUE]
  /\ UNCHANGED <<class, w, ev, stale, mixed, commands>>

Finish ==
  /\ sata.issued /\ sata.list = <<>> /\ ~ep.active
  /\ sata' = NoCommand
  /\ UNCHANGED <<class, w, ring, ep, usb, ev, stale, mixed, commands>>

(* The drive fails the command: the callback ends the transfer and resets   *)
(* the offsets and pointers of both windows.  It is the foreground's, and   *)
(* an event of the controller may wait behind the masked interrupt.         *)
ums_bot_ata_error_callback ==
  LET x == IF ep.active THEN [w EXCEPT ![sata.dir] = usb_hal_dep_cmd(@, sata.dir)] ELSE w
  IN  /\ sata.issued /\ sata.list # <<>>
      /\ w' = mww_reset_rw_offsets(x)
      /\ ring' = [d \in Dirs |-> [ring[d] EXCEPT !.buffer = 0]]
      /\ ep' = [ep EXCEPT !.active = FALSE]
      /\ usb' = [usb EXCEPT !.on = FALSE]
      /\ sata' = NoCommand
      /\ stale' = (class = "uas" /\ \E k \in DOMAIN ev : ev[k].t = "progress")
      /\ UNCHANGED <<class, ev, mixed, commands>>

mww_init ==
  [d \in Dirs |-> [wr |-> 0, rd |-> 0, mem |-> [a \in 0 .. Block - 1 |-> -1]]]

Init ==
  /\ class \in Classes
  /\ w = mww_init
  /\ ring = [d \in Dirs |->
       [trb |-> [k \in 0 .. Blocks - 1 |->
                   [buf |-> 0, len |-> 0, status |-> 0, hwo |-> FALSE, lst |-> FALSE]],
        remaining |-> 0, index |-> 0, pending |-> 0, buffer |-> 0]]
  /\ ep = [active |-> FALSE, left |-> 0, count |-> 0]
  /\ usb = [on |-> FALSE, at |-> 0, off |-> 0, moved |-> 0]
  /\ sata = NoCommand /\ ev = <<>> /\ stale = FALSE /\ mixed = {} /\ commands = 0

Done == sata.dir = "none" /\ ev = <<>> /\ commands = Commands /\ UNCHANGED vars

Next == \/ \E dir \in Dirs, n \in Lengths : Command(dir, n)
        \/ Transfer \/ SataMoves \/ UsbMoves \/ usb_hal_isr
        \/ Finish \/ ums_bot_ata_error_callback
        \/ Done

(* The driver, the port and the controller go on while they can.            *)
Fairness ==
  /\ WF_vars(Transfer) /\ WF_vars(Finish) /\ WF_vars(usb_hal_isr)
  /\ WF_vars(SataMoves) /\ WF_vars(UsbMoves)

Spec == Init /\ [][Next]_vars /\ Fairness

-----------------------------------------------------------------------------
TypeOK ==
  /\ class \in {"bot", "uas"}
  /\ \A d \in Dirs : w[d].wr \in 0 .. Span - 1 /\ w[d].rd \in 0 .. Span - 1
                     /\ ring[d].index \in 0 .. Blocks - 1 /\ ring[d].pending \in 0 .. Blocks - 1
  /\ sata.dir \in Dirs \cup {"none"} /\ stale \in BOOLEAN /\ mixed \subseteq {"stale", "fresh"} /\ commands \in 0 .. Commands

(* Every unit that the host reads, or the drive writes, is the next one of  *)
(* the transfer: none is overwritten before it is taken and none of an      *)
(* earlier command is left over; and the driver's counts end at the length. *)
(* Bulk-Only may have failed any command at any moment before.  Of UAS none *)
(* may have failed while the end of one of its blocks waited to be served   *)
(* (ums_uas.c:582-587, usb_hal_isr.c:360-392), and that only until a        *)
(* command fails when none does.                                            *)
DataInOrder ==
  /\ "fresh" \notin mixed
  /\ sata.issued /\ sata.list = <<>> /\ ~ep.active =>
       ep.left = 0 /\ ep.count = sata.n

(* A failed command of UAS leaves nothing in the window to the next one     *)
(* ("This function resets the read and write offsets for the SATA-to-USB    *)
(* and USB-to-SATA datapath RAM wrap windows", mww.c:75-77).                *)
NothingLeftOver == mixed = {}

(* A command that the drive carries out ends, however much longer than the  *)
(* window and the ring it is, and whatever commands have failed before it;  *)
(* of UAS as above.                                                         *)
TransferEnds == sata.dir # "none" /\ ~stale ~> sata.dir = "none"
=============================================================================
