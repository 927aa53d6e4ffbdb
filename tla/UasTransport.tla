---------------------------- MODULE UasTransport ----------------------------
(***************************************************************************)
(* The USB Attached SCSI transport of ums_uas.c: several tagged commands   *)
(* in flight, four pipes, and a disk that may queue.                       *)
(*                                                                         *)
(* As in BotTransport a function of the source is an operator from         *)
(* transport to transport, and a handler is one step: USB interrupts and   *)
(* the callbacks that the foreground serves exclude each other.  Commands  *)
(* lie in buffers; buffers from Depth on only receive what is then         *)
(* answered with TASK SET FULL.                                            *)
(*                                                                         *)
(* No descriptor of this build offers UAS, but SET INTERFACE accepts its   *)
(* alternate setting (usb_chap9.c:2025) and the code behind it is live.    *)
(***************************************************************************)
EXTENDS Integers, Sequences, FiniteSets, SequencesExt

CONSTANTS
  Slots,    \* AHCI_NCQ_DEPTH, which is also the size of the lists
  Depth,    \* gCmdQueueDepth
  ListSize, \* CMD_INDEX_LIST_SIZE
  Tags,
  Offers,   \* bound: the information units that the host sends
  Media,    \* bound: the media, [ncq, ready]
  Builds,   \* what the build does with a write behind an array
  Faults,   \* bound: the ways in which the disk may fail
  Backlog,  \* bound: callbacks that wait
  Hasty     \* SET INTERFACE while the disk is at work, and a medium that is
            \* found anew while commands are in flight

(* Information units.  A command is rw, has a direction, and an outcome of *)
(* scsi_command_handler; ck forces a CHECK CONDITION on an ATA PASS-THROUGH.*)
(* Its data are none, some, or so many that scsi_get_rw_xfer_length fails. *)
Unit == [what : {"command", "abort", "reset", "query", "other", "invalid"},
         tag : Tags, target : Tags, lun : BOOLEAN, rw : BOOLEAN,
         dir : {"in", "out", "none", "unknown"},
         does : {"pending", "ready", "ok", "error", "ata_error"},
         ck : BOOLEAN, size : {"none", "some", "excess"}]

ASSUME UasAssumption ==
  /\ Slots \in Nat \ {0} /\ Depth \in 1 .. Slots
  /\ ListSize \in Nat /\ ListSize > Slots
  /\ Offers \subseteq Unit /\ Media \subseteq [ncq : BOOLEAN, ready : BOOLEAN]
  /\ Builds \subseteq {"cached", "mixed", "reloaded"}
  /\ Faults \subseteq {"plain", "queued"} /\ Hasty \in BOOLEAN /\ Backlog \in Nat \ {0}

VARIABLES
  u,      \* the transport, its pipes, the command slots and the callbacks
  host,   \* tag -> what the host waits for
  odd,    \* history: a status came for a tag that waits for none
  hs,     \* dev_speed is USB_HIGH_SPEED
  medium, \* ata_dev: bNCQ, bDeviceInitComplete
  build   \* what this build does with a write behind an array

vars == <<u, host, odd, hs, medium, build>>

Buffers == 0 .. Slots
None == Slots + 1

AnyTag == CHOOSE t \in Tags : TRUE

Nothing == [what |-> "invalid", tag |-> AnyTag, target |-> AnyTag, lun |-> TRUE,
            rw |-> FALSE, dir |-> "none", does |-> "ok", ck |-> FALSE, size |-> "some"]

NoIU == [what |-> "none", tag |-> AnyTag, code |-> "none"]

Queued(c) == medium.ncq /\ c.rw
Slot(b) == IF medium.ncq THEN b ELSE 0

(* The enumeration is ordered; two ranges of it are used.                  *)
Waits == {"CMD_WAITING", "QUEUED_CMD_WAITING"}
NotStarted == {"CMD_RECEIVED"} \cup Waits
NotInUse == {"IDLE", "RX_CMD"}
InPhases == {"DATA_IN", "DATA_IN_QUEUED", "READ_READY_PENDING"}
OutPhases == {"DATA_OUT", "DATA_OUT_QUEUED", "WRITE_READY_PENDING"}
States == NotInUse \cup NotStarted \cup InPhases \cup OutPhases \cup
  {"DATA_IN_PENDING", "DATA_OUT_PENDING", "SENSE_PENDING", "RESPONSE_PENDING",
   "SEND_SENSE", "STATUS_SENT"}

-----------------------------------------------------------------------------
(* Lists of buffers: rings with a valid flag for each cell.                *)
increment_index(i) == IF i + 1 >= Depth THEN 0 ELSE i + 1
increment_index_plus(i) == IF i + 1 >= Slots THEN 0 ELSE i + 1
decrement_index_plus(i) == IF i = 0 THEN Slots - 1 ELSE i - 1
NextEntry(i) == (i + 1) % ListSize

EmptyList == [buf |-> [i \in 0 .. Slots - 1 |-> 0],
              ok |-> [i \in 0 .. Slots - 1 |-> FALSE], index |-> 0, proc |-> 0]

Filled(l) == l.ok[l.proc]
Head1(l) == l.buf[l.proc]
get_cmd_index(l) ==
  [l EXCEPT !.ok[l.proc] = FALSE, !.proc = increment_index(@)]
get_cmd_index_plus(l) ==
  [l EXCEPT !.ok[l.proc] = FALSE, !.proc = increment_index_plus(@)]

Append1(l, b) == [l EXCEPT !.buf[l.index] = b, !.ok[l.index] = TRUE,
                           !.index = increment_index_plus(@)]

(* The tail of the free list is set up without a wrap.  When it is behind  *)
(* the arrays, the store into cmd_index falls on the tail itself, and that *)
(* into valid_flag on the first element of cmd_index, if the build has not *)
(* loaded the tail again by then.                                          *)
ReturnBuffer(l, b) ==
  IF l.index < Slots
  THEN [l EXCEPT !.buf[l.index] = b, !.ok[l.index] = TRUE,
                 !.index = increment_index(@)]
  ELSE CASE build = "cached"   -> [l EXCEPT !.buf[0] = 1, !.index = 0]
         [] build = "mixed"    -> [l EXCEPT !.buf[0] = 1,
                                            !.index = increment_index(b)]
         [] build = "reloaded" -> [l EXCEPT !.ok[b] = TRUE,
                                            !.index = increment_index(b)]

OverflowBuffers(q) == {b \in Depth .. Slots : q.st[b] = "IDLE"}
find_empty_cmd_overflow_buffer_index(q) ==
  CHOOSE b \in OverflowBuffers(q) : \A c \in OverflowBuffers(q) : b <= c

find_cmd_index(q, tag, b) ==
  {c \in Buffers \ {b} : /\ q.cmd[c].tag = tag
                         /\ q.st[c] \notin NotInUse \cup {"STATUS_SENT"}}

-----------------------------------------------------------------------------
(* The pipes.  A transfer is refused while the pipe is active.             *)
rx_command(q, b) == [q EXCEPT !.rx = TRUE, !.st[b] = "RX_CMD"]

PushIn(q, b) ==
  [q EXCEPT !.pin.buf[q.pin.index] = b, !.pin.ok[q.pin.index] = TRUE,
            !.pin.index = increment_index(@)]

PopIn(q) == [q EXCEPT !.pin = get_cmd_index(@)]

HoldOut(q, b) == [q EXCEPT !.pout = [buf |-> b, ok |-> TRUE]]

(* No data to send is no transfer, and no end of one.                      *)
tx_data_is_ok(q, b) == q.cmd[b].size = "none" \/ q.din = None

tx_data(q, b) ==
  CASE q.cmd[b].size = "none" -> q
    [] q.cmd[b].size # "none" /\ q.din = None ->
         [q EXCEPT !.din = b, !.cur_in = b, !.st[b] = "DATA_IN"]
    [] q.cmd[b].size # "none" /\ q.din # None ->
         IF q.st[b] = "DATA_IN_PENDING" THEN q
         ELSE [PushIn(q, b) EXCEPT !.st[b] = "DATA_IN_PENDING"]

rx_data(q, b) ==
  IF q.dout = None
  THEN [q EXCEPT !.dout = b, !.cur_out = b, !.st[b] = "DATA_OUT"]
  ELSE IF q.st[b] = "DATA_OUT_PENDING" THEN q
       ELSE [HoldOut(q, b) EXCEPT !.st[b] = "DATA_OUT_PENDING"]

tx_status(q, b, iu) == [q EXCEPT !.tx = iu, !.cur_status = b]

StopData(q) == [q EXCEPT !.din = None, !.dout = None]

(* ums_uas_send_sense_iu.  A status goes behind those that wait.           *)
Sent(q, b) ==
  [q EXCEPT !.st[b] = "STATUS_SENT",
            !.cmd_proc = IF b < Depth THEN NextEntry(@) ELSE @]

send_sense_iu(p, b, status) ==
  LET code == IF p.cmd[b].ck /\ b < Depth THEN "check" ELSE status
      iu == [what |-> "sense", tag |-> p.cmd[b].tag, code |-> code]
      q == [p EXCEPT !.done[b] = @ \/ code # "good"]
  IN  CASE ~Filled(q.pend) /\ q.tx = NoIU -> Sent(tx_status(q, b, iu), b)
        [] (Filled(q.pend) \/ q.tx # NoIU) /\ q.st[b] = "SENSE_PENDING" ->
             LET i == decrement_index_plus(q.pend.proc)
             IN  [q EXCEPT !.pend.proc = i, !.pend.ok[i] = TRUE]
        [] OTHER -> [q EXCEPT !.st[b] = "SENSE_PENDING", !.iu[b] = iu,
                              !.pend = Append1(@, b)]

(* The list has forgotten the unit by now: when the pipe is busy again, it *)
(* is lost.                                                                *)
retry_send_sense_iu(q, b) ==
  IF q.tx = NoIU THEN Sent(tx_status(q, b, q.iu[b]), b) ELSE q

send_response_iu(q, b, code) ==
  LET iu == [what |-> "response", tag |-> q.cmd[b].tag, code |-> code]
      i == decrement_index_plus(q.resq.proc)
  IN  IF q.tx = NoIU
      THEN [tx_status(q, b, iu) EXCEPT !.dummy[b] = TRUE, !.done[b] = TRUE,
                                       !.st[b] = "STATUS_SENT"]
      ELSE IF q.st[b] = "RESPONSE_PENDING"
           THEN [q EXCEPT !.resq.proc = i, !.resq.ok[i] = TRUE]
           ELSE [q EXCEPT !.st[b] = "RESPONSE_PENDING", !.iu[b] = iu,
                          !.resp = Append1(@, b)]

(* ums_uas_send_rw_ready_iu: at high speed a data phase is announced on    *)
(* the status pipe, one announcement at a time.                            *)
InTurn(q, b) ==
  LET head == Head1(q.pin) IN
  q.st[head] = "READ_READY_PENDING" => head = b

CanAnnounce(q, b) ==
  /\ q.st[b] \in InPhases \cup OutPhases
  /\ ~q.locked /\ q.tx = NoIU
  /\ q.st[b] \in InPhases => InTurn(q, b)

send_rw_ready_iu(q, b) ==
  LET iu == [what |-> IF q.st[b] \in InPhases THEN "read_ready"
                                             ELSE "write_ready",
             tag |-> q.cmd[b].tag, code |-> "none"]
  IN  IF CanAnnounce(q, b)
      THEN [tx_status(q, b, iu) EXCEPT !.locked = TRUE]
      ELSE IF q.st[b] \in InPhases
           THEN [q EXCEPT !.st[b] = "READ_READY_PENDING"]
           ELSE IF q.st[b] \in OutPhases
                THEN [q EXCEPT !.st[b] = "WRITE_READY_PENDING"]
                ELSE q

Announce(q, b) == IF hs THEN send_rw_ready_iu(q, b) ELSE q
MayMove(q, b) == hs => CanAnnounce(q, b)

start_data_xfer(p, b) ==
  LET q == Announce(p, b) IN
  IF MayMove(p, b)
  THEN CASE q.st[b] \in {"DATA_OUT", "DATA_OUT_QUEUED"} -> rx_data(q, b)
         [] q.st[b] \in {"DATA_IN", "DATA_IN_QUEUED"}   -> tx_data(q, b)
         [] OTHER                                       -> q
  ELSE CASE q.st[b] = "WRITE_READY_PENDING" -> HoldOut(q, b)
         [] q.st[b] = "READ_READY_PENDING"  -> PushIn(q, b)
         [] OTHER                           -> q

-----------------------------------------------------------------------------
(* Commands.  The outcome is the SCSI layer's; a command is refused when   *)
(* its slot is busy or there is no medium for it.                          *)
SlotBusy(q, b) == Slot(b) \in q.sact \/ (q.ci # None /\ Slot(q.ci) = Slot(b))

Outcome(q, b) ==
  LET c == q.cmd[b] IN
  IF c.does = "pending" /\ (~medium.ready \/ SlotBusy(q, b)) THEN "error"
  ELSE c.does

Submit(q, b) ==
  IF Queued(q.cmd[b]) THEN [q EXCEPT !.sact = @ \cup {b}, !.begun = @ \ {b}]
  ELSE [q EXCEPT !.ci = b, !.order.buf[q.order.index] = b,
                 !.order.index = increment_index(@)]

RespondIn(p, b) ==
  LET q == Announce(p, b) IN
  IF MayMove(p, b) THEN tx_data(q, b)
  ELSE IF q.st[b] = "READ_READY_PENDING" THEN PushIn(q, b) ELSE q

CancelPhase(q, b) ==
  CASE q.st[b] = "DATA_IN"  -> [q EXCEPT !.din = None]
    [] q.st[b] = "DATA_OUT" -> [q EXCEPT !.dout = None]
    [] OTHER                -> q

Finish(q, b, o) ==
  IF q.st[b] = "DATA_OUT" THEN q
  ELSE send_sense_iu(q, b, IF o = "ok" THEN "good" ELSE "check")

Refused(q, b) == [q EXCEPT !.refused = @ \cup {b}]

issue_scsi_cmd(p, b) ==
  LET o == Outcome(p, b)
      q == [p EXCEPT !.done[b] = (o # "pending")]
  IN  CASE o = "pending"   -> Submit(q, b)
        [] o = "ready"     -> RespondIn(q, b)
        [] o = "ok"        -> Finish(q, b, o)
        [] o = "error"     -> Finish(CancelPhase(Refused(q, b), b), b, o)
        [] o = "ata_error" ->
             [CancelPhase(q, b) EXCEPT !.order.buf[q.order.index] = b,
                                       !.order.index = increment_index(@)]

determine_state(q, b) ==
  LET c == q.cmd[b] IN
  [q EXCEPT !.st[b] =
     CASE c.dir = "out"  -> IF Queued(c) THEN "DATA_OUT_QUEUED" ELSE "DATA_OUT"
       [] c.dir = "in"   -> IF Queued(c) THEN "DATA_IN_QUEUED" ELSE "DATA_IN"
       [] c.dir = "none" -> "SEND_SENSE"
       [] OTHER          -> @]

(* Data out of a command that is no READ or WRITE come before it is issued.*)
ReceiveFirst(p, b) ==
  LET q == Announce(p, b) IN
  IF MayMove(p, b) THEN rx_data(q, b)
  ELSE HoldOut(q, b)

process_cmd(p, b) ==
  LET q == determine_state(p, b) IN
  CASE q.cmd[b].dir = "unknown" -> send_sense_iu(q, b, "check")
    [] q.cmd[b].dir # "unknown" /\ ~medium.ncq /\ q.cmd[b].rw /\ medium.ready ->
         issue_scsi_cmd(IF q.cmd[b].size = "excess" THEN q ELSE start_data_xfer(q, b), b)
    [] q.cmd[b].dir # "unknown" /\ ~(~medium.ncq /\ q.cmd[b].rw /\ medium.ready) ->
         IF q.st[b] = "DATA_OUT" THEN ReceiveFirst(q, b)
                                 ELSE issue_scsi_cmd(q, b)

AtRest(q) == q.sact = {} /\ q.ci = None
Entry(q, k) == q.list[(q.cmd_proc + k) % ListSize]
WaitsAt(q, k) == q.st[Entry(q, k)] \in Waits

StepBack(q) ==
  [q EXCEPT !.cmd_proc = (@ + ListSize - 1) % ListSize, !.back = @ + 1]

(* ums_uas_process_pending_cmds: steps that went back are made good, then   *)
(* the entry at the processing index may start, queued ones together.       *)
CatchUp(q) ==
  LET n == CHOOSE k \in 0 .. q.back : /\ k = q.back \/ WaitsAt(q, k)
                                      /\ \A j \in 0 .. k - 1 : ~WaitsAt(q, j)
  IN  [q EXCEPT !.cmd_proc = (@ + n) % ListSize, !.back = @ - n]

QueuedRun(q) ==
  CHOOSE n \in 1 .. q.waiting :
    /\ \A k \in 0 .. n - 1 : q.st[Entry(q, k)] = "QUEUED_CMD_WAITING"
    /\ IsInjective([k \in 1 .. n |-> Entry(q, k - 1)])
    /\ \/ n = q.waiting
       \/ q.st[Entry(q, n)] # "QUEUED_CMD_WAITING"
       \/ \E k \in 0 .. n - 1 : Entry(q, k) = Entry(q, n)

process_pending_cmds(p) ==
  LET q == CatchUp(p)
      b == Entry(q, 0)
  IN  CASE q.st[b] = "CMD_WAITING" /\ AtRest(q) /\ ~q.nonqueued ->
             LET r == process_cmd([q EXCEPT !.nonqueued = TRUE], b)
             IN  [r EXCEPT !.waiting = @ - 1]
        [] q.st[b] = "QUEUED_CMD_WAITING" /\ ~q.nonqueued ->
             LET n == QueuedRun(q)
             IN  [FoldLeft(process_cmd, q, [k \in 1 .. n |-> Entry(q, k - 1)])
                    EXCEPT !.waiting = @ - n]
        [] q.st[b] \in Waits /\ (q.nonqueued \/ (q.st[b] = "CMD_WAITING"
                                                 /\ ~AtRest(q))) -> StepBack(q)
        [] q.st[b] \notin Waits -> q

ProcessPending(q) == IF q.waiting > 0 THEN process_pending_cmds(q) ELSE q

-----------------------------------------------------------------------------
(* Reception of an information unit.                                       *)
init_queue_depth(q) ==
  LET free == SetToSortSeq({b \in 0 .. Depth - 1 : q.st[b] # "RX_CMD"}, <)
  IN  [q EXCEPT
         !.st = [b \in Buffers |-> IF @[b] = "RX_CMD" THEN "RX_CMD" ELSE "IDLE"],
         !.free = [EmptyList EXCEPT
                     !.buf = [i \in 0 .. Slots - 1 |->
                                IF i < Len(free) THEN free[i + 1] ELSE 0],
                     !.ok = [i \in 0 .. Slots - 1 |-> i < Len(free)],
                     !.index = Len(free)]]

idle(p) ==
  LET q == init_queue_depth(p) IN
  IF q.rx THEN q
  ELSE rx_command([q EXCEPT !.free = get_cmd_index(@),
                            !.cur = Head1(q.free)], Head1(q.free))

soft_reset(p, depth) ==
  LET q == [StopData(p) EXCEPT
              !.pend = EmptyList, !.pin = EmptyList,
              !.pout = [buf |-> 0, ok |-> FALSE],
              !.use = [t \in Tags |-> 0],
              !.done = [b \in Buffers |-> FALSE],
              !.order = EmptyList, !.locked = FALSE, !.nonqueued = FALSE,
              !.waiting = 0, !.cmd_in = 0, !.cmd_proc = 0, !.back = 0,
              !.cur_in = 0, !.cur_out = 0]
  IN  IF depth THEN init_queue_depth(q) ELSE q

reset(p) ==
  LET q == soft_reset([p EXCEPT !.st = [b \in Buffers |-> "IDLE"],
                                !.resp = EmptyList, !.rx = FALSE,
                                !.tx = NoIU], FALSE)
  IN  IF medium.ready THEN idle(q) ELSE q

(* ahci_reset_lun empties the callback queue and leaves an error behind.    *)
reset_lun(q) ==
  IF medium.ready
  THEN [q EXCEPT !.sact = {}, !.ci = None,
                 !.cb = <<[kind |-> "error", slot |-> None]>>]
  ELSE q

(* Mutant: a command that is not queued does not wait for queued ones.      *)
HandleCommandAtOnce(p, b) ==
  LET c == p.cmd[b] IN
  IF ~c.lun THEN send_sense_iu(p, b, "check")
  ELSE IF p.waiting = 0 /\ ~p.nonqueued
       THEN process_cmd([p EXCEPT !.nonqueued = ~Queued(c)], b)
       ELSE [p EXCEPT !.waiting = @ + 1,
                      !.st[b] = IF Queued(c) THEN "QUEUED_CMD_WAITING"
                                             ELSE "CMD_WAITING"]

handle_command_iu(p, b) ==
  LET c == p.cmd[b]
      q == [p EXCEPT !.waiting = @ + 1]
  IN  IF ~c.lun THEN send_sense_iu(p, b, "check")
      ELSE IF Queued(c)
      THEN IF p.waiting = 0 /\ ~p.nonqueued /\ b \notin p.sact
           THEN process_cmd(p, b)
           ELSE [q EXCEPT !.st[b] = "QUEUED_CMD_WAITING"]
      ELSE IF p.waiting = 0 /\ ~p.nonqueued /\ AtRest(p)
           THEN process_cmd([p EXCEPT !.nonqueued = TRUE], b)
           ELSE [q EXCEPT !.st[b] = "CMD_WAITING"]

Forget(q, c) ==
  [q EXCEPT !.st[c] = "IDLE", !.waiting = IF @ > 0 THEN @ - 1 ELSE 0]

Counted(q, t) == [q EXCEPT !.use[t] = @ + 1]

handle_task_mgmt_iu(p, b) ==
  LET c == p.cmd[b]
      found == find_cmd_index(p, c.target, None)
      task == CHOOSE x \in found : \A y \in found : x <= y
  IN  CASE ~c.lun -> send_response_iu(p, b, "incorrect_lun")
        [] c.lun /\ c.what = "reset" ->
             send_response_iu(Counted(soft_reset(reset_lun(p), TRUE), c.tag),
                              b, "complete")
        [] c.lun /\ c.what = "abort" ->
             IF found # {} /\ p.st[task] \in NotStarted
             THEN Forget(send_response_iu([p EXCEPT !.st[task] = "IDLE"], b,
                                          "complete"), task)
             ELSE send_response_iu(p, b, "failed")
        [] c.lun /\ c.what = "query" -> send_response_iu(p, b, "failed")
        [] OTHER -> send_response_iu(p, b, "not_supported")

Overlapped(p, b) ==
  LET found == find_cmd_index(p, p.cmd[b].tag, b)
      other == CHOOSE x \in found : \A y \in found : x <= y
  IN  IF p.cmd[b].what = "command" /\ p.cmd[other].what = "command"
      THEN send_sense_iu(p, b, "check")
      ELSE send_response_iu(
             Counted(soft_reset(reset_lun(p), TRUE), p.cmd[b].tag),
             b, "overlapped")

process_iu(p, b) ==
  LET c == p.cmd[b]
      q == [p EXCEPT !.list[p.cmd_in] = b, !.cmd_in = NextEntry(@)]
      n == Counted(q, c.tag)
  IN  CASE c.what = "invalid" -> send_response_iu(q, b, "invalid")
        [] c.what # "invalid" /\ q.use[c.tag] > 0
             /\ find_cmd_index(q, c.tag, b) # {} -> Overlapped(n, b)
        [] OTHER -> IF c.what = "command" THEN handle_command_iu(n, b)
                                          ELSE handle_task_mgmt_iu(n, b)

(* A unit in an overflow buffer moves to a free one if there is one by now. *)
Place(p) ==
  IF p.cur >= Depth /\ Filled(p.free)
  THEN LET b == Head1(p.free) IN
       [p EXCEPT !.free = get_cmd_index(@), !.cur = b, !.cmd[b] = p.cmd[p.cur],
                 !.dummy[b] = FALSE, !.st[p.cur] = "IDLE",
                 !.cmd[p.cur] = Nothing]
  ELSE p

Rearm(q) ==
  CASE Filled(q.free) ->
         rx_command([q EXCEPT !.free = get_cmd_index(@), !.cur = Head1(q.free)],
                    Head1(q.free))
    [] ~Filled(q.free) /\ OverflowBuffers(q) # {} ->
         LET b == find_empty_cmd_overflow_buffer_index(q)
         IN  rx_command([q EXCEPT !.cur = b], b)
    [] OTHER -> q

command_pipe_callback(p) ==
  LET q == Place(p)
      b == q.cur
      r == Rearm([q EXCEPT !.st[b] = "CMD_RECEIVED"])
  IN  IF b < Depth THEN process_iu(r, b)
      ELSE send_sense_iu([r EXCEPT !.dummy[b] = TRUE], b, "full")

-----------------------------------------------------------------------------
(* The other three pipes.                                                  *)
RwCommand(q, b) == q.cmd[b].rw /\ ~q.dummy[b]

(* What an idle buffer holds is not looked at.                             *)
Cleared(q, b) ==
  [q EXCEPT !.cmd[b] = Nothing, !.iu[b] = NoIU, !.dummy[b] = FALSE,
            !.done[b] = FALSE, !.moved = @ \ {b}, !.failed = @ \ {b},
            !.refused = @ \ {b}, !.st[b] = "IDLE"]

Release(q) ==
  LET b == q.cur_status
      r == IF q.dummy[b] THEN q
           ELSE [q EXCEPT !.locked = FALSE,
                          !.nonqueued = @ /\ RwCommand(q, b) /\ medium.ncq]
      t == q.cmd[b].tag
  IN  IF ~q.done[b] THEN r
      ELSE IF b >= Depth THEN Cleared(r, b)
      ELSE [Cleared(r, b) EXCEPT !.use[t] = IF @ > 0 THEN @ - 1 ELSE 0,
                                 !.free = ReturnBuffer(@, b)]

SendWriteReady(q) ==
  LET b == q.pout.buf
      r == send_rw_ready_iu(q, b)
      x == rx_data(r, b)
  IN  IF ~CanAnnounce(q, b) THEN r
      ELSE IF r.dout = None THEN [x EXCEPT !.pout.ok = FALSE] ELSE x

SendReadReady(q) ==
  LET b == Head1(q.pin)
      r == send_rw_ready_iu(q, b)
      w == [r EXCEPT !.st[b] = "DATA_IN_PENDING"]
      x == tx_data(w, b)
  IN  IF ~CanAnnounce(q, b) THEN r
      ELSE IF tx_data_is_ok(r, b) THEN PopIn(x) ELSE x

status_pipe_callback(p) ==
  LET q == IF p.st[p.cur_status] = "STATUS_SENT"
           THEN ProcessPending(Release(p)) ELSE p
  IN  IF Filled(q.pend)
      THEN retry_send_sense_iu([q EXCEPT !.pend = get_cmd_index_plus(@)],
                               Head1(q.pend))
      ELSE IF Filled(q.resp)
      THEN send_response_iu([q EXCEPT !.resp = get_cmd_index_plus(@)],
                            Head1(q.resp), q.iu[Head1(q.resp)].code)
      ELSE IF hs /\ ~q.locked
      THEN IF q.pout.ok /\ q.st[q.pout.buf] = "WRITE_READY_PENDING"
           THEN SendWriteReady(q)
           ELSE IF q.st[Head1(q.pin)] = "READ_READY_PENDING"
                THEN SendReadReady(q) ELSE q
      ELSE q

(* Mutant: status is sent without asking the disk's side.                   *)
AfterDataHasty(q, b) == send_sense_iu(q, b, "good")

AfterData(q, b) ==
  IF q.done[b] THEN send_sense_iu(q, b, "good")
  ELSE [q EXCEPT !.st[b] = "SEND_SENSE"]

data_OUT_pipe_callback(p) ==
  LET b == p.cur_out
      i == IF RwCommand(p, b) THEN p ELSE issue_scsi_cmd(p, b)
      q == IF p.st[b] = "DATA_OUT" THEN AfterData(i, b) ELSE p
      x == rx_data(q, q.pout.buf)
  IN  IF q.pout.ok /\ q.st[q.pout.buf] = "DATA_OUT_PENDING"
      THEN IF q.dout = None THEN [x EXCEPT !.pout.ok = FALSE] ELSE x
      ELSE q

data_IN_pipe_callback(p) ==
  LET b == p.cur_in
      q == IF p.st[b] = "DATA_IN" THEN AfterData(p, b) ELSE p
      x == tx_data(q, Head1(q.pin))
  IN  IF Filled(q.pin) /\ q.st[Head1(q.pin)] = "DATA_IN_PENDING"
      THEN IF tx_data_is_ok(q, Head1(q.pin)) THEN PopIn(x) ELSE x
      ELSE q

-----------------------------------------------------------------------------
(* Callbacks of the ATA layer.                                             *)
Pop(q) == [q EXCEPT !.order.proc = increment_index(@)]

ata_error_callback(p) ==
  LET b == p.order.buf[p.order.proc] IN
  IF p.st[b] = "IDLE" THEN p
  ELSE send_sense_iu(StopData(Pop(p)), b, "check")

(* Mutant: the data phase is not waited for.                                *)
CompletedEarly(q, b) ==
  IF q.st[b] \in {"IDLE", "STATUS_SENT"} THEN q
  ELSE send_sense_iu([q EXCEPT !.done[b] = TRUE], b, "good")

Completed(q, b) ==
  CASE q.st[b] = "SEND_SENSE" ->
         send_sense_iu([q EXCEPT !.done[b] = TRUE], b, "good")
    [] q.st[b] \in {"DATA_IN", "DATA_IN_PENDING", "DATA_OUT",
                    "READ_READY_PENDING"} -> [q EXCEPT !.done[b] = TRUE]
    [] OTHER -> q

AnswerIn(p, b) ==
  IF MayMove(p, b) THEN tx_data(Announce(p, b), b) ELSE Announce(p, b)

Answered(p) ==
  LET b == p.order.buf[p.order.proc]
      q == [Pop(p) EXCEPT !.done[b] = TRUE]
  IN  CASE p.st[b] = "SEND_SENSE" -> send_sense_iu(q, b, "good")
        [] p.st[b] = "DATA_IN" /\ ~RwCommand(q, b) -> AnswerIn(q, b)
        [] OTHER -> q

ata_cmd_callback(p, slot) ==
  LET b == p.order.buf[p.order.proc] IN
  CASE slot # None -> ProcessPending(Completed(p, slot))
    [] slot = None /\ p.st[b] = "IDLE" ->
         IF p.order.proc < p.order.index THEN Pop(p) ELSE p
    [] slot = None /\ p.st[b] # "IDLE" -> ProcessPending(Answered(p))

(* At high speed the command whose data phase came before this one is done. *)
Superseded(q, b) == q.st[b] = "SEND_SENSE" /\ RwCommand(q, b)

ata_queued_cmd_callback(q, b) ==
  LET ended == CASE hs /\ Superseded(q, q.cur_in) -> {q.cur_in}
                 [] hs /\ ~Superseded(q, q.cur_in) /\ Superseded(q, q.cur_out)
                      -> {q.cur_out}
                 [] OTHER -> {}
      r == IF ended = {} THEN q
           ELSE LET x == CHOOSE x \in ended : TRUE
                IN  send_sense_iu([q EXCEPT !.done[x] = TRUE], x, "good")
  IN  start_data_xfer(r, b)

-----------------------------------------------------------------------------
(* The disk.                                                               *)
Room == Len(u.cb) < Backlog

Later(q, kind, b) == [q EXCEPT !.cb = Append(@, [kind |-> kind, slot |-> b])]

DataOver(b) == u.cmd[b].dir = "out" => b \in u.moved

(* It begins a data phase when it has taken all of the one before.         *)
DmaSetup ==
  \E b \in u.sact \ u.begun :
    /\ Room /\ \A x \in u.begun \cap u.sact : DataOver(x)
    /\ u' = Later([u EXCEPT !.begun = @ \cup {b}], "setup", b)
    /\ UNCHANGED <<host, odd, hs, medium, build>>

SetDeviceBits ==
  \E b \in u.sact \cap u.begun :
    /\ Room /\ DataOver(b)
    /\ u' = Later([u EXCEPT !.sact = @ \ {b}, !.begun = @ \ {b}], "bits", b)
    /\ UNCHANGED <<host, odd, hs, medium, build>>

Answer ==
  /\ Room /\ u.ci # None
  /\ u.cmd[u.ci].rw => DataOver(u.ci)
  /\ u' = Later([u EXCEPT !.ci = None], "answer", None)
  /\ UNCHANGED <<host, odd, hs, medium, build>>

(* An error ends the command that is not queued, or all that are.           *)
Struck ==
  CASE u.ci # None -> {u.ci}
    [] u.ci = None /\ "queued" \in Faults -> u.sact
    [] OTHER -> {}

Fault ==
  /\ Room /\ Faults # {} /\ Struck # {}
  /\ u' = Later([u EXCEPT !.failed = @ \cup Struck, !.ci = None,
                          !.sact = @ \ Struck], "error", None)
  /\ UNCHANGED <<host, odd, hs, medium, build>>

ServeCallback ==
  /\ u.cb # <<>>
  /\ LET c == Head(u.cb)
         q == [u EXCEPT !.cb = Tail(@)]
     IN  u' = CASE c.kind = "setup"  -> ata_queued_cmd_callback(q, c.slot)
                [] c.kind = "bits"   -> ata_cmd_callback(q, c.slot)
                [] c.kind = "answer" -> ata_cmd_callback(q, None)
                [] c.kind = "error"  -> ata_error_callback(q)
  /\ UNCHANGED <<host, odd, hs, medium, build>>

-----------------------------------------------------------------------------
(* The host.  Whether a tag waits, and whether its data phase has been      *)
(* announced.                                                              *)
Idle == [waits |-> FALSE, ready |-> FALSE]

Received(c) ==
  LET b == Place(u).cur
      q == [u EXCEPT !.rx = FALSE, !.cmd[u.cur] = c, !.dummy[u.cur] = FALSE]
  IN  command_pipe_callback([q EXCEPT !.moved = @ \ {b}, !.failed = @ \ {b},
                                      !.refused = @ \ {b}])

HostSends ==
  \E c \in Offers :
    /\ u.rx /\ (~host[c.tag].waits \/ Hasty)
    /\ Hasty \/ LET b == Place(u).cur IN
         b \notin u.sact /\ \A i \in DOMAIN u.cb : u.cb[i].slot # b
    /\ u' = Received(c)
    /\ host' = [host EXCEPT ![c.tag] = [waits |-> TRUE, ready |-> FALSE]]
    /\ UNCHANGED <<odd, hs, medium, build>>

(* What a status ends: its own tag, and what a task management request took *)
(* away.                                                                   *)
Ended ==
  LET c == u.cmd[u.cur_status] IN
  IF u.tx.what \notin {"sense", "response"} THEN {}
  ELSE {u.tx.tag} \cup
       (IF u.tx.code # "complete" THEN {}
        ELSE IF c.what = "abort" THEN {c.target} ELSE Tags)

HostReadsStatus ==
  /\ u.tx # NoIU
  /\ Hasty \/ \A i \in DOMAIN u.cb : u.cb[i].slot # u.cur_status
  /\ u' = status_pipe_callback([u EXCEPT !.tx = NoIU])
  /\ host' = [t \in Tags |->
       CASE t \in Ended -> Idle
         [] t = u.tx.tag /\ t \notin Ended -> [host[t] EXCEPT !.ready = TRUE]
         [] OTHER -> host[t]]
  /\ odd' = (odd \/ ~host[u.tx.tag].waits)
  /\ UNCHANGED <<hs, medium, build>>

Primed(b) == hs => host[u.cmd[b].tag].ready

HostReadsData ==
  /\ u.din # None /\ Primed(u.din) /\ u.din \notin u.failed \cup u.refused
  /\ u' = data_IN_pipe_callback([u EXCEPT !.moved = @ \cup {u.din},
                                          !.din = None])
  /\ UNCHANGED <<host, odd, hs, medium, build>>

HostSendsData ==
  /\ u.dout # None /\ Primed(u.dout) /\ u.dout \notin u.failed \cup u.refused
  /\ u' = data_OUT_pipe_callback([u EXCEPT !.moved = @ \cup {u.dout},
                                           !.dout = None])
  /\ UNCHANGED <<host, odd, hs, medium, build>>

SetInterface ==
  /\ Hasty \/ (AtRest(u) /\ u.cb = <<>>)
  /\ u' = reset(u)
  /\ host' = [t \in Tags |-> Idle]
  /\ UNCHANGED <<odd, hs, medium, build>>

(* Discovery has published a medium: ums_uas_idle is called back.           *)
MediumFound ==
  /\ Hasty \/ (AtRest(u) /\ u.cb = <<>> /\ \A t \in Tags : ~host[t].waits)
  /\ u' = idle(u)
  /\ UNCHANGED <<host, odd, hs, medium, build>>

-----------------------------------------------------------------------------
Blank ==
  [st |-> [b \in Buffers |-> "IDLE"], cmd |-> [b \in Buffers |-> Nothing],
   dummy |-> [b \in Buffers |-> FALSE], done |-> [b \in Buffers |-> FALSE],
   iu |-> [b \in Buffers |-> NoIU], free |-> EmptyList, pend |-> EmptyList,
   resp |-> EmptyList, order |-> EmptyList, pin |-> EmptyList,
   pout |-> [buf |-> 0, ok |-> FALSE], list |-> [i \in 0 .. ListSize - 1 |-> 0],
   cmd_in |-> 0, cmd_proc |-> 0, back |-> 0, use |-> [t \in Tags |-> 0],
   waiting |-> 0, nonqueued |-> FALSE, locked |-> FALSE, cur |-> 0,
   cur_in |-> 0, cur_out |-> 0, cur_status |-> 0, rx |-> FALSE, tx |-> NoIU,
   din |-> None, dout |-> None, sact |-> {}, ci |-> None, cb |-> <<>>,
   begun |-> {}, moved |-> {}, failed |-> {}, refused |-> {}]

Init ==
  /\ hs \in BOOLEAN /\ medium \in Media /\ build \in Builds
  /\ u = idle(Blank)
  /\ host = [t \in Tags |-> Idle] /\ odd = FALSE

Next ==
  \/ DmaSetup \/ SetDeviceBits \/ Answer \/ Fault
  \/ ServeCallback \/ HostSends \/ HostReadsStatus \/ HostReadsData
  \/ HostSendsData \/ SetInterface \/ MediumFound

(* The disk goes on with what it has, callbacks are served, and the host   *)
(* reads what is offered and sends what is asked for.                      *)
Spec ==
  /\ Init /\ [][Next]_vars
  /\ WF_vars(DmaSetup \/ SetDeviceBits \/ Answer) /\ WF_vars(ServeCallback)
  /\ WF_vars(HostReadsStatus) /\ WF_vars(HostReadsData)
  /\ WF_vars(HostSendsData)

-----------------------------------------------------------------------------
TypeOK ==
  /\ hs \in BOOLEAN /\ odd \in BOOLEAN /\ medium \in Media /\ build \in Builds
  /\ DOMAIN host = Tags
  /\ u.st \in [Buffers -> States] /\ u.cmd \in [Buffers -> Unit]
  /\ {u.cmd_in, u.cmd_proc} \subseteq 0 .. ListSize - 1 /\ u.waiting \in Nat
  /\ {u.ci, u.din, u.dout} \subseteq 0 .. None
  /\ UNION {u.sact, u.begun, u.moved, u.failed, u.refused} \subseteq Buffers

(* GOOD is put on the status pipe only for a command that was carried out:  *)
(* its data phase is over and the disk neither holds nor has failed it.  At *)
(* high speed the code deliberately takes the next DMA SETUP for the end of *)
(* a queued command (ums_uas.c:976).  The one command that gets GOOD        *)
(* without having been carried out is one with data out, not a WRITE, that  *)
(* the SCSI layer refuses once it has them (ums_uas.c:2498-2508).           *)
GoodMeansDone ==
  u.tx.what = "sense" /\ u.tx.code = "good" =>
    LET b == u.cur_status IN
    /\ b \notin u.failed /\ u.ci # b
    /\ b \in u.refused => ~u.cmd[b].rw /\ u.cmd[b].dir = "out"
    /\ b \in u.sact => hs
    /\ u.cmd[b].dir \in {"in", "out"} => b \in u.moved

(* What the SCSI layer refuses is not reported as done ("Send status.       *)
(* Sense data should be populated by SCSI module.  Status for               *)
(* UMS_UAS_STATE_DATA_OUT will be sent in Data OUT pipe callback",          *)
(* ums_uas.c:1170-1171).                                                    *)
RefusedNotGood ==
  u.tx.what = "sense" /\ u.tx.code = "good" => u.cur_status \notin u.refused

(* A queued command and one that is not are never with the disk together:   *)
(* the disk would abort the whole queue (gNonQueuedCmdInProgress and the     *)
(* waiting list keep them apart).                                           *)
NotMixed == medium.ncq => (u.ci = None \/ u.sact = {})

(* Each unit that the host waits for lies in exactly one buffer that is in  *)
(* use, and no status comes for another: no command is lost, answered twice *)
(* or overwritten by the next one received.                                 *)
OneBufferEach ==
  /\ ~odd
  /\ \A t \in Tags : host[t].waits =>
       Cardinality({b \in Buffers : u.st[b] \notin NotInUse
                                  /\ u.cmd[b].tag = t}) = 1

(* A command that the SCSI layer refuses gets its status ("Status for        *)
(* UMS_UAS_STATE_DATA_OUT will be sent in Data OUT pipe callback",           *)
(* ums_uas.c:1171).                                                         *)
RefusedIsAnswered ==
  \A b \in Buffers :
    (b \in u.refused /\ u.st[b] \notin NotInUse)
      ~> u.st[b] \in NotInUse \cup {"STATUS_SENT"}
=============================================================================
