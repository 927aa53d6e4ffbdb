---------------------------- MODULE BotTransport ----------------------------
(***************************************************************************)
(* The USB Bulk-Only Transport of ums_bot.c between a host that follows    *)
(* the Bulk-Only specification and an ATA disk: the thirteen cases, the    *)
(* stalls, the wrap-window transfers that run beside the SATA command, and *)
(* the order in which USB events, ATA callbacks and resets arrive.         *)
(*                                                                         *)
(* Handlers are operators from transport to transport, named after the     *)
(* functions of ums_bot.c and nested as these call each other; an action   *)
(* applies one to the variable t.  The USB interrupt and the foreground    *)
(* exclude each other, so a handler is one step; the wire is not: an event *)
(* waits in the event buffer while other handlers run.                     *)
(*                                                                         *)
(* Transfers are counted in units of a whole number of packets.            *)
(***************************************************************************)
EXTENDS Integers, Sequences

CONSTANTS
  Units,     \* bound: longest data phase
  Backlog    \* bound: callbacks that wait when the host sends a command

ASSUME BotAssumption == Units \in Nat \ {0} /\ Backlog \in Nat

VARIABLES
  t,       \* the transport and its two bulk endpoints
  events,  \* USB event buffer: transfers complete on the wire
  ata,     \* command slot 0: none, mine (the command in hand), old
  cb,      \* callbacks queued for the foreground: error, or an answer: ok,
           \* bad, or late (one of these to an earlier command)
  ready,   \* bDeviceInitComplete
  h,       \* the host
  done,    \* history: what the disk did with the command in hand
  stale    \* history: something of a command has acted after its end

vars == <<t, events, ata, cb, ready, h, done, stale>>

Least(a, b) == IF a <= b THEN a ELSE b

(* A command block wrapper: dir and len are the host's expectation, intent *)
(* and want what the SCSI command says.  want counts for READ and WRITE    *)
(* only; zero stands for a length over the limit, too.  CaseOf is          *)
(* ums_bot_validate_case: zero when the expectations agree so far.  When   *)
(* they do not, the code looks at neither the opcode nor the length, and   *)
(* one value of rw, want and check stands for all.                         *)
CaseOf(c) ==
  CASE c.len = 0    -> IF c.intent = "in" THEN 2
                       ELSE IF c.intent = "out" THEN 3 ELSE 0
    [] c.len > 0 /\ c.dir = "in"  ->
                       IF c.intent = "out" THEN 8
                       ELSE IF c.intent = "none" THEN 4 ELSE 0
    [] c.len > 0 /\ c.dir = "out" ->
                       IF c.intent = "in" THEN 10
                       ELSE IF c.intent = "none" THEN 9 ELSE 0

CBWs ==
  {c \in [dir : {"in", "out"}, len : 0 .. Units, intent : {"in", "out", "none"},
          rw : BOOLEAN, want : 0 .. Units, check : BOOLEAN] :
     /\ c.rw => c.intent # "none" /\ ~c.check
     /\ ~c.rw => c.want = 0
     /\ c.len = 0 => c.dir = "out"
     /\ CaseOf(c) # 0 => ~c.rw /\ ~c.check}

Blank == CHOOSE c \in CBWs : c.len = 0 /\ c.intent = "none" /\ ~c.check

Free == [active |-> FALSE, hw |-> FALSE, what |-> "none", n |-> 0,
         wrap |-> FALSE, stalled |-> FALSE]

-----------------------------------------------------------------------------
(* usb_hal.c: one transfer per endpoint.  active is the software's flag,   *)
(* hw says that the controller owns the descriptor.                        *)
Request(ep, what, n) ==
  IF ep.active THEN ep
  ELSE [ep EXCEPT !.active = TRUE, !.hw = TRUE, !.what = what, !.n = n,
                  !.wrap = (what = "window")]

Released(ep) == [ep EXCEPT !.hw = FALSE, !.what = "none", !.n = 0]

Cancel(ep) ==
  IF ep.active THEN [Released(ep) EXCEPT !.active = FALSE] ELSE ep

SetStall(ep) ==
  [(IF ep.wrap THEN Cancel(ep) ELSE ep) EXCEPT !.stalled = TRUE]

Rx(q, what, n) ==
  IF n = 0 THEN q ELSE [q EXCEPT !.out = Request(@, what, n)]

Stall(q, dir) ==
  IF dir = "in" THEN [q EXCEPT !.in = SetStall(@)]
                ELSE [q EXCEPT !.out = SetStall(@)]

CancelIn(q) == [q EXCEPT !.in = Cancel(@)]

CancelUnfinished(q, stall) ==
  LET c == [q EXCEPT !.out = Cancel(@)] IN
  IF stall THEN Stall(c, "out") ELSE c

(* A transfer that is complete on the wire is only marked inactive, so     *)
(* that its event will be ignored; only an unfinished one is stalled.      *)
CancelOutOnly(q, stall) ==               \* mutant: a finished one is left
  IF q.state = "DATA_OUT" /\ q.out.active /\ q.out.hw
  THEN CancelUnfinished(q, stall) ELSE q
CancelOut(q, stall) ==
  IF ~(q.state = "DATA_OUT" /\ q.out.active) THEN q
  ELSE IF q.out.hw THEN CancelUnfinished(q, stall)
       ELSE [q EXCEPT !.out.active = FALSE]

Cleanup(q, stall) ==
  LET c == CancelIn(CancelOut(q, stall)) IN
  IF stall /\ q.state = "DATA_IN" THEN Stall(c, "in") ELSE c

(* ums_bot_send_CSW                                                        *)
FlatResidue(q) == q.residue              \* mutant: the cases are forgotten
Residue(q) ==
  CASE q.case \in {5, 11} -> q.cbw.len - q.actual
    [] q.case = 9         -> q.cbw.len
    [] OTHER              -> q.residue

SendCSW(q, status) ==
  IF q.state \in {"SEND_CSW", "ERROR"} THEN q
  ELSE [q EXCEPT !.status = IF q.check THEN "failed" ELSE status,
                 !.residue = Residue(q),
                 !.state = IF status = "phase" THEN "ERROR" ELSE "SEND_CSW",
                 !.in = Request(@, "csw", 1)]

(* ums_bot_case_handler; discarded data come in pieces of one unit.        *)
UnstalledCase(q, n) ==                   \* mutant: no stall
  SendCSW(q, IF n \in {4, 5} THEN "passed" ELSE "phase")
CaseHandler(q, n) ==
  CASE n \in {2, 3, 7, 8} -> SendCSW(Stall(q, "in"), "phase")
    [] n \in {4, 5}       -> SendCSW(Stall(q, "in"), "passed")
    [] n = 9              -> Rx([q EXCEPT !.case = 9, !.state = "DATA_OUT",
                                          !.actual = q.cbw.len], "discard", 1)
    [] n = 11             -> [q EXCEPT !.case = 11]
    [] n \in {10, 13}     -> SendCSW(Stall(q, "out"), "phase")
    [] OTHER              -> q

Tx(q, what, n) ==
  IF n = 0 THEN CaseHandler(q, 4) ELSE [q EXCEPT !.in = Request(@, what, n)]

Idle(q) ==
  Rx([q EXCEPT !.state = "IDLE", !.case = 0, !.usb = FALSE, !.sata = FALSE,
               !.check = FALSE], "cbw", 1)

Reset(q) == Idle([Cleanup(q, FALSE) EXCEPT !.persistent = FALSE])

-----------------------------------------------------------------------------
(* The command.  An outcome o of scsi_command_handler comes with the       *)
(* number k of units a response has.                                       *)
DetermineState(q) ==
  [q EXCEPT !.state = CASE q.cbw.intent = "in"   -> "DATA_IN"
                        [] q.cbw.intent = "out"  -> "DATA_OUT"
                        [] q.cbw.intent = "none" -> "CSW_PENDING"]

SetLength(q, n) ==
  IF n <= q.cbw.len THEN [q EXCEPT !.actual = n]
  ELSE [q EXCEPT !.case = IF q.state = "DATA_OUT" THEN 13 ELSE 7,
                 !.actual = q.cbw.len]

MarkShort(q) ==
  IF q.state = "DATA_IN" /\ q.actual < q.cbw.len
  THEN [q EXCEPT !.case = 5] ELSE q

(* ums_bot_issue_scsi_cmd                                                  *)
Issue(q, o, k) ==
  CASE o = "pending"   -> [q EXCEPT !.rw_pending = q.cbw.rw]
    [] o = "ready"     -> LET r == MarkShort(SetLength(q, k)) IN
                          Tx([r EXCEPT !.sata = TRUE], "data", r.actual)
    [] o = "ok"        -> SendCSW(q, "passed")
    [] o = "error"     -> SendCSW(Cleanup(q, TRUE), "failed")
    [] o = "ata_error" -> Cleanup(q, TRUE)
    [] o = "none"      -> q

ProcessWrite(q, o) ==
  LET n == SetLength(q, q.cbw.want)
      c == IF q.cbw.want = 0 THEN CaseHandler(n, 9)
           ELSE IF n.actual < q.cbw.len THEN CaseHandler(n, 11) ELSE n
      i == Issue(c, o, 0)
  IN  IF o = "pending" THEN Rx(i, "window", i.actual) ELSE Stall(i, "out")

ProcessRead(q, o) ==
  LET n == SetLength(q, q.cbw.want)
      i == Issue(MarkShort(n), o, 0)
  IN  IF n.actual = 0 THEN CaseHandler(n, 4)
      ELSE IF o = "pending" THEN Tx(i, "window", i.actual) ELSE i

(* A non-RW command that receives data is issued when they have come.      *)
ProcessOther(q, o, k) ==
  LET c == [q EXCEPT !.check = q.cbw.check] IN
  IF q.state = "DATA_OUT" THEN Rx(c, "data", c.actual) ELSE Issue(c, o, k)

ProcessCBW(p, o, k) ==
  LET q == DetermineState([p EXCEPT !.residue = p.cbw.len])
      v == [q EXCEPT !.actual = q.cbw.len]
  IN  CASE CaseOf(q.cbw) # 0             -> CaseHandler(q, CaseOf(q.cbw))
        [] CaseOf(q.cbw) = 0 /\ ~q.cbw.rw -> ProcessOther(v, o, k)
        [] CaseOf(q.cbw) = 0 /\ q.cbw.rw  ->
             IF q.state = "DATA_OUT" THEN ProcessWrite(v, o)
                                     ELSE ProcessRead(v, o)

(* Does this CBW reach scsi_command_handler before any data have come?     *)
IssuedAtOnce(c) ==
  /\ CaseOf(c) = 0
  /\ IF c.rw THEN c.intent = "out" \/ c.want > 0 ELSE c.intent # "out"

(* What the SCSI layer may answer: an error at any time (this stands for   *)
(* the 64 KB limit, too, which has the same effect); a command to the disk *)
(* when there is one and its slot is free.                                 *)
Outcomes(c) ==
  {o \in {"error", "pending", "ready", "ok", "ata_error"} :
     /\ o = "pending"   => ready /\ ata = "none" /\ (c.rw => c.want > 0)
     /\ o = "ready"     => ~c.rw /\ c.intent = "in"
     /\ o = "ok"        => ~c.rw /\ c.intent # "in"
     /\ o = "ata_error" => ~c.rw /\ c.intent = "none" /\ ~c.check}

(* A refused submission may have recovered the port on the spot, without a *)
(* callback; a self test that finds a device fault queues none either.     *)
AfterOutcome(o) ==
  /\ ata' = IF o = "pending" THEN "mine" ELSE ata
  /\ ready' \in IF o = "error" THEN {ready, FALSE} ELSE {ready}
  /\ done' = IF o = "ata_error" THEN "fault" ELSE done
  /\ UNCHANGED cb

-----------------------------------------------------------------------------
(* The callbacks of the USB stack and of the AHCI block.                   *)
InvalidState(q) ==
  [SendCSW(Stall(Stall(q, "in"), "out"), "phase") EXCEPT !.odd = TRUE]

(* With no residue left, is the command still to be issued?                *)
IssuedWithData(q, n) ==
  /\ q.state = "DATA_OUT" /\ q.residue = n
  /\ q.case \notin {9, 13} /\ ~q.cbw.rw

PassAtOnce(q) == SendCSW(q, "passed")    \* mutant: the disk is not awaited
PassWhenWritten(q) ==
  IF q.sata THEN SendCSW(q, "passed") ELSE [q EXCEPT !.usb = TRUE]

OutCallback(q, n, o, k) ==
  CASE q.state = "IDLE" ->
         IF q.valid THEN ProcessCBW(q, o, k)
         ELSE [Stall(Stall(q, "in"), "out") EXCEPT !.persistent = TRUE]
    [] q.state = "DATA_OUT" ->
         LET r == [q EXCEPT !.residue = @ - n] IN
         IF r.residue # 0 THEN Rx(r, "discard", 1)
         ELSE IF r.case = 13 THEN CaseHandler(r, 13)
         ELSE IF r.case = 9 THEN SendCSW(r, "passed")
         ELSE PassWhenWritten(IF r.cbw.rw THEN r ELSE Issue(r, o, k))
    [] q.state \notin {"IDLE", "DATA_OUT"} -> InvalidState(q)

InCallback(q, n) ==
  CASE q.state \in {"SEND_CSW", "ERROR"} -> Idle(q)
    [] q.state = "DATA_IN" ->
         LET r == [q EXCEPT !.residue = @ - n] IN
         IF r.residue # 0 THEN CaseHandler(r, 5)
         ELSE IF r.case = 7 THEN CaseHandler(r, 7)
         ELSE IF r.sata THEN SendCSW(r, "passed")
         ELSE [r EXCEPT !.usb = TRUE]
    [] q.state \notin {"SEND_CSW", "ERROR", "DATA_IN"} -> InvalidState(q)

SilentError(q) ==                        \* mutant: no CSW before data
  IF q.state \in {"DATA_IN", "DATA_OUT"}
  THEN SendCSW(Cleanup(q, TRUE), "failed") ELSE q
ErrorCallback(q) ==
  IF q.state \in {"DATA_IN", "DATA_OUT", "CSW_PENDING"}
  THEN SendCSW(Cleanup(q, TRUE), "failed")
  ELSE q

(* k: units the disk has left in normal_data_buffer.                       *)
CommandCallback(q, ok, k) ==
  IF q.actual = 0 THEN SendCSW(q, IF ok THEN "passed" ELSE "failed")
  ELSE IF q.state \notin {"DATA_IN", "DATA_OUT"} THEN q
  ELSE IF ~ok THEN ErrorCallback(q)
  ELSE LET r == IF q.state = "DATA_IN" /\ ~q.rw_pending
                THEN Tx(q, "data", Least(k, q.cbw.len)) ELSE q
       IN  IF r.usb THEN SendCSW(r, "passed") ELSE [r EXCEPT !.sata = TRUE]

-----------------------------------------------------------------------------
(* Device actions.                                                         *)
EventIsCurrent(ep) == ep.active

(* usb_hal_handle_xfer_complete                                            *)
HandleEvent ==
  /\ events # <<>>
  /\ events' = Tail(events)
  /\ LET e == Head(events)
         in  == [t EXCEPT !.in.active = FALSE]
         out == [t EXCEPT !.out.active = FALSE]
         issues == IF t.state = "IDLE" THEN t.valid /\ IssuedAtOnce(t.cbw)
                                       ELSE IssuedWithData(out, e.n)
     IN  IF ~EventIsCurrent(t[e.ep])
         THEN UNCHANGED <<t, ata, cb, ready, done>>
         ELSE IF e.ep = "in"
         THEN t' = InCallback(in, e.n) /\ UNCHANGED <<ata, cb, ready, done>>
         ELSE \E o \in IF issues THEN Outcomes(t.cbw) ELSE {"none"} :
              \E k \in IF o = "ready" THEN 0 .. Units ELSE {0} :
                /\ t' = OutCallback(out, e.n, o, k)
                /\ AfterOutcome(o)
  /\ UNCHANGED <<h, stale>>

(* The answer at the head of the queue is to a command that has its status. *)
Overdue == Head(cb) = "late" \/ t.state = "IDLE"

(* main.c: the foreground serves one queued callback.                      *)
ServeCallback ==
  /\ cb # <<>>
  /\ cb' = Tail(cb)
  /\ IF Head(cb) = "error"
     THEN t' = ErrorCallback(t)
     ELSE \E ok \in IF Head(cb) = "late" THEN BOOLEAN ELSE {Head(cb) = "ok"} :
          \E k \in IF t.rw_pending THEN {0} ELSE 0 .. Units :
            t' = CommandCallback(t, ok, k)
  /\ stale' = (stale \/ (t' # t /\ Head(cb) # "error" /\ Overdue))
  /\ UNCHANGED <<events, ata, ready, h, done>>

(* The disk answers.  It has not written what the host has not sent.       *)
AtaAnswers ==
  /\ ready /\ ata # "none"
  /\ \E r \in {"ok", "bad", "error"} :
       /\ r = "ok" /\ ata = "mine" => ~(t.out.hw /\ t.out.wrap)
       /\ cb' = IF r = "error" /\ cb # <<>> THEN cb
                ELSE Append(cb, IF r = "error" \/ ata = "mine" THEN r ELSE "late")
       /\ done' = IF ata = "mine" THEN r ELSE done
       /\ ready' \in IF r = "error" THEN BOOLEAN ELSE {TRUE}
  /\ ata' = "none"
  /\ UNCHANGED <<t, events, h, stale>>

(* The link goes down; the slot stays issued until discovery.              *)
LinkChange ==
  /\ ready
  /\ ready' = FALSE
  /\ cb' = IF cb = <<>> THEN <<"error">> ELSE cb
  /\ UNCHANGED <<t, events, ata, h, done, stale>>

Rediscover ==
  /\ ~ready /\ cb = <<>>
  /\ ready' = TRUE /\ ata' = "none"
  /\ UNCHANGED <<t, events, cb, h, done, stale>>

-----------------------------------------------------------------------------
(* The wire.  phase of the host: idle, data_in, data_out, status; retry    *)
(* after a stalled status read; recover and clear; confused when the       *)
(* device breaks the protocol.                                             *)
Fresh == [phase |-> "idle", got |-> 0, csw |-> "none", residue |-> 0]

Complete(dir, n) ==
  /\ t' = [t EXCEPT ![dir] = Released(@)]
  /\ events' = Append(events, [ep |-> dir, n |-> n])

Quiet == UNCHANGED <<ata, cb, ready, done, stale>>

AfterCBW(c) == IF c.len = 0 THEN "status"
               ELSE IF c.dir = "in" THEN "data_in" ELSE "data_out"

(* The host goes on when it has its status, whatever the disk and the      *)
(* foreground still have of the command.                                   *)
HostSendsCBW ==
  /\ h.phase = "idle" /\ Len(cb) <= Backlog
  /\ t.out.hw /\ ~t.out.stalled
  /\ events' = Append(events, [ep |-> "out", n |-> 1])
  /\ \E v \in BOOLEAN : \E c \in IF v THEN CBWs ELSE {Blank} :
       /\ t' = [t EXCEPT !.cbw = c, !.valid = v, !.out = Released(@)]
       /\ h' = [Fresh EXCEPT !.phase = IF t.out.what # "cbw" THEN "confused"
                                       ELSE IF v THEN AfterCBW(c) ELSE "status"]
  /\ ata' = IF ata = "none" THEN "none" ELSE "old"
  /\ cb' = [i \in DOMAIN cb |-> IF cb[i] = "error" THEN "error" ELSE "late"]
  /\ done' = "none"
  /\ UNCHANGED <<ready, stale>>

HostSendsData ==
  /\ h.phase = "data_out"
  /\ t.out.hw /\ ~t.out.stalled
  /\ Complete("out", t.out.n)
  /\ LET got == h.got + t.out.n IN
     h' = [h EXCEPT !.got = got,
                    !.phase = IF t.out.what = "cbw" \/ got > t.cbw.len
                              THEN "confused"
                              ELSE IF got = t.cbw.len THEN "status" ELSE @]
  /\ Quiet

(* A data phase that ends with a short packet may end early.               *)
HostReadsData ==
  /\ h.phase = "data_in"
  /\ t.in.hw /\ ~t.in.stalled
  /\ t.in.wrap => (ata = "mine" /\ ready) \/ done = "ok"
  /\ Complete("in", t.in.n)
  /\ \E short \in BOOLEAN :
       LET got == h.got + t.in.n IN
       h' = [h EXCEPT !.got = got,
                      !.phase = IF t.in.what = "csw" \/ got > t.cbw.len
                                THEN "confused"
                                ELSE IF got = t.cbw.len \/ short THEN "status"
                                ELSE @]
  /\ Quiet

HostReadsStatus ==
  /\ h.phase \in {"status", "retry"}
  /\ t.in.hw /\ ~t.in.stalled
  /\ Complete("in", t.in.n)
  /\ h' = [h EXCEPT !.phase = IF t.in.what # "csw" THEN "confused"
                              ELSE IF t.status = "phase" THEN "recover"
                              ELSE "idle",
                    !.csw = t.status, !.residue = t.residue]
  /\ Quiet

(* CLEAR FEATURE; a control request comes behind the events of the wire.   *)
ClearStall(q, dir) == [q EXCEPT ![dir].stalled = q.persistent]

HostClearsOut ==
  /\ h.phase = "data_out" /\ t.out.stalled /\ events = <<>>
  /\ t' = ClearStall(t, "out")
  /\ h' = [h EXCEPT !.phase = "status"]
  /\ UNCHANGED events /\ Quiet

HostClearsIn ==
  /\ h.phase \in {"data_in", "status", "retry"}
  /\ t.in.stalled /\ events = <<>>
  /\ t' = ClearStall(t, "in")
  /\ h' = [h EXCEPT !.phase = CASE h.phase = "data_in" -> "status"
                                [] h.phase = "status"  -> "retry"
                                [] h.phase = "retry" /\ t.persistent  -> "recover"
                                [] h.phase = "retry" /\ ~t.persistent -> "confused"]
  /\ UNCHANGED events /\ Quiet

(* The host's time-out, at any moment of a command.                        *)
HostTimeout ==
  /\ h.phase \in {"data_in", "data_out", "status", "retry"}
  /\ h' = [Fresh EXCEPT !.phase = "recover"]
  /\ UNCHANGED <<t, events>> /\ Quiet

(* Reset recovery: the class request resets the port, which leaves an      *)
(* error callback behind, then the transport; then both halts are cleared. *)
(* A CSW that is not read, though taken for read, stays on the endpoint.   *)
MassStorageReset ==
  /\ h.phase = "recover" /\ events = <<>>
  /\ t' = Reset(t)
  /\ stale' = (stale \/ (t.state = "IDLE" /\ t.in.hw))
  /\ h' = [Fresh EXCEPT !.phase = "clear"]
  /\ IF ready THEN ata' = "none" /\ cb' = <<"error">> /\ ready' \in BOOLEAN
              ELSE UNCHANGED <<ata, cb, ready>>
  /\ UNCHANGED <<events, done>>

ClearHalts ==
  /\ h.phase = "clear" /\ events = <<>>
  /\ t' = ClearStall(ClearStall(t, "in"), "out")
  /\ h' = Fresh
  /\ UNCHANGED events /\ Quiet

(* SET INTERFACE or SET CONFIGURATION: the endpoints are configured anew   *)
(* and the transport is reset; the port and its queue are not.             *)
SetInterface ==
  /\ h.phase # "confused" /\ events = <<>>
  /\ t' = Reset([t EXCEPT !.in = Free, !.out = Free])
  /\ h' = Fresh
  /\ UNCHANGED events /\ Quiet

-----------------------------------------------------------------------------
Init ==
  /\ t = Reset([state |-> "IDLE", case |-> 0, actual |-> 0, residue |-> 0,
                usb |-> FALSE, sata |-> FALSE, check |-> FALSE, cbw |-> Blank,
                valid |-> TRUE, status |-> "none", rw_pending |-> FALSE,
                persistent |-> FALSE, odd |-> FALSE, in |-> Free, out |-> Free])
  /\ events = <<>> /\ ata = "none" /\ cb = <<>>
  /\ ready \in BOOLEAN
  /\ h = Fresh
  /\ done = "none" /\ stale = FALSE

HostProceeds == \/ HostSendsData \/ HostReadsData \/ HostReadsStatus
                \/ HostClearsOut \/ HostClearsIn

Next ==
  \/ HandleEvent \/ ServeCallback \/ AtaAnswers \/ LinkChange \/ Rediscover
  \/ HostSendsCBW \/ HostSendsData \/ HostReadsData \/ HostReadsStatus
  \/ HostClearsOut \/ HostClearsIn \/ HostTimeout
  \/ MassStorageReset \/ ClearHalts \/ SetInterface

(* Interrupts and the loop are served, the disk answers, the host goes on  *)
(* with a command it has sent as long as it can.  It need not ever time    *)
(* out.                                                                    *)
Spec ==
  /\ Init /\ [][Next]_vars
  /\ WF_vars(HandleEvent) /\ WF_vars(ServeCallback) /\ WF_vars(AtaAnswers)
  /\ WF_vars(HostProceeds)

-----------------------------------------------------------------------------
TypeOK ==
  /\ t.state \in {"IDLE", "DATA_IN", "DATA_OUT", "CSW_PENDING", "SEND_CSW",
                  "ERROR"}
  /\ t.case \in {0, 5, 7, 9, 11, 13}
  /\ t.actual \in 0 .. Units /\ t.residue \in 0 .. Units
  /\ t.cbw \in CBWs /\ t.status \in {"none", "passed", "failed", "phase"}
  /\ t.in.n \in 0 .. Units /\ t.out.n \in 0 .. Units
  /\ Len(events) <= 3 /\ cb \in Seq({"error", "ok", "bad", "late"})
  /\ ata \in {"none", "mine", "old"}
  /\ done \in {"none", "ok", "bad", "error", "fault"} /\ stale \in BOOLEAN

(* Host and device agree on the phase: the host never takes a status for   *)
(* data or data for a status, never gets more than it asked for, never     *)
(* sends a CBW into a data buffer, and meets no second stall but the       *)
(* persistent one (ums_bot.c:375-441, 208-254).                            *)
PhasesAgree == stale \/ h.phase # "confused"

(* No transfer ends in a state that has started none, unless the answer to *)
(* a command that has its status has started or stopped one in the next    *)
(* (ums_bot.c:733-800, 1196, 1265).                                        *)
SurpriseIsStale == t.odd => stale

(* ums_bot.c:1196: "This should never happen."                             *)
NeverInInvalidState == ~t.odd

(* A command is reported as passed only when its disk command has ended    *)
(* well, not when only its USB transfer has.  Short reads are the          *)
(* exception: their CSW does not wait for the disk (ums_bot.c:1140-1185,   *)
(* 1226-1256, 733-800).                                                    *)
ShortRead == t.cbw.rw /\ t.cbw.intent = "in" /\ t.cbw.want < t.cbw.len
PassedMeansDone ==
  h.csw = "passed" /\ ~ShortRead /\ ~stale =>
    /\ ata # "mine" /\ done \notin {"bad", "error", "fault"}
    /\ t.cbw.rw => done = "ok"

(* The residue of a passed command tells what was not transferred: what    *)
(* the host did not get, or what the disk was not sent                     *)
(* (ums_bot.c:330-341, 1131, 1236).                                        *)
ResidueTrue ==
  h.csw = "passed" /\ t.cbw.len > 0 /\ ~stale =>
    h.residue = t.cbw.len -
      CASE t.cbw.dir = "in"                           -> h.got
        [] t.cbw.dir = "out" /\ t.cbw.rw              -> t.cbw.want
        [] t.cbw.dir = "out" /\ t.cbw.intent = "none" -> 0
        [] t.cbw.dir = "out" /\ t.cbw.intent = "out" /\ ~t.cbw.rw -> t.cbw.len

(* A command in hand ends: with a CSW, or with the stall or phase error    *)
(* that sends the host into reset recovery; it does not wait for ever      *)
(* (ums_bot.c:622-717).                                                    *)
InHand == h.phase \in {"data_in", "data_out", "status", "retry"}
Ended == h.phase \in {"idle", "recover"}

(* Data out that the device takes in more than one transfer: those that it *)
(* discards, in cases 9 and 11.                                            *)
InPieces == t.cbw.dir = "out" /\ t.cbw.len > 0
            /\ (t.cbw.intent = "none" \/ (t.cbw.rw /\ t.cbw.want < t.cbw.len))

WholeCommandEnds ==
  InHand /\ ~InPieces ~> Ended \/ stale \/ done = "fault"

(* ums_bot.c:699, of an ATA error: "Cancel any active xfers and stall      *)
(* appropriate endpoint."  Between two pieces the code stalls nothing, and *)
(* the host waits to send the rest.                                        *)
NoCommandHangs == InHand ~> Ended \/ stale \/ done = "fault"

(* tusb9260.h:204, of the outcome that a device fault in a self test has:  *)
(* "an ATA error callback will handle status".  The command was polled and *)
(* queues none.                                                            *)
FaultIsReported == InHand /\ done = "fault" ~> Ended \/ stale
=============================================================================
