----------------------------- MODULE ScsiCommands -----------------------------
(***************************************************************************)
(* scsi.c: from the command block of a SCSI command to the ATA commands    *)
(* that the disk gets, and back to a status.  Sense data are left out.      *)
(*                                                                         *)
(* A command is handled to its end in the USB interrupt: some of its ATA   *)
(* commands are polled, the last one may stay pending.  The link interrupt *)
(* may withdraw the medium between two of its steps; the foreground, which *)
(* publishes media, waits until the handler is done.                       *)
(*                                                                         *)
(* Numbers are scaled.  Short is 256 (what a count byte of zero means),    *)
(* Long 65536 (a zero count word), Window the 3968 blocks that the wrap    *)
(* window takes, High 2^48, RangeMax 65535 and Max32 2^32 - 1.             *)
(* An address is a block, a length a number of blocks.                     *)
(***************************************************************************)
EXTENDS Integers, Sequences, SequencesExt

CONSTANTS
  Media,        \* the disks: [kind, lba48, ncq, trim, open, offset, blocks]
  Short, Long, Window, High, RangeMax, Max32,
  Entries,      \* trim ranges that one DATA SET MANAGEMENT command carries
  ListMax,      \* descriptors that the parameter list of an UNMAP has room for
  Addresses,    \* bound: the addresses in command blocks
  Lengths,      \* bound: the lengths in command blocks
  Hosts         \* the blocks that the CBW of a READ or WRITE announces

ASSUME ScsiAssumption ==
  /\ Media \subseteq
       [kind : {"rdx", "generic"}, lba48 : BOOLEAN, ncq : BOOLEAN,
        trim : BOOLEAN, open : BOOLEAN, offset : Nat, blocks : Nat \ {0}]
  /\ {Short, Long, Window, High, RangeMax, Max32, Entries} \subseteq Nat \ {0}
  /\ ListMax \in Nat
  /\ Short <= Window /\ Window <= Long
  /\ Addresses \subseteq Nat /\ Lengths \subseteq Nat /\ Hosts \subseteq Nat

VARIABLES
  dev,       \* the published medium
  changed,   \* ata_dev.bMediumChanged
  unloaded,  \* rdx_hardware.logical_unloaded
  protected, \* rdx_hardware.write_protected
  prevented, \* scsi_medium_removal_prevented
  eject,     \* rdx_hardware.eject_requested
  class,     \* usb_dev.active_mass_storage_class
  cmd,       \* scsi_cmd: the command block, its ATA commands, its status
  trimmed,   \* history: the blocks this command has trimmed
  aware      \* history: the host was told that the medium it knew has gone

media == <<dev, changed, unloaded, protected>>
vars == <<dev, changed, unloaded, protected, prevented, eject, class, cmd,
          trimmed, aware>>

NoDev == [kind |-> "none", lba48 |-> FALSE, ncq |-> FALSE, trim |-> FALSE,
          open |-> FALSE, offset |-> 0, blocks |-> 1]

Ready == dev # NoDev

MinOf(a, b) == IF a < b THEN a ELSE b

-----------------------------------------------------------------------------
(* Command blocks.  bad: a reserved field or the NACA bit is set; host: the *)
(* blocks that the CBW of a READ or WRITE announces.                        *)
Fits(c) == /\ c.size # 16 => c.lba < High
           /\ c.size = 6 => c.len < Short
           /\ c.size = 10 => c.len < Long
Rw == {c \in [op : {"read", "write"}, size : {6, 10, 12, 16}, lba : Addresses,
              len : Lengths, host : Hosts, bad : {FALSE}] : Fits(c)}
Verifies == {c \in [op : {"verify"}, size : {10, 12, 16}, lba : Addresses,
                    len : Lengths, bad : {FALSE}] : Fits(c)}
Unmaps == [op : {"unmap"}, bad : {FALSE},
           list : BoundedSeq([lba : Addresses, len : Lengths], ListMax)]
PassThrough ==
  [op : {"pass"}, protocol : {"command", "response", "other"},
   ata : {"identify", "smart", "power", "read", "write"}]
StartStop == [op : {"start_stop"}, loej : BOOLEAN, start : BOOLEAN,
              bad : {FALSE}]
Prevents == [op : {"prevent"}, prohibit : BOOLEAN, bad : {FALSE}]
Inquiries == [op : {"inquiry"}, bad : {FALSE},
              page : {"standard", "limits", "vpd", "media", "other"}]
Reports == [op : {"read_capacity"}, size : {10, 16}, bad : {FALSE}]
             \cup [op : {"mode_sense"}, bad : {FALSE},
                   page : {"header", "manager", "caching", "other"}]
Others ==
  [op : {"test_unit_ready", "request_sense", "mode_select",
         "log_sense", "format_capacities", "report_luns",
         "synchronize", "write_buffer", "self_test", "diagnostic",
         "security_in", "security_out", "format", "write_verify", "ti"},
   bad : {FALSE}]
Malformed ==
  [op : {"read", "write", "verify"}, size : {10}, lba : {0}, len : {1},
   host : Hosts, bad : {TRUE}]
  \cup [op : {"unmap"}, list : {<<>>}, bad : {TRUE}]
  \cup [op : {"start_stop"}, loej : {TRUE}, start : {FALSE}, bad : {TRUE}]
  \cup [op : {"prevent"}, prohibit : {TRUE}, bad : {TRUE}]
  \cup [op : {"inquiry", "test_unit_ready", "mode_select", "self_test",
              "synchronize", "security_in", "format"}, bad : {TRUE}]

IsWriteCommand(c) == c.op = "write"
BlindWriteClass(c) == c.op \in {"write", "write_verify"} \* mutant: no UNMAP
IsMediaWriteClass(c) == c.op \in {"write", "write_verify", "unmap"}

(* The commands that a drive without a usable medium answers.              *)
AnsweredWithoutMedium ==
  {"request_sense", "inquiry", "log_sense", "mode_sense", "mode_select",
   "prevent", "start_stop", "security_in", "write_buffer", "self_test",
   "diagnostic", "report_luns", "ti"}

-----------------------------------------------------------------------------
(* ATA commands: the blocks from first on, count as the FIS carries it, and *)
(* wide when the disk reads the count as a word.                            *)
Queued == dev.ncq /\ class = "uas"

MaxRwBlocks(d) ==
  IF ~d.lba48 /\ ~(d.ncq /\ class = "uas") THEN MinOf(Window, Short)
  ELSE Window

Field(n, wide) == IF wide THEN n % Long ELSE n % Short

Span(first, n) == first .. first + n - 1

Acts(a) ==
  Span(a.first, IF a.count # 0 THEN a.count ELSE IF a.wide THEN Long ELSE Short)

Translate(lba) == lba + dev.offset

Plain(what) == [what |-> what, first |-> 0, count |-> 1, wide |-> TRUE,
                ranges |-> {}, wait |-> FALSE]

AtaRw(c, lba, n) ==
  [Plain(IF IsWriteCommand(c) THEN "write" ELSE "read") EXCEPT
     !.first = Translate(lba), !.count = Field(n, dev.lba48 \/ Queued),
     !.wide = dev.lba48 \/ Queued]

AtaVerify(lba, n) ==
  [Plain("verify") EXCEPT !.first = Translate(lba),
                          !.count = Field(n, dev.lba48), !.wide = dev.lba48]

Polled(a) == [a EXCEPT !.wait = TRUE]

(* A handler answers with a status, after the ATA commands of its plan, or *)
(* with data.                                                              *)
Runs(plan, st) == [plan |-> plan, end |-> st, says |-> 0]
Reply(st) == Runs(<<>>, st)
Send(a) == Runs(<<a>>, "pending")
Tell(x) == [Reply("ready") EXCEPT !.says = x]

-----------------------------------------------------------------------------
(* READ, WRITE and VERIFY.                                                 *)
CommandLength(c) == IF c.size = 6 /\ c.len = 0 THEN Short ELSE c.len

LooseParams(c) ==                  \* mutant: the upper address bytes are lost
  IF c.bad THEN "field" ELSE IF CommandLength(c) = 0 THEN "field" ELSE "ok"
RwParams(c) ==
  IF c.size = 16 /\ c.lba >= High THEN "range"
  ELSE IF c.bad \/ CommandLength(c) = 0 THEN "field"
  ELSE "ok"

VerifyParams(c) ==
  IF c.size = 16 /\ c.lba >= High THEN "range"
  ELSE IF c.bad THEN "field" ELSE "ok"

StrictRange(lba, n) == lba + n < dev.blocks    \* mutant: off by one
InRange(lba, n) == lba + n <= dev.blocks

HandleRw(c) ==
  LET lba == c.lba % High
      n == CommandLength(c)
      clipped == IF class = "bot" THEN MinOf(n, c.host) ELSE n
  IN IF RwParams(c) # "ok" THEN Reply(RwParams(c))
     ELSE IF ~InRange(lba, n) THEN Reply("range")
     ELSE IF n > MaxRwBlocks(dev) THEN Reply("field")
     ELSE Send(AtaRw(c, lba, clipped))

HandleVerify(c) ==
  LET lba == c.lba % High IN
  IF VerifyParams(c) # "ok" THEN Reply(VerifyParams(c))
  ELSE IF ~InRange(lba, c.len) THEN Reply("range")
  ELSE IF c.len = 0 THEN Reply("ok")
  ELSE Send(AtaVerify(lba, c.len))

-----------------------------------------------------------------------------
(* UNMAP: every descriptor becomes ranges of at most RangeMax blocks.  A    *)
(* full command is sent, and polled, when the next range needs room, so a   *)
(* bad descriptor may come after some blocks are gone.                      *)
BadDescriptor(d) ==
  d.len # 0 /\ (d.lba >= dev.blocks \/ d.len > dev.blocks - d.lba)

StuckRanges(d) ==                    \* mutant: the address does not advance
  [i \in 1 .. (d.len + RangeMax - 1) \div RangeMax |->
     Span(d.lba, MinOf(RangeMax, d.len - (i - 1) * RangeMax))]
Ranges(d) ==
  [i \in 1 .. (d.len + RangeMax - 1) \div RangeMax |->
     Span(d.lba + (i - 1) * RangeMax,
          MinOf(RangeMax, d.len - (i - 1) * RangeMax))]

SendTrim(ranges) ==
  [Plain("trim") EXCEPT
     !.ranges = UNION {ranges[i] : i \in 1 .. Len(ranges)}]

Batch(all, k) ==
  SendTrim(SubSeq(all, (k - 1) * Entries + 1, MinOf(k * Entries, Len(all))))

HandleUnmap(c) ==
  LET bad == SelectInSeq(c.list, BadDescriptor)
      good == IF bad = 0 THEN c.list ELSE SubSeq(c.list, 1, bad - 1)
      all == FlattenSeq([i \in 1 .. Len(good) |-> Ranges(good[i])])
      full == IF all = <<>> THEN 0 ELSE (Len(all) - 1) \div Entries
      polled == [k \in 1 .. full |-> Polled(Batch(all, k))]
  IN IF ~dev.trim THEN Reply("invalid")
     ELSE IF c.bad THEN Reply("field")
     ELSE IF bad # 0 THEN Runs(polled, "range")
     ELSE IF all = <<>> THEN Reply("ok")
     ELSE Runs(Append(polled, Batch(all, full + 1)), "pending")

-----------------------------------------------------------------------------
(* Commands that pass through to the disk.                                 *)
ReadOnlyAta == {"identify", "smart", "power", "read"}

PassThroughIsAllowed(c) ==
  CASE dev.kind = "rdx"     -> c.ata \in {"identify", "smart", "power"}
    [] dev.kind = "generic" -> ~protected \/ c.ata \in ReadOnlyAta
    [] OTHER                -> FALSE

HandlePassThrough(c) ==
  CASE c.protocol = "command" ->
         IF PassThroughIsAllowed(c)
         THEN Send(Plain(IF c.ata = "write" THEN "raw_write" ELSE c.ata))
         ELSE Reply(IF dev.kind = "generic" /\ protected THEN "protected"
                    ELSE "invalid")
    [] c.protocol = "response" -> Reply("ready")
    [] OTHER -> Reply("field")

HandleSynchronizeCache(c) ==
  IF c.bad THEN Reply("field") ELSE Send(Plain("flush"))

(* TRUSTED SEND and RECEIVE go out even where no medium is: the submission *)
(* refuses them.                                                           *)
HandleSecurityProtocol(c) ==
  IF c.bad THEN Reply("field") ELSE Send(Plain("trusted"))

HandleModeSelect(c) ==
  IF c.bad THEN Reply("field") ELSE Send(Plain("features"))

HandleFormatUnit(c) == Reply(IF c.bad THEN "field" ELSE "ok")

RunDiagnosticVerify(lba) == Polled(AtaVerify(lba, 1))

HandleSelfTest(c) ==
  IF c.bad THEN Reply("field")
  ELSE IF ~Ready THEN Reply("not_ready")
  ELSE Runs(<<RunDiagnosticVerify(0), RunDiagnosticVerify(dev.blocks - 1),
              RunDiagnosticVerify(dev.blocks \div 2)>>, "ok")

(* SEND DIAGNOSTIC that is no self test and no page of the manager.         *)
HandleSendDiagnostic(c) == Reply("unsupported")

-----------------------------------------------------------------------------
(* What the drive says of itself.                                          *)
HandleReadCapacity(c) ==
  Tell(IF c.size = 10 THEN MinOf(dev.blocks - 1, Max32) ELSE dev.blocks - 1)

HandleFormatCapacities(c) ==
  Tell(IF dev.blocks > Max32 THEN Max32 ELSE dev.blocks)

HandleInquiry(c) ==
  CASE c.bad               -> Reply("field")
    [] ~c.bad /\ c.page = "other"  -> Reply("field")
    [] ~c.bad /\ c.page = "media"  -> Reply(IF Ready THEN "ready" ELSE "hardware")
    [] ~c.bad /\ c.page = "limits" -> Tell(MaxRwBlocks(dev))
    [] OTHER               -> Reply("ready")

(* The caching page is refreshed from the disk first; a refresh that fails  *)
(* leaves the page as it was.                                              *)
RefreshesCachingPage(c) == c.page = "caching" /\ Ready /\ ~unloaded /\ ~eject

HandleModeSense(c) ==
  CASE c.page = "other"         -> Reply("field")
    [] RefreshesCachingPage(c)  -> Runs(<<Polled(Plain("identify"))>>, "ready")
    [] OTHER                    -> Tell(IF protected THEN 1 ELSE 0)

HandleReportLuns(c) == Reply("ready")
HandleRequestSense(c) == Reply("ready")
HandleLogSense(c) == Reply("ready")
HandleWriteBuffer(c) == Reply("ok")
HandleTiDefined(c) == Reply("ready")

HandleTestUnitReady(c) ==
  IF c.bad THEN Reply("field")
  ELSE IF changed THEN Reply("attention")
  ELSE Send(Plain("power"))

MayLock == Ready /\ ~unloaded

HandlePrevent(c) ==
  IF c.bad THEN Reply("field")
  ELSE IF c.prohibit /\ ~MayLock THEN Reply("not_ready")
  ELSE Reply("ok")

HandleStartStop(c) ==
  CASE c.bad               -> Reply("field")
    [] ~c.bad /\ c.loej /\ c.start -> Reply(IF MayLock THEN "ok" ELSE "not_ready")
    [] ~c.bad /\ c.loej /\ ~c.start ->
         Reply(IF prevented THEN "prevented" ELSE "ok")
    [] ~c.bad /\ ~c.loej /\ ~MayLock -> Reply("not_ready")
    [] ~c.bad /\ ~c.loej /\ MayLock /\ c.start -> Send(AtaVerify(15, 1))
    [] OTHER -> Runs(<<Polled(Plain("flush")), Plain("standby")>>, "pending")

Handle(c) ==
  CASE c.op \in {"read", "write"}    -> HandleRw(c)
    [] c.op = "verify"               -> HandleVerify(c)
    [] c.op = "unmap"                -> HandleUnmap(c)
    [] c.op = "pass"                 -> HandlePassThrough(c)
    [] c.op = "start_stop"           -> HandleStartStop(c)
    [] c.op = "prevent"              -> HandlePrevent(c)
    [] c.op = "inquiry"              -> HandleInquiry(c)
    [] c.op = "test_unit_ready"      -> HandleTestUnitReady(c)
    [] c.op = "request_sense"        -> HandleRequestSense(c)
    [] c.op = "mode_sense"           -> HandleModeSense(c)
    [] c.op = "mode_select"          -> HandleModeSelect(c)
    [] c.op = "log_sense"            -> HandleLogSense(c)
    [] c.op = "read_capacity"        -> HandleReadCapacity(c)
    [] c.op = "format_capacities"    -> HandleFormatCapacities(c)
    [] c.op = "report_luns"          -> HandleReportLuns(c)
    [] c.op = "synchronize"          -> HandleSynchronizeCache(c)
    [] c.op = "write_buffer"         -> HandleWriteBuffer(c)
    [] c.op = "self_test"            -> HandleSelfTest(c)
    [] c.op = "diagnostic"           -> HandleSendDiagnostic(c)
    [] c.op \in {"security_in", "security_out"} -> HandleSecurityProtocol(c)
    [] c.op = "format"               -> HandleFormatUnit(c)
    [] c.op = "ti"                   -> HandleTiDefined(c)
    [] OTHER                         -> Reply("invalid")

(* scsi_ata_cmd_handler: first the medium, then its write protection.      *)
AtaCommandHandler(c) ==
  IF (~Ready \/ unloaded) /\ c.op \notin AnsweredWithoutMedium
  THEN Reply("not_ready")
  ELSE IF IsMediaWriteClass(c) /\ protected THEN Reply("protected")
  ELSE Handle(c)

-----------------------------------------------------------------------------
NoCommand == [op |-> "none"]

(* The end of scsi_command_handler, or of the completion: of the statuses   *)
(* only success is told from failure.                                       *)
Idle(st) ==
  [on |-> "idle", c |-> NoCommand, plan |-> <<>>,
   end |-> IF st \in {"ok", "ready"} THEN "ok" ELSE "failed"]

Ends(st) == /\ cmd' = Idle(st) /\ trimmed' = {}
            /\ aware' = (st \in {"not_ready", "attention"} \/ (aware /\ dev' = dev))

(* rdx_refresh_cache_info: nobody asks for its result.                     *)
Fails(st) == Ends(IF cmd.c.op = "mode_sense" THEN "ready" ELSE st)

Init ==
  /\ dev = NoDev /\ changed = FALSE /\ unloaded = FALSE /\ protected = TRUE
  /\ prevented = FALSE /\ eject = FALSE /\ class \in {"bot", "uas"}
  /\ cmd = Idle("ok") /\ trimmed = {} /\ aware = TRUE

(* The effects that a handler has besides its answer.                      *)
Unlocks(c) == prevented' = IF c.op = "prevent" /\ Handle(c).end = "ok"
                           THEN c.prohibit ELSE prevented

Ejects(c) == c.op = "start_stop" /\ ~c.bad /\ c.loej /\ ~c.start /\ ~prevented

(* The manager's eject policy may unload the medium logically instead.     *)
HostEject(c) ==
  \/ /\ ~Ejects(c) /\ UNCHANGED <<eject, unloaded>>
  \/ /\ Ejects(c) /\ eject' = TRUE /\ UNCHANGED unloaded
  \/ /\ Ejects(c) /\ UNCHANGED eject
     /\ unloaded' = (unloaded \/ (Ready /\ ~eject))

Receive(c) ==
  LET r == AtaCommandHandler(c) IN
  /\ cmd.on = "idle" /\ UNCHANGED <<dev, protected, class>>
  /\ Unlocks(c) /\ HostEject(c)
  /\ changed' = (changed /\ r.end # "attention")
  /\ IF r.plan = <<>> THEN Ends(r.end)
     ELSE /\ cmd' = [on |-> "next", c |-> c, plan |-> r.plan, end |-> r.end]
          /\ UNCHANGED <<trimmed, aware>>

(* A hard reset that passes through withdraws the medium; the host knows.  *)
ResetPassesThrough ==
  /\ cmd.on = "idle" /\ Ready /\ ~unloaded
  /\ dev' = NoDev /\ cmd' = Idle("ok") /\ trimmed' = {} /\ aware' = TRUE
  /\ UNCHANGED <<changed, unloaded, protected, prevented, eject, class>>

(* scsi_send_ata_cmd: a command is only issued to the medium it came for.  *)
SendAtaCommand ==
  LET a == Head(cmd.plan)
      usable == Ready /\ (a.what = "trim" => dev.kind = "generic") IN
  /\ cmd.on = "next"
  /\ \/ /\ usable
        /\ cmd' = [cmd EXCEPT !.on = IF a.wait THEN "polled" ELSE "pending"]
        /\ trimmed' = trimmed \cup a.ranges /\ UNCHANGED <<dev, aware>>
     \/ ~usable /\ UNCHANGED dev /\ Fails("not_ready")
     \/ usable /\ UNCHANGED dev /\ Fails("not_ready")     \* the port refuses
     \/ usable /\ dev' = NoDev /\ Fails("not_ready")    \* the link changed now
  /\ UNCHANGED <<changed, unloaded, protected, prevented, eject, class>>

(* scsi_finish_intermediate_ata_command: the next command only follows one  *)
(* that ended well; a timeout withdraws the medium.                         *)
FinishPolled ==
  /\ cmd.on = "polled"
  /\ \/ /\ Ready /\ UNCHANGED dev
        /\ IF Len(cmd.plan) = 1 THEN Ends(cmd.end)
           ELSE /\ cmd' = [cmd EXCEPT !.on = "next", !.plan = Tail(@)]
                /\ UNCHANGED <<trimmed, aware>>
     \/ Ready /\ UNCHANGED dev /\ Fails("hardware")
     \/ ~Ready /\ UNCHANGED dev /\ Fails("not_ready")
     \/ Ready /\ dev' = NoDev /\ Fails("not_ready")
  /\ UNCHANGED <<changed, unloaded, protected, prevented, eject, class>>

(* The completion of the command that the disk still has.                  *)
Completes ==
  /\ cmd.on = "pending" /\ UNCHANGED <<media, prevented, eject, class>>
  /\ Ends("ok") \/ Ends("ata_error")

-----------------------------------------------------------------------------
(* The rest of the firmware, as far as scsi.c sees it.                     *)
(* ahci_init_port publishes; the slider was sampled before, by             *)
(* rdx_hardware_prepare_media_ready, and an ADC failure protects.          *)
Publish ==
  /\ dev = NoDev /\ cmd.on = "idle"
  /\ \E m \in Media, works \in BOOLEAN :
       dev' = m /\ protected' = ~(m.open /\ works)
  /\ changed' = TRUE
  /\ UNCHANGED <<unloaded, prevented, eject, class, cmd, trimmed, aware>>

Withdraw ==
  /\ Ready /\ dev' = NoDev
  /\ IF cmd.on = "pending" THEN Ends("ata_error")
     ELSE aware' = FALSE /\ UNCHANGED <<cmd, trimmed>>
  /\ UNCHANGED <<changed, unloaded, protected, prevented, eject, class>>

(* rdx_hardware_service_media_state sees that the medium has gone.         *)
ServiceMediaState ==
  /\ dev = NoDev /\ cmd.on = "idle" /\ protected' = TRUE
  /\ UNCHANGED <<dev, changed, unloaded, prevented, eject, class, cmd, trimmed,
                 aware>>

(* The mechanism ends an eject; a cartridge that comes or goes ends a      *)
(* logical unload.                                                         *)
EjectEnds ==
  /\ cmd.on = "idle" /\ dev = NoDev
  /\ eject' = FALSE /\ unloaded' = FALSE
  /\ UNCHANGED <<dev, changed, protected, prevented, class, cmd, trimmed, aware>>

ClearRemovalPrevented ==
  /\ cmd.on = "idle" /\ prevented' = FALSE
  /\ UNCHANGED <<media, eject, class, cmd, trimmed, aware>>

(* DEVICE RESET and the power switch; the host may enumerate anew.         *)
Restart ==
  /\ cmd.on = "idle"
  /\ dev' = NoDev /\ changed' = FALSE /\ unloaded' = FALSE
  /\ protected' = TRUE /\ prevented' = FALSE /\ eject' = FALSE
  /\ class' \in {"bot", "uas"} /\ cmd' = Idle("ok") /\ trimmed' = {}
  /\ aware' = TRUE

Next ==
  \/ \E c \in Rw : Receive(c)
  \/ \E c \in Verifies : Receive(c)
  \/ \E c \in Unmaps : Receive(c)
  \/ \E c \in PassThrough : Receive(c)
  \/ \E c \in StartStop \cup Prevents \cup Inquiries \cup Reports : Receive(c)
  \/ \E c \in Others : Receive(c)
  \/ \E c \in Malformed : Receive(c)
  \/ ResetPassesThrough \/ SendAtaCommand \/ FinishPolled \/ Completes
  \/ Publish \/ Withdraw \/ ServiceMediaState \/ EjectEnds
  \/ ClearRemovalPrevented \/ Restart

Spec == Init /\ [][Next]_vars

-----------------------------------------------------------------------------
TypeOK ==
  /\ dev \in Media \cup {NoDev}
  /\ {changed, unloaded, protected, prevented, eject} \subseteq BOOLEAN
  /\ class \in {"bot", "uas"}
  /\ cmd.on \in {"idle", "next", "polled", "pending"}

HasDisk == cmd.on \in {"polled", "pending"}
InDisk == Head(cmd.plan)

(* A READ or WRITE makes the disk act on exactly the blocks that the       *)
(* command block named, as many as the CBW has room for, inside the part   *)
(* of the disk that belongs to the host: 28- and 48-bit commands, queued   *)
(* ones, counts of zero and addresses beyond 48 bits included.  A CBW      *)
(* without room for one block makes the count zero (scsi.c:1020), and zero *)
(* is what the disk is then given.                                         *)
BlocksAsRequested ==
  (HasDisk /\ cmd.c.op \in {"read", "write"}) =>
    LET c == cmd.c
        n == IF class = "bot" THEN MinOf(CommandLength(c), c.host)
             ELSE CommandLength(c)
    IN /\ n # 0 => Acts(InDisk) = Span(c.lba + dev.offset, n)
       /\ n = 0 => InDisk.first = c.lba + dev.offset /\ InDisk.count = 0
       /\ c.lba + n <= dev.blocks
       /\ (InDisk.what = "write") = (c.op = "write")

(* No READ or WRITE acts on more blocks than the CBW has room for ("Set     *)
(* SCSI transfer length (blocks) to the length specified in the CBW",      *)
(* scsi.c:1018).                                                           *)
WithinTheCbw ==
  (HasDisk /\ cmd.c.op \in {"read", "write"} /\ class = "bot") =>
    Acts(InDisk) \subseteq Span(cmd.c.lba + dev.offset, cmd.c.host)

Named(c) == UNION {Span(c.list[i].lba, c.list[i].len) : i \in 1 .. Len(c.list)}

(* However UNMAP ends - range after range, the medium withdrawn in between, *)
(* a bad descriptor after good ones - only blocks that it named are         *)
(* trimmed, and all of them when it ends well.                              *)
TrimmedAsNamed ==
  [][cmd.c.op = "unmap" =>
       /\ trimmed' \subseteq Named(cmd.c)
       /\ (cmd.on = "pending" /\ cmd' = Idle("ok"))
            => trimmed = Named(cmd.c)]_vars

(* No command, whatever its class or the path it takes, writes to a medium *)
(* whose slider was closed when it was admitted.                           *)
ProtectedUnwritten ==
  (HasDisk /\ Ready /\ InDisk.what \in {"write", "trim", "raw_write"})
    => dev.open

(* A READ or WRITE within the capacity and the transfer length that the    *)
(* drive itself reports at that moment is never refused for its address,   *)
(* its length or, unless MODE SENSE says so, write protection; READ        *)
(* CAPACITY(10) and READ FORMAT CAPACITIES never promise more than READ    *)
(* CAPACITY(16) does.                                                      *)
AdvertisedIsAccepted ==
  (cmd.on = "idle" /\ MayLock) =>
    LET last(size) == HandleReadCapacity([size |-> size]).says
        most == HandleInquiry([page |-> "limits", bad |-> FALSE]).says
        closed == HandleModeSense([page |-> "header"]).says = 1
    IN /\ last(10) <= last(16) /\ HandleFormatCapacities(0).says <= last(16) + 1
       /\ \A c \in Rw :
            ( /\ c.op = "write" => ~closed
              /\ CommandLength(c) \in 1 .. most
              /\ c.lba + CommandLength(c) - 1 <= last(16) )
            => AtaCommandHandler(c).plan # <<>>

(* A host whose cartridge was exchanged hears of it before a write of its   *)
(* reaches the new one: by NOT READY or by UNIT ATTENTION.                 *)
ChangeIsReported ==
  (HasDisk /\ Ready /\ InDisk.what \in {"write", "trim"}) => aware
===============================================================================
