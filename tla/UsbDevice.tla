----------------------------- MODULE UsbDevice -----------------------------
(***************************************************************************)
(* The USB device: the controller's event buffer and its interrupt handler *)
(* (usb_hal_isr.c), the transfer requests of usb_hal.c, the control        *)
(* endpoint with its state machine (usb_stack.c), and the requests of      *)
(* chapter 9 (usb_chap9.c).                                                *)
(*                                                                         *)
(* A function of the source is an operator from device to device; the      *)
(* handler of one event is one step.  The controller and the host are      *)
(* external, and modelled from how the source uses them.                   *)
(*                                                                         *)
(* Lengths are counted in half packets of the control endpoint.            *)
(***************************************************************************)
EXTENDS Integers, Sequences

CONSTANTS
  Requests,    \* bound: the control requests that the host sends
  Speeds,      \* bound: the speeds at which it connects
  Length(_, _),\* descriptor and speed -> the length of the reply, 0 if none
  MaxEvents,   \* bound: events that wait in the buffer
  MaxUpsets,   \* bound: connections, resets, suspensions, transfers given up
  Clients,     \* bound: the bulk pipes that the transports use
  Halts,       \* bound: whether the transports meet invalid CBWs, or valid ones
  Hasty        \* the host sends a SETUP while events of the last one wait

Packet == 2

(* Endpoint addresses: the control endpoint, the UAS command and status     *)
(* pipes, and the data pipes, which the Bulk-Only transport shares.         *)
EP0_OUT == 0    EP0_IN == 128
CMD_OUT == 2    STATUS_IN == 130
DATA_OUT == 3   DATA_IN == 131
HID_OUT == 1    HID_IN == 129
Control == {EP0_OUT, EP0_IN}
Bulk == {CMD_OUT, STATUS_IN, DATA_OUT, DATA_IN}
Endpoints == Control \cup Bulk
MAX_EP_NUM == 3
MAX_INTERFACE_NUM == 1

(* A SETUP packet: bmRequestType as class, direction and recipient,         *)
(* bRequest, wValue, wIndex, wLength.                                       *)
Request == [kind : {"standard", "class", "vendor"}, dir : {"in", "out"},
            recip : {"device", "interface", "endpoint"}, req : STRING,
            val : Nat, idx : Nat, len : Nat]

None == [kind |-> "standard", dir |-> "in", recip |-> "device",
         req |-> "none", val |-> 0, idx |-> 0, len |-> 0]

ASSUME UsbAssumption ==
  /\ Requests \subseteq Request \ {None}
  /\ Speeds \subseteq {"low", "full", "high", "super"}
  /\ MaxEvents \in Nat \ {0} /\ MaxUpsets \in Nat
  /\ Clients \subseteq Bulk
  /\ Halts \subseteq BOOLEAN /\ Hasty \in BOOLEAN

VARIABLES
  u,      \* usb_dev, the controller's registers and its event buffer
  host,   \* the control transfer that the host has under way
  late,   \* history: no SETUP was handled since the reset of the bus
  left,   \* history: bulk transfers from before the reset, still under way
  wrong,  \* history: a callback was told of the end of another transfer
  upsets  \* bound: connections, resets, suspensions, transfers given up so far

vars == <<u, host, late, left, wrong, upsets>>

Dir(e) == IF e >= 128 THEN "in" ELSE "out"
Of(dir) == IF dir = "in" THEN EP0_IN ELSE EP0_OUT
Other(dir) == IF dir = "in" THEN "out" ELSE "in"

Quiet == [active |-> FALSE, stalled |-> FALSE, window |-> FALSE,
          left |-> 0, count |-> 0, len |-> 0]

Least(a, b) == IF a <= b THEN a ELSE b
Rounded(n) == ((n + Packet - 1) \div Packet) * Packet

-----------------------------------------------------------------------------
(* Transfers.                                                               *)

(* old: its transfer has been cancelled; again: and the foreground has then *)
(* started another one at its pipe.                                         *)
Event(t, e, stage) ==
  [t |-> t, e |-> e, stage |-> stage, old |-> FALSE, again |-> FALSE]

(* A transfer that is ended leaves the controller; the event of one that   *)
(* has ended by itself stays in the buffer.                                 *)
Aged(ev, e) ==
  [k \in DOMAIN ev |-> IF ev[k].t = "complete" /\ ev[k].e = e
                       THEN [ev[k] EXCEPT !.old = TRUE] ELSE ev[k]]

Overtaken(ev, e) ==
  [k \in DOMAIN ev |-> IF ev[k].t = "complete" /\ ev[k].e = e
                       THEN [ev[k] EXCEPT !.old = FALSE, !.again = TRUE] ELSE ev[k]]

usb_hal_dep_xfer_start(d, e, kind, size, n) ==
  [d EXCEPT !.ep[e] = [@ EXCEPT !.active = TRUE, !.left = n, !.count = 0, !.len = size],
            !.trb[e] = kind, !.moved[e] = 0]

usb_hal_cancel_io_request(d, e) ==
  IF ~d.ep[e].active THEN d
  ELSE [d EXCEPT !.ep[e].active = FALSE, !.trb[e] = "none", !.ev = Aged(@, e)]

usb_hal_cancel_all_io_requests(d) ==
  LET uas == usb_hal_cancel_io_request(usb_hal_cancel_io_request(d, CMD_OUT), STATUS_IN)
  IN  usb_hal_cancel_io_request(usb_hal_cancel_io_request(uas, DATA_OUT), DATA_IN)

(* window: the buffer is a wrap window, so the data move under way.         *)
usb_hal_io_request(d, e, n, window) ==
  IF d.ep[e].active THEN d
  ELSE usb_hal_dep_xfer_start([d EXCEPT !.ep[e].window = window], e, "normal",
                              IF Dir(e) = "out" THEN Rounded(n) ELSE n, n)

(* The first data request of a control transfer takes one packet.           *)
usb_hal_ep0_io_request(d, dir, n) ==
  IF d.ep[Of(dir)].active THEN d
  ELSE usb_hal_dep_xfer_start(d, Of(dir), "data",
         Least(IF dir = "out" THEN Rounded(n) ELSE n, Packet), n)

usb_hal_ep0_io_continue(d, dir, n) == usb_hal_io_request(d, Of(dir), n, FALSE)

usb_hal_ep0_status_stage(d, dir) ==
  usb_hal_dep_xfer_start(d, Of(dir), "status", 0, 0)

usb_hal_set_address(d, a) == [d EXCEPT !.addr = a]

(* The bus reset in two stages: the second one waits for the control       *)
(* transfer that was under way.                                             *)
usb_hal_handle_usb_reset_stage2(d) ==
  LET c == usb_hal_cancel_all_io_requests([d EXCEPT !.dev = "default"])
  IN  [usb_hal_set_address(c, 0) EXCEPT !.ready = TRUE, !.pm = "reset"]

(* A plausible bug: the second stage is left to the next reset.             *)
SetupStageForgetsReset(d) ==
  usb_hal_dep_xfer_start([d EXCEPT !.st = "idle", !.zlp = FALSE],
                         EP0_OUT, "setup", Packet, Packet)

usb_hal_ep0_setup_stage(d) ==
  LET s == usb_hal_dep_xfer_start([d EXCEPT !.st = "idle", !.zlp = FALSE],
                                  EP0_OUT, "setup", Packet, Packet)
  IN  IF s.ready THEN s ELSE usb_hal_handle_usb_reset_stage2(s)

(* A stalled control endpoint answers STALL in both directions until the   *)
(* next SETUP.                                                              *)
usb_hal_set_endpt_stall(d, e) ==
  LET c == IF d.ep[e].window THEN usb_hal_cancel_io_request(d, e) ELSE d
      s == [c EXCEPT !.ep[e].stalled = TRUE,
                     !.stall = IF e \in Control THEN TRUE ELSE @]
  IN  IF e = EP0_OUT THEN usb_hal_ep0_setup_stage(s) ELSE s

usb_hal_clear_endpt_stall(d, e) == [d EXCEPT !.ep[e].stalled = FALSE]

-----------------------------------------------------------------------------
(* Configuring the endpoints.                                               *)

Configured(d) ==
  IF d.speed = "low" THEN {}
  ELSE IF d.class = "uas" THEN Bulk ELSE {DATA_OUT, DATA_IN}

(* The pipes are off while they are set up; a halt does not outlive it.     *)
usb_hal_configure_endpts(d) ==
  IF d.speed = "unknown" THEN d
  ELSE LET c == usb_hal_cancel_all_io_requests([d EXCEPT !.enabled = Control])
       IN  [c EXCEPT !.ep = [e \in Endpoints |->
                               [c.ep[e] EXCEPT !.stalled = @ /\ e \notin Configured(d)]],
                     !.enabled = Control \cup {HID_OUT, HID_IN} \cup Configured(d)]

(* The transports' reset callbacks: both begin to receive a command.        *)
ums_bot_reset(d) ==
  LET c == usb_hal_cancel_io_request(d, DATA_IN)
      o == IF c.ep[DATA_OUT].window THEN usb_hal_cancel_io_request(c, DATA_OUT) ELSE c
  IN  usb_hal_io_request([o EXCEPT !.persist = FALSE], DATA_OUT, Packet, FALSE)

ums_uas_reset(d) ==
  usb_hal_io_request(usb_hal_cancel_all_io_requests(d), CMD_OUT, Packet, FALSE)

usb_stack_set_BOT_interface(d) ==
  ums_bot_reset(usb_hal_configure_endpts([d EXCEPT !.class = "bot"]))

usb_stack_set_UAS_interface(d) ==
  ums_uas_reset(usb_hal_configure_endpts([d EXCEPT !.class = "uas"]))

-----------------------------------------------------------------------------
(* The requests of chapter 9.  A handler returns the device and whether it  *)
(* accepts the request.                                                     *)

Accept(d) == [ok |-> TRUE, d |-> d]
Refuse(d) == [ok |-> FALSE, d |-> d]
Reply(d, n) == Accept(usb_hal_ep0_io_request(d, "in", n))

(* Descriptors are sent up to their length or the length asked for.         *)
SendDescriptor(d, n) ==
  IF n = 0 THEN Refuse(d) ELSE Reply(d, Least(d.pkt.len, n))

DT_DEVICE == 1      DT_CONFIG == 2         DT_STRING == 3
DT_QUALIFIER == 6   DT_OTHER_SPEED == 7    DT_BOS == 15
DT_HID == 33        DT_REPORT == 34

ASSUME LengthAssumption ==
  \A type \in {DT_DEVICE, DT_CONFIG, DT_STRING, DT_QUALIFIER, DT_OTHER_SPEED,
               DT_BOS, DT_HID, DT_REPORT},
     index \in {0} \cup {r.idx : r \in Requests},
     speed \in {"unknown", "low", "full", "high", "super"} :
    Length(<<type, index>>, speed) \in Nat

get_descriptor_ptr(type, index, speed) == Length(<<type, index>>, speed)

send_device_descriptor(d) == SendDescriptor(d, get_descriptor_ptr(DT_DEVICE, 0, d.speed))
(* The configuration is put together of the descriptors for the speed.      *)
copy_usb2_config_descriptor(speed) == get_descriptor_ptr(DT_CONFIG, 0, speed)
copy_usb3_config_descriptor == get_descriptor_ptr(DT_CONFIG, 0, "super")

send_config_descriptor(d) ==
  SendDescriptor(d, IF d.speed = "super" THEN copy_usb3_config_descriptor
                    ELSE copy_usb2_config_descriptor(d.speed))
send_string_descriptor(d) ==
  SendDescriptor(d, get_descriptor_ptr(DT_STRING, d.pkt.idx, d.speed))
send_BOS_descriptor(d) == SendDescriptor(d, get_descriptor_ptr(DT_BOS, 0, d.speed))

send_device_qualifier_descriptor(d) ==
  IF d.speed = "super" THEN Refuse(d)
  ELSE SendDescriptor(d, get_descriptor_ptr(DT_QUALIFIER, 0, d.speed))

(* The configuration as it would be at the other of the two speeds.         *)
send_other_speed_config_descriptor(d) ==
  CASE d.speed = "high" -> SendDescriptor(d, copy_usb2_config_descriptor("full"))
    [] d.speed = "full" -> SendDescriptor(d, copy_usb2_config_descriptor("high"))
    [] OTHER -> Refuse(d)

send_HID_report_descriptor(d) ==
  IF get_descriptor_ptr(DT_HID, 0, d.speed) = 0 THEN Refuse(d)
  ELSE SendDescriptor(d, get_descriptor_ptr(DT_REPORT, 0, d.speed))

send_HID_class_descriptor(d) == SendDescriptor(d, get_descriptor_ptr(DT_HID, 0, d.speed))

handle_usb_get_descriptor(d) ==
  CASE d.pkt.val = DT_DEVICE      -> send_device_descriptor(d)
    [] d.pkt.val = DT_CONFIG      -> send_config_descriptor(d)
    [] d.pkt.val = DT_STRING      -> send_string_descriptor(d)
    [] d.pkt.val = DT_QUALIFIER   -> send_device_qualifier_descriptor(d)
    [] d.pkt.val = DT_OTHER_SPEED -> send_other_speed_config_descriptor(d)
    [] d.pkt.val = DT_BOS         -> send_BOS_descriptor(d)
    [] d.pkt.val = DT_REPORT      -> send_HID_report_descriptor(d)
    [] d.pkt.val = DT_HID         -> send_HID_class_descriptor(d)
    [] OTHER -> Refuse(d)

(* GET STATUS answers two bytes.                                            *)
handle_usb_get_status_device(d) == d.pkt.idx = 0
handle_usb_get_status_interface(d) == d.pkt.idx <= MAX_INTERFACE_NUM
handle_usb_get_status_endpoint(d) == d.pkt.idx % 128 <= MAX_EP_NUM

handle_usb_get_status(d) ==
  IF /\ \/ d.dev = "addressed" /\ d.pkt.idx = 0
        \/ d.dev = "configured"
     /\ \/ d.pkt.recip = "device" /\ handle_usb_get_status_device(d)
        \/ d.pkt.recip = "interface" /\ handle_usb_get_status_interface(d)
        \/ d.pkt.recip = "endpoint" /\ handle_usb_get_status_endpoint(d)
  THEN Reply(d, 1) ELSE Refuse(d)

FEATURE_ENDPOINT_HALT == 0   FEATURE_FUNCTION_SUSPEND == 0
FEATURE_REMOTE_WAKEUP == 1   FEATURE_TEST_MODE == 2
FEATURE_U1 == 48             FEATURE_U2 == 49

IsSet(d) == d.pkt.req = "SET_FEATURE"

(* Remote wake-up is not among this build's capabilities.                   *)
handle_usb2_feature_device(d) ==
  IF d.pkt.val = FEATURE_TEST_MODE /\ IsSet(d) THEN Accept([d EXCEPT !.test = TRUE])
  ELSE Refuse(d)

handle_usb3_feature_device(d) ==
  IF d.dev # "configured" \/ d.pkt.idx # 0 THEN Refuse(d)
  ELSE CASE d.pkt.val = FEATURE_U1 -> Accept([d EXCEPT !.u1 = IsSet(d)])
         [] d.pkt.val = FEATURE_U2 -> Accept([d EXCEPT !.u2 = IsSet(d)])
         [] OTHER -> Refuse(d)

(* After an invalid CBW the data pipes stay halted until a reset.           *)
handle_usb_feature_endpoint(d) ==
  LET e == d.pkt.idx
      c == usb_hal_clear_endpt_stall(d, e)
      refused == \/ e % 128 > MAX_EP_NUM
                 \/ e % 128 > 0 /\ d.dev # "configured"
                 \/ d.pkt.val # FEATURE_ENDPOINT_HALT
      halted == d.persist /\ d.class = "bot" /\ e \in {DATA_OUT, DATA_IN}
  IN  IF refused THEN Refuse(d)
      ELSE IF IsSet(d) THEN Accept(usb_hal_set_endpt_stall(d, e))
      ELSE Accept(IF halted THEN usb_hal_set_endpt_stall(c, e) ELSE c)

(* Function suspend is only noted; waking the host is refused.              *)
handle_usb_feature_interface(d) ==
  IF d.speed = "super" /\ d.pkt.idx <= MAX_INTERFACE_NUM THEN Accept(d) ELSE Refuse(d)

handle_usb_feature(d) ==
  IF d.dev # "configured" /\ d.pkt.idx # 0 THEN Refuse(d)
  ELSE CASE d.pkt.recip = "device" ->
              IF d.speed = "super" THEN handle_usb3_feature_device(d)
              ELSE handle_usb2_feature_device(d)
         [] d.pkt.recip = "endpoint" -> handle_usb_feature_endpoint(d)
         [] d.pkt.recip = "interface" -> handle_usb_feature_interface(d)

handle_usb_set_address(d) ==
  Accept([usb_hal_set_address(d, d.pkt.val)
            EXCEPT !.conf = 0, !.dev = IF d.pkt.val = 0 THEN "default" ELSE "addressed"])

handle_usb_get_configuration(d) == Reply(d, 1)

(* SET CONFIGURATION 0 leaves the pipes as they are.                        *)
handle_usb_set_configuration(d) ==
  IF d.dev \notin {"addressed", "configured"} \/ d.pkt.val > 1 THEN Refuse(d)
  ELSE LET s == IF d.pkt.val = 0 THEN [d EXCEPT !.dev = "addressed"]
                ELSE [usb_stack_set_BOT_interface(d) EXCEPT !.dev = "configured"]
       IN  Accept([s EXCEPT !.conf = d.pkt.val, !.alt = 0])

(* Interface 0 is the mass storage, interface 1 the HID of other builds.    *)
handle_usb_set_interface(d) ==
  IF d.dev # "configured" \/ d.pkt.idx > MAX_INTERFACE_NUM THEN Refuse(d)
  ELSE CASE d.pkt.idx = 0 /\ d.pkt.val = 0 ->
              Accept([usb_stack_set_BOT_interface(d) EXCEPT !.alt = 0])
         [] d.pkt.idx = 0 /\ d.pkt.val = 1 ->
              Accept([usb_stack_set_UAS_interface(d) EXCEPT !.alt = 1])
         [] d.pkt.idx = 1 /\ d.pkt.val = 0 -> Accept(d)
         [] OTHER -> Refuse(d)

handle_usb_get_interface(d) ==
  IF d.dev = "configured" /\ d.pkt.idx <= MAX_INTERFACE_NUM THEN Reply(d, 1) ELSE Refuse(d)

(* SET SEL takes its data in a callback that stays registered.              *)
handle_usb_set_sel(d) ==
  IF d.dev \in {"addressed", "configured"} /\ d.speed = "super"
  THEN Accept(usb_hal_ep0_io_request([d EXCEPT !.onOut = TRUE], "out", d.pkt.len))
  ELSE Refuse(d)

usb_chap9_handle_standard_request(d) ==
  CASE d.pkt.req = "GET_STATUS" -> handle_usb_get_status(d)
    [] d.pkt.req \in {"SET_FEATURE", "CLEAR_FEATURE"} -> handle_usb_feature(d)
    [] d.pkt.req = "SET_ADDRESS" -> handle_usb_set_address(d)
    [] d.pkt.req = "GET_DESCRIPTOR" -> handle_usb_get_descriptor(d)
    [] d.pkt.req = "GET_CONFIGURATION" -> handle_usb_get_configuration(d)
    [] d.pkt.req = "SET_CONFIGURATION" -> handle_usb_set_configuration(d)
    [] d.pkt.req = "GET_INTERFACE" -> handle_usb_get_interface(d)
    [] d.pkt.req = "SET_INTERFACE" -> handle_usb_set_interface(d)
    [] d.pkt.req = "SET_ISOCH_DELAY" -> IF d.speed = "super" THEN Accept(d) ELSE Refuse(d)
    [] d.pkt.req = "SET_SEL" -> handle_usb_set_sel(d)
    [] OTHER -> Refuse(d)

(* The callbacks that the Bulk-Only transport and the vendor registered.    *)
ums_bot_class_request_callback(d) ==
  CASE d.pkt.req = "BOT_RESET" -> Accept(ums_bot_reset(d))
    [] d.pkt.req = "GET_MAX_LUN" -> Reply([d EXCEPT !.st = "datain"], 1)
    [] OTHER -> Refuse(d)

vendor_request_callback(d) ==
  IF d.pkt.req = "TI_GET_PID" THEN Reply([d EXCEPT !.st = "datain"], 1) ELSE Refuse(d)

usb_chap9_process_setup_pkt(d) ==
  CASE d.pkt.kind = "standard" -> usb_chap9_handle_standard_request(d)
    [] d.pkt.kind = "class" /\ d.pkt.recip = "interface" ->
         ums_bot_class_request_callback(d)
    [] d.pkt.kind = "vendor" /\ d.pkt.recip = "device" -> vendor_request_callback(d)
    [] OTHER -> Refuse(d)

-----------------------------------------------------------------------------
(* The state machine of the control endpoint.                               *)

(* A plausible bug: the error ends the transfers, and nothing is stalled.   *)
ErrorUnstalled(d) ==
  IF d.st # "error" THEN d
  ELSE usb_hal_cancel_io_request(usb_hal_cancel_io_request(d, EP0_OUT), EP0_IN)

(* An error ends what is under way, halts the endpoint and awaits a SETUP.  *)
usb_stack_check_ep0_error(d) ==
  IF d.st # "error" THEN d
  ELSE usb_hal_set_endpt_stall(
         usb_hal_cancel_io_request(usb_hal_cancel_io_request(d, EP0_OUT), EP0_IN),
         EP0_OUT)

usb_stack_setup_pkt_callback(d) ==
  LET stage == IF d.pkt.len = 0 THEN "statusin"
               ELSE IF d.pkt.dir = "in" THEN "datain" ELSE "dataout"
      r == usb_chap9_process_setup_pkt([d EXCEPT !.st = stage])
  IN  usb_stack_check_ep0_error(IF r.ok THEN r.d ELSE [r.d EXCEPT !.st = "error"])

More(d, e) == d.ep[e].left > 0 /\ d.ep[e].count = d.ep[e].len

usb_stack_process_ep0_IN(d) ==
  usb_stack_check_ep0_error(
    CASE d.st = "datain" ->
           IF More(d, EP0_IN) THEN usb_hal_ep0_io_continue(d, "in", d.ep[EP0_IN].left)
           ELSE [d EXCEPT !.st = "statusout"]
      [] d.st = "statusin" -> [d EXCEPT !.st = "idle"]
      [] OTHER -> [d EXCEPT !.st = "error"])

usb_stack_process_ep0_OUT(d) ==
  usb_stack_check_ep0_error(
    CASE d.st = "dataout" ->
           IF More(d, EP0_OUT) THEN usb_hal_ep0_io_continue(d, "out", d.ep[EP0_OUT].left)
           ELSE [d EXCEPT !.st = "statusin"]
      [] d.st = "statusout" -> [d EXCEPT !.st = "idle"]
      [] OTHER -> [d EXCEPT !.st = "error"])

usb_hal_handle_ep0_xfer_cmplt(d, e) ==
  IF d.st = "idle"
  THEN usb_stack_setup_pkt_callback([d EXCEPT !.pkt = d.buffer, !.three = d.buffer.len # 0])
  ELSE LET s == IF e = EP0_IN THEN usb_stack_process_ep0_IN(d)
                ELSE usb_stack_process_ep0_OUT(d)
       IN  IF s.st = "idle" THEN usb_hal_ep0_setup_stage(s) ELSE s

-----------------------------------------------------------------------------
(* The interrupt handler: one event of the buffer.                          *)

usb_hal_handle_ep0_xfer_not_ready(d, stage, dir) ==
  LET unexpected == d.st = "idle" /\ stage # "setup"
      unfinished == stage = "status" /\ d.three /\ d.ep[Of(Other(dir))].left > 0
      opposed == /\ stage = "data"
                 /\ \/ d.st = "datain" /\ dir = "out"
                    \/ d.st = "dataout" /\ dir = "in"
      unasked == stage = "data" /\ IF d.zlp THEN ~d.ep[Of(dir)].active ELSE ~d.three
      again == stage = "data" /\ d.st \in {"statusin", "statusout"} /\ ~d.zlp
      after == [d EXCEPT !.zlp = TRUE, !.st = IF dir = "out" THEN "dataout" ELSE "datain"]
      s == IF unexpected \/ unfinished \/ opposed \/ unasked THEN [d EXCEPT !.st = "error"]
           ELSE IF stage = "status" THEN usb_hal_ep0_status_stage(d, dir)
           ELSE IF again
           THEN usb_hal_ep0_io_continue(after, dir, IF dir = "out" THEN Packet ELSE 0)
           ELSE d
  IN  usb_stack_check_ep0_error(s)

(* The bytes that moved are read from the TRB of the transfer under way.    *)
Settled(d, e) ==
  LET n == d.moved[e]
      was == d.ep[e]
  IN  [d EXCEPT !.ep[e] = [was EXCEPT !.left = @ - n, !.count = @ + n, !.active = FALSE]]

Surplus(d, e) == e = EP0_OUT /\ d.zlp /\ d.ep[e].count > 0

(* A plausible bug: nobody looks whether a transfer is under way.           *)
HandleCompleteUnasked(d, e) ==
  IF e \in Bulk THEN Settled(d, e) ELSE usb_hal_handle_ep0_xfer_cmplt(Settled(d, e), e)

usb_hal_handle_xfer_complete(d, e) ==
  IF ~d.ep[e].active THEN d
  ELSE LET s == Settled(d, e)
       IN  CASE e \in Bulk -> s
             [] Surplus(s, e) -> usb_hal_set_endpt_stall([s EXCEPT !.st = "error"], EP0_OUT)
             [] OTHER -> usb_hal_handle_ep0_xfer_cmplt(
                           IF e = EP0_OUT THEN [s EXCEPT !.ep[e].stalled = FALSE] ELSE s, e)

usb_hal_handle_usb_reset(d) ==
  LET s == [d EXCEPT !.enabled = Control, !.u1 = FALSE, !.u2 = FALSE]
  IN  IF d.st = "idle" THEN usb_hal_handle_usb_reset_stage2(s) ELSE [s EXCEPT !.ready = FALSE]

usb_hal_handle_connection_done(d, speed) ==
  LET s == [d EXCEPT !.speed = speed]
  IN  IF d.first THEN usb_hal_ep0_setup_stage([s EXCEPT !.first = FALSE]) ELSE s

usb_hal_handle_resume(d) == [d EXCEPT !.pm = "resume"]

usb_hal_handle_disconnect(d) ==
  [d EXCEPT !.dev = "none", !.speed = "unknown", !.pm = "disconnect"]

(* A link that is suspended: U3, or the suspend state of high speed; the    *)
(* other states of the link set nothing that is read here.                  *)
SuperSpeedSuspended(d) == [d EXCEPT !.pm = "suspend"]
HighSpeedSuspended(d) == [d EXCEPT !.pm = "suspend"]

usb_hal_handle_link_state_change(d) ==
  IF d.speed = "super" THEN SuperSpeedSuspended(d) ELSE HighSpeedSuspended(d)

usb_hal_handle_endpt_event(d, x) ==
  CASE x.t = "complete" -> usb_hal_handle_xfer_complete(d, x.e)
    [] x.t = "notready" -> IF d.ep[x.e].stalled THEN d
                           ELSE usb_hal_handle_ep0_xfer_not_ready(d, x.stage, Dir(x.e))

usb_hal_handle_device_event(d, x) ==
  CASE x.t = "reset" -> usb_hal_handle_usb_reset(d)
    [] x.t = "done" -> usb_hal_handle_connection_done(d, x.stage)
    [] x.t = "resume" -> usb_hal_handle_resume(d)
    [] x.t = "disconnect" -> usb_hal_handle_disconnect(d)
    [] x.t = "suspend" -> usb_hal_handle_link_state_change(d)

Handled(d, x) ==
  IF x.t \in {"complete", "notready"} THEN usb_hal_handle_endpt_event(d, x)
  ELSE usb_hal_handle_device_event(d, x)

-----------------------------------------------------------------------------
(* The controller: what becomes of a transfer request.                      *)

Waiting(e) == \E k \in DOMAIN u.ev : u.ev[k].t = "complete" /\ u.ev[k].e = e

Raised(d, x) == [d EXCEPT !.ev = Append(@, x)]
Room(n) == Len(u.ev) + n <= MaxEvents

Ended(d, e, n) ==
  Raised([d EXCEPT !.trb[e] = "none", !.moved[e] = n,
                   !.asked = IF e \in Control THEN {} ELSE @],
         Event("complete", e, "none"))

(* A SETUP packet ends a STALL.                                             *)
Delivered(d, r) ==
  Ended([d EXCEPT !.buffer = r, !.held = None, !.stall = FALSE], EP0_OUT, Packet)

(* One that comes while no TRB awaits it is held, and what is under way at  *)
(* the control endpoint comes to its end without data.                      *)
DeliverHeld ==
  /\ u.held # None /\ u.trb[EP0_OUT] = "setup" /\ Room(1)
  /\ u' = Delivered(u, u.held)
  /\ UNCHANGED <<host, late, left, wrong, upsets>>

CompleteHeld ==
  /\ u.held # None /\ Room(1)
  /\ \E e \in Control :
       /\ u.trb[e] \in {"data", "normal", "status"}
       /\ u' = Ended(u, e, 0)
  /\ UNCHANGED <<host, late, left, wrong, upsets>>

(* It still asks for the status stage of the transfer that was given up.    *)
OldNotReady ==
  LET dir == IF u.st = "statusin" THEN "in" ELSE "out"
  IN  /\ u.held # None /\ u.st \in {"statusin", "statusout"} /\ Room(1)
      /\ u.trb[Of(dir)] = "none" /\ ~Waiting(Of(dir)) /\ "old" \notin u.asked
      /\ u' = Raised([u EXCEPT !.asked = @ \cup {"old"}],
                     Event("notready", Of(dir), "status"))
      /\ UNCHANGED <<host, late, left, wrong, upsets>>

-----------------------------------------------------------------------------
(* The host.                                                                *)

Idle == [here |-> FALSE, pipes |-> FALSE, stage |-> "none", r |-> None, left |-> 0]

StatusDir(r) == IF r.len = 0 THEN "in" ELSE Other(r.dir)

(* A transfer that is still under way is given up.                          *)
HostSetup(r) ==
  LET giveUp == host.stage # "none"
      fresh == [u EXCEPT !.stall = FALSE, !.asked = {}]
  IN  /\ host.here /\ Room(1)
      /\ Hasty \/ u.ev = <<>>
      /\ giveUp => upsets < MaxUpsets
      /\ upsets' = IF giveUp THEN upsets + 1 ELSE upsets
      /\ host' = [host EXCEPT !.stage = IF r.len = 0 THEN "status" ELSE "data",
                              !.r = r, !.left = r.len]
      /\ u' = IF u.trb[EP0_OUT] = "setup" THEN Delivered(u, r) ELSE [fresh EXCEPT !.held = r]
      /\ UNCHANGED <<late, left, wrong>>

Answering == host.stage # "none" /\ u.held = None

HostData ==
  LET e == Of(host.r.dir)
      n == Least(u.ep[e].len, host.left)
      over == n = host.left \/ n % Packet # 0 \/ n = 0
  IN  /\ Answering /\ host.stage = "data" /\ ~u.stall /\ Room(1)
      /\ u.trb[e] \in {"data", "normal"}
      /\ u' = Ended(u, e, n)
      /\ host' = [host EXCEPT !.left = @ - n, !.stage = IF over THEN "status" ELSE "data"]
      /\ UNCHANGED <<late, left, wrong, upsets>>

HostStatus ==
  LET e == Of(StatusDir(host.r))
  IN  /\ Answering /\ host.stage = "status" /\ ~u.stall /\ Room(1)
      /\ u.trb[e] = "status"
      /\ u' = Ended(u, e, 0)
      /\ host' = [host EXCEPT !.stage = "none", !.r = None, !.left = 0,
                              !.pipes = @ \/ host.r.req = "SET_CONFIGURATION"]
      /\ UNCHANGED <<late, left, wrong, upsets>>

HostStalled ==
  /\ Answering /\ u.stall
  /\ host' = [host EXCEPT !.stage = "none", !.r = None, !.left = 0]
  /\ UNCHANGED <<u, late, left, wrong, upsets>>

(* A token for which there is no TRB is reported, once until a TRB ends.    *)
HostPolls ==
  LET e == Of(IF host.stage = "data" THEN host.r.dir ELSE StatusDir(host.r))
  IN  /\ Answering /\ ~u.stall /\ Room(1)
      /\ u.trb[e] = "none" /\ host.stage \notin u.asked
      /\ u' = Raised([u EXCEPT !.asked = @ \cup {host.stage}],
                     Event("notready", e, host.stage))
      /\ UNCHANGED <<host, late, left, wrong, upsets>>

(* A connection begins with a reset of the bus too.                         *)
BusReset(speed) ==
  /\ u.run /\ upsets < MaxUpsets /\ Room(2)
  /\ upsets' = upsets + 1
  /\ host' = [Idle EXCEPT !.here = TRUE]
  /\ u' = Raised(Raised([u EXCEPT !.held = None, !.asked = {}],
                        Event("reset", EP0_OUT, "none")),
                 Event("done", EP0_OUT, speed))
  /\ UNCHANGED <<late, left, wrong>>

LinkEvent(t) ==
  /\ host.here /\ host.stage = "none" /\ u.ev = <<>> /\ t # u.pm
  /\ t = "resume" => u.pm = "suspend"
  /\ t \in {"suspend", "disconnect"} => upsets < MaxUpsets
  /\ upsets' = IF t = "suspend" THEN upsets + 1 ELSE upsets
  /\ host' = [host EXCEPT !.here = @ /\ t # "disconnect", !.pipes = @ /\ t # "disconnect"]
  /\ u' = Raised(u, Event(t, EP0_OUT, "none"))
  /\ UNCHANGED <<late, left, wrong>>

-----------------------------------------------------------------------------
(* The transports, and the code that connects and disconnects the device.   *)

(* The foreground serves the callbacks of the disk when it comes to them:   *)
(* also after a reset of the bus, before the device is configured again,    *)
(* and while the end of a transfer that it has cancelled waits.             *)
StillLeft(d) == {e \in left : d.ep[e].active}

StartBulk(e, window) ==
  /\ ~u.ep[e].active
  /\ u' = [usb_hal_io_request(u, e, Packet, window) EXCEPT !.ev = Overtaken(@, e)]
  /\ UNCHANGED <<host, late, left, wrong, upsets>>

CancelBulk(e) ==
  /\ u.ep[e].active
  /\ u' = usb_hal_cancel_io_request(u, e)
  /\ left' = StillLeft(u')
  /\ UNCHANGED <<host, late, wrong, upsets>>

(* A Bulk-Only transport that is handed an invalid CBW halts for good.      *)
StallBulk(e, persist) ==
  /\ u' = usb_hal_set_endpt_stall([u EXCEPT !.persist = @ \/ (persist /\ u.class = "bot")], e)
  /\ left' = StillLeft(u')
  /\ UNCHANGED <<host, late, wrong, upsets>>

(* The pipes are used once the device is configured, and not during a       *)
(* request that sets them up anew.  Their events leave room for one of the  *)
(* control endpoint.                                                        *)
HostBulk(e) ==
  /\ Hasty \/ host.r.req \notin {"SET_CONFIGURATION", "SET_INTERFACE", "BOT_RESET"}
  /\ host.pipes /\ e \in u.enabled /\ u.trb[e] = "normal" /\ ~u.ep[e].stalled /\ Room(2)
  /\ u' = Ended(u, e, u.ep[e].len)
  /\ UNCHANGED <<host, late, left, wrong, upsets>>

usb_hal_connect ==
  /\ ~u.run
  /\ u' = [u EXCEPT !.run = TRUE]
  /\ UNCHANGED <<host, late, left, wrong, upsets>>

usb_hal_disconnect ==
  /\ u.run /\ upsets < MaxUpsets
  /\ u' = [usb_hal_cancel_all_io_requests(u) EXCEPT !.run = FALSE, !.held = None]
  /\ host' = Idle
  /\ left' = StillLeft(u')
  /\ UNCHANGED <<late, wrong, upsets>>

-----------------------------------------------------------------------------
(* The interrupt handler takes the events in the order in which they came.  *)

SetupEnds(d, x) == x.t = "complete" /\ x.e = EP0_OUT /\ d.st = "idle" /\ d.ep[EP0_OUT].active

usb_hal_isr ==
  LET x == Head(u.ev)
      d == [u EXCEPT !.ev = Tail(@)]
  IN  /\ u.ev # <<>>
      /\ u' = Handled(d, x)
      /\ late' = (x.t = "reset" \/ (late /\ ~SetupEnds(d, x)))
      /\ left' = IF x.t = "reset" THEN {e \in Bulk : u'.ep[e].active} ELSE StillLeft(u')
      /\ wrong' = (wrong \/ (x.t = "complete" /\ x.old /\ u' # d))
      /\ UNCHANGED <<host, upsets>>

usb_hal_init ==
  [st |-> "idle", zlp |-> FALSE, three |-> FALSE, pkt |-> None, buffer |-> None,
   onOut |-> FALSE, dev |-> "none", addr |-> 0, conf |-> 0, alt |-> 0,
   speed |-> "unknown", ready |-> TRUE, first |-> TRUE, class |-> "bot",
   u1 |-> FALSE, u2 |-> FALSE, test |-> FALSE, persist |-> FALSE,
   ep |-> [e \in Endpoints |-> Quiet], trb |-> [e \in Endpoints |-> "none"],
   moved |-> [e \in Endpoints |-> 0], stall |-> FALSE, enabled |-> {},
   pm |-> "none", ev |-> <<>>, held |-> None, asked |-> {}, run |-> FALSE]

Init ==
  /\ u = usb_hal_init /\ host = Idle
  /\ late = FALSE /\ left = {} /\ wrong = FALSE /\ upsets = 0

Controller == DeliverHeld \/ CompleteHeld \/ OldNotReady
Answers == HostData \/ HostStatus \/ HostStalled \/ HostPolls

Host ==
  \/ \E r \in Requests : HostSetup(r)
  \/ \E speed \in Speeds : BusReset(speed)
  \/ \E t \in {"suspend", "resume", "disconnect"} : LinkEvent(t)

Transports ==
  \E e \in Clients : \/ \E b \in BOOLEAN : StartBulk(e, b)
                    \/ \E b \in Halts : StallBulk(e, b)
                    \/ CancelBulk(e)
                    \/ HostBulk(e)

Next == \/ Controller \/ Answers \/ Host \/ Transports
        \/ usb_hal_connect \/ usb_hal_disconnect \/ usb_hal_isr

(* The interrupt is served (weak fairness of usb_hal_isr, whose enabling    *)
(* condition is written out), and the controller and the host go on with a  *)
(* transfer that they have begun.                                           *)
Fairness ==
  /\ []<>(u.ev = <<>>) \/ []<><<u.ev # <<>> /\ usb_hal_isr>>_vars
  /\ WF_vars(DeliverHeld) /\ WF_vars(CompleteHeld) /\ WF_vars(OldNotReady)
  /\ WF_vars(HostData) /\ WF_vars(HostStatus) /\ WF_vars(HostStalled) /\ WF_vars(HostPolls)

Spec == Init /\ [][Next]_vars /\ Fairness

-----------------------------------------------------------------------------
TypeOK ==
  /\ u.st \in {"idle", "datain", "dataout", "statusin", "statusout", "error"}
  /\ u.dev \in {"none", "default", "addressed", "configured"}
  /\ u.class \in {"bot", "uas"} /\ u.conf \in 0 .. 1 /\ u.alt \in 0 .. 1
  /\ \A e \in Endpoints : u.ep[e].left \in Nat /\ u.ep[e].count \in Nat
  /\ Len(u.ev) <= MaxEvents
  /\ late \in BOOLEAN /\ left \subseteq Bulk /\ wrong \in BOOLEAN /\ upsets \in 0 .. MaxUpsets

(* The end of a transfer that was cancelled after it had ended by itself is *)
(* never taken for the end of another one, unless the foreground has        *)
(* started that one in the meantime: not by the requests that set up the    *)
(* pipes anew (usb_hal_isr.c:417, usb_hal.c:1282, 1454).                    *)
CompletionIsOfTransfer == ~wrong

(* usb_hal_isr.c:419, of an end that finds no transfer: "Could happen if    *)
(* end xfer command was issued after the xfer was already complete but      *)
(* before xfer complete event was processed."  It is to change nothing.     *)
CancelledEndIsIgnored ==
  [][usb_hal_isr /\ Head(u.ev).again => u'.ep = u.ep]_vars

(* The first SETUP after a reset of the bus finds the device in its default *)
(* state, without address, and every transfer of the configuration before   *)
(* ended, also when the reset came within a control transfer                *)
(* (usb_hal_isr.c:671-733, usb_hal.c:817-843).                              *)
HandledAfterReset ==
  [][late /\ ~late' => u.ready /\ u.dev = "default" /\ u.addr = 0 /\ left = {}]_vars

(* A control request that the host does not give up ends in its status      *)
(* stage or in a STALL.                                                     *)
RequestIsAnswered == host.stage # "none" ~> host.stage = "none"
=============================================================================
