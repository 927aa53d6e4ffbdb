------------------------------ MODULE UsbProofs ------------------------------
(***************************************************************************)
(* Theorems about the USB device, for every set of control requests, every *)
(* table of descriptors and every number of events that may wait, with a   *)
(* host that lets the events of its last transfer be served before it      *)
(* sends another SETUP.  The foreground may start, cancel and stall the    *)
(* bulk pipes at any time.                                                 *)
(***************************************************************************)
EXTENDS UsbDevice, TLAPS, SequenceTheorems

(* SET SEL takes six bytes (its length is in no descriptor of the device). *)
SelHasData == \A r \in Requests : r.req = "SET_SEL" => r.len > 0

Packets == Requests \cup {None}
AnySpeed == {"unknown", "low", "full", "high", "super"}
Kinds == {"none", "setup", "data", "normal", "status"}

States == {"idle", "datain", "dataout", "statusin", "statusout", "error"}
Places == {"none", "default", "addressed", "configured"}
Links == {"none", "reset", "resume", "suspend", "disconnect"}
Questions == SUBSET {"data", "status", "old"}

Endpoint == [active : BOOLEAN, stalled : BOOLEAN, window : BOOLEAN,
             left : Int, count : Int, len : Int]
EndpointTable == [Endpoints -> Endpoint]
TrbTable == [Endpoints -> Kinds]
CountTable == [Endpoints -> Int]

Completion == [t : {"complete"}, e : Endpoints, stage : {"none"},
               old : BOOLEAN, again : BOOLEAN]
NotReady == [t : {"notready"}, e : Control, stage : {"data", "status"},
             old : {FALSE}, again : {FALSE}]
LinkChange == [t : {"reset", "suspend", "resume", "disconnect"}, e : {EP0_OUT},
               stage : {"none"}, old : {FALSE}, again : {FALSE}]
Connected == [t : {"done"}, e : {EP0_OUT}, stage : AnySpeed,
              old : {FALSE}, again : {FALSE}]
Events == Completion \cup NotReady \cup LinkChange \cup Connected
Buffer == Seq(Events)

Classes == {"bot", "uas"}
Settings == 0 .. 1
PipeSets == SUBSET (0 .. 255)

Device ==
  [st : States, zlp : BOOLEAN, three : BOOLEAN, pkt : Packets, buffer : Packets,
   onOut : BOOLEAN, dev : Places, addr : Nat, conf : Nat, alt : Settings,
   speed : AnySpeed, ready : BOOLEAN, first : BOOLEAN, class : Classes,
   u1 : BOOLEAN, u2 : BOOLEAN, test : BOOLEAN, persist : BOOLEAN,
   ep : EndpointTable, trb : TrbTable, moved : CountTable, stall : BOOLEAN,
   enabled : PipeSets, pm : Links, ev : Buffer, held : Packets,
   asked : Questions, run : BOOLEAN]

HostType == [here : BOOLEAN, pipes : BOOLEAN, stage : {"none", "data", "status"},
             r : Packets, left : Int]

-----------------------------------------------------------------------------
(* What waits in the event buffer: ends of control transfers, and reports   *)
(* that the host asks where no TRB is.                                      *)
IsEnd(x) == x.t = "complete" /\ x.e \in Control
IsPoll(x) == x.t = "notready"
NoEnd(d) == \A k \in 1 .. Len(d.ev) : ~IsEnd(d.ev[k])

DataState(dir) == IF dir = "in" THEN "datain" ELSE "dataout"
Status == {"statusin", "statusout"}
Opposite(e) == IF e = EP0_IN THEN EP0_OUT ELSE EP0_IN
FirstStage(r) == IF r.len = 0 THEN "status" ELSE "data"
StageEnd(stage, r) == Of(IF stage = "data" THEN r.dir ELSE StatusDir(r))

(* The control endpoint.  At most one direction has a transfer, the end of  *)
(* which is its own.                                                        *)
EndsAreOwn(d) ==
  \A k \in 1 .. Len(d.ev) : IsEnd(d.ev[k]) =>
    ~d.ev[k].old /\ d.ep[d.ev[k].e].active /\ d.trb[d.ev[k].e] = "none"

EndIsSingle(d) ==
  \A j, k \in 1 .. Len(d.ev) : IsEnd(d.ev[j]) /\ IsEnd(d.ev[k]) => j = k

ActiveHasTrb(d) ==
  \A e \in Control :
    /\ d.trb[e] # "none" => d.ep[e].active
    /\ d.ep[e].active /\ d.trb[e] = "none" =>
         \E k \in 1 .. Len(d.ev) : IsEnd(d.ev[k]) /\ d.ev[k].e = e

IdleShape(d) ==
  /\ ~d.ep[EP0_IN].active
  /\ IF d.first THEN ~d.ep[EP0_OUT].active
     ELSE d.ep[EP0_OUT].active /\ d.trb[EP0_OUT] \in {"none", "setup"}

BusyShape(d) ==
  /\ ~d.first
  /\ \A e \in Control : d.trb[e] # "setup"
  /\ ~(d.ep[EP0_IN].active /\ d.ep[EP0_OUT].active)
  /\ d.st = "statusin" => ~d.ep[EP0_OUT].active
  /\ d.st = "statusout" => ~d.ep[EP0_IN].active
  /\ d.three = (d.buffer.len # 0)
  /\ d.buffer.len # 0 /\ d.trb[Of(d.buffer.dir)] \in {"data", "normal"} =>
       d.st = DataState(d.buffer.dir)

Shape(d) ==
  /\ d.st # "error"
  /\ d.st = "idle" => IdleShape(d)
  /\ d.st # "idle" => BusyShape(d)

(* A report that waits in front of an end says nothing new.                 *)
Harmless(d, x, y) ==
  x.stage = "data" /\ x.e = y.e /\ d.st = DataState(Dir(x.e)) /\ d.three

PollsInFront(d) ==
  \A j, k \in 1 .. Len(d.ev) :
    IsPoll(d.ev[j]) /\ IsEnd(d.ev[k]) /\ j < k => Harmless(d, d.ev[j], d.ev[k])

PollsApart(d) ==
  \A i, j \in 1 .. Len(d.ev) :
    IsPoll(d.ev[i]) /\ IsPoll(d.ev[j]) /\ i < j =>
      \E k \in i .. j : IsEnd(d.ev[k])

(* One that waits behind an end is of the same control transfer.            *)
PollAfterEnd(d, x, y) ==
  IF d.st = "idle"
  THEN x.stage = FirstStage(d.buffer) /\ x.e = StageEnd(x.stage, d.buffer)
  ELSE /\ y.e = Of(d.buffer.dir) /\ d.buffer.len # 0
       /\ x.e = StageEnd(x.stage, d.buffer)

PollsBehind(d) ==
  \A j, k \in 1 .. Len(d.ev) :
    IsPoll(d.ev[j]) /\ IsEnd(d.ev[k]) /\ k < j => PollAfterEnd(d, d.ev[j], d.ev[k])

(* One that waits alone finds the other direction at rest, or data that are *)
(* left over.                                                               *)
StatusPoll(d, e) ==
  /\ d.st # "idle" /\ d.ep[Opposite(e)].active => d.three /\ d.ep[Opposite(e)].left > 0
  /\ d.st = "statusin" => e = EP0_IN
  /\ d.st = "statusout" => e = EP0_OUT
  /\ d.trb[e] # "status"

DataPoll(d) == d.st \in Status => \A e \in Control : ~d.ep[e].active

PollsAlone(d) ==
  NoEnd(d) => \A j \in 1 .. Len(d.ev) : IsPoll(d.ev[j]) =>
    IF d.ev[j].stage = "status" THEN StatusPoll(d, d.ev[j].e) ELSE DataPoll(d)

-----------------------------------------------------------------------------
(* The host.                                                                *)
Asks(d, h) == h.stage # "none" /\ d.held = None

HostShape(d, h) ==
  /\ IF h.stage = "none" THEN h.r = None /\ d.held = None ELSE h.r \in Requests
  /\ d.held # None => d.held = h.r /\ h.stage = FirstStage(h.r)
  /\ h.stage = "data" => h.r.len # 0
  /\ Asks(d, h) => d.buffer = h.r

HostAndEnd(d, h) ==
  Asks(d, h) => \A k \in 1 .. Len(d.ev) : IsEnd(d.ev[k]) =>
    IF d.st = "idle" THEN h.stage = FirstStage(h.r)
    ELSE d.ev[k].e = Of(h.r.dir) /\ h.r.len # 0

HostAlone(d, h) ==
  Asks(d, h) /\ NoEnd(d) =>
    LET e == Of(StatusDir(h.r)) IN
    /\ h.stage = "status" /\ d.st # "idle" /\ d.ep[Opposite(e)].active =>
         d.three /\ d.ep[Opposite(e)].left > 0
    /\ h.stage = "data" => DataPoll(d)
    /\ d.st = "statusin" => e = EP0_IN
    /\ d.st = "statusout" => e = EP0_OUT

(* A report of the present stage is the only one.                           *)
Last(d, j) == \A k \in j .. Len(d.ev) : ~IsEnd(d.ev[k])

HostPolled(d, h) ==
  \A j \in 1 .. Len(d.ev) : IsPoll(d.ev[j]) /\ Last(d, j) =>
    /\ Asks(d, h) => /\ d.ev[j].stage = h.stage /\ h.stage \in d.asked
                     /\ d.ev[j].e = StageEnd(h.stage, h.r)
    /\ d.held # None => /\ "old" \in d.asked /\ NoEnd(d) /\ d.st \in Status
                        /\ \A e \in Control : ~d.ep[e].active

(* Before the first connection nothing is under way.                        *)
FirstShape(d, h) ==
  d.first =>
    /\ d.st = "idle" /\ h.stage = "none" /\ d.held = None
    /\ \A k \in 1 .. Len(d.ev) : ~IsEnd(d.ev[k]) /\ ~IsPoll(d.ev[k])
    /\ h.here => \E k \in 1 .. Len(d.ev) : d.ev[k].t = "done"

ControlInv(d, h) ==
  /\ EndsAreOwn(d) /\ EndIsSingle(d) /\ ActiveHasTrb(d) /\ Shape(d)
  /\ PollsInFront(d) /\ PollsApart(d) /\ PollsBehind(d) /\ PollsAlone(d)
  /\ HostShape(d, h) /\ HostAndEnd(d, h) /\ HostAlone(d, h) /\ HostPolled(d, h)
  /\ FirstShape(d, h)

-----------------------------------------------------------------------------
(* The bulk pipes: the end of a transfer that was cancelled finds its pipe  *)
(* at rest, and none waits when a request is handled that restarts them.    *)
Resets == {"SET_CONFIGURATION", "SET_INTERFACE", "BOT_RESET"}

OldIsQuiet(d) ==
  \A k \in 1 .. Len(d.ev) :
    d.ev[k].t = "complete" /\ d.ev[k].old => ~d.ep[d.ev[k].e].active

NoBulkEnd(d) == \A k \in 1 .. Len(d.ev) : d.ev[k].t = "complete" => d.ev[k].e \in Control

SetupWaits(d) == d.st = "idle" /\ ~NoEnd(d)

BulkInv(d, h) ==
  /\ OldIsQuiet(d)
  /\ SetupWaits(d) /\ d.buffer.req \in Resets => NoBulkEnd(d)
  /\ d.held.req \in Resets => NoBulkEnd(d)
  /\ SetupWaits(d) => ~d.stall /\ (Asks(d, h) \/ ~h.pipes)

(* After a reset of the bus, until the first SETUP is handled.              *)
ResetWaits(d, k) == \E i \in k .. Len(d.ev) : d.ev[i].t = "reset"

Unanswered(d, h) == NoEnd(d) /\ h.stage = "none" /\ (h.here => ResetWaits(d, 1))

AfterReset(d, h) ==
  /\ d.addr = 0
  /\ d.dev # "default" => Unanswered(d, h)

(* The host is gone when the loss of the connection is reported.            *)
HostIsGone(d, h) ==
  \A k \in 1 .. Len(d.ev) : d.ev[k].t = "disconnect" =>
    /\ h.stage = "none" /\ (h.here => ResetWaits(d, k))
    /\ \A i \in k .. Len(d.ev) : ~IsEnd(d.ev[i])

LateInv(d, h, reset) ==
  /\ d.st = "idle" => d.ready /\ (reset => AfterReset(d, h))
  /\ d.st # "idle" => (reset => ~d.ready)
  /\ HostIsGone(d, h)

(* All that is said of the device, with the host's transfer beside it.      *)
Sound(d, h, reset) ==
  d \in Device /\ ControlInv(d, h) /\ BulkInv(d, h) /\ LateInv(d, h, reset)

IInv ==
  /\ host \in HostType /\ late \in BOOLEAN
  /\ Sound(u, host, late) /\ ~wrong

-----------------------------------------------------------------------------
(* The endpoints are six numbers, two of them those of the control          *)
(* endpoint.                                                                *)
LEMMA EndpointNumbers ==
  /\ Control = {EP0_OUT, EP0_IN} /\ EP0_OUT # EP0_IN
  /\ Endpoints = Control \cup Bulk /\ Control \cap Bulk = {}
  /\ Bulk = {CMD_OUT, STATUS_IN, DATA_OUT, DATA_IN}
  /\ \A e \in Control : Dir(e) = IF e = EP0_IN THEN "in" ELSE "out"
  /\ \A e \in Control : Of(Dir(e)) = e /\ Opposite(e) \in Control
  /\ Of("in") = EP0_IN /\ Of("out") = EP0_OUT
  /\ \A e \in Endpoints : e \in 0 .. 255
  BY SMT DEF Control, Endpoints, Bulk, EP0_OUT, EP0_IN, CMD_OUT, STATUS_IN, DATA_OUT,
             DATA_IN, Dir, Of, Opposite

(* An endpoint of the control pipe, and the one of the other direction.     *)
LEMMA ControlNumbers ==
  ASSUME NEW e \in Control
  PROVE  /\ e \in Endpoints /\ e \notin Bulk
         /\ Opposite(e) \in Control /\ Opposite(e) \in Endpoints \ {e}
         /\ \A x \in Control : x = e \/ x = Opposite(e)
         /\ \A x \in Bulk : x \in Endpoints /\ x # e
         /\ Bulk \subseteq Endpoints \ {e}
  <1>1. e \in Endpoints /\ e \notin Bulk /\ \A x \in Bulk : x \in Endpoints
    BY EndpointNumbers, Zenon
  <1>2. e = EP0_IN \/ e = EP0_OUT
    BY EndpointNumbers
  <1>3. /\ Opposite(e) \in Control /\ Opposite(e) # e
        /\ \A x \in Control : x = e \/ x = Opposite(e)
    BY <1>2, EndpointNumbers DEF Opposite
  <1>4. Opposite(e) \in Endpoints
    BY <1>3, EndpointNumbers
  <1>5. QED
    BY <1>1, <1>3, <1>4

(* What is not of a bulk pipe stays as it is.                               *)
Alike(d, r) ==
  /\ r.st = d.st /\ r.three = d.three /\ r.buffer = d.buffer /\ r.first = d.first
  /\ r.held = d.held /\ r.asked = d.asked

Same(d, r) ==
  /\ r.st = d.st /\ r.zlp = d.zlp /\ r.three = d.three /\ r.pkt = d.pkt
  /\ r.buffer = d.buffer /\ r.first = d.first /\ r.held = d.held /\ r.asked = d.asked
  /\ r.ready = d.ready

Placed(d, r) == r.dev = d.dev /\ r.addr = d.addr

ControlSame(d, r) ==
  \A e \in Control :
    r.ep[e].active = d.ep[e].active /\ r.ep[e].left = d.ep[e].left /\ r.trb[e] = d.trb[e]

EventsSame(d, r) ==
  /\ Len(r.ev) = Len(d.ev)
  /\ \A k \in 1 .. Len(d.ev) :
       /\ r.ev[k].t = d.ev[k].t /\ r.ev[k].e = d.ev[k].e
       /\ r.ev[k].stage = d.ev[k].stage
       /\ IsEnd(d.ev[k]) => r.ev[k].old = d.ev[k].old

Frame(d, r) ==
  r \in Device /\ Same(d, r) /\ ControlSame(d, r) /\ EventsSame(d, r)

(* No bulk pipe starts, and the events that become old are of pipes at rest.*)
Quiets(d, r) ==
  /\ \A e \in Bulk : r.ep[e].active => d.ep[e].active
  /\ \A k \in 1 .. Len(d.ev) : d.ev[k].t = "complete" /\ d.ev[k].e \in Bulk =>
       (r.ev[k].old => d.ev[k].old \/ ~r.ep[d.ev[k].e].active)

BulkRests(r) == \A e \in Bulk : ~r.ep[e].active

(* The second stage of a reset has ended what was under way.                *)
Revived(d, r) == r.ready /\ ~d.ready => BulkRests(r)

(* Only fields change that no transfer depends on.                          *)
Plain(d, r) ==
  /\ r \in Device /\ Same(d, r) /\ r.stall = d.stall
  /\ r.ep = d.ep /\ r.trb = d.trb /\ r.ev = d.ev

(* An event of the buffer is one of the four kinds.                         *)
LEMMA EventIs ==
  ASSUME NEW d \in Device, NEW k \in 1 .. Len(d.ev)
  PROVE  /\ d.ev[k] \in Events /\ d.ev[k].e \in Endpoints /\ d.ev[k].old \in BOOLEAN
         /\ IsPoll(d.ev[k]) => d.ev[k] \in NotReady
         /\ d.ev[k].t = "complete" => d.ev[k] \in Completion
  <1>1. d.ev \in Seq(Events)
    BY DEF Device, Buffer
  <1>2. d.ev[k] \in Events
    BY <1>1, ElementOfSeq
  <1>3. QED
    BY <1>2, EndpointNumbers DEF Events, Completion, NotReady, LinkChange, Connected, IsPoll

(* A transfer that is ended leaves its events in place.                     *)
LEMMA AgedEvents ==
  ASSUME NEW s \in Buffer, NEW e
  PROVE  /\ Aged(s, e) \in Buffer /\ Len(Aged(s, e)) = Len(s)
         /\ \A k \in 1 .. Len(s) :
              /\ Aged(s, e)[k].t = s[k].t /\ Aged(s, e)[k].e = s[k].e
              /\ Aged(s, e)[k].stage = s[k].stage
              /\ Aged(s, e)[k].old = (s[k].old \/ (s[k].t = "complete" /\ s[k].e = e))
  <1>1. DOMAIN s = 1 .. Len(s) /\ Len(s) \in Nat
    BY LenProperties DEF Buffer
  <1>2. \A k \in 1 .. Len(s) : s[k] \in Events
    BY ElementOfSeq DEF Buffer
  <1> DEFINE a == Aged(s, e)
  <1>3. DOMAIN a = 1 .. Len(s)
    BY <1>1 DEF Aged
  <1>4. ASSUME NEW k \in 1 .. Len(s)
        PROVE  /\ a[k] \in Events /\ a[k].t = s[k].t /\ a[k].e = s[k].e
               /\ a[k].stage = s[k].stage
               /\ a[k].old = (s[k].old \/ (s[k].t = "complete" /\ s[k].e = e))
    <2>1. a[k] = IF s[k].t = "complete" /\ s[k].e = e
                 THEN [s[k] EXCEPT !.old = TRUE] ELSE s[k]
      BY <1>1 DEF Aged
    <2>2. s[k] \in Events
      BY <1>2
    <2>3. s[k].old \in BOOLEAN
      BY <2>2 DEF Events, Completion, NotReady, LinkChange, Connected
    <2>4. CASE ~(s[k].t = "complete" /\ s[k].e = e)
      BY <2>1, <2>2, <2>3, <2>4
    <2>5. CASE s[k].t = "complete" /\ s[k].e = e
      <3>1. s[k] \in Completion
        BY <2>2, <2>5 DEF Events, Completion, NotReady, LinkChange, Connected
      <3>2. [s[k] EXCEPT !.old = TRUE] \in Completion
        BY <3>1 DEF Completion
      <3>3. QED
        BY <2>1, <2>5, <3>1, <3>2 DEF Events, Completion
    <2>6. QED
      BY <2>4, <2>5
  <1>5. a = [k \in 1 .. Len(s) |-> a[k]]
    BY <1>1 DEF Aged
  <1>6. a \in Buffer /\ Len(a) = Len(s)
    BY <1>1, <1>3, <1>4, <1>5, SMT DEF Buffer
  <1>7. QED
    BY <1>4, <1>6

(* So does one that the foreground starts again.                            *)
LEMMA OvertakenEvents ==
  ASSUME NEW s \in Buffer, NEW e
  PROVE  /\ Overtaken(s, e) \in Buffer /\ Len(Overtaken(s, e)) = Len(s)
         /\ \A k \in 1 .. Len(s) :
              /\ Overtaken(s, e)[k].t = s[k].t /\ Overtaken(s, e)[k].e = s[k].e
              /\ Overtaken(s, e)[k].stage = s[k].stage
              /\ s[k].t = "complete" /\ s[k].e = e => ~Overtaken(s, e)[k].old
              /\ ~(s[k].t = "complete" /\ s[k].e = e) => Overtaken(s, e)[k] = s[k]
  <1>1. DOMAIN s = 1 .. Len(s) /\ Len(s) \in Nat
    BY LenProperties DEF Buffer
  <1>2. \A k \in 1 .. Len(s) : s[k] \in Events
    BY ElementOfSeq DEF Buffer
  <1> DEFINE a == Overtaken(s, e)
  <1>3. DOMAIN a = 1 .. Len(s)
    BY <1>1 DEF Overtaken
  <1>4. ASSUME NEW k \in 1 .. Len(s)
        PROVE  /\ a[k] \in Events /\ a[k].t = s[k].t /\ a[k].e = s[k].e
               /\ a[k].stage = s[k].stage
               /\ s[k].t = "complete" /\ s[k].e = e => ~a[k].old
               /\ ~(s[k].t = "complete" /\ s[k].e = e) => a[k] = s[k]
    <2>1. a[k] = IF s[k].t = "complete" /\ s[k].e = e
                 THEN [s[k] EXCEPT !.old = FALSE, !.again = TRUE] ELSE s[k]
      BY <1>1 DEF Overtaken
    <2>2. s[k] \in Events
      BY <1>2
    <2>3. CASE ~(s[k].t = "complete" /\ s[k].e = e)
      BY <2>1, <2>2, <2>3
    <2>4. CASE s[k].t = "complete" /\ s[k].e = e
      <3>1. s[k] \in Completion
        BY <2>2, <2>4 DEF Events, Completion, NotReady, LinkChange, Connected
      <3> DEFINE o == [s[k] EXCEPT !.old = FALSE]
                 q == [o EXCEPT !.again = TRUE]
      <3>2. o \in Completion /\ o.t = s[k].t /\ o.e = s[k].e /\ o.stage = s[k].stage /\ ~o.old
        BY <3>1 DEF Completion
      <3> HIDE DEF o
      <3>3. q \in Completion /\ q.t = o.t /\ q.e = o.e /\ q.stage = o.stage /\ q.old = o.old
        BY <3>2 DEF Completion
      <3>4. a[k] = q
        BY <2>1, <2>4 DEF o
      <3> HIDE DEF q
      <3>5. QED
        BY <2>4, <3>2, <3>3, <3>4 DEF Events
    <2>5. QED
      BY <2>3, <2>4
  <1>5. a = [k \in 1 .. Len(s) |-> a[k]]
    BY <1>1 DEF Overtaken
  <1>6. a \in Buffer /\ Len(a) = Len(s)
    BY <1>1, <1>3, <1>4, <1>5, SMT DEF Buffer
  <1>7. QED
    BY <1>4, <1>6

-----------------------------------------------------------------------------
(* A transfer that is begun is the only thing that changes.                 *)
LEMMA Started ==
  ASSUME NEW d \in Device, NEW e \in Endpoints, NEW kind \in Kinds,
         NEW size \in Int, NEW n \in Int
  PROVE  LET r == usb_hal_dep_xfer_start(d, e, kind, size, n) IN
         /\ r \in Device /\ Same(d, r) /\ Placed(d, r) /\ r.stall = d.stall /\ r.ev = d.ev
         /\ r.ep[e].active /\ r.ep[e].left = n /\ r.ep[e].count = 0 /\ r.ep[e].len = size
         /\ r.trb[e] = kind
         /\ \A x \in Endpoints \ {e} : r.ep[x] = d.ep[x] /\ r.trb[x] = d.trb[x]
  <1> DEFINE p == [d.ep[e] EXCEPT !.active = TRUE, !.left = n, !.count = 0, !.len = size]
             r == usb_hal_dep_xfer_start(d, e, kind, size, n)
  <1>1. d.ep \in EndpointTable /\ d.trb \in TrbTable /\ d.moved \in CountTable
    BY DEF Device
  <1>2. d.ep[e] \in Endpoint
    BY <1>1 DEF EndpointTable
  <1>3. /\ p \in Endpoint /\ p.active /\ p.left = n /\ p.count = 0 /\ p.len = size
    <2> DEFINE a == [d.ep[e] EXCEPT !.active = TRUE]
               b == [a EXCEPT !.left = n]
               c == [b EXCEPT !.count = 0]
    <2>1. a \in Endpoint /\ a.active
      BY <1>2 DEF Endpoint
    <2>2. b \in Endpoint /\ b.active /\ b.left = n
      <3> HIDE DEF a
      <3>1. QED
        BY <2>1 DEF Endpoint
    <2>3. c \in Endpoint /\ c.active /\ c.left = n /\ c.count = 0
      <3> HIDE DEF b
      <3>1. QED
        BY <2>2 DEF Endpoint
    <2>4. p = [c EXCEPT !.len = size]
      OBVIOUS
    <2> HIDE DEF c, p
    <2>5. QED
      BY <2>3, <2>4 DEF Endpoint
  <1>4. r = [d EXCEPT !.ep = [d.ep EXCEPT ![e] = p], !.trb = [d.trb EXCEPT ![e] = kind],
                      !.moved = [d.moved EXCEPT ![e] = 0]]
    BY DEF usb_hal_dep_xfer_start
  <1> HIDE DEF p, r
  <1>5. /\ [d.ep EXCEPT ![e] = p] \in EndpointTable
        /\ [d.trb EXCEPT ![e] = kind] \in TrbTable
        /\ [d.moved EXCEPT ![e] = 0] \in CountTable
    BY <1>1, <1>3 DEF EndpointTable, TrbTable, CountTable
  <1>6. r \in Device
    BY <1>4, <1>5 DEF Device
  <1>7. r.ep = [d.ep EXCEPT ![e] = p] /\ r.trb = [d.trb EXCEPT ![e] = kind]
    BY <1>4 DEF Device
  <1>8. Same(d, r) /\ Placed(d, r) /\ r.stall = d.stall /\ r.ev = d.ev
    BY <1>4 DEF Device, Same, Placed
  <1>9. /\ r.ep[e] = p /\ r.trb[e] = kind
        /\ \A x \in Endpoints \ {e} : r.ep[x] = d.ep[x] /\ r.trb[x] = d.trb[x]
    BY <1>1, <1>7 DEF EndpointTable, TrbTable
  <1>10. QED
    BY <1>3, <1>6, <1>8, <1>9 DEF r

(* A transfer that is ended is at rest, and what waits of it is old.        *)
LEMMA Cancelled ==
  ASSUME NEW d \in Device, NEW e
  PROVE  LET r == usb_hal_cancel_io_request(d, e) IN
         /\ r \in Device /\ Same(d, r) /\ Placed(d, r) /\ r.stall = d.stall
         /\ e \in Endpoints => /\ ~r.ep[e].active
                               /\ r.trb[e] = IF d.ep[e].active THEN "none" ELSE d.trb[e]
                               /\ r.ep[e].stalled = d.ep[e].stalled
         /\ \A x \in Endpoints \ {e} : r.ep[x] = d.ep[x] /\ r.trb[x] = d.trb[x]
         /\ Len(r.ev) = Len(d.ev)
         /\ \A k \in 1 .. Len(d.ev) :
              /\ r.ev[k].t = d.ev[k].t /\ r.ev[k].e = d.ev[k].e
              /\ r.ev[k].stage = d.ev[k].stage
              /\ r.ev[k].old # d.ev[k].old => d.ev[k].t = "complete" /\ d.ev[k].e = e
  <1> DEFINE c == [d EXCEPT !.ep[e].active = FALSE, !.trb[e] = "none", !.ev = Aged(@, e)]
             r == usb_hal_cancel_io_request(d, e)
  <1>1. d.ep \in EndpointTable /\ d.trb \in TrbTable /\ d.ev \in Buffer
    BY DEF Device
  <1>2. CASE ~d.ep[e].active
    <2>1. r = d
      BY <1>2 DEF usb_hal_cancel_io_request
    <2>2. QED
      BY <1>2, <2>1 DEF Same, Placed
  <1>3. CASE d.ep[e].active
    <2> DEFINE p == [d.ep[e] EXCEPT !.active = FALSE]
    <2>1. e \in Endpoints => p \in Endpoint /\ ~p.active /\ p.stalled = d.ep[e].stalled
      BY <1>1 DEF EndpointTable, Endpoint
    <2>2. r = [d EXCEPT !.ep = [d.ep EXCEPT ![e] = p], !.trb = [d.trb EXCEPT ![e] = "none"],
                        !.ev = Aged(d.ev, e)]
      BY <1>3 DEF usb_hal_cancel_io_request
    <2> HIDE DEF p, r
    <2>3. [d.ep EXCEPT ![e] = p] \in EndpointTable
      BY <1>1, <2>1 DEF EndpointTable
    <2>4. [d.trb EXCEPT ![e] = "none"] \in TrbTable
      BY <1>1 DEF TrbTable, Kinds
    <2>5. Aged(d.ev, e) \in Buffer
      BY <1>1, AgedEvents
    <2>6. r \in Device
      BY <2>2, <2>3, <2>4, <2>5 DEF Device
    <2>7. /\ r.ep = [d.ep EXCEPT ![e] = p] /\ r.trb = [d.trb EXCEPT ![e] = "none"]
          /\ r.ev = Aged(d.ev, e)
      BY <2>2 DEF Device
    <2>8. Same(d, r) /\ Placed(d, r) /\ r.stall = d.stall
      BY <2>2 DEF Device, Same, Placed
    <2>9. /\ e \in Endpoints => r.ep[e] = p /\ r.trb[e] = "none"
          /\ \A x \in Endpoints \ {e} : r.ep[x] = d.ep[x] /\ r.trb[x] = d.trb[x]
      BY <1>1, <2>7 DEF EndpointTable, TrbTable
    <2>10. /\ Len(r.ev) = Len(d.ev)
           /\ \A k \in 1 .. Len(d.ev) :
                /\ r.ev[k].t = d.ev[k].t /\ r.ev[k].e = d.ev[k].e
                /\ r.ev[k].stage = d.ev[k].stage
                /\ r.ev[k].old = (d.ev[k].old \/ (d.ev[k].t = "complete" /\ d.ev[k].e = e))
      BY <1>1, <2>7, AgedEvents
    <2>11. \A k \in 1 .. Len(d.ev) : d.ev[k].old \in BOOLEAN
      BY EventIs
    <2>12. \A k \in 1 .. Len(d.ev) :
             r.ev[k].old # d.ev[k].old => d.ev[k].t = "complete" /\ d.ev[k].e = e
      BY <2>10, <2>11
    <2>13. QED
      BY <1>3, <2>1, <2>6, <2>8, <2>9, <2>10, <2>12 DEF r
  <1>4. QED
    BY <1>2, <1>3

-----------------------------------------------------------------------------
(* Frames compose.                                                          *)
LEMMA PlainIsFrame ==
  ASSUME NEW d \in Device, NEW r, Plain(d, r)
  PROVE  Frame(d, r) /\ Quiets(d, r)
  BY DEF Plain, Frame, Quiets, ControlSame, EventsSame

(* Two steps that leave the control endpoint alone are one.                 *)
LEMMA FrameTransitive ==
  ASSUME NEW d, NEW s, NEW r, Frame(d, s), Frame(s, r)
  PROVE  Frame(d, r)
  <1>1. Same(d, r)
    BY DEF Frame, Same
  <1>2. ControlSame(d, r)
    BY DEF Frame, ControlSame
  <1>3. EventsSame(d, r)
    <2>1. EventsSame(d, s) /\ EventsSame(s, r)
      BY DEF Frame
    <2>2. QED
      BY <2>1 DEF EventsSame, IsEnd
  <1>4. QED
    BY <1>1, <1>2, <1>3 DEF Frame

(* Two steps that start no bulk pipe are one.                               *)
LEMMA QuietsTransitive ==
  ASSUME NEW d, NEW s, NEW r, EventsSame(d, s), Quiets(d, s), Quiets(s, r)
  PROVE  Quiets(d, r)
  BY DEF EventsSame, Quiets

(* The buffer is the same one.                                              *)
LEMMA BufferSame ==
  ASSUME NEW d, NEW r, r.ev = d.ev
  PROVE  /\ EventsSame(d, r) /\ (NoEnd(d) => NoEnd(r))
         /\ (\A e \in Bulk : r.ep[e].active => d.ep[e].active) => Quiets(d, r)
  <1>1. EventsSame(d, r)
    BY DEF EventsSame
  <1>2. NoEnd(d) => NoEnd(r)
    BY DEF NoEnd
  <1>3. ASSUME \A e \in Bulk : r.ep[e].active => d.ep[e].active
        PROVE  Quiets(d, r)
    BY <1>3 DEF Quiets
  <1>4. QED
    BY <1>1, <1>2, <1>3

(* The first of two steps leaves the pipes and the buffer.                  *)
LEMMA SameBefore ==
  ASSUME NEW d, NEW a, a.ev = d.ev, a.ep = d.ep, NEW r
  PROVE  /\ EventsSame(a, r) => EventsSame(d, r)
         /\ Quiets(a, r) => Quiets(d, r)
  <1>1. EventsSame(a, r) => EventsSame(d, r)
    BY DEF EventsSame
  <1>2. Quiets(a, r) => Quiets(d, r)
    BY DEF Quiets
  <1>3. QED
    BY <1>1, <1>2

(* Two steps that leave the place and the address are one.                  *)
LEMMA PlacedTransitive ==
  ASSUME NEW d, NEW s, NEW r, Placed(d, s), Placed(s, r)
  PROVE  Placed(d, r)
  BY DEF Placed

(* The fields that no transfer depends on.                                  *)
LEMMA PlainFields ==
  ASSUME NEW d \in Device
  PROVE  /\ \A v \in BOOLEAN :
              /\ Plain(d, [d EXCEPT !.onOut = v]) /\ Placed(d, [d EXCEPT !.onOut = v])
              /\ Plain(d, [d EXCEPT !.u1 = v]) /\ Placed(d, [d EXCEPT !.u1 = v])
              /\ Plain(d, [d EXCEPT !.u2 = v]) /\ Placed(d, [d EXCEPT !.u2 = v])
              /\ Plain(d, [d EXCEPT !.test = v]) /\ Placed(d, [d EXCEPT !.test = v])
              /\ Plain(d, [d EXCEPT !.persist = v]) /\ Placed(d, [d EXCEPT !.persist = v])
              /\ Plain(d, [d EXCEPT !.run = v]) /\ Placed(d, [d EXCEPT !.run = v])
         /\ \A v \in Classes : Plain(d, [d EXCEPT !.class = v]) /\ Placed(d, [d EXCEPT !.class = v])
         /\ \A v \in PipeSets :
              Plain(d, [d EXCEPT !.enabled = v]) /\ Placed(d, [d EXCEPT !.enabled = v])
         /\ \A v \in Links : Plain(d, [d EXCEPT !.pm = v]) /\ Placed(d, [d EXCEPT !.pm = v])
         /\ \A v \in AnySpeed : Plain(d, [d EXCEPT !.speed = v]) /\ Placed(d, [d EXCEPT !.speed = v])
         /\ \A v \in Nat : Plain(d, [d EXCEPT !.conf = v]) /\ Placed(d, [d EXCEPT !.conf = v])
         /\ \A v \in Settings : Plain(d, [d EXCEPT !.alt = v]) /\ Placed(d, [d EXCEPT !.alt = v])
         /\ \A v \in Nat : Plain(d, [d EXCEPT !.addr = v]) /\ [d EXCEPT !.addr = v].addr = v
                           /\ [d EXCEPT !.addr = v].dev = d.dev
         /\ \A v \in Places : Plain(d, [d EXCEPT !.dev = v]) /\ [d EXCEPT !.dev = v].dev = v
                              /\ [d EXCEPT !.dev = v].addr = d.addr
  BY SMTT(60) DEF Plain, Placed, Same, Device

(* A bulk transfer that is ended.                                           *)
LEMMA BulkCancelled ==
  ASSUME NEW d \in Device, NEW e, e \notin Control
  PROVE  LET r == usb_hal_cancel_io_request(d, e) IN
         /\ Frame(d, r) /\ Placed(d, r) /\ Quiets(d, r) /\ r.stall = d.stall
         /\ e \in Bulk => ~r.ep[e].active
  <1> DEFINE r == usb_hal_cancel_io_request(d, e)
  <1>1. /\ r \in Device /\ Same(d, r) /\ Placed(d, r) /\ r.stall = d.stall
        /\ e \in Endpoints => ~r.ep[e].active
        /\ \A x \in Endpoints \ {e} : r.ep[x] = d.ep[x] /\ r.trb[x] = d.trb[x]
        /\ Len(r.ev) = Len(d.ev)
        /\ \A k \in 1 .. Len(d.ev) :
             /\ r.ev[k].t = d.ev[k].t /\ r.ev[k].e = d.ev[k].e
             /\ r.ev[k].stage = d.ev[k].stage
             /\ r.ev[k].old # d.ev[k].old => d.ev[k].t = "complete" /\ d.ev[k].e = e
    BY Cancelled
  <1> HIDE DEF r
  <1>2. Control \subseteq Endpoints \ {e} /\ Bulk \subseteq Endpoints
    BY EndpointNumbers
  <1>3. ControlSame(d, r)
    BY <1>1, <1>2 DEF ControlSame
  <1>4. EventsSame(d, r)
    BY <1>1 DEF EventsSame, IsEnd
  <1>5. Quiets(d, r)
    <2>1. \A x \in Bulk : r.ep[x].active => d.ep[x].active
      BY <1>1, <1>2
    <2>2. ASSUME NEW k \in 1 .. Len(d.ev), d.ev[k].t = "complete", d.ev[k].e \in Bulk, r.ev[k].old
          PROVE  d.ev[k].old \/ ~r.ep[d.ev[k].e].active
      BY <1>1, <1>2, <2>2
    <2>3. QED
      BY <2>1, <2>2 DEF Quiets
  <1>6. e \in Bulk => ~r.ep[e].active
    BY <1>1, <1>2
  <1>7. QED
    BY <1>1, <1>3, <1>4, <1>5, <1>6 DEF Frame, r

(* All bulk transfers are ended.                                            *)
LEMMA AllCancelled ==
  ASSUME NEW d \in Device
  PROVE  LET r == usb_hal_cancel_all_io_requests(d) IN
         /\ Frame(d, r) /\ Placed(d, r) /\ Quiets(d, r) /\ BulkRests(r)
         /\ r.stall = d.stall
  <1> DEFINE a == usb_hal_cancel_io_request(d, CMD_OUT)
             b == usb_hal_cancel_io_request(a, STATUS_IN)
             c == usb_hal_cancel_io_request(b, DATA_OUT)
             r == usb_hal_cancel_io_request(c, DATA_IN)
  <1>1. /\ CMD_OUT \in Bulk /\ STATUS_IN \in Bulk /\ DATA_OUT \in Bulk /\ DATA_IN \in Bulk
        /\ \A e \in Bulk : e \notin Control
        /\ Bulk = {CMD_OUT, STATUS_IN, DATA_OUT, DATA_IN}
    BY EndpointNumbers
  <1>2. Frame(d, a) /\ Placed(d, a) /\ Quiets(d, a) /\ a.stall = d.stall /\ ~a.ep[CMD_OUT].active
    BY <1>1, BulkCancelled
  <1> HIDE DEF a
  <1>3. Frame(a, b) /\ Placed(a, b) /\ Quiets(a, b) /\ b.stall = a.stall /\ ~b.ep[STATUS_IN].active
    BY <1>1, <1>2, BulkCancelled DEF Frame
  <1> HIDE DEF b
  <1>4. Frame(b, c) /\ Placed(b, c) /\ Quiets(b, c) /\ c.stall = b.stall /\ ~c.ep[DATA_OUT].active
    BY <1>1, <1>3, BulkCancelled DEF Frame
  <1> HIDE DEF c
  <1>5. Frame(c, r) /\ Placed(c, r) /\ Quiets(c, r) /\ r.stall = c.stall /\ ~r.ep[DATA_IN].active
    BY <1>1, <1>4, BulkCancelled DEF Frame
  <1>6. r = usb_hal_cancel_all_io_requests(d)
    BY DEF usb_hal_cancel_all_io_requests, a, b, c
  <1> HIDE DEF r
  <1>7. Frame(d, b) /\ Frame(d, c) /\ Frame(d, r)
    BY <1>2, <1>3, <1>4, <1>5, FrameTransitive
  <1>8. Placed(d, r) /\ r.stall = d.stall
    BY <1>2, <1>3, <1>4, <1>5 DEF Placed
  <1>9. Quiets(d, b) /\ Quiets(d, c) /\ Quiets(d, r)
    <2>1. EventsSame(d, a) /\ EventsSame(d, b) /\ EventsSame(d, c)
      BY <1>2, <1>7 DEF Frame
    <2>2. Quiets(d, b)
      BY <1>2, <1>3, <2>1, QuietsTransitive
    <2>3. Quiets(d, c)
      BY <1>4, <2>1, <2>2, QuietsTransitive
    <2>4. QED
      BY <1>5, <2>1, <2>2, <2>3, QuietsTransitive
  <1>10. BulkRests(r)
    <2>1. \A e \in Bulk : /\ r.ep[e].active => c.ep[e].active
                          /\ c.ep[e].active => b.ep[e].active
                          /\ b.ep[e].active => a.ep[e].active
      BY <1>3, <1>4, <1>5 DEF Quiets
    <2>2. QED
      BY <1>1, <1>2, <1>3, <1>4, <1>5, <2>1 DEF BulkRests
  <1>11. QED
    BY <1>6, <1>7, <1>8, <1>9, <1>10

(* A transfer is asked for at an endpoint that is at rest.                  *)
LEMMA Requested ==
  ASSUME NEW d \in Device, NEW e \in Endpoints, ~d.ep[e].active, NEW n \in Int,
         NEW w \in BOOLEAN
  PROVE  LET r == usb_hal_io_request(d, e, n, w) IN
         /\ r \in Device /\ Same(d, r) /\ Placed(d, r) /\ r.stall = d.stall /\ r.ev = d.ev
         /\ r.ep[e].active /\ r.ep[e].left = n /\ r.trb[e] = "normal"
         /\ \A x \in Endpoints \ {e} : r.ep[x] = d.ep[x] /\ r.trb[x] = d.trb[x]
  <1> DEFINE r == usb_hal_io_request(d, e, n, w)
             f == [d EXCEPT !.ep[e].window = w]
             size == IF Dir(e) = "out" THEN Rounded(n) ELSE n
             p == [d.ep[e] EXCEPT !.window = w]
  <1>1. r = usb_hal_dep_xfer_start(f, e, "normal", size, n)
    BY DEF usb_hal_io_request
  <1>2. size \in Int
    BY DEF Rounded, Packet
  <1>3. d.ep \in EndpointTable /\ d.ep[e] \in Endpoint
    BY DEF Device, EndpointTable
  <1>4. p \in Endpoint
    BY <1>3 DEF Endpoint
  <1>5. f = [d EXCEPT !.ep = [d.ep EXCEPT ![e] = p]]
    OBVIOUS
  <1> HIDE DEF p, f, size
  <1>6. [d.ep EXCEPT ![e] = p] \in EndpointTable
    BY <1>3, <1>4 DEF EndpointTable
  <1>7. f \in Device
    BY <1>5, <1>6 DEF Device
  <1>8. /\ f.ep = [d.ep EXCEPT ![e] = p] /\ f.trb = d.trb /\ f.ev = d.ev
        /\ Same(d, f) /\ Placed(d, f) /\ f.stall = d.stall
    BY <1>5 DEF Device, Same, Placed
  <1>9. \A x \in Endpoints \ {e} : f.ep[x] = d.ep[x]
    BY <1>3, <1>8 DEF EndpointTable
  <1>10. /\ r \in Device /\ Same(f, r) /\ Placed(f, r) /\ r.stall = f.stall /\ r.ev = f.ev
         /\ r.ep[e].active /\ r.ep[e].left = n /\ r.trb[e] = "normal"
         /\ \A x \in Endpoints \ {e} : r.ep[x] = f.ep[x] /\ r.trb[x] = f.trb[x]
    <2>1. "normal" \in Kinds
      BY DEF Kinds
    <2>2. QED
      BY <1>1, <1>2, <1>7, <2>1, Started
  <1> HIDE DEF r
  <1>11. QED
    BY <1>8, <1>9, <1>10 DEF Same, Placed, r

(* The same of a buffer that is no wrap window.                             *)
Begun(d, r, e, n) ==
  /\ r \in Device /\ Same(d, r) /\ Placed(d, r) /\ r.stall = d.stall /\ r.ev = d.ev
  /\ r.ep[e].active /\ r.ep[e].left = n /\ r.trb[e] = "normal"
  /\ \A x \in Endpoints \ {e} : r.ep[x] = d.ep[x] /\ r.trb[x] = d.trb[x]

(* A transfer that is asked for without a window starts, and nothing else   *)
(* does.                                                                    *)
LEMMA RequestedWhole ==
  ASSUME NEW d \in Device, NEW e \in Endpoints, ~d.ep[e].active, NEW n \in Int
  PROVE  Begun(d, usb_hal_io_request(d, e, n, FALSE), e, n)
  <1>1. ASSUME NEW w \in BOOLEAN
        PROVE  Begun(d, usb_hal_io_request(d, e, n, w), e, n)
    BY Requested DEF Begun
  <1>2. QED
    BY <1>1

(* A bulk transfer is asked for.                                            *)
LEMMA BulkStarted ==
  ASSUME NEW d \in Device, NEW e \in Bulk, NEW n \in Int, NEW w \in BOOLEAN
  PROVE  LET r == usb_hal_io_request(d, e, n, w) IN
         /\ Frame(d, r) /\ Placed(d, r) /\ r.stall = d.stall
         /\ \A x \in Bulk \ {e} : r.ep[x].active = d.ep[x].active
         /\ r.ev = d.ev
  <1> DEFINE r == usb_hal_io_request(d, e, n, w)
  <1>1. e \in Endpoints /\ Control \subseteq Endpoints \ {e} /\ Bulk \subseteq Endpoints
    BY EndpointNumbers
  <1>2. CASE d.ep[e].active
    <2>1. r = d
      BY <1>2 DEF usb_hal_io_request
    <2>2. QED
      BY <2>1 DEF Frame, Same, Placed, ControlSame, EventsSame
  <1>3. CASE ~d.ep[e].active
    <2>1. /\ r \in Device /\ Same(d, r) /\ Placed(d, r) /\ r.stall = d.stall /\ r.ev = d.ev
          /\ \A x \in Endpoints \ {e} : r.ep[x] = d.ep[x] /\ r.trb[x] = d.trb[x]
      BY <1>1, <1>3, Requested
    <2> HIDE DEF r
    <2>2. ControlSame(d, r) /\ EventsSame(d, r)
      BY <1>1, <2>1 DEF ControlSame, EventsSame
    <2>3. QED
      BY <1>1, <2>1, <2>2 DEF Frame, r
  <1>4. QED
    BY <1>2, <1>3

(* The second stage of a reset of the bus.                                  *)
LEMMA ResetDone ==
  ASSUME NEW d \in Device
  PROVE  LET r == usb_hal_handle_usb_reset_stage2(d) IN
         /\ r \in Device /\ r.ready /\ r.dev = "default" /\ r.addr = 0 /\ BulkRests(r)
         /\ r.st = d.st /\ r.zlp = d.zlp /\ r.three = d.three /\ r.pkt = d.pkt
         /\ r.buffer = d.buffer /\ r.first = d.first /\ r.held = d.held /\ r.asked = d.asked
         /\ r.stall = d.stall /\ ControlSame(d, r) /\ EventsSame(d, r) /\ Quiets(d, r)
  <1> DEFINE a == [d EXCEPT !.dev = "default"]
             c == usb_hal_cancel_all_io_requests(a)
             r == usb_hal_handle_usb_reset_stage2(d)
  <1>1. Plain(d, a) /\ a.dev = "default"
    BY PlainFields DEF Places
  <1>2. a \in Device
    BY <1>1 DEF Plain
  <1> HIDE DEF a
  <1>3. /\ Frame(a, c) /\ Placed(a, c) /\ Quiets(a, c) /\ BulkRests(c)
        /\ c.stall = a.stall
    BY <1>2, AllCancelled
  <1>4. r = [c EXCEPT !.addr = 0, !.ready = TRUE, !.pm = "reset"]
    BY DEF usb_hal_handle_usb_reset_stage2, usb_hal_set_address, a
  <1> HIDE DEF c, r
  <1>5. /\ r \in Device /\ r.ready /\ r.addr = 0 /\ r.dev = c.dev /\ r.ep = c.ep /\ r.trb = c.trb
        /\ r.ev = c.ev /\ r.stall = c.stall
        /\ r.st = c.st /\ r.zlp = c.zlp /\ r.three = c.three /\ r.pkt = c.pkt
        /\ r.buffer = c.buffer /\ r.first = c.first /\ r.held = c.held /\ r.asked = c.asked
    <2>1. "reset" \in Links /\ 0 \in Nat
      BY DEF Links
    <2>2. c \in Device
      BY <1>3 DEF Frame
    <2>3. QED
      BY <1>4, <2>1, <2>2 DEF Device
  <1>6. Frame(d, c) /\ Quiets(d, c)
    <2>1. Frame(d, a) /\ Quiets(d, a)
      BY <1>1, PlainIsFrame
    <2>2. QED
      BY <1>3, <2>1, FrameTransitive, QuietsTransitive DEF Frame
  <1>7. BulkRests(r) /\ ControlSame(d, r) /\ EventsSame(d, r) /\ Quiets(d, r)
    BY <1>3, <1>5, <1>6 DEF BulkRests, Frame, ControlSame, EventsSame, Quiets
  <1>8. r.stall = d.stall
    BY <1>1, <1>3, <1>5 DEF Plain
  <1>9. QED
    BY <1>1, <1>3, <1>5, <1>6, <1>7, <1>8 DEF Frame, Same, Placed, r

(* What is left when the endpoint awaits a SETUP again; the second stage of *)
(* a reset is made up for.                                                  *)
IdleAgain(d, r) ==
  /\ r \in Device /\ r.st = "idle" /\ r.ready
  /\ r.buffer = d.buffer /\ r.first = d.first
  /\ r.held = d.held /\ r.asked = d.asked
  /\ r.ep[EP0_OUT].active /\ r.trb[EP0_OUT] = "setup"
  /\ EventsSame(d, r) /\ Quiets(d, r)
  /\ d.ready => Placed(d, r)
  /\ ~d.ready => r.dev = "default" /\ r.addr = 0 /\ BulkRests(r)

InSame(d, r) == r.ep[EP0_IN].active = d.ep[EP0_IN].active /\ r.trb[EP0_IN] = d.trb[EP0_IN]

(* usb_hal_ep0_setup_stage leaves the endpoint idle, with a TRB that awaits *)
(* a SETUP.                                                                 *)
LEMMA SetupStage ==
  ASSUME NEW d \in Device
  PROVE  LET r == usb_hal_ep0_setup_stage(d) IN
         IdleAgain(d, r) /\ InSame(d, r) /\ r.stall = d.stall
  <1> DEFINE a == [d EXCEPT !.st = "idle", !.zlp = FALSE]
             s == usb_hal_dep_xfer_start(a, EP0_OUT, "setup", Packet, Packet)
             r == usb_hal_ep0_setup_stage(d)
  <1>1. /\ EP0_OUT \in Endpoints /\ EP0_IN \in Endpoints \ {EP0_OUT}
        /\ Bulk \subseteq Endpoints \ {EP0_OUT} /\ Control = {EP0_OUT, EP0_IN}
    BY EndpointNumbers
  <1>2. /\ a \in Device /\ a.st = "idle" /\ a.three = d.three /\ a.buffer = d.buffer
        /\ a.first = d.first /\ a.held = d.held /\ a.asked = d.asked /\ a.ready = d.ready
        /\ a.ep = d.ep /\ a.trb = d.trb /\ a.ev = d.ev /\ a.stall = d.stall
        /\ a.dev = d.dev /\ a.addr = d.addr
    <2>1. "idle" \in States
      BY DEF States
    <2>2. QED
      BY <2>1 DEF Device
  <1> HIDE DEF a
  <1>3. /\ s \in Device /\ Same(a, s) /\ Placed(a, s) /\ s.stall = a.stall /\ s.ev = a.ev
        /\ s.ep[EP0_OUT].active /\ s.trb[EP0_OUT] = "setup"
        /\ \A x \in Endpoints \ {EP0_OUT} : s.ep[x] = a.ep[x] /\ s.trb[x] = a.trb[x]
    BY <1>1, <1>2, Started DEF Kinds, Packet
  <1>4. r = IF s.ready THEN s ELSE usb_hal_handle_usb_reset_stage2(s)
    BY DEF usb_hal_ep0_setup_stage, a
  <1> HIDE DEF s, r
  <1>5. EventsSame(d, s) /\ Quiets(d, s) /\ s.ready = d.ready
    BY <1>1, <1>2, <1>3 DEF EventsSame, Quiets, Same
  <1>6. CASE s.ready
    BY <1>1, <1>2, <1>3, <1>4, <1>5, <1>6 DEF IdleAgain, InSame, Same, Placed, r
  <1>7. CASE ~s.ready
    <2> DEFINE q == usb_hal_handle_usb_reset_stage2(s)
    <2>1. /\ q \in Device /\ q.ready /\ q.dev = "default" /\ q.addr = 0 /\ BulkRests(q)
          /\ q.st = s.st /\ q.three = s.three
          /\ q.buffer = s.buffer /\ q.first = s.first /\ q.held = s.held /\ q.asked = s.asked
          /\ q.stall = s.stall /\ ControlSame(s, q) /\ EventsSame(s, q) /\ Quiets(s, q)
      BY <1>3, ResetDone
    <2>2. r = q
      BY <1>4, <1>7
    <2> HIDE DEF q
    <2>3. Quiets(d, q)
      BY <1>5, <2>1, QuietsTransitive
    <2>4. EventsSame(d, q)
      BY <1>2, <1>3, <2>1 DEF EventsSame
    <2>5. /\ q.ep[EP0_OUT].active /\ q.trb[EP0_OUT] = "setup"
          /\ q.ep[EP0_IN].active = d.ep[EP0_IN].active /\ q.trb[EP0_IN] = d.trb[EP0_IN]
      BY <1>1, <1>2, <1>3, <2>1 DEF ControlSame
    <2>6. QED
      BY <1>2, <1>3, <1>5, <1>7, <2>1, <2>2, <2>3, <2>4, <2>5 DEF IdleAgain, InSame, Same, r
  <1>8. QED
    BY <1>6, <1>7

-----------------------------------------------------------------------------
(* A pipe, or the control endpoint to the host, is halted.                  *)
LEMMA EndpointStalled ==
  ASSUME NEW d \in Device, NEW e, e # EP0_OUT, e = EP0_IN => ~d.ep[e].active
  PROVE  LET r == usb_hal_set_endpt_stall(d, e) IN
         /\ Frame(d, r) /\ Placed(d, r) /\ Quiets(d, r)
         /\ e \notin Control => r.stall = d.stall
  <1> DEFINE c == IF d.ep[e].window THEN usb_hal_cancel_io_request(d, e) ELSE d
             v == IF e \in Control THEN TRUE ELSE c.stall
             r == [c EXCEPT !.ep[e].stalled = TRUE, !.stall = v]
             p == [c.ep[e] EXCEPT !.stalled = TRUE]
  <1>1. r = usb_hal_set_endpt_stall(d, e)
    BY DEF usb_hal_set_endpt_stall
  <1>2. Frame(d, d) /\ Placed(d, d) /\ Quiets(d, d)
    BY DEF Frame, Same, ControlSame, EventsSame, Placed, Quiets
  <1>3. Frame(d, c) /\ Placed(d, c) /\ Quiets(d, c) /\ c.stall = d.stall
    <2>1. CASE e \notin Control
      BY <1>2, <2>1, BulkCancelled
    <2>2. CASE e \in Control
      <3>1. e = EP0_IN /\ ~d.ep[e].active
        BY <2>2 DEF Control
      <3>2. usb_hal_cancel_io_request(d, e) = d
        BY <3>1 DEF usb_hal_cancel_io_request
      <3>3. QED
        BY <1>2, <3>2
    <2>3. QED
      BY <2>1, <2>2
  <1> HIDE DEF c
  <1>4. c \in Device /\ c.ep \in EndpointTable /\ c.stall \in BOOLEAN
    BY <1>3 DEF Frame, Device
  <1>5. v \in BOOLEAN /\ (e \notin Control => v = c.stall)
    BY <1>4
  <1>6. e \in Endpoints => p \in Endpoint /\ p.active = c.ep[e].active /\ p.left = c.ep[e].left
    BY <1>4 DEF EndpointTable, Endpoint
  <1>7. r = [c EXCEPT !.ep = [c.ep EXCEPT ![e] = p], !.stall = v]
    OBVIOUS
  <1> HIDE DEF p, v, r
  <1>8. [c.ep EXCEPT ![e] = p] \in EndpointTable
    BY <1>4, <1>6 DEF EndpointTable
  <1>9. r \in Device
    BY <1>4, <1>5, <1>7, <1>8, ZenonT(90) DEF Device
  <1>10. /\ r.ep = [c.ep EXCEPT ![e] = p] /\ r.trb = c.trb /\ r.ev = c.ev /\ r.stall = v
         /\ Same(c, r) /\ Placed(c, r)
    BY <1>4, <1>7 DEF Device, Same, Placed
  <1>11. \A x \in Endpoints : r.ep[x].active = c.ep[x].active /\ r.ep[x].left = c.ep[x].left
    BY <1>4, <1>6, <1>10 DEF EndpointTable
  <1>12. Control \subseteq Endpoints /\ Bulk \subseteq Endpoints
    BY EndpointNumbers
  <1>13. Frame(c, r) /\ Quiets(c, r)
    BY <1>9, <1>10, <1>11, <1>12 DEF Frame, ControlSame, EventsSame, Quiets
  <1>14. QED
    <2>1. Frame(d, r)
      BY <1>3, <1>13, FrameTransitive
    <2>2. Quiets(d, r)
      BY <1>3, <1>13, QuietsTransitive DEF Frame
    <2>3. Placed(d, r)
      BY <1>3, <1>10 DEF Placed
    <2>4. e \notin Control => r.stall = d.stall
      BY <1>3, <1>5, <1>10
    <2>5. QED
      BY <1>1, <2>1, <2>2, <2>3, <2>4

(* The control endpoint is halted, and awaits a SETUP.                      *)
LEMMA ControlStalled ==
  ASSUME NEW d \in Device, NoEnd(d)
  PROVE  LET r == usb_hal_set_endpt_stall(d, EP0_OUT) IN
         IdleAgain(d, r) /\ InSame(d, r)
  <1> DEFINE c == IF d.ep[EP0_OUT].window THEN usb_hal_cancel_io_request(d, EP0_OUT) ELSE d
             p == [c.ep[EP0_OUT] EXCEPT !.stalled = TRUE]
             s == [c EXCEPT !.ep[EP0_OUT].stalled = TRUE, !.stall = TRUE]
             r == usb_hal_ep0_setup_stage(s)
  <1>1. r = usb_hal_set_endpt_stall(d, EP0_OUT)
    BY DEF usb_hal_set_endpt_stall, Control
  <1>2. /\ EP0_OUT \in Endpoints /\ EP0_IN \in Endpoints \ {EP0_OUT}
        /\ Bulk \subseteq Endpoints \ {EP0_OUT} /\ EP0_OUT \in Control
    BY EndpointNumbers
  <1>3. /\ c \in Device /\ Same(d, c) /\ Placed(d, c) /\ InSame(d, c)
        /\ EventsSame(d, c) /\ Quiets(d, c)
    <2>1. CASE c = d
      BY <2>1 DEF Same, Placed, InSame, EventsSame, Quiets
    <2>2. CASE c = usb_hal_cancel_io_request(d, EP0_OUT)
      <3>1. /\ c \in Device /\ Same(d, c) /\ Placed(d, c)
            /\ \A x \in Endpoints \ {EP0_OUT} : c.ep[x] = d.ep[x] /\ c.trb[x] = d.trb[x]
            /\ Len(c.ev) = Len(d.ev)
            /\ \A k \in 1 .. Len(d.ev) :
                 /\ c.ev[k].t = d.ev[k].t /\ c.ev[k].e = d.ev[k].e
                 /\ c.ev[k].stage = d.ev[k].stage
                 /\ c.ev[k].old # d.ev[k].old => d.ev[k].t = "complete" /\ d.ev[k].e = EP0_OUT
        BY <2>2, Cancelled
      <3> HIDE DEF c
      <3>2. EventsSame(d, c) /\ \A k \in 1 .. Len(d.ev) : c.ev[k].old = d.ev[k].old
        BY <1>2, <3>1 DEF EventsSame, NoEnd, IsEnd
      <3>3. Quiets(d, c)
        BY <1>2, <3>1, <3>2 DEF Quiets
      <3>4. QED
        BY <1>2, <3>1, <3>2, <3>3 DEF InSame
    <2>3. QED
      BY <2>1, <2>2
  <1> HIDE DEF c
  <1>4. c.ep \in EndpointTable /\ c.ep[EP0_OUT] \in Endpoint
    BY <1>2, <1>3 DEF Device, EndpointTable
  <1>5. p \in Endpoint
    BY <1>4 DEF Endpoint
  <1>6. s = [c EXCEPT !.ep = [c.ep EXCEPT ![EP0_OUT] = p], !.stall = TRUE]
    OBVIOUS
  <1> HIDE DEF p, s
  <1>7. [c.ep EXCEPT ![EP0_OUT] = p] \in EndpointTable
    BY <1>4, <1>5 DEF EndpointTable
  <1>8. s \in Device
    BY <1>3, <1>6, <1>7 DEF Device
  <1>9. /\ s.ep = [c.ep EXCEPT ![EP0_OUT] = p] /\ s.trb = c.trb /\ s.ev = c.ev
        /\ Same(c, s) /\ Placed(c, s)
    BY <1>3, <1>6 DEF Device, Same, Placed
  <1>10. \A x \in Endpoints \ {EP0_OUT} : s.ep[x] = c.ep[x]
    BY <1>4, <1>9 DEF EndpointTable
  <1>11. IdleAgain(s, r) /\ InSame(s, r)
    BY <1>8, SetupStage
  <1> HIDE DEF r
  <1>12. Same(d, s) /\ Placed(d, s) /\ InSame(d, s) /\ EventsSame(d, s) /\ Quiets(d, s)
    BY <1>2, <1>3, <1>9, <1>10 DEF Same, Placed, InSame, EventsSame, Quiets
  <1>13. Quiets(d, r)
    BY <1>11, <1>12, QuietsTransitive DEF IdleAgain
  <1>14. EventsSame(d, r)
    BY <1>11, <1>12 DEF IdleAgain, EventsSame, IsEnd
  <1>15. QED
    BY <1>1, <1>11, <1>12, <1>13, <1>14 DEF IdleAgain, InSame, Same, Placed

(* A state of the control endpoint is entered.                              *)
StateOnly(d, r, v) ==
  /\ r \in Device /\ r.st = v /\ r.zlp = d.zlp /\ r.three = d.three /\ r.pkt = d.pkt
  /\ r.buffer = d.buffer /\ r.first = d.first /\ r.held = d.held /\ r.asked = d.asked
  /\ r.ready = d.ready /\ r.dev = d.dev /\ r.addr = d.addr /\ r.stall = d.stall
  /\ r.ep = d.ep /\ r.trb = d.trb /\ r.ev = d.ev /\ r.speed = d.speed

(* Another state of the control endpoint is entered, and no more.           *)
LEMMA Entered ==
  ASSUME NEW d \in Device, NEW v \in States
  PROVE  StateOnly(d, [d EXCEPT !.st = v], v)
  BY DEF StateOnly, Device

InRests(r) == ~r.ep[EP0_IN].active /\ r.trb[EP0_IN] = "none"

(* An error ends what is under way, and the endpoint awaits a SETUP.        *)
LEMMA ErrorEnds ==
  ASSUME NEW d \in Device, NoEnd(d), d.trb[EP0_IN] # "none" => d.ep[EP0_IN].active
  PROVE  LET r == usb_stack_check_ep0_error([d EXCEPT !.st = "error"]) IN
         IdleAgain(d, r) /\ InRests(r)
  <1> DEFINE a == [d EXCEPT !.st = "error"]
             b == usb_hal_cancel_io_request(a, EP0_OUT)
             c == usb_hal_cancel_io_request(b, EP0_IN)
             r == usb_hal_set_endpt_stall(c, EP0_OUT)
  <1>1. StateOnly(d, a, "error")
    BY Entered DEF States
  <1>2. r = usb_stack_check_ep0_error(a)
    BY <1>1 DEF StateOnly, usb_stack_check_ep0_error
  <1> HIDE DEF a
  <1>3. /\ EP0_OUT \in Endpoints /\ EP0_IN \in Endpoints /\ EP0_OUT # EP0_IN
        /\ Bulk \subseteq Endpoints \ Control /\ Control = {EP0_OUT, EP0_IN}
    BY EndpointNumbers
  <1>4. a \in Device /\ NoEnd(a)
    BY <1>1 DEF StateOnly, NoEnd
  <1>5. /\ b \in Device /\ Same(a, b) /\ Placed(a, b)
        /\ \A x \in Endpoints \ {EP0_OUT} : b.ep[x] = a.ep[x] /\ b.trb[x] = a.trb[x]
        /\ Len(b.ev) = Len(a.ev)
        /\ \A k \in 1 .. Len(a.ev) :
             /\ b.ev[k].t = a.ev[k].t /\ b.ev[k].e = a.ev[k].e
             /\ b.ev[k].stage = a.ev[k].stage
             /\ b.ev[k].old # a.ev[k].old => a.ev[k].t = "complete" /\ a.ev[k].e = EP0_OUT
    BY <1>4, Cancelled
  <1> HIDE DEF b
  <1>6. /\ c \in Device /\ Same(b, c) /\ Placed(b, c) /\ ~c.ep[EP0_IN].active
        /\ c.trb[EP0_IN] = IF b.ep[EP0_IN].active THEN "none" ELSE b.trb[EP0_IN]
        /\ \A x \in Endpoints \ {EP0_IN} : c.ep[x] = b.ep[x] /\ c.trb[x] = b.trb[x]
        /\ Len(c.ev) = Len(b.ev)
        /\ \A k \in 1 .. Len(b.ev) :
             /\ c.ev[k].t = b.ev[k].t /\ c.ev[k].e = b.ev[k].e
             /\ c.ev[k].stage = b.ev[k].stage
             /\ c.ev[k].old # b.ev[k].old => b.ev[k].t = "complete" /\ b.ev[k].e = EP0_IN
    BY <1>3, <1>5, Cancelled
  <1> HIDE DEF c
  <1>7. InRests(c)
    BY <1>1, <1>3, <1>5, <1>6 DEF InRests, StateOnly
  <1>8. /\ EventsSame(d, c) /\ NoEnd(c)
        /\ \A k \in 1 .. Len(d.ev) : c.ev[k].old = d.ev[k].old
    <2>1. a.ev = d.ev
      BY <1>1 DEF StateOnly
    <2>2. \A k \in 1 .. Len(a.ev) : b.ev[k].old = a.ev[k].old
      BY <1>3, <1>4, <1>5 DEF NoEnd, IsEnd
    <2>3. \A k \in 1 .. Len(a.ev) : c.ev[k].old = b.ev[k].old
      BY <1>3, <1>4, <1>5, <1>6 DEF NoEnd, IsEnd
    <2>4. EventsSame(d, c)
      BY <1>5, <1>6, <2>1, <2>2, <2>3 DEF EventsSame
    <2>5. NoEnd(c)
      BY <1>4, <2>1, <2>4 DEF EventsSame, NoEnd, IsEnd
    <2>6. QED
      BY <2>1, <2>2, <2>3, <2>4, <2>5, <1>5
  <1>9. Quiets(d, c) /\ Same(a, c) /\ Placed(d, c)
    <2>1. \A x \in Bulk : c.ep[x] = d.ep[x]
      BY <1>1, <1>3, <1>5, <1>6 DEF StateOnly
    <2>2. Same(a, c) /\ Placed(d, c)
      BY <1>1, <1>5, <1>6 DEF StateOnly, Same, Placed
    <2>3. QED
      BY <1>8, <2>1, <2>2 DEF Quiets
  <1>10. IdleAgain(c, r) /\ InSame(c, r)
    BY <1>6, <1>8, ControlStalled
  <1> HIDE DEF r
  <1>11. Quiets(d, r)
    BY <1>8, <1>9, <1>10, QuietsTransitive DEF IdleAgain
  <1>12. EventsSame(d, r)
    BY <1>8, <1>10 DEF IdleAgain, EventsSame, IsEnd
  <1>13. InRests(r)
    BY <1>7, <1>10 DEF InRests, InSame
  <1>14. IdleAgain(d, r)
    BY <1>1, <1>9, <1>10, <1>11, <1>12 DEF IdleAgain, Same, Placed, StateOnly
  <1>15. QED
    BY <1>2, <1>13, <1>14 DEF a

-----------------------------------------------------------------------------
(* The pipes are set up anew.                                               *)
LEMMA PipesConfigured ==
  ASSUME NEW d \in Device
  PROVE  LET r == usb_hal_configure_endpts(d) IN
         Frame(d, r) /\ Placed(d, r) /\ Quiets(d, r)
  <1> DEFINE a == [d EXCEPT !.enabled = Control]
             c == usb_hal_cancel_all_io_requests(a)
             table == [e \in Endpoints |-> [c.ep[e] EXCEPT !.stalled = @ /\ e \notin Configured(d)]]
             pipes == Control \cup {HID_OUT, HID_IN} \cup Configured(d)
             q == [c EXCEPT !.ep = table, !.enabled = pipes]
  <1>1. Frame(d, d) /\ Placed(d, d) /\ Quiets(d, d)
    BY DEF Frame, Same, ControlSame, EventsSame, Placed, Quiets
  <1>2. CASE d.speed = "unknown"
    BY <1>1, <1>2 DEF usb_hal_configure_endpts
  <1>3. CASE d.speed # "unknown"
    <2>1. Control \in PipeSets /\ pipes \in PipeSets
      BY EndpointNumbers DEF PipeSets, Configured, HID_OUT, HID_IN
    <2>2. Plain(d, a) /\ Placed(d, a)
      BY <2>1, PlainFields
    <2>3. usb_hal_configure_endpts(d) = q
      BY <1>3 DEF usb_hal_configure_endpts
    <2> HIDE DEF a, pipes
    <2>4. Frame(a, c) /\ Placed(a, c) /\ Quiets(a, c)
      BY <2>2, AllCancelled DEF Plain
    <2> HIDE DEF c
    <2>5. c \in Device /\ c.ep \in EndpointTable
      BY <2>4 DEF Frame, Device
    <2>6. \A e \in Endpoints :
            table[e] \in Endpoint /\ table[e].active = c.ep[e].active /\ table[e].left = c.ep[e].left
      BY <2>5 DEF EndpointTable, Endpoint
    <2>7. table \in EndpointTable
      BY <2>6 DEF EndpointTable
    <2> HIDE DEF table
    <2>8. /\ q \in Device /\ q.ep = table /\ q.trb = c.trb /\ q.ev = c.ev
          /\ Same(c, q) /\ Placed(c, q)
      BY <2>1, <2>5, <2>7 DEF Device, Same, Placed
    <2> HIDE DEF q
    <2>9. Frame(c, q) /\ Quiets(c, q)
      <3>1. \A e \in Bulk : q.ep[e].active => c.ep[e].active
        BY <2>6, <2>8, EndpointNumbers
      <3>2. ControlSame(c, q)
        BY <2>6, <2>8, EndpointNumbers DEF ControlSame
      <3>3. EventsSame(c, q) /\ Quiets(c, q)
        BY <2>8, <3>1, BufferSame
      <3>4. QED
        BY <2>8, <3>2, <3>3 DEF Frame
    <2>10. Frame(d, a) /\ Quiets(d, a)
      BY <2>2, PlainIsFrame
    <2>11. Frame(d, c) /\ Quiets(d, c)
      BY <2>4, <2>10, FrameTransitive, QuietsTransitive DEF Frame
    <2>12. Frame(d, q) /\ Quiets(d, q)
      BY <2>9, <2>11, FrameTransitive, QuietsTransitive DEF Frame
    <2>13. Placed(d, q)
      BY <2>2, <2>4, <2>8 DEF Placed
    <2>14. QED
      BY <2>3, <2>12, <2>13
  <1>4. QED
    BY <1>2, <1>3

(* Both transports begin to receive a command.                              *)
LEMMA TransportsReset ==
  ASSUME NEW d \in Device
  PROVE  /\ Frame(d, ums_bot_reset(d)) /\ Placed(d, ums_bot_reset(d))
         /\ Frame(d, ums_uas_reset(d)) /\ Placed(d, ums_uas_reset(d))
  <1> DEFINE c == usb_hal_cancel_io_request(d, DATA_IN)
             o == IF c.ep[DATA_OUT].window THEN usb_hal_cancel_io_request(c, DATA_OUT) ELSE c
             p == [o EXCEPT !.persist = FALSE]
             r == usb_hal_io_request(p, DATA_OUT, Packet, FALSE)
             a == usb_hal_cancel_all_io_requests(d)
             s == usb_hal_io_request(a, CMD_OUT, Packet, FALSE)
  <1>1. /\ DATA_IN \notin Control /\ DATA_OUT \notin Control
        /\ DATA_OUT \in Bulk /\ CMD_OUT \in Bulk /\ Packet \in Int
    <2>1. DATA_IN \in Bulk /\ DATA_OUT \in Bulk /\ CMD_OUT \in Bulk /\ Control \cap Bulk = {}
      BY EndpointNumbers
    <2>2. Packet \in Int
      BY DEF Packet
    <2>3. QED
      BY <2>1, <2>2
  <1>2. Frame(d, c) /\ Placed(d, c)
    BY <1>1, BulkCancelled
  <1> HIDE DEF c
  <1>3. Frame(c, o) /\ Placed(c, o)
    <2>1. CASE o = c
      BY <1>2, <2>1 DEF Frame, Same, ControlSame, EventsSame, Placed
    <2>2. CASE o = usb_hal_cancel_io_request(c, DATA_OUT)
      BY <1>1, <1>2, <2>2, BulkCancelled DEF Frame
    <2>3. QED
      BY <2>1, <2>2
  <1> HIDE DEF o
  <1>4. Plain(o, p) /\ Placed(o, p) /\ Frame(o, p)
    BY <1>3, PlainFields, PlainIsFrame DEF Frame
  <1> HIDE DEF p
  <1>5. Frame(p, r) /\ Placed(p, r)
    BY <1>1, <1>4, BulkStarted DEF Plain
  <1>6. r = ums_bot_reset(d)
    BY DEF ums_bot_reset, c, o, p
  <1> HIDE DEF r
  <1>7. Frame(d, r)
    BY <1>2, <1>3, <1>4, <1>5, FrameTransitive
  <1>8. Placed(d, r)
    BY <1>2, <1>3, <1>4, <1>5 DEF Placed
  <1>9. Frame(d, a) /\ Placed(d, a)
    BY AllCancelled
  <1> HIDE DEF a
  <1>10. Frame(a, s) /\ Placed(a, s)
    BY <1>1, <1>9, BulkStarted DEF Frame
  <1>11. s = ums_uas_reset(d)
    BY DEF ums_uas_reset, a
  <1> HIDE DEF s
  <1>12. Frame(d, s) /\ Placed(d, s)
    BY <1>9, <1>10, FrameTransitive DEF Placed
  <1>13. QED
    BY <1>6, <1>7, <1>8, <1>11, <1>12

(* The two ways to set the interface leave the control endpoint alone.      *)
LEMMA InterfaceSet ==
  ASSUME NEW d \in Device
  PROVE  Frame(d, usb_stack_set_BOT_interface(d)) /\ Frame(d, usb_stack_set_UAS_interface(d))
  <1> DEFINE a == [d EXCEPT !.class = "bot"]
             b == [d EXCEPT !.class = "uas"]
             x == usb_hal_configure_endpts(a)
             y == usb_hal_configure_endpts(b)
  <1>1. Plain(d, a) /\ Plain(d, b) /\ Frame(d, a) /\ Frame(d, b)
    BY PlainFields, PlainIsFrame DEF Classes
  <1>2. Frame(a, x) /\ Frame(b, y)
    BY <1>1, PipesConfigured DEF Frame
  <1>3. usb_stack_set_BOT_interface(d) = ums_bot_reset(x)
    BY DEF usb_stack_set_BOT_interface
  <1>4. usb_stack_set_UAS_interface(d) = ums_uas_reset(y)
    BY DEF usb_stack_set_UAS_interface
  <1> HIDE DEF a, b, x, y
  <1>5. Frame(x, ums_bot_reset(x)) /\ Frame(y, ums_uas_reset(y))
    BY <1>2, TransportsReset DEF Frame
  <1>6. QED
    BY <1>1, <1>2, <1>3, <1>4, <1>5, FrameTransitive

-----------------------------------------------------------------------------
(* The requests of chapter 9.  The endpoint is at rest when one is handled; *)
(* what it leaves under way is at most one transfer of data.                *)
Fresh(d) ==
  /\ d \in Device /\ NoEnd(d) /\ d.st \in {"statusin", "datain", "dataout"}
  /\ \A e \in Control : ~d.ep[e].active /\ d.trb[e] = "none"
  /\ d.pkt.req = "SET_SEL" => d.pkt.len > 0

Busy(d, r) ==
  /\ r \in Device /\ r.st \in {d.st, "datain"} /\ r.three = d.three
  /\ r.buffer = d.buffer /\ r.first = d.first /\ r.held = d.held /\ r.asked = d.asked
  /\ r.ready = d.ready /\ EventsSame(d, r)
  /\ \A e \in Control : /\ r.trb[e] \in {"none", "data"}
                        /\ r.trb[e] # "none" <=> r.ep[e].active
  /\ ~(r.ep[EP0_IN].active /\ r.ep[EP0_OUT].active)
  /\ r.ep[EP0_OUT].active => d.pkt.len > 0 /\ r.st = d.st
  /\ Quiets(d, r) \/ d.pkt.req \in Resets

Outcome(d, r) ==
  \/ ~r.ok /\ r.d = d
  \/ r.ok /\ (Busy(d, r.d) \/ (IdleAgain(d, r.d) /\ InRests(r.d)))

(* The numbers of a SETUP packet.                                           *)
LEMMA PacketFields ==
  ASSUME NEW p \in Packets
  PROVE  p.len \in Nat /\ p.val \in Nat /\ p.idx \in Nat /\ p.idx \in {0} \cup {r.idx : r \in Requests}
  BY UsbAssumption DEF Packets, Request, None

(* A request that only sets fields, or pipes up.                            *)
LEMMA FrameIsBusy ==
  ASSUME NEW d, Fresh(d), NEW r, Frame(d, r), Quiets(d, r) \/ d.pkt.req \in Resets
  PROVE  Busy(d, r)
  BY EndpointNumbers DEF Fresh, Frame, Same, ControlSame, Busy

(* A request that is refused changes nothing.                               *)
LEMMA RefusedOutcome ==
  ASSUME NEW d
  PROVE  Outcome(d, Refuse(d))
  BY DEF Outcome, Refuse

(* A request that only sets fields.                                         *)
LEMMA PlainOutcome ==
  ASSUME NEW d, Fresh(d), NEW r, Plain(d, r)
  PROVE  Outcome(d, Accept(r))
  BY PlainIsFrame, FrameIsBusy DEF Outcome, Accept, Fresh

(* A request that is accepted, and changes nothing.                         *)
LEMMA AcceptedOutcome ==
  ASSUME NEW d, Fresh(d)
  PROVE  Outcome(d, Accept(d))
  <1>1. Plain(d, d)
    BY DEF Plain, Same, Fresh
  <1>2. QED
    BY <1>1, PlainOutcome

(* A request that asks for a transfer of data.                              *)
LEMMA DataAsked ==
  ASSUME NEW d, Fresh(d), NEW r, NEW dir \in {"in", "out"}, NEW n \in Int,
         r = usb_hal_ep0_io_request(d, dir, n), dir = "out" => d.pkt.len > 0
  PROVE  Busy(d, r) /\ r.st = d.st /\ (dir = "in" => ~r.ep[EP0_OUT].active)
  <1> DEFINE e == Of(dir)
             size == Least(IF dir = "out" THEN Rounded(n) ELSE n, Packet)
  <1>1. /\ e \in Endpoints /\ e \in Control /\ Control \subseteq Endpoints
        /\ Bulk \subseteq Endpoints \ {e} /\ Control = {EP0_OUT, EP0_IN}
        /\ e = (IF dir = "in" THEN EP0_IN ELSE EP0_OUT) /\ EP0_IN # EP0_OUT
    BY EndpointNumbers
  <1>2. size \in Int
    BY DEF Least, Rounded, Packet
  <1>3. d \in Device
    BY DEF Fresh
  <1>4. r = usb_hal_dep_xfer_start(d, e, "data", size, n)
    BY <1>1 DEF Fresh, usb_hal_ep0_io_request
  <1> HIDE DEF size, e
  <1>5. /\ r \in Device /\ Same(d, r) /\ r.ev = d.ev /\ r.ep[e].active /\ r.trb[e] = "data"
        /\ \A x \in Endpoints \ {e} : r.ep[x] = d.ep[x] /\ r.trb[x] = d.trb[x]
    BY <1>1, <1>2, <1>3, <1>4, Started DEF Kinds
  <1>6. EventsSame(d, r) /\ Quiets(d, r)
    BY <1>1, <1>5 DEF EventsSame, Quiets
  <1>7. /\ \A x \in Control : /\ r.trb[x] \in {"none", "data"}
                              /\ r.trb[x] # "none" <=> r.ep[x].active
        /\ ~(r.ep[EP0_IN].active /\ r.ep[EP0_OUT].active)
        /\ r.ep[EP0_OUT].active => d.pkt.len > 0
        /\ dir = "in" => ~r.ep[EP0_OUT].active
    <2>1. ASSUME NEW x \in Control \ {e}
          PROVE  ~r.ep[x].active /\ r.trb[x] = "none"
      BY <1>1, <1>5 DEF Fresh
    <2>2. QED
      BY <1>1, <1>5, <2>1
  <1>8. QED
    BY <1>5, <1>6, <1>7 DEF Busy, Same

(* A request that is answered with data to the host.                        *)
LEMMA ReplyOutcome ==
  ASSUME NEW d, Fresh(d), NEW n \in Int
  PROVE  /\ Outcome(d, Reply(d, n))
         /\ Outcome(d, Reply([d EXCEPT !.st = "datain"], n))
  <1> DEFINE a == [d EXCEPT !.st = "datain"]
             r == usb_hal_ep0_io_request(d, "in", n)
             s == usb_hal_ep0_io_request(a, "in", n)
  <1>1. Busy(d, r)
    BY DataAsked
  <1>2. StateOnly(d, a, "datain")
    BY Entered DEF Fresh, States
  <1>3. Fresh(a)
    BY <1>2 DEF Fresh, StateOnly, NoEnd
  <1>4. Reply(a, n) = Accept(s) /\ Reply(d, n) = Accept(r)
    BY DEF Reply
  <1> HIDE DEF a
  <1>5. Busy(a, s) /\ s.st = "datain" /\ ~s.ep[EP0_OUT].active
    BY <1>2, <1>3, DataAsked DEF StateOnly
  <1> HIDE DEF r, s
  <1>6. Busy(d, s)
    <2>1. EventsSame(d, s) /\ (Quiets(a, s) => Quiets(d, s))
      BY <1>2, <1>5, SameBefore DEF Busy, StateOnly
    <2>2. QED
      BY <1>2, <1>5, <2>1 DEF Busy, StateOnly
  <1>7. Outcome(d, Accept(r)) /\ Outcome(d, Accept(s))
    BY <1>1, <1>6 DEF Outcome, Accept
  <1>8. QED
    BY <1>4, <1>7 DEF a

(* GET DESCRIPTOR.                                                          *)
LEMMA SendOutcome ==
  ASSUME NEW d, Fresh(d), NEW n \in Nat
  PROVE  Outcome(d, SendDescriptor(d, n))
  <1>1. d.pkt.len \in Nat
    BY PacketFields DEF Fresh, Device
  <1>2. Least(d.pkt.len, n) \in Int
    BY <1>1 DEF Least
  <1>3. QED
    BY <1>2, ReplyOutcome, RefusedOutcome DEF SendDescriptor

(* GET_DESCRIPTOR answers with data, or is refused.                         *)
LEMMA DescriptorOutcome ==
  ASSUME NEW d, Fresh(d)
  PROVE  Outcome(d, handle_usb_get_descriptor(d))
  <1> DEFINE types == {DT_DEVICE, DT_CONFIG, DT_STRING, DT_QUALIFIER, DT_OTHER_SPEED,
                       DT_BOS, DT_HID, DT_REPORT}
             H == {send_device_descriptor(d), send_config_descriptor(d),
                   send_string_descriptor(d), send_device_qualifier_descriptor(d),
                   send_other_speed_config_descriptor(d), send_BOS_descriptor(d),
                   send_HID_report_descriptor(d), send_HID_class_descriptor(d), Refuse(d)}
  <1>1. d.speed \in AnySpeed /\ d.pkt \in Packets
    BY DEF Fresh, Device
  <1>2. \A type \in types, speed \in AnySpeed : get_descriptor_ptr(type, 0, speed) \in Nat
    BY LengthAssumption DEF get_descriptor_ptr, AnySpeed
  <1>3. get_descriptor_ptr(DT_STRING, d.pkt.idx, d.speed) \in Nat
    BY <1>1, PacketFields, LengthAssumption DEF get_descriptor_ptr, AnySpeed
  <1>4. \A s \in AnySpeed : /\ get_descriptor_ptr(DT_DEVICE, 0, s) \in Nat
                            /\ get_descriptor_ptr(DT_CONFIG, 0, s) \in Nat
                            /\ get_descriptor_ptr(DT_QUALIFIER, 0, s) \in Nat
                            /\ get_descriptor_ptr(DT_BOS, 0, s) \in Nat
                            /\ get_descriptor_ptr(DT_HID, 0, s) \in Nat
                            /\ get_descriptor_ptr(DT_REPORT, 0, s) \in Nat
    BY <1>2
  <1> HIDE DEF types
  <1>5. "super" \in AnySpeed /\ "full" \in AnySpeed /\ "high" \in AnySpeed
    BY DEF AnySpeed
  <1>6. Outcome(d, send_device_descriptor(d))
    BY <1>1, <1>4, SendOutcome DEF send_device_descriptor
  <1>7. Outcome(d, send_config_descriptor(d))
    BY <1>1, <1>4, <1>5, SendOutcome
       DEF send_config_descriptor, copy_usb2_config_descriptor, copy_usb3_config_descriptor
  <1>8. Outcome(d, send_string_descriptor(d))
    BY <1>3, SendOutcome DEF send_string_descriptor
  <1>9. Outcome(d, send_device_qualifier_descriptor(d))
    BY <1>1, <1>4, SendOutcome, RefusedOutcome DEF send_device_qualifier_descriptor
  <1>10. Outcome(d, send_other_speed_config_descriptor(d))
    <2>1. /\ copy_usb2_config_descriptor("full") \in Nat
          /\ copy_usb2_config_descriptor("high") \in Nat
      BY <1>4, <1>5 DEF copy_usb2_config_descriptor
    <2>2. /\ Outcome(d, SendDescriptor(d, copy_usb2_config_descriptor("full")))
          /\ Outcome(d, SendDescriptor(d, copy_usb2_config_descriptor("high")))
          /\ Outcome(d, Refuse(d))
      BY <2>1, SendOutcome, RefusedOutcome
    <2>3. send_other_speed_config_descriptor(d) \in
            {SendDescriptor(d, copy_usb2_config_descriptor("full")),
             SendDescriptor(d, copy_usb2_config_descriptor("high")), Refuse(d)}
      BY DEF send_other_speed_config_descriptor
    <2>4. QED
      BY <2>2, <2>3
  <1>11. Outcome(d, send_BOS_descriptor(d))
    BY <1>1, <1>4, SendOutcome DEF send_BOS_descriptor
  <1>12. Outcome(d, send_HID_report_descriptor(d))
    BY <1>1, <1>4, SendOutcome, RefusedOutcome DEF send_HID_report_descriptor
  <1>13. Outcome(d, send_HID_class_descriptor(d))
    BY <1>1, <1>4, SendOutcome DEF send_HID_class_descriptor
  <1>14. Outcome(d, Refuse(d))
    BY RefusedOutcome
  <1>15. handle_usb_get_descriptor(d) \in H
    BY DEF handle_usb_get_descriptor
  <1>16. QED
    BY <1>6, <1>7, <1>8, <1>9, <1>10, <1>11, <1>12, <1>13, <1>14, <1>15

(* SET and CLEAR FEATURE.                                                   *)
LEMMA HaltOutcome ==
  ASSUME NEW d, Fresh(d), NEW s, Frame(d, s), Quiets(d, s), Placed(d, s), NEW e
  PROVE  Outcome(d, Accept(usb_hal_set_endpt_stall(s, e)))
  <1> DEFINE r == usb_hal_set_endpt_stall(s, e)
  <1>1. s \in Device /\ Same(d, s) /\ EventsSame(d, s) /\ ControlSame(d, s)
    BY DEF Frame
  <1>2. ~s.ep[EP0_IN].active /\ s.trb[EP0_IN] = "none"
    BY <1>1, EndpointNumbers DEF Fresh, ControlSame
  <1>3. NoEnd(s)
    BY <1>1 DEF Fresh, EventsSame, NoEnd, IsEnd
  <1>4. CASE e # EP0_OUT
    <2>1. Frame(s, r) /\ Quiets(s, r)
      BY <1>1, <1>2, <1>4, EndpointStalled
    <2> HIDE DEF r
    <2>2. Frame(d, r) /\ Quiets(d, r)
      BY <1>1, <2>1, FrameTransitive, QuietsTransitive
    <2>3. Busy(d, r)
      BY <2>2, FrameIsBusy
    <2>4. QED
      BY <2>3 DEF Outcome, Accept, r
  <1>5. CASE e = EP0_OUT
    <2>1. IdleAgain(s, r) /\ InSame(s, r)
      BY <1>1, <1>3, <1>5, ControlStalled
    <2> HIDE DEF r
    <2>2. InRests(r)
      BY <1>2, <2>1 DEF InRests, InSame
    <2>3. Quiets(d, r)
      BY <1>1, <2>1, QuietsTransitive DEF IdleAgain
    <2>4. EventsSame(d, r)
      BY <1>1, <2>1 DEF IdleAgain, EventsSame, IsEnd
    <2>5. IdleAgain(d, r)
      BY <1>1, <2>1, <2>3, <2>4 DEF IdleAgain, Same, Placed
    <2>6. QED
      BY <2>2, <2>5 DEF Outcome, Accept, r
  <1>6. QED
    BY <1>4, <1>5

(* usb_hal_clear_endpt_stall leaves every transfer as it is.                *)
LEMMA StallCleared ==
  ASSUME NEW d \in Device, NEW e
  PROVE  LET r == usb_hal_clear_endpt_stall(d, e) IN
         Frame(d, r) /\ Quiets(d, r) /\ Placed(d, r)
  <1> DEFINE p == [d.ep[e] EXCEPT !.stalled = FALSE]
             r == usb_hal_clear_endpt_stall(d, e)
  <1>1. d.ep \in EndpointTable
    BY DEF Device
  <1>2. e \in Endpoints => p \in Endpoint /\ p.active = d.ep[e].active /\ p.left = d.ep[e].left
    BY <1>1 DEF EndpointTable, Endpoint
  <1>3. r = [d EXCEPT !.ep = [d.ep EXCEPT ![e] = p]]
    BY DEF usb_hal_clear_endpt_stall
  <1> HIDE DEF p, r
  <1>4. [d.ep EXCEPT ![e] = p] \in EndpointTable
    BY <1>1, <1>2 DEF EndpointTable
  <1>5. /\ r \in Device /\ r.ep = [d.ep EXCEPT ![e] = p] /\ r.trb = d.trb /\ r.ev = d.ev
        /\ Same(d, r) /\ Placed(d, r)
    BY <1>3, <1>4 DEF Device, Same, Placed
  <1>6. \A x \in Endpoints : r.ep[x].active = d.ep[x].active /\ r.ep[x].left = d.ep[x].left
    BY <1>1, <1>2, <1>5 DEF EndpointTable
  <1>7. Frame(d, r) /\ Quiets(d, r)
    <2>1. \A x \in Bulk : r.ep[x].active => d.ep[x].active
      BY <1>6, EndpointNumbers
    <2>2. ControlSame(d, r)
      BY <1>5, <1>6, EndpointNumbers DEF ControlSame
    <2>3. EventsSame(d, r) /\ Quiets(d, r)
      BY <1>5, <2>1, BufferSame
    <2>4. QED
      BY <1>5, <2>2, <2>3 DEF Frame
  <1>8. QED
    BY <1>5, <1>7 DEF r

(* SET_FEATURE and CLEAR_FEATURE set fields, or the stall of a pipe.        *)
LEMMA FeatureOutcome ==
  ASSUME NEW d, Fresh(d)
  PROVE  Outcome(d, handle_usb_feature(d))
  <1> DEFINE e == d.pkt.idx
             c == usb_hal_clear_endpt_stall(d, e)
  <1>1. d \in Device
    BY DEF Fresh
  <1>2. Frame(d, c) /\ Quiets(d, c) /\ Placed(d, c)
    BY <1>1, StallCleared
  <1>3. Frame(d, d) /\ Quiets(d, d) /\ Placed(d, d)
    BY <1>1 DEF Frame, Same, ControlSame, EventsSame, Placed, Quiets
  <1>4. Outcome(d, Refuse(d)) /\ Outcome(d, Accept(d))
    BY RefusedOutcome, AcceptedOutcome
  <1>5. Outcome(d, handle_usb2_feature_device(d))
    <2>1. Plain(d, [d EXCEPT !.test = TRUE])
      BY <1>1, PlainFields
    <2>2. Outcome(d, Accept([d EXCEPT !.test = TRUE]))
      BY <2>1, PlainOutcome
    <2>3. QED
      BY <1>4, <2>2 DEF handle_usb2_feature_device
  <1>6. Outcome(d, handle_usb3_feature_device(d))
    <2>1. IsSet(d) \in BOOLEAN
      BY DEF IsSet
    <2>2. Plain(d, [d EXCEPT !.u1 = IsSet(d)]) /\ Plain(d, [d EXCEPT !.u2 = IsSet(d)])
      BY <1>1, <2>1, PlainFields
    <2>3. /\ Outcome(d, Accept([d EXCEPT !.u1 = IsSet(d)]))
          /\ Outcome(d, Accept([d EXCEPT !.u2 = IsSet(d)]))
      BY <2>2, PlainOutcome
    <2>4. handle_usb3_feature_device(d) \in
            {Accept([d EXCEPT !.u1 = IsSet(d)]), Accept([d EXCEPT !.u2 = IsSet(d)]), Refuse(d)}
      BY DEF handle_usb3_feature_device
    <2>5. QED
      BY <1>4, <2>3, <2>4
  <1>7. Outcome(d, handle_usb_feature_endpoint(d))
    <2>1. Outcome(d, Accept(usb_hal_set_endpt_stall(d, e)))
      BY <1>3, HaltOutcome
    <2>2. Outcome(d, Accept(usb_hal_set_endpt_stall(c, e)))
      BY <1>2, HaltOutcome
    <2>3. Outcome(d, Accept(c))
      BY <1>2, FrameIsBusy DEF Outcome, Accept
    <2> HIDE DEF c, e
    <2>4. handle_usb_feature_endpoint(d) \in
            {Refuse(d), Accept(usb_hal_set_endpt_stall(d, e)),
             Accept(usb_hal_set_endpt_stall(c, e)), Accept(c)}
      BY DEF handle_usb_feature_endpoint, c, e
    <2>5. QED
      BY <1>4, <2>1, <2>2, <2>3, <2>4
  <1>8. Outcome(d, handle_usb_feature_interface(d))
    BY <1>4 DEF handle_usb_feature_interface
  <1>9. d.pkt.recip \in {"device", "interface", "endpoint"}
    <2>1. d.pkt \in Packets
      BY <1>1 DEF Device
    <2>2. QED
      BY <2>1, UsbAssumption DEF Packets, Request, None
  <1>10. handle_usb_feature(d) \in
           {Refuse(d), handle_usb3_feature_device(d), handle_usb2_feature_device(d),
            handle_usb_feature_endpoint(d), handle_usb_feature_interface(d)}
    BY <1>9 DEF handle_usb_feature
  <1>11. QED
    BY <1>4, <1>5, <1>6, <1>7, <1>8, <1>10

(* The other requests.                                                      *)
LEMMA AddressOutcome ==
  ASSUME NEW d, Fresh(d)
  PROVE  Outcome(d, handle_usb_set_address(d))
  <1> DEFINE place == IF d.pkt.val = 0 THEN "default" ELSE "addressed"
             r == [d EXCEPT !.addr = d.pkt.val, !.conf = 0, !.dev = place]
  <1>1. handle_usb_set_address(d) = Accept(r)
    BY DEF handle_usb_set_address, usb_hal_set_address
  <1>2. d \in Device /\ d.pkt.val \in Nat /\ 0 \in Nat
    BY PacketFields DEF Fresh, Device
  <1>3. place \in Places
    BY DEF Places
  <1> HIDE DEF place
  <1>4. Plain(d, r)
    BY <1>2, <1>3 DEF Device, Plain, Same
  <1>5. QED
    BY <1>1, <1>4, PlainOutcome

(* SET_CONFIGURATION may restart the bulk pipes, and leaves the control        *)
(* endpoint.                                                                *)
LEMMA ConfigurationOutcome ==
  ASSUME NEW d, Fresh(d), d.pkt.req = "SET_CONFIGURATION"
  PROVE  Outcome(d, handle_usb_set_configuration(d))
  <1> DEFINE b == usb_stack_set_BOT_interface(d)
             s == IF d.pkt.val = 0 THEN [d EXCEPT !.dev = "addressed"]
                  ELSE [b EXCEPT !.dev = "configured"]
             r == [s EXCEPT !.conf = d.pkt.val, !.alt = 0]
  <1>1. d \in Device /\ d.pkt.val \in Nat /\ 0 \in Settings /\ d.pkt.req \in Resets
    BY PacketFields DEF Fresh, Device, Settings, Resets
  <1>2. "addressed" \in Places /\ "configured" \in Places
    BY DEF Places
  <1>3. Frame(d, b)
    BY <1>1, InterfaceSet
  <1> HIDE DEF b
  <1>4. /\ Frame(d, [d EXCEPT !.dev = "addressed"])
        /\ Frame(b, [b EXCEPT !.dev = "configured"])
    BY <1>1, <1>2, <1>3, PlainFields, PlainIsFrame DEF Frame
  <1>5. Frame(d, s)
    BY <1>3, <1>4, FrameTransitive
  <1> HIDE DEF s
  <1>6. Plain(s, r)
    BY <1>1, <1>5 DEF Frame, Device, Plain, Same
  <1>7. Frame(d, r)
    BY <1>5, <1>6, PlainIsFrame, FrameTransitive DEF Frame
  <1> HIDE DEF r
  <1>8. Outcome(d, Accept(r))
    BY <1>1, <1>7, FrameIsBusy DEF Outcome, Accept
  <1>9. handle_usb_set_configuration(d) \in {Refuse(d), Accept(r)}
    BY DEF handle_usb_set_configuration, r, s, b
  <1>10. QED
    BY <1>8, <1>9, RefusedOutcome

(* SET_INTERFACE restarts the pipes of the transport it selects.            *)
LEMMA InterfaceOutcome ==
  ASSUME NEW d, Fresh(d), d.pkt.req = "SET_INTERFACE"
  PROVE  Outcome(d, handle_usb_set_interface(d))
  <1> DEFINE a == usb_stack_set_BOT_interface(d)
             b == usb_stack_set_UAS_interface(d)
             r == [a EXCEPT !.alt = 0]
             s == [b EXCEPT !.alt = 1]
  <1>1. d \in Device /\ 0 \in Settings /\ 1 \in Settings /\ d.pkt.req \in Resets
    BY DEF Fresh, Settings, Resets
  <1>2. Frame(d, a) /\ Frame(d, b)
    BY <1>1, InterfaceSet
  <1>3. handle_usb_set_interface(d) \in {Refuse(d), Accept(r), Accept(s), Accept(d)}
    BY DEF handle_usb_set_interface
  <1> HIDE DEF a, b
  <1>4. Frame(a, r) /\ Frame(b, s)
    BY <1>1, <1>2, PlainFields, PlainIsFrame DEF Frame
  <1>5. Frame(d, r) /\ Frame(d, s)
    BY <1>2, <1>4, FrameTransitive
  <1> HIDE DEF r, s
  <1>6. Outcome(d, Accept(r)) /\ Outcome(d, Accept(s))
    BY <1>1, <1>5, FrameIsBusy DEF Outcome, Accept
  <1>7. QED
    BY <1>3, <1>6, RefusedOutcome, AcceptedOutcome

(* SET_SEL asks the host for its data.                                      *)
LEMMA SelOutcome ==
  ASSUME NEW d, Fresh(d), d.pkt.req = "SET_SEL"
  PROVE  Outcome(d, handle_usb_set_sel(d))
  <1> DEFINE a == [d EXCEPT !.onOut = TRUE]
             r == usb_hal_ep0_io_request(a, "out", d.pkt.len)
  <1>1. d \in Device /\ d.pkt.len \in Nat /\ d.pkt.len > 0
    BY PacketFields DEF Fresh, Device
  <1>2. Plain(d, a)
    BY <1>1, PlainFields
  <1>3. Fresh(a) /\ a.pkt = d.pkt
    BY <1>2 DEF Plain, Same, Fresh, NoEnd
  <1>4. handle_usb_set_sel(d) \in {Refuse(d), Accept(r)}
    BY DEF handle_usb_set_sel
  <1> HIDE DEF a
  <1>5. Busy(a, r)
    BY <1>1, <1>3, DataAsked
  <1> HIDE DEF r
  <1>6. Busy(d, r)
    <2>1. EventsSame(d, r) /\ (Quiets(a, r) => Quiets(d, r))
      BY <1>2, <1>5, SameBefore DEF Busy, Plain
    <2>2. QED
      BY <1>2, <1>5, <2>1 DEF Busy, Plain, Same
  <1>7. Outcome(d, Accept(r))
    BY <1>6 DEF Outcome, Accept
  <1>8. QED
    BY <1>4, <1>7, RefusedOutcome

(* Every standard request has one of the outcomes.                          *)
LEMMA StandardOutcome ==
  ASSUME NEW d, Fresh(d)
  PROVE  Outcome(d, usb_chap9_handle_standard_request(d))
  <1>1. Outcome(d, Refuse(d)) /\ Outcome(d, Accept(d)) /\ Outcome(d, Reply(d, 1))
    <2>1. 1 \in Int
      OBVIOUS
    <2>2. QED
      BY <2>1, RefusedOutcome, AcceptedOutcome, ReplyOutcome
  <1>2. Outcome(d, handle_usb_get_status(d))
    BY <1>1 DEF handle_usb_get_status
  <1>3. Outcome(d, handle_usb_get_configuration(d)) /\ Outcome(d, handle_usb_get_interface(d))
    BY <1>1 DEF handle_usb_get_configuration, handle_usb_get_interface
  <1>4. CASE d.pkt.req = "SET_CONFIGURATION"
    <2>1. usb_chap9_handle_standard_request(d) = handle_usb_set_configuration(d)
      BY <1>4 DEF usb_chap9_handle_standard_request
    <2>2. QED
      BY <1>4, <2>1, ConfigurationOutcome
  <1>5. CASE d.pkt.req = "SET_INTERFACE"
    <2>1. usb_chap9_handle_standard_request(d) = handle_usb_set_interface(d)
      BY <1>5 DEF usb_chap9_handle_standard_request
    <2>2. QED
      BY <1>5, <2>1, InterfaceOutcome
  <1>6. CASE d.pkt.req = "SET_SEL"
    <2>1. usb_chap9_handle_standard_request(d) = handle_usb_set_sel(d)
      BY <1>6 DEF usb_chap9_handle_standard_request
    <2>2. QED
      BY <1>6, <2>1, SelOutcome
  <1>7. CASE d.pkt.req \notin {"SET_CONFIGURATION", "SET_INTERFACE", "SET_SEL"}
    <2>1. usb_chap9_handle_standard_request(d) \in
            {handle_usb_get_status(d), handle_usb_feature(d), handle_usb_set_address(d),
             handle_usb_get_descriptor(d), handle_usb_get_configuration(d),
             handle_usb_get_interface(d), Accept(d), Refuse(d)}
      BY <1>7 DEF usb_chap9_handle_standard_request
    <2>2. QED
      BY <1>1, <1>2, <1>3, <2>1, FeatureOutcome, AddressOutcome, DescriptorOutcome
  <1>8. QED
    BY <1>4, <1>5, <1>6, <1>7

(* A request is carried out or refused.                                     *)
LEMMA RequestOutcome ==
  ASSUME NEW d, Fresh(d)
  PROVE  Outcome(d, usb_chap9_process_setup_pkt(d))
  <1>1. Outcome(d, Refuse(d)) /\ Outcome(d, usb_chap9_handle_standard_request(d))
    BY RefusedOutcome, StandardOutcome
  <1>2. Outcome(d, Reply([d EXCEPT !.st = "datain"], 1))
    BY ReplyOutcome
  <1>3. ASSUME d.pkt.req = "BOT_RESET"
        PROVE  Outcome(d, Accept(ums_bot_reset(d)))
    <2>1. Frame(d, ums_bot_reset(d)) /\ d.pkt.req \in Resets
      BY <1>3, TransportsReset DEF Fresh, Resets
    <2>2. QED
      BY <2>1, FrameIsBusy DEF Outcome, Accept
  <1>4. Outcome(d, ums_bot_class_request_callback(d))
    <2>1. \/ d.pkt.req = "BOT_RESET" /\ ums_bot_class_request_callback(d) = Accept(ums_bot_reset(d))
          \/ ums_bot_class_request_callback(d) \in {Reply([d EXCEPT !.st = "datain"], 1), Refuse(d)}
      BY DEF ums_bot_class_request_callback
    <2>2. QED
      BY <1>1, <1>2, <1>3, <2>1
  <1>5. Outcome(d, vendor_request_callback(d))
    BY <1>1, <1>2 DEF vendor_request_callback
  <1>6. usb_chap9_process_setup_pkt(d) \in
          {usb_chap9_handle_standard_request(d), ums_bot_class_request_callback(d),
           vendor_request_callback(d), Refuse(d)}
    BY DEF usb_chap9_process_setup_pkt
  <1>7. QED
    BY <1>1, <1>4, <1>5, <1>6

-----------------------------------------------------------------------------
(* What the handling of an event of the control endpoint leaves, by the     *)
(* state that it was found in.                                              *)
Stage(p) ==
  IF p.len = 0 THEN "statusin" ELSE IF p.dir = "in" THEN "datain" ELSE "dataout"

AtRest(d) ==
  /\ d \in Device /\ NoEnd(d)
  /\ \A e \in Control : ~d.ep[e].active /\ d.trb[e] = "none"

(* usb_stack_setup_pkt_callback leaves at most one transfer of data under   *)
(* way, or the endpoint idle again.                                         *)
LEMMA SetupHandled ==
  ASSUME NEW d, AtRest(d), d.pkt.req = "SET_SEL" => d.pkt.len > 0
  PROVE  LET r == usb_stack_setup_pkt_callback(d) IN
         \/ Busy([d EXCEPT !.st = Stage(d.pkt)], r)
         \/ IdleAgain(d, r) /\ InRests(r)
  <1> DEFINE a == [d EXCEPT !.st = Stage(d.pkt)]
             q == usb_chap9_process_setup_pkt(a)
             f == [q.d EXCEPT !.st = "error"]
             r == usb_stack_setup_pkt_callback(d)
  <1>1. Stage(d.pkt) \in {"statusin", "datain", "dataout"}
    BY DEF Stage
  <1>2. StateOnly(d, a, Stage(d.pkt))
    BY <1>1, Entered DEF AtRest, States
  <1>3. r = usb_stack_check_ep0_error(IF q.ok THEN q.d ELSE f)
    BY DEF usb_stack_setup_pkt_callback, Stage
  <1> HIDE DEF a
  <1>4. Fresh(a)
    BY <1>1, <1>2 DEF StateOnly, AtRest, Fresh, NoEnd
  <1>5. Outcome(a, q)
    BY <1>4, RequestOutcome
  <1> HIDE DEF q, r
  <1>6. CASE ~q.ok /\ q.d = a
    <2>1. r = usb_stack_check_ep0_error([a EXCEPT !.st = "error"])
      BY <1>3, <1>6
    <2>2. a \in Device /\ NoEnd(a) /\ a.trb[EP0_IN] = "none"
      BY <1>4, EndpointNumbers DEF Fresh
    <2>3. IdleAgain(a, r) /\ InRests(r)
      BY <2>1, <2>2, ErrorEnds
    <2>4. IdleAgain(d, r)
      <3>1. EventsSame(d, r) /\ Quiets(d, r)
        BY <1>2, <2>3, SameBefore DEF IdleAgain, StateOnly
      <3>2. QED
        BY <1>2, <2>3, <3>1 DEF StateOnly, IdleAgain, Placed
    <2>5. QED
      BY <2>3, <2>4 DEF r
  <1>7. CASE q.ok /\ Busy(a, q.d)
    <2>1. q.d.st # "error"
      BY <1>1, <1>2, <1>7 DEF Busy, StateOnly
    <2>2. r = q.d
      BY <1>3, <1>7, <2>1 DEF usb_stack_check_ep0_error
    <2>3. QED
      BY <1>7, <2>2 DEF r, a
  <1>8. CASE q.ok /\ IdleAgain(a, q.d) /\ InRests(q.d)
    <2>1. q.d.st # "error"
      BY <1>8 DEF IdleAgain
    <2>2. r = q.d
      BY <1>3, <1>8, <2>1 DEF usb_stack_check_ep0_error
    <2>3. IdleAgain(d, r)
      <3>1. EventsSame(d, r) /\ Quiets(d, r)
        BY <1>2, <1>8, <2>2, SameBefore DEF IdleAgain, StateOnly
      <3>2. QED
        BY <1>2, <1>8, <2>2, <3>1 DEF StateOnly, IdleAgain, Placed
    <2>4. QED
      BY <1>8, <2>2, <2>3 DEF r
  <1>9. QED
    BY <1>5, <1>6, <1>7, <1>8 DEF Outcome

(* The device is found as it was, but for the transfer that has ended.      *)
Kept(d, r) ==
  /\ r \in Device /\ r.buffer = d.buffer /\ r.first = d.first /\ r.held = d.held
  /\ r.asked = d.asked /\ r.ready = d.ready /\ Placed(d, r)
  /\ EventsSame(d, r) /\ Quiets(d, r)

(* Two steps of an unfinished control transfer are one.                     *)
LEMMA KeptTransitive ==
  ASSUME NEW d, NEW s, NEW r, Kept(d, s), Kept(s, r)
  PROVE  Kept(d, r)
  <1>1. Quiets(d, r)
    BY QuietsTransitive DEF Kept
  <1>2. EventsSame(d, r)
    BY DEF Kept, EventsSame, IsEnd
  <1>3. Placed(d, r)
    BY DEF Kept, Placed
  <1>4. QED
    BY <1>1, <1>2, <1>3 DEF Kept

(* A step of a control transfer, and the end of it.                         *)
LEMMA KeptThenIdle ==
  ASSUME NEW d, NEW s, NEW r, Kept(d, s), IdleAgain(s, r)
  PROVE  IdleAgain(d, r)
  <1>1. Quiets(d, r)
    BY QuietsTransitive DEF Kept, IdleAgain
  <1>2. EventsSame(d, r)
    BY DEF Kept, IdleAgain, EventsSame, IsEnd
  <1>3. QED
    BY <1>1, <1>2 DEF Kept, IdleAgain, Placed

(* The endpoint that is made idle twice is idle.                            *)
LEMMA IdleThenIdle ==
  ASSUME NEW d, NEW s, NEW r, IdleAgain(d, s), IdleAgain(s, r)
  PROVE  IdleAgain(d, r)
  <1>1. Quiets(d, r)
    BY QuietsTransitive DEF IdleAgain
  <1>2. EventsSame(d, r)
    BY DEF IdleAgain, EventsSame, IsEnd
  <1>3. BulkRests(s) => BulkRests(r)
    BY DEF IdleAgain, Quiets, BulkRests
  <1>4. QED
    BY <1>1, <1>2, <1>3 DEF IdleAgain, Placed

(* A transfer that has ended is at rest.                                    *)
LEMMA SettledEnd ==
  ASSUME NEW d \in Device, NEW e \in Endpoints
  PROVE  LET r == Settled(d, e) IN
         /\ r \in Device /\ Same(d, r) /\ Placed(d, r) /\ r.stall = d.stall /\ r.ev = d.ev
         /\ r.trb = d.trb /\ ~r.ep[e].active
         /\ \A x \in Endpoints \ {e} : r.ep[x] = d.ep[x]
  <1> DEFINE n == d.moved[e]
             p == [d.ep[e] EXCEPT !.left = d.ep[e].left - n, !.count = d.ep[e].count + n,
                                  !.active = FALSE]
             r == Settled(d, e)
  <1>1. d.ep \in EndpointTable /\ d.ep[e] \in Endpoint /\ n \in Int
    BY DEF Device, EndpointTable, CountTable
  <1>2. d.ep[e].left - n \in Int /\ d.ep[e].count + n \in Int
    <2> HIDE DEF n
    <2>1. d.ep[e].left \in Int /\ d.ep[e].count \in Int
      BY <1>1 DEF Endpoint
    <2>2. \A a, b \in Int : a - b \in Int /\ a + b \in Int
      OBVIOUS
    <2>3. QED
      BY <1>1, <2>1, <2>2, Zenon
  <1>3. r = [d EXCEPT !.ep = [d.ep EXCEPT ![e] = p]]
    BY DEF Settled
  <1>4. p \in Endpoint /\ ~p.active
    <2> DEFINE a == d.ep[e].left - n
               b == d.ep[e].count + n
               q == [d.ep[e] EXCEPT !.left = a]
               o == [q EXCEPT !.count = b]
    <2>1. p = [o EXCEPT !.active = FALSE]
      OBVIOUS
    <2> HIDE DEF a, b, p
    <2>2. q \in Endpoint
      BY <1>1, <1>2 DEF Endpoint, a
    <2> HIDE DEF q
    <2>3. o \in Endpoint
      BY <2>2, <1>2 DEF Endpoint, b
    <2> HIDE DEF o
    <2>4. QED
      BY <2>1, <2>3 DEF Endpoint
  <1> HIDE DEF p, n, r
  <1>5. [d.ep EXCEPT ![e] = p] \in EndpointTable
    BY <1>1, <1>4 DEF EndpointTable
  <1>6. /\ r \in Device /\ r.ep = [d.ep EXCEPT ![e] = p] /\ r.trb = d.trb /\ r.ev = d.ev
        /\ Same(d, r) /\ Placed(d, r) /\ r.stall = d.stall
    BY <1>3, <1>5 DEF Device, Same, Placed
  <1>7. ~r.ep[e].active /\ \A x \in Endpoints \ {e} : r.ep[x] = d.ep[x]
    BY <1>1, <1>4, <1>6 DEF EndpointTable
  <1>8. QED
    BY <1>6, <1>7 DEF r

(* The data go on, or the status stage follows.                             *)
StatusState(e) == IF e = EP0_IN THEN "statusout" ELSE "statusin"

Goes(d, r, e) ==
  /\ Kept(d, r) /\ r.three = d.three /\ r.st = d.st /\ d.st = DataState(Dir(e))
  /\ r.ep[e].active /\ r.ep[e].left > 0 /\ r.trb[e] = "normal"
  /\ ~r.ep[Opposite(e)].active /\ r.trb[Opposite(e)] = "none"

Turns(d, r, e) ==
  /\ Kept(d, r) /\ r.three = d.three /\ r.st = StatusState(e) /\ d.st = DataState(Dir(e))
  /\ AtRest(r)

(* To enter another state is a step of the control transfer.                *)
LEMMA StateKept ==
  ASSUME NEW d \in Device, NEW r, NEW v, StateOnly(d, r, v)
  PROVE  Kept(d, r) /\ r.three = d.three /\ (AtRest(d) => AtRest(r))
  BY DEF StateOnly, Kept, Placed, EventsSame, Quiets, AtRest, NoEnd

(* The rest of a transfer of data is asked for.                             *)
LEMMA GoesOn ==
  ASSUME NEW d, AtRest(d), NEW e \in Control, d.st = DataState(Dir(e)),
         NEW n, n = d.ep[e].left, n > 0
  PROVE  LET r == usb_hal_io_request(d, e, n, FALSE) IN
         Goes(d, r, e) /\ r.st # "error"
  <1> DEFINE r == usb_hal_io_request(d, e, n, FALSE)
  <1>1. /\ d \in Device /\ e \in Endpoints /\ ~d.ep[e].active
        /\ Opposite(e) \in Endpoints \ {e} /\ Opposite(e) \in Control
        /\ Bulk \subseteq Endpoints \ {e}
    BY ControlNumbers DEF AtRest
  <1>2. n \in Int
    BY <1>1 DEF Device, EndpointTable, Endpoint
  <1>3. /\ r \in Device /\ Same(d, r) /\ Placed(d, r) /\ r.stall = d.stall /\ r.ev = d.ev
        /\ r.ep[e].active /\ r.ep[e].left = n /\ r.trb[e] = "normal"
        /\ \A x \in Endpoints \ {e} : r.ep[x] = d.ep[x] /\ r.trb[x] = d.trb[x]
    <2>1. Begun(d, r, e, n)
      BY <1>1, <1>2, RequestedWhole
    <2> HIDE DEF r
    <2>2. QED
      BY <2>1 DEF Begun
  <1> HIDE DEF r
  <1>4. EventsSame(d, r) /\ Quiets(d, r)
    <2>1. \A x \in Bulk : r.ep[x].active => d.ep[x].active
      BY <1>1, <1>3
    <2>2. QED
      BY <1>3, <2>1, BufferSame
  <1>5. ~r.ep[Opposite(e)].active /\ r.trb[Opposite(e)] = "none"
    BY <1>1, <1>3 DEF AtRest
  <1>6. Kept(d, r)
    BY <1>3, <1>4 DEF Kept, Same
  <1>7. r.st # "error"
    BY <1>3 DEF Same, DataState
  <1>8. QED
    BY <1>3, <1>5, <1>6, <1>7 DEF Goes, Same, r

(* The end of a transfer in the data or status stage: more data, the turn to*)
(* the status stage, or idle again.                                         *)
LEMMA DataHandled ==
  ASSUME NEW d, AtRest(d), d.st \notin {"idle", "error"}, NEW e \in Control
  PROVE  LET r == IF e = EP0_IN THEN usb_stack_process_ep0_IN(d)
                                ELSE usb_stack_process_ep0_OUT(d)
         IN  \/ Goes(d, r, e)
             \/ Turns(d, r, e)
             \/ Kept(d, r) /\ r.st = "idle" /\ AtRest(r)
             \/ IdleAgain(d, r) /\ InRests(r)
  <1> DEFINE n == d.ep[e].left
             g == usb_hal_io_request(d, e, n, FALSE)
             t == [d EXCEPT !.st = StatusState(e)]
             i == [d EXCEPT !.st = "idle"]
             f == [d EXCEPT !.st = "error"]
             r == IF e = EP0_IN THEN usb_stack_process_ep0_IN(d)
                                ELSE usb_stack_process_ep0_OUT(d)
  <1>1. d \in Device /\ e \in {EP0_IN, EP0_OUT} /\ EP0_IN # EP0_OUT
    BY EndpointNumbers DEF AtRest
  <1>2. /\ DataState(Dir(e)) = IF e = EP0_IN THEN "datain" ELSE "dataout"
        /\ Of("in") = EP0_IN /\ Of("out") = EP0_OUT
    BY EndpointNumbers DEF DataState
  <1>3. d.st \in States
    BY <1>1 DEF Device
  <1>4. \/ d.st = DataState(Dir(e)) /\ n > 0 /\ r = usb_stack_check_ep0_error(g)
        \/ d.st = DataState(Dir(e)) /\ r = usb_stack_check_ep0_error(t)
        \/ r = usb_stack_check_ep0_error(i)
        \/ r = usb_stack_check_ep0_error(f)
    <2>1. CASE e = EP0_IN
      <3> HIDE DEF n
      <3>1. r = usb_stack_check_ep0_error(
                  CASE d.st = "datain" -> IF More(d, e) THEN g ELSE t
                    [] d.st = "statusin" -> i
                    [] OTHER -> f)
        BY <1>2, <2>1 DEF usb_stack_process_ep0_IN, usb_hal_ep0_io_continue, StatusState, n
      <3>2. More(d, e) => n > 0
        BY DEF More, n
      <3> HIDE DEF r, g, t, i, f
      <3>3. QED
        BY <1>2, <2>1, <3>1, <3>2
    <2>2. CASE e = EP0_OUT
      <3> HIDE DEF n
      <3>1. r = usb_stack_check_ep0_error(
                  CASE d.st = "dataout" -> IF More(d, e) THEN g ELSE t
                    [] d.st = "statusout" -> i
                    [] OTHER -> f)
        BY <1>1, <1>2, <2>2 DEF usb_stack_process_ep0_OUT, usb_hal_ep0_io_continue, StatusState, n
      <3>2. More(d, e) => n > 0
        BY DEF More, n
      <3> HIDE DEF r, g, t, i, f
      <3>3. QED
        BY <1>1, <1>2, <2>2, <3>1, <3>2
    <2>3. QED
      BY <1>1, <2>1, <2>2
  <1>5. ASSUME NEW q, q.st # "error"
        PROVE  usb_stack_check_ep0_error(q) = q
    BY <1>5 DEF usb_stack_check_ep0_error
  <1>6. CASE d.st = DataState(Dir(e)) /\ n > 0 /\ r = usb_stack_check_ep0_error(g)
    <2>1. Goes(d, g, e) /\ g.st # "error"
      BY <1>6, GoesOn
    <2>2. QED
      BY <1>5, <1>6, <2>1
  <1>7. CASE d.st = DataState(Dir(e)) /\ r = usb_stack_check_ep0_error(t)
    <2>1. StatusState(e) \in States /\ StatusState(e) # "error"
      BY DEF StatusState, States
    <2>2. StateOnly(d, t, StatusState(e))
      BY <1>1, <2>1, Entered
    <2> HIDE DEF t
    <2>3. Turns(d, t, e) /\ t.st # "error"
      BY <1>1, <1>7, <2>1, <2>2, StateKept DEF Turns, StateOnly
    <2>4. QED
      BY <1>5, <1>7, <2>3
  <1>8. CASE r = usb_stack_check_ep0_error(i)
    <2>1. StateOnly(d, i, "idle")
      BY <1>1, Entered DEF States
    <2> HIDE DEF i
    <2>2. Kept(d, i) /\ i.st = "idle" /\ AtRest(i)
      BY <1>1, <2>1, StateKept DEF StateOnly
    <2>3. QED
      BY <1>5, <1>8, <2>2
  <1>9. CASE r = usb_stack_check_ep0_error(f)
    <2>1. d.trb[EP0_IN] = "none" /\ NoEnd(d)
      BY EndpointNumbers DEF AtRest
    <2>2. QED
      BY <1>1, <1>9, <2>1, ErrorEnds
  <1>10. QED
    BY <1>4, <1>6, <1>7, <1>8, <1>9

(* The end of a SETUP: the request is under way, or was refused.            *)
SetUp(d, r) ==
  /\ r \in Device /\ r.st \in {Stage(d.buffer), "datain"} /\ r.three = (d.buffer.len # 0)
  /\ r.buffer = d.buffer /\ r.first = d.first /\ r.held = d.held /\ r.asked = d.asked
  /\ r.ready = d.ready /\ EventsSame(d, r)
  /\ \A e \in Control : /\ r.trb[e] \in {"none", "data"}
                        /\ r.trb[e] # "none" <=> r.ep[e].active
  /\ ~(r.ep[EP0_IN].active /\ r.ep[EP0_OUT].active)
  /\ r.ep[EP0_OUT].active => d.buffer.len > 0 /\ r.st = Stage(d.buffer)
  /\ Quiets(d, r) \/ d.buffer.req \in Resets

(* The end of a transfer at the control endpoint, found without another.    *)
EndAlone(d, e) ==
  /\ d \in Device /\ NoEnd(d) /\ d.ep[e].active
  /\ ~d.ep[Opposite(e)].active
  /\ \A x \in Control : d.trb[x] = "none"
  /\ d.st # "error" /\ (d.st = "idle" => e = EP0_OUT)
  /\ d.buffer.req = "SET_SEL" => d.buffer.len > 0

EndDone(d, r, e) ==
  \/ d.st = "idle" /\ SetUp(d, r)
  \/ d.st # "idle" /\ Goes(d, r, e)
  \/ d.st # "idle" /\ Turns(d, r, e)
  \/ IdleAgain(d, r) /\ InRests(r)

(* What is found when a transfer has ended, its stall with it.              *)
LEMMA EndRests ==
  ASSUME NEW d, NEW e \in Control, EndAlone(d, e)
  PROVE  LET s == Settled(d, e)
             c == IF e = EP0_OUT THEN [s EXCEPT !.ep[e].stalled = FALSE] ELSE s
         IN  /\ Kept(d, s) /\ s.st = d.st /\ s.three = d.three /\ AtRest(s)
             /\ Kept(d, c) /\ c.st = d.st /\ c.three = d.three /\ AtRest(c)
  <1> DEFINE s == Settled(d, e)
             b == usb_hal_clear_endpt_stall(s, e)
             c == IF e = EP0_OUT THEN [s EXCEPT !.ep[e].stalled = FALSE] ELSE s
  <1>1. /\ d \in Device /\ e \in Endpoints /\ Opposite(e) \in Endpoints \ {e}
        /\ \A x \in Control : x = e \/ x = Opposite(e)
        /\ Bulk \subseteq Endpoints \ {e}
    BY ControlNumbers DEF EndAlone
  <1>2. /\ s \in Device /\ Same(d, s) /\ Placed(d, s) /\ s.ev = d.ev
        /\ s.trb = d.trb /\ ~s.ep[e].active
        /\ \A x \in Endpoints \ {e} : s.ep[x] = d.ep[x]
    BY <1>1, SettledEnd
  <1>3. c \in {s, b}
    BY DEF usb_hal_clear_endpt_stall
  <1> HIDE DEF s
  <1>4. Kept(d, s) /\ s.st = d.st /\ s.three = d.three
    BY <1>1, <1>2 DEF Kept, Same, EventsSame, Quiets
  <1>5. AtRest(s)
    BY <1>1, <1>2 DEF AtRest, EndAlone, NoEnd
  <1>6. Frame(s, b) /\ Quiets(s, b) /\ Placed(s, b)
    BY <1>2, StallCleared
  <1> HIDE DEF b, c
  <1>7. Kept(s, b) /\ b.st = s.st /\ b.three = s.three
    BY <1>6 DEF Frame, Kept, Same
  <1>8. AtRest(b)
    BY <1>5, <1>6 DEF AtRest, Frame, ControlSame, EventsSame, NoEnd, IsEnd
  <1>9. Kept(d, b) /\ b.st = d.st /\ b.three = d.three
    BY <1>4, <1>7, KeptTransitive
  <1>10. Kept(d, c) /\ c.st = d.st /\ c.three = d.three /\ AtRest(c)
    BY <1>3, <1>4, <1>5, <1>8, <1>9
  <1>11. QED
    BY <1>4, <1>5, <1>10 DEF s, c

(* The end of a SETUP is handled.                                           *)
LEMMA RequestHandled ==
  ASSUME NEW d, AtRest(d), d.st = "idle", d.buffer.req = "SET_SEL" => d.buffer.len > 0,
         NEW e \in Control
  PROVE  LET r == usb_hal_handle_ep0_xfer_cmplt(d, e) IN
         SetUp(d, r) \/ (IdleAgain(d, r) /\ InRests(r))
  <1> DEFINE a == [d EXCEPT !.pkt = d.buffer, !.three = d.buffer.len # 0]
             b == [a EXCEPT !.st = Stage(a.pkt)]
             r == usb_hal_handle_ep0_xfer_cmplt(d, e)
  <1>1. r = usb_stack_setup_pkt_callback(a)
    BY DEF usb_hal_handle_ep0_xfer_cmplt
  <1>2. /\ a \in Device /\ a.pkt = d.buffer /\ a.three = (d.buffer.len # 0)
        /\ a.buffer = d.buffer /\ a.first = d.first /\ a.held = d.held /\ a.asked = d.asked
        /\ a.ready = d.ready /\ Placed(d, a) /\ a.ep = d.ep /\ a.trb = d.trb /\ a.ev = d.ev
    BY DEF AtRest, Device, Placed
  <1> HIDE DEF a, r
  <1>3. AtRest(a)
    BY <1>2 DEF AtRest, NoEnd
  <1>4. Busy(b, r) \/ (IdleAgain(a, r) /\ InRests(r))
    BY <1>1, <1>2, <1>3, SetupHandled
  <1>5. CASE Busy(b, r)
    <2>1. Stage(a.pkt) \in States
      BY DEF Stage, States
    <2>2. StateOnly(a, b, Stage(d.buffer))
      BY <1>2, <2>1, Entered
    <2> HIDE DEF b
    <2>3. SetUp(d, r)
      <3>1. b.ev = d.ev /\ b.ep = d.ep /\ b.pkt = d.buffer
        BY <1>2, <2>2 DEF StateOnly
      <3>2. EventsSame(d, r) /\ (Quiets(b, r) => Quiets(d, r))
        BY <1>5, <3>1, SameBefore DEF Busy
      <3>3. QED
        BY <1>2, <1>5, <2>2, <3>1, <3>2 DEF Busy, StateOnly, SetUp
    <2>4. QED
      BY <2>3 DEF r
  <1>6. CASE IdleAgain(a, r) /\ InRests(r)
    <2>1. IdleAgain(d, r)
      BY <1>2, <1>6 DEF IdleAgain, EventsSame, Quiets, Placed
    <2>2. QED
      BY <1>6, <2>1 DEF r
  <1>7. QED
    BY <1>4, <1>5, <1>6

(* The end of a transfer of data, or of a status stage, is handled.         *)
LEMMA StageHandled ==
  ASSUME NEW d, AtRest(d), d.st \notin {"idle", "error"}, NEW e \in Control
  PROVE  LET r == usb_hal_handle_ep0_xfer_cmplt(d, e) IN
         Goes(d, r, e) \/ Turns(d, r, e) \/ (IdleAgain(d, r) /\ InRests(r))
  <1> DEFINE s == IF e = EP0_IN THEN usb_stack_process_ep0_IN(d)
                                ELSE usb_stack_process_ep0_OUT(d)
             q == usb_hal_ep0_setup_stage(s)
             r == usb_hal_handle_ep0_xfer_cmplt(d, e)
  <1>1. r = IF s.st = "idle" THEN q ELSE s
    BY DEF usb_hal_handle_ep0_xfer_cmplt
  <1>2. \/ Goes(d, s, e)
        \/ Turns(d, s, e)
        \/ Kept(d, s) /\ s.st = "idle" /\ AtRest(s)
        \/ IdleAgain(d, s) /\ InRests(s)
    BY DataHandled
  <1> HIDE DEF s, r
  <1>3. CASE Goes(d, s, e) \/ Turns(d, s, e)
    <2>1. s.st # "idle"
      BY <1>3 DEF Goes, Turns, DataState, StatusState
    <2>2. QED
      BY <1>1, <1>3, <2>1 DEF r
  <1>4. CASE \/ Kept(d, s) /\ s.st = "idle" /\ AtRest(s)
             \/ IdleAgain(d, s) /\ InRests(s)
    <2>1. s \in Device /\ s.st = "idle" /\ InRests(s)
      BY <1>4, EndpointNumbers DEF IdleAgain, AtRest, InRests
    <2>2. IdleAgain(s, q) /\ InSame(s, q)
      BY <2>1, SetupStage
    <2> HIDE DEF q
    <2>3. IdleAgain(d, q)
      BY <1>4, <2>2, KeptThenIdle, IdleThenIdle
    <2>4. InRests(q)
      BY <2>1, <2>2 DEF InRests, InSame
    <2>5. QED
      BY <1>1, <2>1, <2>3, <2>4 DEF r
  <1>5. QED
    BY <1>2, <1>3, <1>4

(* The end of a transfer at the control endpoint is handled.                *)
LEMMA EndHandled ==
  ASSUME NEW d, NEW e \in Control, EndAlone(d, e)
  PROVE  EndDone(d, usb_hal_handle_xfer_complete(d, e), e)
  <1> DEFINE s == Settled(d, e)
             f == [s EXCEPT !.st = "error"]
             c == IF e = EP0_OUT THEN [s EXCEPT !.ep[e].stalled = FALSE] ELSE s
             h == usb_hal_set_endpt_stall(f, EP0_OUT)
             g == usb_hal_handle_ep0_xfer_cmplt(c, e)
             r == usb_hal_handle_xfer_complete(d, e)
  <1>1. /\ Kept(d, s) /\ s.st = d.st /\ s.three = d.three /\ AtRest(s)
        /\ Kept(d, c) /\ c.st = d.st /\ c.three = d.three /\ AtRest(c)
    BY EndRests
  <1>2. r \in {h, g}
    <2>1. e \notin Bulk
      BY EndpointNumbers
    <2>2. r = CASE e \in Bulk -> s [] Surplus(s, e) -> h [] OTHER -> g
      BY DEF usb_hal_handle_xfer_complete, EndAlone
    <2> HIDE DEF s, h, g, r
    <2>3. QED
      BY <2>1, <2>2
  <1> HIDE DEF r, s, c
  <1>3. IdleAgain(d, h) /\ InRests(h)
    <2>1. StateOnly(s, f, "error")
      BY <1>1, Entered DEF AtRest, States
    <2> HIDE DEF f
    <2>2. f \in Device /\ NoEnd(f) /\ InRests(f)
      BY <1>1, <2>1, EndpointNumbers DEF StateOnly, AtRest, NoEnd, InRests
    <2>3. IdleAgain(f, h) /\ InSame(f, h)
      BY <2>2, ControlStalled
    <2>4. Kept(d, f)
      BY <1>1, <2>1, StateKept, KeptTransitive DEF AtRest
    <2> HIDE DEF h
    <2>5. QED
      BY <2>2, <2>3, <2>4, KeptThenIdle DEF InRests, InSame
  <1>4. CASE d.st = "idle"
    <2>1. SetUp(c, g) \/ (IdleAgain(c, g) /\ InRests(g))
      BY <1>1, <1>4, RequestHandled DEF EndAlone, Kept
    <2> HIDE DEF g
    <2>2. ASSUME SetUp(c, g)
          PROVE  SetUp(d, g)
      <3>1. EventsSame(d, g) /\ g.buffer = d.buffer
        <4>1. EventsSame(d, c) /\ EventsSame(c, g) /\ g.buffer = d.buffer
          BY <1>1, <2>2 DEF SetUp, Kept
        <4>2. QED
          BY <4>1 DEF EventsSame, IsEnd
      <3>2. Quiets(d, g) \/ d.buffer.req \in Resets
        BY <1>1, <2>2, QuietsTransitive DEF SetUp, Kept
      <3>3. QED
        BY <1>1, <2>2, <3>1, <3>2 DEF SetUp, Kept
    <2>3. IdleAgain(c, g) => IdleAgain(d, g)
      BY <1>1, KeptThenIdle
    <2>4. QED
      BY <1>2, <1>3, <1>4, <2>1, <2>2, <2>3 DEF EndDone, r
  <1>5. CASE d.st # "idle"
    <2>1. Goes(c, g, e) \/ Turns(c, g, e) \/ (IdleAgain(c, g) /\ InRests(g))
      BY <1>1, <1>5, StageHandled DEF EndAlone
    <2> HIDE DEF g
    <2>2. Goes(c, g, e) => Goes(d, g, e)
      BY <1>1, KeptTransitive DEF Goes
    <2>3. Turns(c, g, e) => Turns(d, g, e)
      BY <1>1, KeptTransitive DEF Turns
    <2>4. IdleAgain(c, g) => IdleAgain(d, g)
      BY <1>1, KeptThenIdle
    <2>5. QED
      BY <1>2, <1>3, <1>5, <2>1, <2>2, <2>3, <2>4 DEF EndDone, r
  <1>6. QED
    BY <1>4, <1>5

-----------------------------------------------------------------------------
(* A report that the host asks where no TRB is.  In front of the end of a   *)
(* transfer of data it changes nothing.                                     *)
LEMMA PollIgnored ==
  ASSUME NEW d, NEW x \in NotReady, NEW y, Harmless(d, x, y), d.ep[x.e].active
  PROVE  usb_hal_handle_endpt_event(d, x) = d
  <1> DEFINE r == usb_hal_handle_ep0_xfer_not_ready(d, x.stage, Dir(x.e))
  <1>1. /\ x.stage = "data" /\ d.three = TRUE /\ d.st = DataState(Dir(x.e))
        /\ Of(Dir(x.e)) = x.e
    BY EndpointNumbers DEF Harmless, NotReady
  <1>2. d.st \notin {"idle", "error", "statusin", "statusout"}
    BY <1>1 DEF DataState
  <1>3. ~(d.st = "datain" /\ Dir(x.e) = "out") /\ ~(d.st = "dataout" /\ Dir(x.e) = "in")
    BY <1>1 DEF DataState
  <1>4. r = usb_stack_check_ep0_error(d)
    BY <1>1, <1>2, <1>3 DEF usb_hal_handle_ep0_xfer_not_ready
  <1>5. r = d
    BY <1>2, <1>4 DEF usb_stack_check_ep0_error
  <1>6. x.t = "notready"
    BY DEF NotReady
  <1>7. QED
    BY <1>5, <1>6 DEF usb_hal_handle_endpt_event

(* Where nothing waits it starts the stage that the host asks for.          *)
StatusAsked(d, r, e) ==
  /\ Kept(d, r) /\ r.st = d.st /\ r.st # "idle" /\ r.three = d.three
  /\ r.ep[e].active /\ r.trb[e] = "status"
  /\ ~r.ep[Opposite(e)].active /\ r.trb[Opposite(e)] = "none"

DataAskedAgain(d, r, e) ==
  /\ Kept(d, r) /\ r.st = DataState(Dir(e)) /\ d.st \in Status /\ r.three /\ d.three
  /\ r.ep[e].active /\ r.trb[e] = "normal"
  /\ ~r.ep[Opposite(e)].active /\ r.trb[Opposite(e)] = "none"

PollAlone(d, x) ==
  /\ d \in Device /\ NoEnd(d) /\ d.st # "error"
  /\ \A e \in Control : d.trb[e] # "none" <=> d.ep[e].active
  /\ IF x.stage = "status" THEN StatusPoll(d, x.e) ELSE DataPoll(d)

PollDone(d, r, x) ==
  \/ r = d
  \/ x.stage = "status" /\ StatusAsked(d, r, x.e)
  \/ x.stage = "data" /\ DataAskedAgain(d, r, x.e)
  \/ IdleAgain(d, r) /\ InRests(r)

(* A report of the status stage starts that stage.                          *)
LEMMA StatusStarted ==
  ASSUME NEW d, NEW x \in NotReady, PollAlone(d, x), x.stage = "status", d.st # "idle",
         ~(d.three /\ d.ep[Opposite(x.e)].left > 0),
         NEW r, r = usb_hal_dep_xfer_start(d, x.e, "status", 0, 0)
  PROVE  StatusAsked(d, r, x.e) /\ r.st # "error"
  <1> DEFINE e == x.e
  <1>1. /\ d \in Device /\ e \in Endpoints /\ Opposite(e) \in Endpoints \ {e}
        /\ Opposite(e) \in Control /\ Bulk \subseteq Endpoints \ {e}
    BY ControlNumbers DEF PollAlone, NotReady
  <1>2. ~d.ep[Opposite(e)].active /\ d.trb[Opposite(e)] = "none"
    BY <1>1 DEF PollAlone, StatusPoll
  <1>3. /\ r \in Device /\ Same(d, r) /\ Placed(d, r) /\ r.ev = d.ev
        /\ r.ep[e].active /\ r.trb[e] = "status"
        /\ \A y \in Endpoints \ {e} : r.ep[y] = d.ep[y] /\ r.trb[y] = d.trb[y]
    BY <1>1, Started DEF Kinds
  <1>4. Kept(d, r)
    BY <1>1, <1>3 DEF Kept, Same, EventsSame, Quiets
  <1>5. QED
    BY <1>1, <1>2, <1>3, <1>4 DEF StatusAsked, Same, PollAlone

(* A report of the data stage, found in the status stage, starts the data   *)
(* again.                                                                   *)
LEMMA DataStarted ==
  ASSUME NEW d, NEW x \in NotReady, PollAlone(d, x), x.stage = "data",
         d.st \in Status, d.three, NEW n \in Int, NEW e, e = x.e
  PROVE  LET r == usb_hal_io_request([d EXCEPT !.zlp = TRUE, !.st = DataState(Dir(e))],
                                     e, n, FALSE)
         IN  DataAskedAgain(d, r, e) /\ r.st # "error"
  <1> DEFINE a == [d EXCEPT !.zlp = TRUE, !.st = DataState(Dir(e))]
             r == usb_hal_io_request(a, e, n, FALSE)
  <1>1. /\ d \in Device /\ e \in Endpoints /\ Opposite(e) \in Endpoints \ {e}
        /\ Opposite(e) \in Control /\ e \in Control /\ Bulk \subseteq Endpoints \ {e}
    BY ControlNumbers DEF PollAlone, NotReady
  <1>2. \A y \in Control : ~d.ep[y].active /\ d.trb[y] = "none"
    BY DEF PollAlone, DataPoll
  <1>3. /\ a \in Device /\ a.st = DataState(Dir(e)) /\ a.three = d.three
        /\ a.buffer = d.buffer /\ a.first = d.first /\ a.held = d.held /\ a.asked = d.asked
        /\ a.ready = d.ready /\ Placed(d, a) /\ a.ep = d.ep /\ a.trb = d.trb /\ a.ev = d.ev
    <2>1. DataState(Dir(e)) \in States
      BY DEF DataState, States
    <2>2. QED
      BY <1>1, <2>1, ZenonT(90) DEF Device, Placed
  <1>4. Begun(a, r, e, n)
    <2> HIDE DEF a
    <2>1. ~a.ep[e].active
      BY <1>1, <1>2, <1>3
    <2>2. QED
      BY <1>1, <1>3, <2>1, RequestedWhole
  <1> HIDE DEF a, r
  <1>5. Kept(d, r)
    BY <1>1, <1>3, <1>4 DEF Begun, Kept, Same, Placed, EventsSame, Quiets
  <1>6. ~r.ep[Opposite(e)].active /\ r.trb[Opposite(e)] = "none"
    BY <1>1, <1>2, <1>3, <1>4 DEF Begun
  <1>7. r.st = DataState(Dir(e)) /\ r.three = d.three /\ r.ep[e].active /\ r.trb[e] = "normal"
    BY <1>3, <1>4 DEF Begun, Same
  <1>8. QED
    BY <1>5, <1>6, <1>7 DEF DataAskedAgain, DataState, r, a

(* A report that is found without an end has one of the outcomes.           *)
LEMMA PollHandled ==
  ASSUME NEW d, NEW x \in NotReady, PollAlone(d, x)
  PROVE  PollDone(d, usb_hal_handle_endpt_event(d, x), x)
  <1> DEFINE e == x.e
             dir == Dir(e)
             n == IF dir = "out" THEN Packet ELSE 0
             a == [d EXCEPT !.zlp = TRUE, !.st = DataState(dir)]
             f == [d EXCEPT !.st = "error"]
             g == usb_hal_dep_xfer_start(d, x.e, "status", 0, 0)
             h == usb_hal_io_request(a, x.e, n, FALSE)
             q == usb_hal_handle_ep0_xfer_not_ready(d, x.stage, dir)
  <1>1. /\ x.t = "notready" /\ x.stage \in {"data", "status"} /\ x.e \in Control
        /\ dir \in {"in", "out"} /\ Of(dir) = x.e /\ Of(Other(dir)) = Opposite(x.e)
    BY EndpointNumbers DEF NotReady, Dir, Other, Opposite
  <1>2. DataState(dir) = IF dir = "out" THEN "dataout" ELSE "datain"
    BY <1>1 DEF DataState
  <1>3. usb_hal_handle_endpt_event(d, x) \in {d, q}
    BY <1>1 DEF usb_hal_handle_endpt_event
  <1>4. \/ q = usb_stack_check_ep0_error(d)
        \/ q = usb_stack_check_ep0_error(f)
        \/ /\ x.stage = "status" /\ d.st # "idle"
           /\ ~(d.three /\ d.ep[Opposite(x.e)].left > 0)
           /\ q = usb_stack_check_ep0_error(g)
        \/ /\ x.stage = "data" /\ d.st \in Status /\ d.three
           /\ q = usb_stack_check_ep0_error(h)
    <2> DEFINE unexpected == d.st = "idle" /\ x.stage # "setup"
               unfinished == x.stage = "status" /\ d.three /\ d.ep[Opposite(x.e)].left > 0
               opposed == /\ x.stage = "data"
                          /\ \/ d.st = "datain" /\ dir = "out"
                             \/ d.st = "dataout" /\ dir = "in"
               unasked == x.stage = "data" /\ IF d.zlp THEN ~d.ep[x.e].active ELSE ~d.three
               again == x.stage = "data" /\ d.st \in {"statusin", "statusout"} /\ ~d.zlp
               s == IF unexpected \/ unfinished \/ opposed \/ unasked THEN f
                    ELSE IF x.stage = "status" THEN g ELSE IF again THEN h ELSE d
    <2>1. q = usb_stack_check_ep0_error(s)
      BY <1>1, <1>2 DEF usb_hal_handle_ep0_xfer_not_ready, usb_hal_ep0_status_stage,
                        usb_hal_ep0_io_continue
    <2> HIDE DEF q, f, g, h
    <2>2. \/ s = d
          \/ s = f
          \/ x.stage = "status" /\ ~unexpected /\ ~unfinished /\ s = g
          \/ x.stage = "data" /\ d.st \in {"statusin", "statusout"} /\ d.three /\ s = h
      <3> HIDE DEF unexpected, unfinished, opposed
      <3>1. CASE unexpected \/ unfinished \/ opposed \/ unasked
        BY <3>1
      <3>2. CASE ~(unexpected \/ unfinished \/ opposed \/ unasked)
        BY <3>2
      <3>3. QED
        BY <3>1, <3>2
    <2> HIDE DEF s
    <2>3. QED
      BY <1>1, <2>1, <2>2 DEF unfinished, Status
  <1> HIDE DEF q
  <1>5. ASSUME NEW s, s.st # "error"
        PROVE  usb_stack_check_ep0_error(s) = s
    BY <1>5 DEF usb_stack_check_ep0_error
  <1>6. CASE q = usb_stack_check_ep0_error(d)
    BY <1>3, <1>5, <1>6 DEF PollAlone, PollDone
  <1>7. CASE q = usb_stack_check_ep0_error(f)
    <2>1. d.trb[EP0_IN] # "none" => d.ep[EP0_IN].active
      BY EndpointNumbers DEF PollAlone
    <2>2. IdleAgain(d, q) /\ InRests(q)
      BY <1>7, <2>1, ErrorEnds DEF PollAlone
    <2>3. QED
      BY <1>3, <2>2 DEF PollDone
  <1>8. CASE /\ x.stage = "status" /\ d.st # "idle"
             /\ ~(d.three /\ d.ep[Opposite(x.e)].left > 0)
             /\ q = usb_stack_check_ep0_error(g)
    <2>1. StatusAsked(d, g, x.e) /\ g.st # "error"
      BY <1>8, StatusStarted
    <2>2. QED
      BY <1>3, <1>5, <1>8, <2>1 DEF PollDone
  <1>9. CASE /\ x.stage = "data" /\ d.st \in Status /\ d.three
             /\ q = usb_stack_check_ep0_error(h)
    <2>1. n \in Int
      BY DEF Packet
    <2> HIDE DEF n
    <2>2. DataAskedAgain(d, h, x.e) /\ h.st # "error"
      BY <1>9, <2>1, DataStarted
    <2> HIDE DEF h
    <2>3. QED
      BY <1>3, <1>5, <1>9, <2>2 DEF PollDone
  <1>10. QED
    BY <1>4, <1>6, <1>7, <1>8, <1>9

-----------------------------------------------------------------------------
(* What is said of the control endpoint depends on its own fields.          *)
LEMMA FrameControl ==
  ASSUME NEW d \in Device, NEW r, Alike(d, r), ControlSame(d, r), EventsSame(d, r), NEW h,
         ControlInv(d, h)
  PROVE  ControlInv(r, h)
  <1>1. \A e \in Control : Opposite(e) \in Control
    BY EndpointNumbers
  <1>2. /\ Len(r.ev) = Len(d.ev)
        /\ \A k \in 1 .. Len(d.ev) :
             /\ IsEnd(r.ev[k]) <=> IsEnd(d.ev[k])
             /\ IsPoll(r.ev[k]) <=> IsPoll(d.ev[k])
             /\ r.ev[k].t = d.ev[k].t /\ r.ev[k].e = d.ev[k].e
             /\ r.ev[k].stage = d.ev[k].stage
    BY DEF EventsSame, IsEnd, IsPoll
  <1>3. NoEnd(r) <=> NoEnd(d)
    BY <1>2 DEF NoEnd
  <1>4. EndsAreOwn(r)
    <2>1. ASSUME NEW k \in 1 .. Len(r.ev), IsEnd(r.ev[k])
          PROVE  ~r.ev[k].old /\ r.ep[r.ev[k].e].active /\ r.trb[r.ev[k].e] = "none"
      <3>1. k \in 1 .. Len(d.ev) /\ IsEnd(d.ev[k]) /\ r.ev[k].e = d.ev[k].e
        BY <1>2, <2>1
      <3>2. ~d.ev[k].old /\ d.ep[d.ev[k].e].active /\ d.trb[d.ev[k].e] = "none"
        BY <3>1 DEF ControlInv, EndsAreOwn
      <3>3. r.ev[k].old = d.ev[k].old /\ d.ev[k].e \in Control
        BY <3>1 DEF EventsSame, IsEnd
      <3>4. QED
        BY <3>1, <3>2, <3>3 DEF ControlSame
    <2>2. QED
      BY <2>1 DEF EndsAreOwn
  <1>5. EndIsSingle(r)
    BY <1>2 DEF ControlInv, EndIsSingle
  <1>6. ActiveHasTrb(r)
    <2>1. ASSUME NEW e \in Control, r.ep[e].active, r.trb[e] = "none"
          PROVE  \E k \in 1 .. Len(r.ev) : IsEnd(r.ev[k]) /\ r.ev[k].e = e
      <3>1. \E k \in 1 .. Len(d.ev) : IsEnd(d.ev[k]) /\ d.ev[k].e = e
        BY <2>1 DEF ControlInv, ActiveHasTrb, ControlSame
      <3>2. QED
        BY <1>2, <3>1
    <2>2. QED
      BY <2>1 DEF ControlInv, ActiveHasTrb, ControlSame
  <1>7. Shape(r)
    BY <1>1, EndpointNumbers DEF ControlInv, Shape, IdleShape, BusyShape, ControlSame, Alike, Of
  <1>8. PollsInFront(r)
    BY <1>2 DEF ControlInv, PollsInFront, Harmless, Alike
  <1>9. PollsApart(r)
    <2>1. ASSUME NEW i \in 1 .. Len(r.ev), NEW j \in 1 .. Len(r.ev),
                 IsPoll(r.ev[i]), IsPoll(r.ev[j]), i < j
          PROVE  \E k \in i .. j : IsEnd(r.ev[k])
      <3>1. PICK k \in i .. j : IsEnd(d.ev[k])
        BY <1>2, <2>1 DEF ControlInv, PollsApart
      <3>2. k \in 1 .. Len(d.ev)
        BY <1>2
      <3>3. QED
        BY <1>2, <3>1, <3>2
    <2>2. QED
      BY <2>1 DEF PollsApart
  <1>10. PollsBehind(r)
    BY <1>2 DEF ControlInv, PollsBehind, PollAfterEnd, Alike
  <1>11. PollsAlone(r)
    <2>1. ASSUME NoEnd(r), NEW j \in 1 .. Len(r.ev), IsPoll(r.ev[j])
          PROVE  IF r.ev[j].stage = "status" THEN StatusPoll(r, r.ev[j].e) ELSE DataPoll(r)
      <3>1. j \in 1 .. Len(d.ev) /\ IsPoll(d.ev[j])
        BY <1>2, <2>1
      <3>2. IF r.ev[j].stage = "status" THEN StatusPoll(d, r.ev[j].e) ELSE DataPoll(d)
        BY <1>2, <1>3, <2>1, <3>1 DEF ControlInv, PollsAlone
      <3>3. DataPoll(d) => DataPoll(r)
        BY DEF DataPoll, Alike, ControlSame
      <3>4. ASSUME NEW e \in Control, StatusPoll(d, e)
            PROVE  StatusPoll(r, e)
        BY <1>1, <3>4 DEF StatusPoll, Alike, ControlSame
      <3>5. r.ev[j].e \in Control
        BY <1>2, <3>1, EventIs DEF NotReady
      <3>6. QED
        BY <3>2, <3>3, <3>4, <3>5
    <2>2. QED
      BY <2>1 DEF PollsAlone
  <1>12. HostShape(r, h)
    BY DEF ControlInv, HostShape, Asks, Alike
  <1>13. HostAndEnd(r, h)
    BY <1>2 DEF ControlInv, HostAndEnd, Asks, Alike
  <1>14. HostAlone(r, h)
    <2>1. Of(StatusDir(h.r)) \in Control
      BY EndpointNumbers DEF Of
    <2>2. QED
      BY <1>1, <1>3, <2>1 DEF ControlInv, HostAlone, Asks, DataPoll, Alike, ControlSame
  <1>15. HostPolled(r, h)
    <2>1. ASSUME NEW j \in 1 .. Len(r.ev), Last(r, j)
          PROVE  Last(d, j)
      BY <1>2, <2>1 DEF Last
    <2>2. QED
      BY <1>2, <1>3, <2>1 DEF ControlInv, HostPolled, Asks, Alike, ControlSame
  <1>16. FirstShape(r, h)
    BY <1>2 DEF ControlInv, FirstShape, Alike
  <1>17. QED
    BY <1>4, <1>5, <1>6, <1>7, <1>8, <1>9, <1>10, <1>11, <1>12, <1>13, <1>14, <1>15, <1>16
       DEF ControlInv

(* An event that is neither is added, or was the first.                     *)
Appended(d, r, x) ==
  /\ Len(d.ev) \in Nat /\ Len(r.ev) = Len(d.ev) + 1 /\ r.ev[Len(d.ev) + 1] = x
  /\ \A k \in 1 .. Len(d.ev) : r.ev[k] = d.ev[k]

Tailed(d, r) ==
  /\ Len(r.ev) \in Nat /\ Len(d.ev) = Len(r.ev) + 1
  /\ \A k \in 1 .. Len(r.ev) : r.ev[k] = d.ev[k + 1]
  /\ \A k \in 2 .. Len(d.ev) : k - 1 \in 1 .. Len(r.ev) /\ r.ev[k - 1] = d.ev[k]

(* Append to the buffer adds one event behind the others.                   *)
LEMMA AppendedEvent ==
  ASSUME NEW d \in Device, NEW x \in Events, NEW r, r.ev = Append(d.ev, x)
  PROVE  Appended(d, r, x) /\ r.ev \in Buffer
  <1>1. d.ev \in Seq(Events)
    BY DEF Device, Buffer
  <1>2. QED
    BY <1>1, AppendProperties, LenProperties DEF Appended, Buffer

(* Tail of the buffer takes the first event away.                           *)
LEMMA TailedEvents ==
  ASSUME NEW d \in Device, d.ev # <<>>, NEW r, r.ev = Tail(d.ev)
  PROVE  /\ Tailed(d, r) /\ r.ev \in Buffer
         /\ 1 \in 1 .. Len(d.ev) /\ Head(d.ev) = d.ev[1]
  <1>1. d.ev \in Seq(Events)
    BY DEF Device, Buffer
  <1>2. /\ Tail(d.ev) \in Seq(Events) /\ Len(Tail(d.ev)) = Len(d.ev) - 1
        /\ \A k \in 1 .. Len(Tail(d.ev)) : Tail(d.ev)[k] = d.ev[k + 1]
        /\ Len(d.ev) \in Nat \ {0} /\ Head(d.ev) = d.ev[1]
    BY <1>1, HeadTailProperties, EmptySeq, LenProperties
  <1> DEFINE n == Len(d.ev)
             s == Tail(d.ev)
  <1>3. Len(s) = n - 1 /\ n \in Nat \ {0} /\ \A k \in 1 .. Len(s) : s[k] = d.ev[k + 1]
    BY <1>2
  <1> HIDE DEF n, s
  <1>4. ASSUME NEW k \in 2 .. n
        PROVE  k - 1 \in 1 .. Len(s) /\ s[k - 1] = d.ev[k]
    <2>1. k - 1 \in 1 .. Len(s) /\ (k - 1) + 1 = k
      BY <1>3
    <2>2. QED
      BY <1>3, <2>1
  <1>5. QED
    BY <1>2, <1>3, <1>4 DEF Tailed, Buffer, n, s

(* An event that is neither an end nor a report may be added.               *)
LEMMA AppendedControl ==
  ASSUME NEW d \in Device, NEW x, ~IsEnd(x), ~IsPoll(x), NEW r, Appended(d, r, x),
         Alike(d, r), ControlSame(d, r), NEW h, ControlInv(d, h)
  PROVE  ControlInv(r, h)
  <1> DEFINE n == Len(d.ev)
  <1>1. /\ n \in Nat /\ Len(r.ev) = n + 1 /\ r.ev[n + 1] = x
        /\ \A k \in 1 .. n : r.ev[k] = d.ev[k]
    BY DEF Appended
  <1>2. \A k \in 1 .. Len(r.ev) : IsEnd(r.ev[k]) \/ IsPoll(r.ev[k]) => k \in 1 .. n
    <2>1. \A k \in 1 .. Len(r.ev) : k \in 1 .. n \/ r.ev[k] = x
      BY <1>1
    <2>2. QED
      BY <2>1, Zenon
  <1>3. NoEnd(r) <=> NoEnd(d)
    BY <1>1, <1>2 DEF NoEnd
  <1>4. EndsAreOwn(r)
    <2>1. ASSUME NEW k \in 1 .. Len(r.ev), IsEnd(r.ev[k])
          PROVE  ~r.ev[k].old /\ r.ep[r.ev[k].e].active /\ r.trb[r.ev[k].e] = "none"
      <3>1. k \in 1 .. n /\ r.ev[k] = d.ev[k]
        BY <1>1, <1>2, <2>1
      <3>2. QED
        BY <2>1, <3>1 DEF ControlInv, EndsAreOwn, ControlSame, IsEnd
    <2>2. QED
      BY <2>1 DEF EndsAreOwn
  <1>5. EndIsSingle(r)
    BY <1>1, <1>2 DEF ControlInv, EndIsSingle
  <1>6. ActiveHasTrb(r)
    <2>1. ASSUME NEW e \in Control, r.ep[e].active, r.trb[e] = "none"
          PROVE  \E k \in 1 .. Len(r.ev) : IsEnd(r.ev[k]) /\ r.ev[k].e = e
      <3>1. \E k \in 1 .. n : IsEnd(d.ev[k]) /\ d.ev[k].e = e
        BY <2>1 DEF ControlInv, ActiveHasTrb, ControlSame
      <3>2. QED
        BY <1>1, <3>1
    <2>2. QED
      BY <2>1 DEF ControlInv, ActiveHasTrb, ControlSame
  <1>7. Shape(r)
    BY EndpointNumbers DEF ControlInv, Shape, IdleShape, BusyShape, ControlSame, Alike, Of
  <1>8. PollsInFront(r)
    <2>1. ASSUME NEW j \in 1 .. Len(r.ev), NEW k \in 1 .. Len(r.ev),
                 IsPoll(r.ev[j]), IsEnd(r.ev[k]), j < k
          PROVE  Harmless(r, r.ev[j], r.ev[k])
      <3>1. j \in 1 .. n /\ k \in 1 .. n
        BY <1>2, <2>1
      <3>2. r.ev[j] = d.ev[j] /\ r.ev[k] = d.ev[k]
        BY <1>1, <3>1
      <3>3. Harmless(d, d.ev[j], d.ev[k])
        BY <2>1, <3>1, <3>2 DEF ControlInv, PollsInFront
      <3>4. QED
        BY <3>2, <3>3 DEF Harmless, Alike
    <2>2. QED
      BY <2>1 DEF PollsInFront
  <1>9. PollsApart(r)
    <2>1. ASSUME NEW i \in 1 .. Len(r.ev), NEW j \in 1 .. Len(r.ev),
                 IsPoll(r.ev[i]), IsPoll(r.ev[j]), i < j
          PROVE  \E k \in i .. j : IsEnd(r.ev[k])
      <3>1. i \in 1 .. n /\ j \in 1 .. n
        BY <1>2, <2>1
      <3>2. PICK k \in i .. j : IsEnd(d.ev[k])
        BY <1>1, <2>1, <3>1 DEF ControlInv, PollsApart
      <3>3. k \in 1 .. n
        BY <1>1, <3>1
      <3>4. QED
        BY <1>1, <3>2, <3>3
    <2>2. QED
      BY <2>1 DEF PollsApart
  <1>10. PollsBehind(r)
    <2>1. ASSUME NEW j \in 1 .. Len(r.ev), NEW k \in 1 .. Len(r.ev),
                 IsPoll(r.ev[j]), IsEnd(r.ev[k]), k < j
          PROVE  PollAfterEnd(r, r.ev[j], r.ev[k])
      <3>1. j \in 1 .. n /\ k \in 1 .. n
        BY <1>2, <2>1
      <3>2. r.ev[j] = d.ev[j] /\ r.ev[k] = d.ev[k]
        BY <1>1, <3>1
      <3>3. PollAfterEnd(d, d.ev[j], d.ev[k])
        BY <2>1, <3>1, <3>2 DEF ControlInv, PollsBehind
      <3>4. QED
        BY <3>2, <3>3 DEF PollAfterEnd, Alike
    <2>2. QED
      BY <2>1 DEF PollsBehind
  <1>11. PollsAlone(r)
    <2>1. ASSUME NoEnd(r), NEW j \in 1 .. Len(r.ev), IsPoll(r.ev[j])
          PROVE  IF r.ev[j].stage = "status" THEN StatusPoll(r, r.ev[j].e) ELSE DataPoll(r)
      <3>1. j \in 1 .. Len(d.ev) /\ IsPoll(d.ev[j]) /\ r.ev[j] = d.ev[j]
        BY <1>1, <1>2, <2>1
      <3>2. IF r.ev[j].stage = "status" THEN StatusPoll(d, r.ev[j].e) ELSE DataPoll(d)
        BY <1>3, <2>1, <3>1 DEF ControlInv, PollsAlone
      <3>3. DataPoll(d) => DataPoll(r)
        BY DEF DataPoll, Alike, ControlSame
      <3>4. ASSUME NEW e \in Control, StatusPoll(d, e)
            PROVE  StatusPoll(r, e)
        BY <3>4, EndpointNumbers DEF StatusPoll, Alike, ControlSame
      <3>5. r.ev[j].e \in Control
        BY <3>1, EventIs DEF NotReady
      <3>6. QED
        BY <3>2, <3>3, <3>4, <3>5
    <2>2. QED
      BY <2>1 DEF PollsAlone
  <1>12. HostShape(r, h)
    BY DEF ControlInv, HostShape, Asks, Alike
  <1>13. HostAndEnd(r, h)
    BY <1>1, <1>2 DEF ControlInv, HostAndEnd, Asks, Alike
  <1>14. HostAlone(r, h)
    <2>1. Of(StatusDir(h.r)) \in Control /\ \A e \in Control : Opposite(e) \in Control
      BY EndpointNumbers DEF Of
    <2>2. QED
      BY <1>3, <2>1 DEF ControlInv, HostAlone, Asks, DataPoll, Alike, ControlSame
  <1>15. HostPolled(r, h)
    <2>1. ASSUME NEW j \in 1 .. n, Last(r, j)
          PROVE  Last(d, j)
      BY <1>1, <2>1 DEF Last
    <2>2. QED
      BY <1>1, <1>2, <1>3, <2>1 DEF ControlInv, HostPolled, Asks, Alike, ControlSame
  <1>16. FirstShape(r, h)
    <2>1. \A k \in 1 .. n : k \in 1 .. Len(r.ev)
      BY <1>1
    <2>2. QED
      BY <1>1, <1>2, <2>1 DEF ControlInv, FirstShape, Alike
  <1>17. QED
    BY <1>4, <1>5, <1>6, <1>7, <1>8, <1>9, <1>10, <1>11, <1>12, <1>13, <1>14, <1>15, <1>16
       DEF ControlInv

(* An event that is not an end may be taken.                                *)
LEMMA TailedControl ==
  ASSUME NEW d \in Device, NEW r, Tailed(d, r), ~IsEnd(d.ev[1]),
         Alike(d, r), ControlSame(d, r), NEW h, ControlInv(d, h),
         d.first => d.ev[1].t # "done"
  PROVE  ControlInv(r, h)
  <1> DEFINE n == Len(r.ev)
  <1>1. /\ n \in Nat /\ Len(d.ev) = n + 1
        /\ \A k \in 1 .. n : k + 1 \in 1 .. Len(d.ev) /\ r.ev[k] = d.ev[k + 1]
        /\ \A k \in 2 .. Len(d.ev) : k - 1 \in 1 .. n /\ r.ev[k - 1] = d.ev[k]
    <2>1. n \in Nat /\ Len(d.ev) = n + 1
      BY DEF Tailed
    <2>2. \A k \in 1 .. n : k + 1 \in 1 .. Len(d.ev) /\ r.ev[k] = d.ev[k + 1]
      BY DEF Tailed
    <2>3. \A k \in 2 .. Len(d.ev) : k - 1 \in 1 .. n /\ r.ev[k - 1] = d.ev[k]
      BY DEF Tailed
    <2>4. QED
      BY <2>1, <2>2, <2>3
  <1>2. \A k \in 1 .. Len(d.ev) : IsEnd(d.ev[k]) => k \in 2 .. Len(d.ev)
    <2>1. \A k \in 1 .. Len(d.ev) : k = 1 \/ k \in 2 .. Len(d.ev)
      BY <1>1
    <2>2. QED
      BY <2>1 DEF IsEnd
  <1> HIDE DEF n
  <1>3. NoEnd(r) <=> NoEnd(d)
    <2>1. ASSUME NoEnd(d)
          PROVE  NoEnd(r)
      BY <1>1, <2>1 DEF NoEnd, IsEnd, n
    <2>2. ASSUME NoEnd(r), NEW k \in 1 .. Len(d.ev), IsEnd(d.ev[k])
          PROVE  FALSE
      BY <1>1, <1>2, <2>2 DEF NoEnd, IsEnd, n
    <2>3. QED
      BY <2>1, <2>2 DEF NoEnd
  <1>4. EndsAreOwn(r)
    <2>1. ASSUME NEW k \in 1 .. n, IsEnd(r.ev[k])
          PROVE  ~r.ev[k].old /\ r.ep[r.ev[k].e].active /\ r.trb[r.ev[k].e] = "none"
      <3>1. k + 1 \in 1 .. Len(d.ev) /\ r.ev[k] = d.ev[k + 1]
        BY <1>1
      <3>2. QED
        BY <2>1, <3>1 DEF ControlInv, EndsAreOwn, ControlSame, IsEnd
    <2>2. QED
      BY <2>1 DEF EndsAreOwn, n
  <1>5. EndIsSingle(r)
    <2>1. ASSUME NEW j \in 1 .. n, NEW k \in 1 .. n, IsEnd(r.ev[j]), IsEnd(r.ev[k])
          PROVE  j = k
      <3>1. /\ j + 1 \in 1 .. Len(d.ev) /\ IsEnd(d.ev[j + 1])
            /\ k + 1 \in 1 .. Len(d.ev) /\ IsEnd(d.ev[k + 1])
        BY <1>1, <2>1 DEF IsEnd
      <3>2. j + 1 = k + 1
        BY <3>1 DEF ControlInv, EndIsSingle
      <3>3. QED
        BY <1>1, <3>2
    <2>2. QED
      BY <2>1 DEF EndIsSingle, n
  <1>6. ActiveHasTrb(r)
    <2>1. ASSUME NEW e \in Control, r.ep[e].active, r.trb[e] = "none"
          PROVE  \E k \in 1 .. n : IsEnd(r.ev[k]) /\ r.ev[k].e = e
      <3>1. PICK k \in 1 .. Len(d.ev) : IsEnd(d.ev[k]) /\ d.ev[k].e = e
        BY <2>1 DEF ControlInv, ActiveHasTrb, ControlSame
      <3>2. k - 1 \in 1 .. n /\ r.ev[k - 1] = d.ev[k]
        BY <1>1, <1>2, <3>1
      <3>3. QED
        BY <3>1, <3>2 DEF IsEnd
    <2>2. QED
      BY <2>1 DEF ControlInv, ActiveHasTrb, ControlSame, n
  <1>7. Shape(r)
    BY EndpointNumbers DEF ControlInv, Shape, IdleShape, BusyShape, ControlSame, Alike, Of
  <1>8. PollsInFront(r)
    <2>1. ASSUME NEW j \in 1 .. n, NEW k \in 1 .. n, IsPoll(r.ev[j]), IsEnd(r.ev[k]), j < k
          PROVE  Harmless(r, r.ev[j], r.ev[k])
      <3> DEFINE a == j + 1
                 b == k + 1
      <3>1. /\ a \in 1 .. Len(d.ev) /\ r.ev[j] = d.ev[a]
        BY <1>1
      <3>2. /\ b \in 1 .. Len(d.ev) /\ r.ev[k] = d.ev[b]
        BY <1>1
      <3>3. a < b
        BY <2>1
      <3> HIDE DEF a, b
      <3>4. IsPoll(d.ev[a]) /\ IsEnd(d.ev[b])
        BY <2>1, <3>1, <3>2
      <3>5. Harmless(d, d.ev[a], d.ev[b])
        BY <3>1, <3>2, <3>3, <3>4 DEF ControlInv, PollsInFront
      <3>6. QED
        BY <3>1, <3>2, <3>5 DEF Harmless, Alike
    <2>2. QED
      BY <2>1 DEF PollsInFront, n
  <1>9. PollsApart(r)
    <2>1. ASSUME NEW i \in 1 .. n, NEW j \in 1 .. n, IsPoll(r.ev[i]), IsPoll(r.ev[j]), i < j
          PROVE  \E k \in i .. j : IsEnd(r.ev[k])
      <3> DEFINE a == i + 1
                 b == j + 1
      <3>1. a \in 1 .. Len(d.ev) /\ r.ev[i] = d.ev[a]
        BY <1>1
      <3>2. b \in 1 .. Len(d.ev) /\ r.ev[j] = d.ev[b]
        BY <1>1
      <3>3. a < b
        BY <2>1
      <3> HIDE DEF a, b
      <3>4. IsPoll(d.ev[a]) /\ IsPoll(d.ev[b])
        BY <2>1, <3>1, <3>2
      <3>5. PICK k \in a .. b : IsEnd(d.ev[k])
        BY <3>1, <3>2, <3>3, <3>4 DEF ControlInv, PollsApart
      <3>6. k \in 2 .. Len(d.ev) /\ k - 1 \in i .. j
        <4>1. Len(d.ev) \in Nat
          BY <1>1
        <4>2. QED
          BY <2>1, <3>1, <3>2, <4>1 DEF a, b
      <3>7. r.ev[k - 1] = d.ev[k]
        BY <1>1, <3>6
      <3>8. IsEnd(r.ev[k - 1])
        BY <3>5, <3>7
      <3>9. QED
        BY <3>6, <3>8
    <2>2. QED
      BY <2>1 DEF PollsApart, n
  <1>10. PollsBehind(r)
    <2>1. ASSUME NEW j \in 1 .. n, NEW k \in 1 .. n, IsPoll(r.ev[j]), IsEnd(r.ev[k]), k < j
          PROVE  PollAfterEnd(r, r.ev[j], r.ev[k])
      <3> DEFINE a == j + 1
                 b == k + 1
      <3>1. /\ a \in 1 .. Len(d.ev) /\ r.ev[j] = d.ev[a]
        BY <1>1
      <3>2. /\ b \in 1 .. Len(d.ev) /\ r.ev[k] = d.ev[b]
        BY <1>1
      <3>3. b < a
        BY <2>1
      <3> HIDE DEF a, b
      <3>4. IsPoll(d.ev[a]) /\ IsEnd(d.ev[b])
        BY <2>1, <3>1, <3>2
      <3>5. PollAfterEnd(d, d.ev[a], d.ev[b])
        BY <3>1, <3>2, <3>3, <3>4 DEF ControlInv, PollsBehind
      <3>6. QED
        BY <3>1, <3>2, <3>5 DEF PollAfterEnd, Alike
    <2>2. QED
      BY <2>1 DEF PollsBehind, n
  <1>11. PollsAlone(r)
    <2>1. ASSUME NoEnd(r), NEW j \in 1 .. n, IsPoll(r.ev[j])
          PROVE  IF r.ev[j].stage = "status" THEN StatusPoll(r, r.ev[j].e) ELSE DataPoll(r)
      <3>1. j + 1 \in 1 .. Len(d.ev) /\ IsPoll(d.ev[j + 1]) /\ r.ev[j] = d.ev[j + 1]
        BY <1>1, <2>1 DEF IsPoll
      <3>2. IF r.ev[j].stage = "status" THEN StatusPoll(d, r.ev[j].e) ELSE DataPoll(d)
        BY <1>3, <2>1, <3>1 DEF ControlInv, PollsAlone
      <3>3. DataPoll(d) => DataPoll(r)
        BY DEF DataPoll, Alike, ControlSame
      <3>4. ASSUME NEW e \in Control, StatusPoll(d, e)
            PROVE  StatusPoll(r, e)
        BY <3>4, EndpointNumbers DEF StatusPoll, Alike, ControlSame
      <3>5. r.ev[j].e \in Control
        BY <3>1, EventIs DEF NotReady
      <3>6. QED
        BY <3>2, <3>3, <3>4, <3>5
    <2>2. QED
      BY <2>1 DEF PollsAlone, n
  <1>12. HostShape(r, h)
    BY DEF ControlInv, HostShape, Asks, Alike
  <1>13. HostAndEnd(r, h)
    <2>1. ASSUME Asks(r, h), NEW k \in 1 .. n, IsEnd(r.ev[k])
          PROVE  IF r.st = "idle" THEN h.stage = FirstStage(h.r)
                 ELSE r.ev[k].e = Of(h.r.dir) /\ h.r.len # 0
      <3>1. k + 1 \in 1 .. Len(d.ev) /\ IsEnd(d.ev[k + 1]) /\ r.ev[k] = d.ev[k + 1]
        BY <1>1, <2>1 DEF IsEnd
      <3>2. QED
        BY <2>1, <3>1 DEF ControlInv, HostAndEnd, Asks, Alike
    <2>2. QED
      BY <2>1 DEF HostAndEnd, n
  <1>14. HostAlone(r, h)
    <2>1. Of(StatusDir(h.r)) \in Control /\ \A e \in Control : Opposite(e) \in Control
      BY EndpointNumbers DEF Of
    <2>2. QED
      BY <1>3, <2>1 DEF ControlInv, HostAlone, Asks, DataPoll, Alike, ControlSame
  <1>15. HostPolled(r, h)
    <2>1. ASSUME NEW j \in 1 .. n, IsPoll(r.ev[j]), Last(r, j)
          PROVE  /\ Asks(r, h) => /\ r.ev[j].stage = h.stage /\ h.stage \in r.asked
                                  /\ r.ev[j].e = StageEnd(h.stage, h.r)
                 /\ r.held # None => /\ "old" \in r.asked /\ NoEnd(r) /\ r.st \in Status
                                     /\ \A e \in Control : ~r.ep[e].active
      <3>1. j + 1 \in 1 .. Len(d.ev) /\ IsPoll(d.ev[j + 1]) /\ r.ev[j] = d.ev[j + 1]
        BY <1>1, <2>1 DEF IsPoll
      <3>2. ASSUME NEW k \in j + 1 .. Len(d.ev)
            PROVE  ~IsEnd(d.ev[k])
        <4>1. k \in 2 .. Len(d.ev) /\ k - 1 \in j .. n
          BY <1>1
        <4>2. QED
          BY <1>1, <2>1, <4>1 DEF Last, IsEnd, n
      <3>3. Last(d, j + 1)
        BY <3>2 DEF Last
      <3>4. QED
        BY <1>3, <3>1, <3>3 DEF ControlInv, HostPolled, Asks, Alike, ControlSame
    <2>2. QED
      BY <2>1 DEF HostPolled, n
  <1>16. FirstShape(r, h)
    <2>1. ASSUME r.first
          PROVE  /\ \A k \in 1 .. n : ~IsEnd(r.ev[k]) /\ ~IsPoll(r.ev[k])
                 /\ h.here => \E k \in 1 .. n : r.ev[k].t = "done"
      <3>1. /\ d.first /\ \A k \in 1 .. Len(d.ev) : ~IsEnd(d.ev[k]) /\ ~IsPoll(d.ev[k])
            /\ h.here => \E k \in 1 .. Len(d.ev) : d.ev[k].t = "done"
        BY <2>1 DEF ControlInv, FirstShape, Alike
      <3>2. \A k \in 1 .. n : ~IsEnd(r.ev[k]) /\ ~IsPoll(r.ev[k])
        <4>1. ASSUME NEW k \in 1 .. n
              PROVE  \E i \in 1 .. Len(d.ev) : r.ev[k] = d.ev[i]
          BY <1>1
        <4>2. QED
          BY <3>1, <4>1
      <3>3. ASSUME h.here
            PROVE  \E k \in 1 .. n : r.ev[k].t = "done"
        <4>1. PICK k \in 1 .. Len(d.ev) : d.ev[k].t = "done"
          BY <3>1, <3>3
        <4>2. k \in 2 .. Len(d.ev)
          <5>1. k # 1
            BY <3>1, <4>1
          <5>2. QED
            BY <1>1, <5>1
        <4>3. QED
          BY <1>1, <4>1, <4>2
      <3>4. QED
        BY <3>2, <3>3
    <2>2. QED
      BY <2>1 DEF ControlInv, FirstShape, Alike, n
  <1>17. QED
    BY <1>4, <1>5, <1>6, <1>7, <1>8, <1>9, <1>10, <1>11, <1>12, <1>13, <1>14, <1>15, <1>16
       DEF ControlInv

-----------------------------------------------------------------------------
(* When no end of a control transfer waits.                                 *)
Served(d, h) ==
  /\ d \in Device /\ NoEnd(d) /\ ~d.first /\ HostShape(d, h)
  /\ \A i, j \in 1 .. Len(d.ev) : IsPoll(d.ev[i]) /\ IsPoll(d.ev[j]) => i = j
  /\ \A j \in 1 .. Len(d.ev) : IsPoll(d.ev[j]) =>
       /\ d.held = None
       /\ Asks(d, h) => /\ d.ev[j].stage = h.stage /\ h.stage \in d.asked
                        /\ d.ev[j].e = StageEnd(h.stage, h.r)

Resumes(d, r) ==
  /\ r.buffer = d.buffer /\ r.first = d.first /\ r.held = d.held /\ r.asked = d.asked
  /\ EventsSame(d, r)

TrbIfActive(r) == \A e \in Control : r.trb[e] # "none" <=> r.ep[e].active

PollsFit(d, r) ==
  \A j \in 1 .. Len(d.ev) : IsPoll(d.ev[j]) =>
    IF d.ev[j].stage = "status" THEN StatusPoll(r, d.ev[j].e) ELSE DataPoll(r)

(* Where no end waits, the invariant is the shape of the endpoint and what  *)
(* the reports and the host find there.                                     *)
LEMMA ServedControl ==
  ASSUME NEW d, NEW h, Served(d, h), NEW r, Resumes(d, r), TrbIfActive(r), Shape(r),
         PollsFit(d, r), HostAlone(r, h)
  PROVE  ControlInv(r, h)
  <1>1. /\ Len(r.ev) = Len(d.ev)
        /\ \A k \in 1 .. Len(d.ev) :
             /\ ~IsEnd(r.ev[k]) /\ (IsPoll(r.ev[k]) <=> IsPoll(d.ev[k]))
             /\ r.ev[k].e = d.ev[k].e /\ r.ev[k].stage = d.ev[k].stage
    BY DEF Served, Resumes, EventsSame, NoEnd, IsEnd, IsPoll
  <1>2. NoEnd(r)
    BY <1>1 DEF NoEnd
  <1>3. EndsAreOwn(r) /\ EndIsSingle(r) /\ PollsInFront(r) /\ PollsBehind(r) /\ HostAndEnd(r, h)
    BY <1>1 DEF EndsAreOwn, EndIsSingle, PollsInFront, PollsBehind, HostAndEnd
  <1>4. ActiveHasTrb(r)
    BY DEF TrbIfActive, ActiveHasTrb
  <1>5. PollsApart(r)
    <2>1. ASSUME NEW i \in 1 .. Len(r.ev), NEW j \in 1 .. Len(r.ev),
                 IsPoll(r.ev[i]), IsPoll(r.ev[j]), i < j
          PROVE  FALSE
      <3>1. i = j
        BY <1>1, <2>1 DEF Served
      <3>2. QED
        BY <2>1, <3>1
    <2>2. QED
      BY <2>1 DEF PollsApart
  <1>6. PollsAlone(r)
    BY <1>1 DEF PollsFit, PollsAlone
  <1>7. HostShape(r, h)
    BY DEF Served, Resumes, HostShape, Asks
  <1>8. HostPolled(r, h)
    BY <1>1 DEF Served, Resumes, HostPolled, Asks
  <1>9. FirstShape(r, h)
    BY DEF Served, Resumes, FirstShape
  <1>10. QED
    BY <1>3, <1>4, <1>5, <1>6, <1>7, <1>8, <1>9 DEF ControlInv

(* An endpoint that awaits a SETUP.                                         *)
LEMMA IdleControl ==
  ASSUME NEW d, NEW h, Served(d, h), NEW r, IdleAgain(d, r), InRests(r)
  PROVE  ControlInv(r, h)
  <1>1. Control = {EP0_OUT, EP0_IN} /\ EP0_OUT # EP0_IN
    BY EndpointNumbers
  <1>2. Resumes(d, r)
    BY DEF IdleAgain, Resumes
  <1>3. TrbIfActive(r)
    BY <1>1 DEF IdleAgain, InRests, TrbIfActive
  <1>4. Shape(r)
    BY DEF Served, IdleAgain, InRests, Shape, IdleShape
  <1>5. \A e \in Control : r.trb[e] # "status"
    BY <1>1 DEF IdleAgain, InRests
  <1>6. PollsFit(d, r)
    <2>1. r.st \notin Status /\ r.st = "idle"
      BY DEF IdleAgain, Status
    <2>2. \A j \in 1 .. Len(d.ev) : IsPoll(d.ev[j]) => d.ev[j].e \in Control
      BY EventIs DEF Served, NotReady
    <2>3. QED
      BY <1>5, <2>1, <2>2 DEF PollsFit, StatusPoll, DataPoll, Status
  <1>7. HostAlone(r, h)
    BY DEF IdleAgain, HostAlone, DataPoll, Status
  <1>8. QED
    BY <1>2, <1>3, <1>4, <1>6, <1>7, ServedControl

(* Directions and the ends of the control endpoint.                         *)
LEMMA Directions ==
  ASSUME NEW p \in Packets
  PROVE  /\ p.dir \in {"in", "out"} /\ p.len \in Nat
         /\ StatusDir(p) = IF p.len = 0 \/ p.dir = "out" THEN "in" ELSE "out"
         /\ Of(p.dir) = IF p.dir = "in" THEN EP0_IN ELSE EP0_OUT
         /\ Of(StatusDir(p)) = IF p.len = 0 \/ p.dir = "out" THEN EP0_IN ELSE EP0_OUT
         /\ StageEnd("data", p) = Of(p.dir) /\ StageEnd("status", p) = Of(StatusDir(p))
         /\ p.len # 0 => Of(StatusDir(p)) = Opposite(Of(p.dir))
         /\ \A e \in Control : Of(p.dir) = e => p.dir = Dir(e)
  <1>1. p.dir \in {"in", "out"} /\ p.len \in Nat
    BY UsbAssumption DEF Packets, Request, None
  <1>2. QED
    BY <1>1, EndpointNumbers DEF StatusDir, Of, Other, StageEnd, Opposite

(* A request that is under way.                                             *)
LEMMA SetUpControl ==
  ASSUME NEW d, NEW h, Served(d, h), NEW r, SetUp(d, r),
         \A j \in 1 .. Len(d.ev) : IsPoll(d.ev[j]) =>
           d.ev[j].stage = FirstStage(d.buffer)
           /\ d.ev[j].e = StageEnd(d.ev[j].stage, d.buffer),
         Asks(d, h) => h.stage = FirstStage(h.r)
  PROVE  ControlInv(r, h)
  <1> DEFINE p == d.buffer
  <1>1. /\ Control = {EP0_OUT, EP0_IN} /\ EP0_OUT # EP0_IN
        /\ Opposite(EP0_IN) = EP0_OUT
    BY EndpointNumbers DEF Opposite
  <1>2. p \in Packets /\ p.len \in Nat /\ p.dir \in {"in", "out"}
    <2>1. p \in Packets
      BY DEF Served, Device
    <2>2. QED
      BY <2>1, Directions
  <1>3. Resumes(d, r) /\ TrbIfActive(r)
    BY DEF SetUp, Resumes, TrbIfActive
  <1>4. r.st \in {"statusin", "datain", "dataout"} /\ (r.st = "statusin" => p.len = 0)
    BY DEF SetUp, Stage
  <1>5. p.len = 0 => ~r.ep[EP0_OUT].active
    BY <1>2 DEF SetUp
  <1>6. Shape(r)
    <2>1. \A e \in Control : r.trb[e] \in {"none", "data"}
      BY DEF SetUp
    <2>2. r.st = "statusin" => ~r.ep[EP0_OUT].active
      BY <1>4, <1>5
    <2>3. ASSUME p.len # 0, r.trb[Of(p.dir)] \in {"data", "normal"}
          PROVE  r.st = DataState(p.dir)
      <3>1. CASE p.dir = "in"
        BY <2>3, <3>1 DEF SetUp, Stage, DataState
      <3>2. CASE p.dir = "out"
        <4>1. r.trb[EP0_OUT] # "none"
          BY <2>3, <3>2, EndpointNumbers
        <4>2. r.st = Stage(p)
          BY <1>1, <4>1 DEF SetUp
        <4>3. QED
          BY <2>3, <3>2, <4>2 DEF Stage, DataState
      <3>3. QED
        BY <1>2, <3>1, <3>2
    <2>4. BusyShape(r)
      BY <1>4, <2>1, <2>2, <2>3 DEF BusyShape, SetUp, Served
    <2>5. QED
      BY <1>4, <2>4 DEF Shape
  <1>7. PollsFit(d, r)
    <2>1. ASSUME NEW j \in 1 .. Len(d.ev), IsPoll(d.ev[j])
          PROVE  IF d.ev[j].stage = "status" THEN StatusPoll(r, d.ev[j].e) ELSE DataPoll(r)
      <3>1. d.ev[j].stage = FirstStage(p) /\ d.ev[j].e = StageEnd(d.ev[j].stage, p)
        BY <2>1
      <3>2. CASE p.len = 0
        <4>1. d.ev[j].stage = "status" /\ d.ev[j].e = EP0_IN
          BY <1>2, <3>1, <3>2, Directions DEF FirstStage
        <4>2. r.trb[EP0_IN] # "status"
          BY <1>1 DEF SetUp
        <4>3. StatusPoll(r, EP0_IN)
          BY <1>1, <1>4, <1>5, <3>2, <4>2 DEF StatusPoll
        <4>4. QED
          BY <4>1, <4>3
      <3>3. CASE p.len # 0
        BY <1>4, <3>1, <3>3 DEF FirstStage, DataPoll, Status
      <3>4. QED
        BY <3>2, <3>3
    <2>2. QED
      BY <2>1 DEF PollsFit
  <1>8. HostAlone(r, h)
    <2>1. ASSUME Asks(r, h)
          PROVE  /\ h.r = p /\ h.stage = FirstStage(p)
      BY <2>1 DEF SetUp, Asks, Served, HostShape
    <2>2. CASE p.len = 0
      <3>1. Of(StatusDir(p)) = EP0_IN
        BY <1>2, <2>2, Directions
      <3>2. QED
        BY <1>1, <1>4, <1>5, <2>1, <2>2, <3>1 DEF HostAlone, FirstStage
    <2>3. CASE p.len # 0
      BY <1>4, <2>1, <2>3 DEF HostAlone, FirstStage, DataPoll, Status
    <2>4. QED
      BY <2>2, <2>3
  <1>9. QED
    BY <1>3, <1>6, <1>7, <1>8, ServedControl

(* Data that go on, and the turn to the status stage.                       *)
Continues(d, h, e) ==
  /\ e \in Control /\ d.st # "idle" /\ Shape(d)
  /\ \A j \in 1 .. Len(d.ev) : IsPoll(d.ev[j]) =>
       /\ e = Of(d.buffer.dir) /\ d.buffer.len # 0
       /\ d.ev[j].e = StageEnd(d.ev[j].stage, d.buffer)
  /\ Asks(d, h) => e = Of(h.r.dir) /\ h.r.len # 0

(* In a transfer with data the status stage is of the other direction.      *)
LEMMA ContinuesStatus ==
  ASSUME NEW d, NEW h, Served(d, h), NEW e, Continues(d, h, e)
  PROVE  /\ \A j \in 1 .. Len(d.ev) : IsPoll(d.ev[j]) =>
              /\ d.ev[j].stage \in {"data", "status"}
              /\ d.ev[j].stage = "status" => d.ev[j].e = Opposite(e)
              /\ d.three
         /\ Asks(d, h) => Of(StatusDir(h.r)) = Opposite(e) /\ d.three
  <1>1. d.buffer \in Packets /\ d.three = (d.buffer.len # 0)
    BY DEF Served, Device, Continues, Shape, BusyShape
  <1>2. ASSUME NEW j \in 1 .. Len(d.ev), IsPoll(d.ev[j])
        PROVE  /\ d.ev[j].stage \in {"data", "status"}
               /\ d.ev[j].stage = "status" => d.ev[j].e = Opposite(e)
               /\ d.three
    <2>1. d.ev[j] \in NotReady
      BY <1>2, EventIs DEF Served
    <2>2. d.ev[j].stage \in {"data", "status"}
      BY <2>1 DEF NotReady
    <2>3. /\ e = Of(d.buffer.dir) /\ d.buffer.len # 0
          /\ d.ev[j].e = StageEnd(d.ev[j].stage, d.buffer)
      BY <1>2 DEF Continues
    <2>4. StageEnd("status", d.buffer) = Opposite(e)
      BY <1>1, <2>3, Directions
    <2>5. QED
      BY <1>1, <2>2, <2>3, <2>4
  <1>3. ASSUME Asks(d, h)
        PROVE  Of(StatusDir(h.r)) = Opposite(e) /\ d.three
    <2>1. h.r = d.buffer
      BY <1>3 DEF Served, HostShape
    <2>2. QED
      BY <1>1, <1>3, <2>1, Directions DEF Continues
  <1>4. QED
    BY <1>2, <1>3

(* The invariant, when the data go on.                                      *)
LEMMA GoesControl ==
  ASSUME NEW d, NEW h, Served(d, h), NEW e, Continues(d, h, e), NEW r, Goes(d, r, e)
  PROVE  ControlInv(r, h)
  <1> DEFINE o == Opposite(e)
  <1>1. /\ o \in Control /\ o # e /\ \A x \in Control : x = e \/ x = o
        /\ Opposite(o) = e
    BY EndpointNumbers DEF Opposite, Continues
  <1>2. /\ \A j \in 1 .. Len(d.ev) : IsPoll(d.ev[j]) =>
             /\ d.ev[j].stage \in {"data", "status"}
             /\ d.ev[j].stage = "status" => d.ev[j].e = o
             /\ d.three
        /\ Asks(d, h) => Of(StatusDir(h.r)) = o /\ d.three
    BY ContinuesStatus
  <1>3. /\ r.ep[e].active /\ r.ep[e].left > 0 /\ r.trb[e] = "normal" /\ r.three = d.three
        /\ ~r.ep[o].active /\ r.trb[o] = "none"
    BY DEF Goes
  <1> HIDE DEF o
  <1>4. r.st = DataState(Dir(e)) /\ r.st = d.st
    BY DEF Goes
  <1>5. r.st \in {"datain", "dataout"}
    BY <1>4 DEF DataState
  <1>6. Resumes(d, r)
    BY DEF Goes, Kept, Resumes
  <1>7. TrbIfActive(r)
    BY <1>1, <1>3 DEF TrbIfActive
  <1>8. Shape(r)
    <2>1. ASSUME r.trb[Of(r.buffer.dir)] \in {"data", "normal"}
          PROVE  r.st = DataState(r.buffer.dir)
      <3>1. r.buffer \in Packets
        BY DEF Goes, Kept, Device
      <3>2. Of(r.buffer.dir) \in Control
        BY EndpointNumbers DEF Of
      <3>3. Of(r.buffer.dir) = e
        BY <1>1, <1>3, <2>1, <3>2
      <3>4. r.buffer.dir = Dir(e)
        BY <3>1, <3>3, Directions DEF Continues
      <3>5. QED
        BY <1>4, <3>4
    <2>2. BusyShape(r)
      <3>1. ~r.first /\ r.three = (r.buffer.len # 0)
        BY <1>3, <1>6 DEF Served, Resumes, Continues, Shape, BusyShape
      <3>2. ~(r.ep[EP0_IN].active /\ r.ep[EP0_OUT].active)
        BY <1>1, <1>3, EndpointNumbers
      <3>3. \A x \in Control : r.trb[x] # "setup"
        BY <1>1, <1>3
      <3>4. QED
        BY <1>5, <2>1, <3>1, <3>2, <3>3 DEF BusyShape
    <2>3. QED
      BY <1>5, <2>2 DEF Shape
  <1>9. PollsFit(d, r)
    <2>1. d.three => StatusPoll(r, o)
      BY <1>1, <1>3, <1>5 DEF StatusPoll
    <2>2. DataPoll(r)
      BY <1>5 DEF DataPoll, Status
    <2>3. QED
      BY <1>2, <2>1, <2>2 DEF PollsFit
  <1>10. HostAlone(r, h)
    <2>1. Asks(r, h) => Asks(d, h)
      BY <1>6 DEF Resumes, Asks
    <2>2. DataPoll(r)
      BY <1>5 DEF DataPoll, Status
    <2>3. QED
      BY <1>1, <1>2, <1>3, <1>5, <2>1, <2>2 DEF HostAlone
  <1>11. QED
    BY <1>6, <1>7, <1>8, <1>9, <1>10, ServedControl

(* The invariant, when the data are over and the status stage is next.      *)
LEMMA TurnsControl ==
  ASSUME NEW d, NEW h, Served(d, h), NEW e, Continues(d, h, e), NEW r, Turns(d, r, e)
  PROVE  ControlInv(r, h)
  <1> DEFINE o == Opposite(e)
  <1>1. e \in {EP0_IN, EP0_OUT} /\ EP0_IN # EP0_OUT /\ o = IF e = EP0_IN THEN EP0_OUT ELSE EP0_IN
    BY EndpointNumbers DEF Opposite, Continues
  <1>2. /\ \A j \in 1 .. Len(d.ev) : IsPoll(d.ev[j]) =>
             /\ d.ev[j].stage \in {"data", "status"}
             /\ d.ev[j].stage = "status" => d.ev[j].e = o
        /\ Asks(d, h) => Of(StatusDir(h.r)) = o
    BY ContinuesStatus
  <1> HIDE DEF o
  <1>3. /\ \A x \in Control : ~r.ep[x].active /\ r.trb[x] = "none"
        /\ r.three = d.three /\ r.st = StatusState(e)
    BY DEF Turns, AtRest
  <1>4. /\ r.st \in Status
        /\ r.st = "statusin" => o = EP0_IN
        /\ r.st = "statusout" => o = EP0_OUT
    BY <1>1, <1>3 DEF StatusState, Status
  <1>5. Resumes(d, r)
    BY DEF Turns, Kept, Resumes
  <1>6. TrbIfActive(r)
    BY <1>3 DEF TrbIfActive
  <1>7. EP0_IN \in Control /\ EP0_OUT \in Control /\ o \in Control /\ Opposite(o) \in Control
    BY <1>1, EndpointNumbers
  <1>8. Shape(r)
    <2>1. Of(r.buffer.dir) \in Control
      BY <1>7 DEF Of
    <2>2. ~r.first /\ r.three = (r.buffer.len # 0)
      BY <1>3, <1>5 DEF Served, Resumes, Continues, Shape, BusyShape
    <2>3. BusyShape(r)
      BY <1>3, <1>7, <2>1, <2>2 DEF BusyShape
    <2>4. QED
      BY <1>4, <2>3 DEF Shape, Status
  <1>9. DataPoll(r)
    BY <1>3 DEF DataPoll
  <1>10. PollsFit(d, r)
    <2>1. StatusPoll(r, o)
      BY <1>3, <1>4, <1>7 DEF StatusPoll
    <2>2. QED
      BY <1>2, <1>9, <2>1 DEF PollsFit
  <1>11. HostAlone(r, h)
    <2>1. Asks(r, h) => Asks(d, h)
      BY <1>5 DEF Resumes, Asks
    <2>2. QED
      BY <1>2, <1>3, <1>4, <1>7, <1>9, <2>1 DEF HostAlone
  <1>12. QED
    BY <1>5, <1>6, <1>8, <1>10, <1>11, ServedControl

(* The stage that the host asked for.                                       *)
LEMMA StatusControl ==
  ASSUME NEW d, NEW h, Served(d, h), Shape(d), \A j \in 1 .. Len(d.ev) : ~IsPoll(d.ev[j]),
         NEW e \in Control, StatusPoll(d, e), NEW r, StatusAsked(d, r, e),
         Asks(d, h) => e = Of(StatusDir(h.r)) /\ h.stage = "status"
  PROVE  ControlInv(r, h)
  <1> DEFINE o == Opposite(e)
  <1>1. /\ o \in Control /\ o # e /\ \A x \in Control : x = e \/ x = o
        /\ e \in {EP0_IN, EP0_OUT} /\ EP0_IN # EP0_OUT
        /\ o = IF e = EP0_IN THEN EP0_OUT ELSE EP0_IN
    BY EndpointNumbers DEF Opposite
  <1>2. /\ r.ep[e].active /\ r.trb[e] = "status" /\ ~r.ep[o].active /\ r.trb[o] = "none"
        /\ r.three = d.three /\ r.st = d.st /\ r.st # "idle"
    BY DEF StatusAsked
  <1>3. Resumes(d, r)
    BY DEF StatusAsked, Kept, Resumes
  <1>4. (r.st = "statusin" => e = EP0_IN) /\ (r.st = "statusout" => e = EP0_OUT)
    BY <1>2 DEF StatusPoll
  <1>5. TrbIfActive(r)
    BY <1>1, <1>2 DEF TrbIfActive
  <1>6. Shape(r)
    <2>1. Of(r.buffer.dir) \in Control
      BY EndpointNumbers DEF Of
    <2>2. ~r.first /\ r.three = (r.buffer.len # 0) /\ r.st # "error"
      BY <1>2, <1>3 DEF Served, Resumes, Shape, BusyShape
    <2>3. BusyShape(r)
      BY <1>1, <1>2, <1>4, <2>1, <2>2 DEF BusyShape
    <2>4. QED
      BY <1>2, <2>2, <2>3 DEF Shape
  <1>7. PollsFit(d, r)
    BY DEF PollsFit
  <1>8. HostAlone(r, h)
    <2>1. Asks(r, h) => Asks(d, h)
      BY <1>3 DEF Resumes, Asks
    <2>2. QED
      BY <1>2, <1>4, <2>1 DEF HostAlone
  <1>9. QED
    BY <1>3, <1>5, <1>6, <1>7, <1>8, ServedControl

(* The invariant, when the data start again out of the status stage.        *)
LEMMA DataControl ==
  ASSUME NEW d, NEW h, Served(d, h), Shape(d), \A j \in 1 .. Len(d.ev) : ~IsPoll(d.ev[j]),
         NEW e \in Control, NEW r, DataAskedAgain(d, r, e),
         Asks(d, h) => h.stage = "data"
  PROVE  ControlInv(r, h)
  <1> DEFINE o == Opposite(e)
  <1>1. /\ o \in Control /\ o # e /\ \A x \in Control : x = e \/ x = o
    BY EndpointNumbers DEF Opposite
  <1>2. /\ r.ep[e].active /\ r.trb[e] = "normal" /\ ~r.ep[o].active /\ r.trb[o] = "none"
        /\ r.three /\ d.three /\ r.st = DataState(Dir(e)) /\ d.st \in Status
    BY DEF DataAskedAgain
  <1> HIDE DEF o
  <1>3. Resumes(d, r)
    BY DEF DataAskedAgain, Kept, Resumes
  <1>4. r.st \in {"datain", "dataout"}
    BY <1>2 DEF DataState
  <1>5. TrbIfActive(r)
    BY <1>1, <1>2 DEF TrbIfActive
  <1>6. Shape(r)
    <2>1. ASSUME r.trb[Of(r.buffer.dir)] \in {"data", "normal"}
          PROVE  r.st = DataState(r.buffer.dir)
      <3>1. r.buffer \in Packets
        BY DEF DataAskedAgain, Kept, Device
      <3>2. Of(r.buffer.dir) \in Control
        BY EndpointNumbers DEF Of
      <3>3. Of(r.buffer.dir) = e
        BY <1>1, <1>2, <2>1, <3>2
      <3>4. r.buffer.dir = Dir(e)
        BY <3>1, <3>3, Directions
      <3>5. QED
        BY <1>2, <3>4
    <2>2. d.three = (d.buffer.len # 0)
      BY <1>2 DEF Shape, BusyShape, Status
    <2>3. ~r.first /\ r.three = (r.buffer.len # 0)
      BY <1>2, <1>3, <2>2 DEF Served, Resumes
    <2>4. ~(r.ep[EP0_IN].active /\ r.ep[EP0_OUT].active)
      BY <1>1, <1>2, EndpointNumbers
    <2>5. \A x \in Control : r.trb[x] # "setup"
      BY <1>1, <1>2
    <2>6. BusyShape(r)
      BY <1>4, <2>1, <2>3, <2>4, <2>5 DEF BusyShape
    <2>7. QED
      BY <1>4, <2>6 DEF Shape
  <1>7. PollsFit(d, r)
    BY DEF PollsFit
  <1>8. HostAlone(r, h)
    BY <1>3, <1>4 DEF Resumes, Asks, HostAlone, DataPoll, Status
  <1>9. QED
    BY <1>3, <1>5, <1>6, <1>7, <1>8, ServedControl

-----------------------------------------------------------------------------
(* The first event is taken out of the buffer.                              *)
Taken(d, b) ==
  /\ d \in Device /\ b \in Device /\ Tailed(d, b) /\ 1 \in 1 .. Len(d.ev)
  /\ Same(d, b) /\ Placed(d, b) /\ b.stall = d.stall /\ b.ep = d.ep /\ b.trb = d.trb

(* The handler takes the first event.                                       *)
LEMMA EventTaken ==
  ASSUME NEW d \in Device, d.ev # <<>>
  PROVE  Taken(d, [d EXCEPT !.ev = Tail(@)]) /\ Head(d.ev) = d.ev[1]
  <1> DEFINE b == [d EXCEPT !.ev = Tail(d.ev)]
  <1>1. b.ev = Tail(d.ev)
    BY DEF Device
  <1>2. Tailed(d, b) /\ b.ev \in Buffer /\ 1 \in 1 .. Len(d.ev) /\ Head(d.ev) = d.ev[1]
    <2> HIDE DEF b
    <2>1. QED
      BY <1>1, TailedEvents
  <1>3. Tail(d.ev) \in Buffer
    BY <1>1, <1>2
  <1>4. b \in Device /\ Same(d, b) /\ Placed(d, b) /\ b.stall = d.stall /\ b.ep = d.ep /\ b.trb = d.trb
    BY <1>3 DEF Device, Same, Placed
  <1>5. [d EXCEPT !.ev = Tail(@)] = b
    OBVIOUS
  <1> HIDE DEF b
  <1>6. QED
    BY <1>2, <1>4, <1>5 DEF Taken

(* What is found when the first event is the end of a control transfer.     *)
LEMMA EndTaken ==
  ASSUME NEW d, NEW b, Taken(d, b), NEW h, ControlInv(d, h), IsEnd(d.ev[1]),
         d.buffer.req = "SET_SEL" => d.buffer.len > 0
  PROVE  LET e == d.ev[1].e IN
         /\ Served(b, h) /\ EndAlone(b, e) /\ e \in Control /\ ~d.ev[1].old
         /\ Shape(b)
         /\ \A j \in 1 .. Len(b.ev) : IsPoll(b.ev[j]) => PollAfterEnd(b, b.ev[j], d.ev[1])
         /\ Asks(b, h) => IF b.st = "idle" THEN h.stage = FirstStage(h.r)
                          ELSE e = Of(h.r.dir) /\ h.r.len # 0
  <1> DEFINE e == d.ev[1].e
  <1>1. /\ d \in Device /\ b \in Device /\ 1 \in 1 .. Len(d.ev)
        /\ Len(b.ev) \in Nat /\ Len(d.ev) = Len(b.ev) + 1
        /\ \A k \in 1 .. Len(b.ev) : k + 1 \in 1 .. Len(d.ev) /\ b.ev[k] = d.ev[k + 1]
        /\ Same(d, b) /\ b.ep = d.ep /\ b.trb = d.trb
    BY DEF Taken, Tailed
  <1>2. e \in Control
    BY DEF IsEnd
  <1>3. NoEnd(b)
    <2>1. ASSUME NEW k \in 1 .. Len(b.ev), IsEnd(b.ev[k])
          PROVE  FALSE
      <3>1. k + 1 \in 1 .. Len(d.ev) /\ IsEnd(d.ev[k + 1])
        BY <1>1, <2>1 DEF IsEnd
      <3>2. k + 1 = 1
        BY <1>1, <3>1 DEF ControlInv, EndIsSingle
      <3>3. QED
        BY <1>1, <3>2
    <2>2. QED
      BY <2>1 DEF NoEnd
  <1>4. ~d.ev[1].old /\ d.ep[e].active /\ d.trb[e] = "none"
    BY <1>1 DEF ControlInv, EndsAreOwn
  <1>5. ~d.first
    BY <1>1 DEF ControlInv, FirstShape
  <1>6. Shape(d)
    BY DEF ControlInv
  <1>7. Shape(b)
    BY <1>1, <1>6, EndpointNumbers DEF Shape, IdleShape, BusyShape, Same, Of
  <1>8. /\ ~d.ep[Opposite(e)].active /\ Opposite(e) \in Control
        /\ d.st = "idle" => e = EP0_OUT
        /\ \A x \in Control : x = e \/ x = Opposite(e)
    BY <1>2, <1>4, <1>6, EndpointNumbers DEF Shape, IdleShape, BusyShape, Opposite
  <1>9. d.trb[Opposite(e)] = "none"
    BY <1>8 DEF ControlInv, ActiveHasTrb
  <1>10. EndAlone(b, e)
    BY <1>1, <1>3, <1>4, <1>6, <1>8, <1>9 DEF EndAlone, Same, Shape
  <1>11. \A i, j \in 1 .. Len(b.ev) : IsPoll(b.ev[i]) /\ IsPoll(b.ev[j]) => i = j
    <2>1. ASSUME NEW i \in 1 .. Len(b.ev), NEW j \in 1 .. Len(b.ev), i < j,
                 IsPoll(b.ev[i]), IsPoll(b.ev[j])
          PROVE  FALSE
      <3> DEFINE x == i + 1
                 y == j + 1
      <3>1. /\ x \in 1 .. Len(d.ev) /\ y \in 1 .. Len(d.ev) /\ x < y
            /\ b.ev[i] = d.ev[x] /\ b.ev[j] = d.ev[y]
        BY <1>1, <2>1 DEF IsPoll
      <3> HIDE DEF x, y
      <3>2. IsPoll(d.ev[x]) /\ IsPoll(d.ev[y])
        BY <2>1, <3>1 DEF IsPoll
      <3>3. PICK k \in x .. y : IsEnd(d.ev[k])
        BY <3>1, <3>2 DEF ControlInv, PollsApart
      <3>4. k \in 1 .. Len(d.ev) /\ k > 1
        BY <1>1, <3>1, <3>3 DEF x, y
      <3>5. k = 1
        BY <1>1, <3>3, <3>4 DEF ControlInv, EndIsSingle
      <3>6. QED
        BY <3>4, <3>5
    <2>2. ASSUME NEW i \in 1 .. Len(b.ev), NEW j \in 1 .. Len(b.ev),
                 IsPoll(b.ev[i]), IsPoll(b.ev[j])
          PROVE  i = j
      <3>1. ~(i < j) /\ ~(j < i)
        BY <2>1, <2>2
      <3>2. QED
        BY <1>1, <3>1
    <2>3. QED
      BY <2>2
  <1>12. ASSUME NEW j \in 1 .. Len(b.ev), IsPoll(b.ev[j])
         PROVE  /\ b.held = None
                /\ Asks(b, h) => /\ b.ev[j].stage = h.stage /\ h.stage \in b.asked
                                 /\ b.ev[j].e = StageEnd(h.stage, h.r)
                /\ PollAfterEnd(b, b.ev[j], d.ev[1])
    <2> DEFINE x == j + 1
    <2>1. /\ x \in 1 .. Len(d.ev) /\ b.ev[j] = d.ev[x] /\ 1 < x
      BY <1>1, <1>12 DEF IsPoll
    <2> HIDE DEF x
    <2>2. IsPoll(d.ev[x])
      BY <1>12, <2>1 DEF IsPoll
    <2>3. ASSUME NEW k \in x .. Len(d.ev), IsEnd(d.ev[k])
          PROVE  FALSE
      <3>1. k \in 1 .. Len(d.ev) /\ k > 1
        BY <1>1, <2>1
      <3>2. k = 1
        BY <1>1, <2>3, <3>1 DEF ControlInv, EndIsSingle
      <3>3. QED
        BY <3>1, <3>2
    <2>4. Last(d, x)
      BY <2>3 DEF Last
    <2>5. ~NoEnd(d)
      BY <1>1 DEF NoEnd
    <2>6. /\ d.held = None
          /\ Asks(d, h) => /\ d.ev[x].stage = h.stage /\ h.stage \in d.asked
                           /\ d.ev[x].e = StageEnd(h.stage, h.r)
      BY <2>1, <2>2, <2>4, <2>5 DEF ControlInv, HostPolled
    <2>7. PollAfterEnd(d, d.ev[x], d.ev[1])
      BY <1>1, <2>1, <2>2 DEF ControlInv, PollsBehind
    <2>8. QED
      BY <1>1, <2>1, <2>6, <2>7 DEF Same, Asks, PollAfterEnd
  <1>13. HostShape(b, h)
    BY <1>1 DEF ControlInv, HostShape, Asks, Same
  <1>14. Served(b, h)
    BY <1>1, <1>3, <1>5, <1>11, <1>12, <1>13 DEF Served, Same
  <1>15. Asks(b, h) => IF b.st = "idle" THEN h.stage = FirstStage(h.r)
                       ELSE e = Of(h.r.dir) /\ h.r.len # 0
    BY <1>1 DEF ControlInv, HostAndEnd, Asks, Same
  <1>16. QED
    BY <1>2, <1>4, <1>7, <1>10, <1>12, <1>14, <1>15

(* The invariant, when the end of a control transfer is handled.            *)
LEMMA EndControl ==
  ASSUME NEW d, NEW b, Taken(d, b), NEW h, ControlInv(d, h), IsEnd(d.ev[1]),
         d.buffer.req = "SET_SEL" => d.buffer.len > 0,
         NEW r, r = usb_hal_handle_xfer_complete(b, d.ev[1].e)
  PROVE  ControlInv(r, h) /\ EndDone(b, r, d.ev[1].e)
  <1> DEFINE e == d.ev[1].e
  <1>1. /\ Served(b, h) /\ EndAlone(b, e) /\ e \in Control /\ Shape(b)
        /\ \A j \in 1 .. Len(b.ev) : IsPoll(b.ev[j]) => PollAfterEnd(b, b.ev[j], d.ev[1])
        /\ Asks(b, h) => IF b.st = "idle" THEN h.stage = FirstStage(h.r)
                         ELSE e = Of(h.r.dir) /\ h.r.len # 0
    BY EndTaken
  <1>2. EndDone(b, r, e)
    BY <1>1, EndHandled
  <1>3. CASE b.st = "idle" /\ SetUp(b, r)
    <2>1. \A j \in 1 .. Len(b.ev) : IsPoll(b.ev[j]) =>
            b.ev[j].stage = FirstStage(b.buffer)
            /\ b.ev[j].e = StageEnd(b.ev[j].stage, b.buffer)
      BY <1>1, <1>3 DEF PollAfterEnd
    <2>2. Asks(b, h) => h.stage = FirstStage(h.r)
      BY <1>1, <1>3
    <2>3. QED
      BY <1>1, <1>2, <1>3, <2>1, <2>2, SetUpControl
  <1>4. CASE b.st # "idle" /\ (Goes(b, r, e) \/ Turns(b, r, e))
    <2>1. Continues(b, h, e)
      BY <1>1, <1>4 DEF Continues, PollAfterEnd
    <2>2. QED
      BY <1>1, <1>2, <1>4, <2>1, GoesControl, TurnsControl
  <1>5. CASE IdleAgain(b, r) /\ InRests(r)
    BY <1>1, <1>2, <1>5, IdleControl
  <1>6. QED
    BY <1>2, <1>3, <1>4, <1>5 DEF EndDone

(* A report is handled.                                                     *)
LEMMA PollControl ==
  ASSUME NEW d, NEW b, Taken(d, b), NEW h, ControlInv(d, h), IsPoll(d.ev[1]),
         NEW r, r = usb_hal_handle_endpt_event(b, d.ev[1])
  PROVE  ControlInv(r, h) /\ (r = b \/ (NoEnd(b) /\ PollDone(b, r, d.ev[1])))
  <1> DEFINE x == d.ev[1]
             e == x.e
  <1>1. /\ d \in Device /\ b \in Device /\ 1 \in 1 .. Len(d.ev)
        /\ Len(b.ev) \in Nat /\ Len(d.ev) = Len(b.ev) + 1
        /\ \A k \in 1 .. Len(b.ev) : k + 1 \in 1 .. Len(d.ev) /\ b.ev[k] = d.ev[k + 1]
        /\ \A k \in 2 .. Len(d.ev) : k - 1 \in 1 .. Len(b.ev) /\ b.ev[k - 1] = d.ev[k]
        /\ Same(d, b) /\ b.ep = d.ep /\ b.trb = d.trb
    BY DEF Taken, Tailed
  <1>2. x \in NotReady /\ e \in Control /\ x.stage \in {"data", "status"} /\ x.t = "notready"
    <2>1. x \in NotReady
      BY <1>1, EventIs
    <2>2. QED
      BY <2>1 DEF NotReady
  <1>3. ~IsEnd(x) /\ x.t # "done"
    BY <1>2 DEF IsEnd
  <1>4. ControlInv(b, h)
    BY <1>1, <1>3, TailedControl DEF Taken, ControlSame, Same, Alike
  <1>5. CASE ~NoEnd(b)
    <2>1. PICK k \in 1 .. Len(b.ev) : IsEnd(b.ev[k])
      BY <1>5 DEF NoEnd
    <2> DEFINE y == k + 1
    <2>2. y \in 1 .. Len(d.ev) /\ b.ev[k] = d.ev[y] /\ 1 < y
      BY <1>1, <2>1
    <2> HIDE DEF y
    <2>3. IsEnd(d.ev[y])
      BY <2>1, <2>2 DEF IsEnd
    <2>4. Harmless(d, x, d.ev[y])
      BY <1>1, <2>2, <2>3 DEF ControlInv, PollsInFront
    <2>5. d.ep[d.ev[y].e].active
      BY <2>2, <2>3 DEF ControlInv, EndsAreOwn
    <2>6. Harmless(b, x, d.ev[y]) /\ b.ep[e].active
      BY <1>1, <2>4, <2>5 DEF Harmless, Same
    <2>7. r = b
      BY <1>2, <2>6, PollIgnored
    <2>8. QED
      BY <1>4, <2>7
  <1>6. CASE NoEnd(b)
    <2>1. NoEnd(d)
      <3>1. ASSUME NEW k \in 1 .. Len(d.ev), IsEnd(d.ev[k])
            PROVE  FALSE
        <4>1. k # 1
          BY <1>3, <3>1 DEF IsEnd
        <4>2. k \in 2 .. Len(d.ev)
          BY <1>1, <4>1
        <4>3. QED
          BY <1>1, <1>6, <3>1, <4>2 DEF NoEnd, IsEnd
      <3>2. QED
        BY <3>1 DEF NoEnd
    <2>2. ASSUME NEW j \in 1 .. Len(b.ev), IsPoll(b.ev[j])
          PROVE  FALSE
      <3> DEFINE y == j + 1
      <3>1. y \in 1 .. Len(d.ev) /\ b.ev[j] = d.ev[y] /\ 1 < y
        BY <1>1, <2>2 DEF IsPoll
      <3> HIDE DEF y
      <3>2. IsPoll(d.ev[y])
        BY <2>2, <3>1 DEF IsPoll
      <3>3. PICK k \in 1 .. y : IsEnd(d.ev[k])
        BY <1>1, <3>1, <3>2 DEF ControlInv, PollsApart
      <3>4. k \in 1 .. Len(d.ev)
        BY <1>1, <3>1, <3>3
      <3>5. QED
        BY <2>1, <3>3, <3>4 DEF NoEnd
    <2>3. TrbIfActive(d)
      BY <2>1 DEF ControlInv, ActiveHasTrb, NoEnd, TrbIfActive
    <2>4. IF x.stage = "status" THEN StatusPoll(d, e) ELSE DataPoll(d)
      BY <1>1, <2>1 DEF ControlInv, PollsAlone
    <2>5. IF x.stage = "status" THEN StatusPoll(b, e) ELSE DataPoll(b)
      BY <1>1, <2>4 DEF StatusPoll, DataPoll, Same
    <2>6. PollAlone(b, x)
      <3>1. b.st # "error"
        BY <1>4 DEF ControlInv, Shape
      <3>2. QED
        BY <1>1, <1>6, <2>3, <2>5, <3>1 DEF PollAlone, TrbIfActive
    <2>7. PollDone(b, r, x)
      BY <1>2, <2>6, PollHandled
    <2>8. Shape(b) /\ HostShape(b, h)
      BY <1>4 DEF ControlInv
    <2>9. Served(b, h)
      <3>1. ~d.first
        BY <1>1 DEF ControlInv, FirstShape
      <3>2. QED
        BY <1>1, <1>6, <2>2, <2>8, <3>1 DEF Served, Same
    <2>10. Asks(b, h) => x.stage = h.stage /\ e = StageEnd(h.stage, h.r)
      <3>1. Last(d, 1)
        BY <2>1 DEF NoEnd, Last
      <3>2. Asks(d, h) => x.stage = h.stage /\ e = StageEnd(h.stage, h.r)
        BY <1>1, <3>1 DEF ControlInv, HostPolled
      <3>3. QED
        BY <1>1, <3>2 DEF Asks, Same
    <2>11. CASE r = b
      BY <1>4, <2>11
    <2>12. CASE x.stage = "status" /\ StatusAsked(b, r, e)
      <3>1. Asks(b, h) => e = Of(StatusDir(h.r)) /\ h.stage = "status"
        BY <2>10, <2>12 DEF StageEnd
      <3>2. StatusPoll(b, e)
        BY <2>5, <2>12
      <3>3. ControlInv(r, h)
        BY <1>2, <2>2, <2>8, <2>9, <2>12, <3>1, <3>2, StatusControl
      <3>4. QED
        BY <1>6, <2>7, <3>3
    <2>13. CASE x.stage = "data" /\ DataAskedAgain(b, r, e)
      <3>1. ControlInv(r, h)
        BY <1>2, <2>2, <2>8, <2>9, <2>10, <2>13, DataControl
      <3>2. QED
        BY <1>6, <2>7, <3>1
    <2>14. CASE IdleAgain(b, r) /\ InRests(r)
      BY <1>6, <2>7, <2>9, <2>14, IdleControl
    <2>15. QED
      BY <2>7, <2>11, <2>12, <2>13, <2>14 DEF PollDone
  <1>7. QED
    BY <1>5, <1>6

-----------------------------------------------------------------------------
(* The ends of cancelled transfers still find their pipes at rest.          *)
LEMMA OldQuiet ==
  ASSUME NEW d \in Device, NEW r, EventsSame(d, r), OldIsQuiet(d), EndsAreOwn(r),
         Quiets(d, r) \/ NoBulkEnd(d)
  PROVE  OldIsQuiet(r)
  <1>1. Len(r.ev) = Len(d.ev)
    BY DEF EventsSame
  <1>2. ASSUME NEW k \in 1 .. Len(d.ev), r.ev[k].t = "complete", r.ev[k].old
        PROVE  ~r.ep[r.ev[k].e].active
    <2>1. /\ d.ev[k].t = "complete" /\ d.ev[k].e = r.ev[k].e
      BY <1>2 DEF EventsSame
    <2>2. d.ev[k].e \in Endpoints
      BY EventIs
    <2>3. d.ev[k].e \notin Control
      BY <1>1, <1>2, <2>1 DEF EndsAreOwn, IsEnd
    <2>4. d.ev[k].e \in Bulk
      BY <2>2, <2>3, EndpointNumbers
    <2>5. Quiets(d, r)
      BY <2>1, <2>3 DEF NoBulkEnd
    <2>6. d.ev[k].old \/ ~r.ep[d.ev[k].e].active
      BY <1>2, <2>1, <2>4, <2>5 DEF Quiets
    <2>7. CASE d.ev[k].old
      <3>1. ~d.ep[d.ev[k].e].active
        BY <2>1, <2>7 DEF OldIsQuiet
      <3>2. QED
        BY <2>1, <2>4, <2>5, <3>1 DEF Quiets
    <2>8. QED
      BY <2>1, <2>6, <2>7
  <1>3. QED
    BY <1>1, <1>2 DEF OldIsQuiet

(* What waits in the buffer is the same.                                    *)
LEMMA SameEvents ==
  ASSUME NEW d, NEW r, EventsSame(d, r)
  PROVE  /\ NoEnd(r) <=> NoEnd(d)
         /\ NoBulkEnd(d) => NoBulkEnd(r)
         /\ \A k \in 1 .. Len(d.ev) : ResetWaits(d, k) => ResetWaits(r, k)
         /\ ResetWaits(d, 1) => ResetWaits(r, 1)
         /\ \A h : HostIsGone(d, h) => HostIsGone(r, h)
  <1>1. /\ Len(r.ev) = Len(d.ev)
        /\ \A k \in 1 .. Len(d.ev) : r.ev[k].t = d.ev[k].t /\ r.ev[k].e = d.ev[k].e
    BY DEF EventsSame
  <1>2. \A k \in 1 .. Len(d.ev) : IsEnd(r.ev[k]) <=> IsEnd(d.ev[k])
    BY <1>1 DEF IsEnd
  <1>3. \A k \in Nat \ {0} : ResetWaits(d, k) => ResetWaits(r, k)
    <2>1. ASSUME NEW k \in Nat \ {0}, NEW i \in k .. Len(d.ev), d.ev[i].t = "reset"
          PROVE  ResetWaits(r, k)
      <3>1. i \in 1 .. Len(d.ev) /\ i \in k .. Len(r.ev)
        BY <1>1
      <3>2. QED
        BY <1>1, <2>1, <3>1 DEF ResetWaits
    <2>2. QED
      BY <2>1 DEF ResetWaits
  <1>4. NoEnd(r) <=> NoEnd(d)
    BY <1>1, <1>2 DEF NoEnd
  <1>5. NoBulkEnd(d) => NoBulkEnd(r)
    BY <1>1 DEF NoBulkEnd
  <1>6. ASSUME NEW h, HostIsGone(d, h)
        PROVE  HostIsGone(r, h)
    <2>1. ASSUME NEW k \in 1 .. Len(r.ev), r.ev[k].t = "disconnect"
          PROVE  /\ h.stage = "none" /\ (h.here => ResetWaits(r, k))
                 /\ \A i \in k .. Len(r.ev) : ~IsEnd(r.ev[i])
      <3>1. /\ h.stage = "none" /\ (h.here => ResetWaits(d, k))
            /\ \A i \in k .. Len(d.ev) : ~IsEnd(d.ev[i])
        BY <1>1, <1>6, <2>1 DEF HostIsGone
      <3>2. \A i \in k .. Len(r.ev) : i \in 1 .. Len(d.ev) /\ i \in k .. Len(d.ev)
        BY <1>1
      <3>3. \A i \in k .. Len(r.ev) : ~IsEnd(r.ev[i])
        BY <1>2, <3>1, <3>2
      <3>4. k \in Nat \ {0}
        OBVIOUS
      <3>5. QED
        BY <1>3, <3>1, <3>3, <3>4
    <2>2. QED
      BY <2>1 DEF HostIsGone
  <1>7. QED
    BY <1>3, <1>4, <1>5, <1>6

(* A step of the handler keeps what is said of the bulk pipes.              *)
LEMMA BulkKept ==
  ASSUME NEW d \in Device, NEW r, EventsSame(d, r), NEW h, BulkInv(d, h), EndsAreOwn(r),
         Quiets(d, r) \/ NoBulkEnd(d), r.buffer = d.buffer, r.held = d.held,
         SetupWaits(r) => SetupWaits(d) /\ ~r.stall
  PROVE  BulkInv(r, h)
  <1>1. OldIsQuiet(r)
    BY OldQuiet DEF BulkInv
  <1>2. NoBulkEnd(d) => NoBulkEnd(r)
    BY SameEvents
  <1>3. SetupWaits(r) /\ r.buffer.req \in Resets => NoBulkEnd(r)
    BY <1>2 DEF BulkInv
  <1>4. r.held.req \in Resets => NoBulkEnd(r)
    BY <1>2 DEF BulkInv
  <1>5. SetupWaits(r) => ~r.stall /\ (Asks(r, h) \/ ~h.pipes)
    BY DEF BulkInv, Asks
  <1>6. QED
    BY <1>1, <1>3, <1>4, <1>5 DEF BulkInv

(* The reset of the bus, where a step leaves the device in its place, where *)
(* a control transfer is under way, and where the endpoint awaits a SETUP.  *)
LEMMA LateKept ==
  ASSUME NEW d, NEW r, EventsSame(d, r), Quiets(d, r), Placed(d, r),
         r.st = d.st, r.ready = d.ready, NEW h, NEW l, LateInv(d, h, l)
  PROVE  LateInv(r, h, l)
  <1>1. HostIsGone(r, h)
    BY SameEvents DEF LateInv
  <1>2. ASSUME AfterReset(d, h)
        PROVE  AfterReset(r, h)
    BY <1>2, SameEvents DEF AfterReset, Unanswered, Placed
  <1>3. QED
    BY <1>1, <1>2 DEF LateInv

(* After a reset of the bus, with a control transfer under way.             *)
LEMMA LateBusy ==
  ASSUME NEW d, NEW r, EventsSame(d, r), NEW h, HostIsGone(d, h), NEW l,
         r.st # "idle", l => ~r.ready
  PROVE  LateInv(r, h, l)
  BY SameEvents DEF LateInv

(* After a reset of the bus, with the endpoint idle again.                  *)
LEMMA LateAgain ==
  ASSUME NEW d, NEW r, IdleAgain(d, r), NEW h, NEW l, LateInv(d, h, l)
  PROVE  LateInv(r, h, l)
  <1>1. EventsSame(d, r) /\ Quiets(d, r) /\ r.st = "idle" /\ r.ready
    BY DEF IdleAgain
  <1>2. HostIsGone(r, h)
    BY <1>1, SameEvents DEF LateInv
  <1>3. ASSUME l
        PROVE  AfterReset(r, h)
    <2>1. CASE d.st = "idle"
      <3>1. AfterReset(d, h) /\ Placed(d, r)
        BY <1>3, <2>1 DEF LateInv, IdleAgain
      <3>2. QED
        BY <1>1, <3>1, SameEvents DEF AfterReset, Unanswered, Placed
    <2>2. CASE d.st # "idle"
      <3>1. r.dev = "default" /\ r.addr = 0
        BY <1>3, <2>2 DEF LateInv, IdleAgain
      <3>2. QED
        BY <3>1 DEF AfterReset
    <2>3. QED
      BY <2>1, <2>2
  <1>4. QED
    BY <1>1, <1>2, <1>3 DEF LateInv

(* Without a reset of the bus nothing more is asked.                        *)
LEMMA LateForgotten ==
  ASSUME NEW d, NEW h, NEW l, LateInv(d, h, l), NEW m, m => l
  PROVE  LateInv(d, h, m)
  BY DEF LateInv

-----------------------------------------------------------------------------
(* The interrupt handler.  With the first event out of the buffer.          *)
LEMMA TailedSound ==
  ASSUME NEW d, NEW b, Taken(d, b), NEW h, NEW l, BulkInv(d, h), LateInv(d, h, l)
  PROVE  /\ BulkInv(b, h) /\ HostIsGone(b, h)
         /\ NoEnd(d) => NoEnd(b)
         /\ NoBulkEnd(d) => NoBulkEnd(b)
         /\ d.ev[1].t # "reset" => LateInv(b, h, l)
  <1>1. /\ d \in Device /\ b \in Device /\ 1 \in 1 .. Len(d.ev)
        /\ Len(b.ev) \in Nat /\ Len(d.ev) = Len(b.ev) + 1
        /\ \A k \in 1 .. Len(b.ev) : k + 1 \in 1 .. Len(d.ev) /\ b.ev[k] = d.ev[k + 1]
        /\ \A k \in 2 .. Len(d.ev) : k - 1 \in 1 .. Len(b.ev) /\ b.ev[k - 1] = d.ev[k]
        /\ Same(d, b) /\ Placed(d, b) /\ b.stall = d.stall /\ b.ep = d.ep
    BY DEF Taken, Tailed
  <1>2. ASSUME NEW k \in 1 .. Len(b.ev)
        PROVE  \E j \in 2 .. Len(d.ev) : j = k + 1 /\ b.ev[k] = d.ev[j]
    <2>1. k + 1 \in 2 .. Len(d.ev)
      BY <1>1
    <2>2. QED
      BY <1>1, <2>1
  <1>3. \A j \in 2 .. Len(d.ev) : j \in 1 .. Len(d.ev)
    BY <1>1
  <1>4. NoEnd(d) => NoEnd(b)
    BY <1>2, <1>3 DEF NoEnd, IsEnd
  <1>5. NoBulkEnd(d) => NoBulkEnd(b)
    BY <1>2, <1>3 DEF NoBulkEnd
  <1>6. BulkInv(b, h)
    <2>1. OldIsQuiet(b)
      <3>1. ASSUME NEW k \in 1 .. Len(b.ev), b.ev[k].t = "complete", b.ev[k].old
            PROVE  ~b.ep[b.ev[k].e].active
        <4>1. PICK j \in 1 .. Len(d.ev) : b.ev[k] = d.ev[j]
          BY <1>2, <1>3
        <4>2. ~d.ep[d.ev[j].e].active
          BY <3>1, <4>1 DEF BulkInv, OldIsQuiet
        <4>3. QED
          BY <1>1, <4>1, <4>2
      <3>2. QED
        BY <3>1 DEF OldIsQuiet
    <2>2. SetupWaits(b) => SetupWaits(d)
      BY <1>1, <1>4 DEF SetupWaits, Same
    <2>3. QED
      BY <1>1, <1>5, <2>1, <2>2 DEF BulkInv, Same, Asks
  <1>7. ASSUME NEW k \in Nat \ {0}, ResetWaits(d, k), k # 1 \/ d.ev[1].t # "reset"
        PROVE  ResetWaits(b, IF k = 1 THEN 1 ELSE k - 1)
    <2>1. PICK i \in k .. Len(d.ev) : d.ev[i].t = "reset"
      BY <1>7 DEF ResetWaits
    <2>2. i \in 2 .. Len(d.ev)
      BY <1>7, <2>1
    <2> DEFINE j == i - 1
               m == IF k = 1 THEN 1 ELSE k - 1
    <2>3. j \in 1 .. Len(b.ev) /\ b.ev[j] = d.ev[i]
      BY <1>1, <2>2
    <2>4. j \in m .. Len(b.ev)
      BY <2>1, <2>3
    <2> HIDE DEF j, m
    <2>5. ResetWaits(b, m)
      BY <2>1, <2>3, <2>4 DEF ResetWaits
    <2>6. QED
      BY <2>5 DEF m
  <1>8. HostIsGone(b, h)
    <2>1. HostIsGone(d, h)
      BY DEF LateInv
    <2>2. ASSUME NEW k \in 1 .. Len(b.ev), b.ev[k].t = "disconnect"
          PROVE  /\ h.stage = "none" /\ (h.here => ResetWaits(b, k))
                 /\ \A i \in k .. Len(b.ev) : ~IsEnd(b.ev[i])
      <3> DEFINE y == k + 1
      <3>1. y \in 2 .. Len(d.ev) /\ y \in 1 .. Len(d.ev) /\ b.ev[k] = d.ev[y] /\ y - 1 = k
        BY <1>1
      <3> HIDE DEF y
      <3>2. /\ h.stage = "none" /\ (h.here => ResetWaits(d, y))
            /\ \A i \in y .. Len(d.ev) : ~IsEnd(d.ev[i])
        BY <2>1, <2>2, <3>1 DEF HostIsGone
      <3>3. ResetWaits(d, y) => ResetWaits(b, k)
        BY <1>7, <3>1
      <3>4. ASSUME NEW i \in k .. Len(b.ev)
            PROVE  ~IsEnd(b.ev[i])
        <4>1. i \in 1 .. Len(b.ev)
          BY <3>4
        <4> DEFINE z == i + 1
        <4>2. z \in y .. Len(d.ev) /\ b.ev[i] = d.ev[z]
          BY <1>1, <3>1, <3>4, <4>1
        <4> HIDE DEF z
        <4>3. QED
          BY <3>2, <4>2
      <3>5. QED
        BY <3>2, <3>3, <3>4
    <2>3. QED
      BY <2>2 DEF HostIsGone
  <1>9. ASSUME d.ev[1].t # "reset"
        PROVE  LateInv(b, h, l)
    <2>1. ResetWaits(d, 1) => ResetWaits(b, 1)
      BY <1>7, <1>9
    <2>2. AfterReset(d, h) => AfterReset(b, h)
      BY <1>1, <1>4, <2>1 DEF AfterReset, Unanswered, Placed
    <2>3. QED
      BY <1>1, <1>8, <2>2 DEF LateInv, Same
  <1>10. QED
    BY <1>4, <1>5, <1>6, <1>8, <1>9

(* The end of a control transfer.                                           *)
LEMMA EndSound ==
  ASSUME NEW d, NEW b, Taken(d, b), NEW h, NEW l, Sound(d, h, l), IsEnd(d.ev[1]),
         d.buffer.req = "SET_SEL" => d.buffer.len > 0,
         NEW r, r = usb_hal_handle_xfer_complete(b, d.ev[1].e),
         NEW m, m = (l /\ ~SetupEnds(b, d.ev[1]))
  PROVE  Sound(r, h, m) /\ ~d.ev[1].old /\ Revived(b, r)
  <1> DEFINE x == d.ev[1]
             e == x.e
  <1>1. d \in Device /\ ControlInv(d, h) /\ BulkInv(d, h) /\ LateInv(d, h, l)
    BY DEF Sound
  <1>2. /\ NoEnd(b) /\ EndAlone(b, e) /\ e \in Control /\ ~x.old
    BY <1>1, EndTaken DEF Served
  <1>3. ControlInv(r, h) /\ EndDone(b, r, e)
    BY <1>1, EndControl
  <1>4. b \in Device /\ b.st = d.st /\ b.buffer = d.buffer
    BY DEF Taken, Same
  <1>5. x.t = "complete" /\ x.t # "reset"
    BY DEF IsEnd
  <1>6. BulkInv(b, h) /\ LateInv(b, h, l) /\ HostIsGone(b, h)
        /\ (NoBulkEnd(d) => NoBulkEnd(b))
    BY <1>1, <1>5, TailedSound
  <1>7. m => l
    OBVIOUS
  <1>8. /\ r \in Device /\ EventsSame(b, r) /\ r.buffer = b.buffer /\ r.held = b.held
        /\ Quiets(b, r) \/ (b.st = "idle" /\ b.buffer.req \in Resets)
    BY <1>3 DEF EndDone, SetUp, Goes, Turns, Kept, IdleAgain
  <1>9. BulkInv(r, h)
    <2>1. ~SetupWaits(r)
      BY <1>2, <1>8, SameEvents DEF SetupWaits
    <2>2. EndsAreOwn(r)
      BY <1>3 DEF ControlInv
    <2>3. ASSUME b.st = "idle", b.buffer.req \in Resets
          PROVE  NoBulkEnd(b)
      <3>1. ~NoEnd(d)
        BY <1>2, <1>4, Zenon DEF NoEnd, Taken
      <3>2. NoBulkEnd(d)
        BY <1>1, <1>4, <2>3, <3>1 DEF BulkInv, SetupWaits
      <3>3. QED
        BY <1>6, <3>2
    <2>4. QED
      BY <1>4, <1>6, <1>8, <2>1, <2>2, <2>3, BulkKept
  <1>10. LateInv(r, h, m)
    <2>1. LateInv(b, h, m)
      BY <1>6, <1>7, LateForgotten
    <2>2. CASE b.st = "idle" /\ SetUp(b, r)
      <3>1. e = EP0_OUT /\ b.ep[e].active
        BY <1>2, <2>2 DEF EndAlone
      <3>2. ~m
        BY <1>5, <2>2, <3>1 DEF SetupEnds
      <3>3. r.st # "idle"
        BY <2>2 DEF SetUp, Stage
      <3>4. QED
        BY <1>6, <1>8, <3>2, <3>3, LateBusy
    <2>3. CASE b.st # "idle" /\ (Goes(b, r, e) \/ Turns(b, r, e))
      <3>1. r.st # "idle" /\ r.ready = b.ready
        BY <2>3 DEF Goes, Turns, Kept, StatusState
      <3>2. m => ~r.ready
        BY <2>1, <2>3, <3>1 DEF LateInv
      <3>3. QED
        BY <1>6, <1>8, <3>1, <3>2, LateBusy
    <2>4. CASE IdleAgain(b, r)
      BY <2>1, <2>4, LateAgain
    <2>5. QED
      BY <1>3, <2>2, <2>3, <2>4 DEF EndDone
  <1>11. Revived(b, r)
    BY <1>3 DEF EndDone, SetUp, Goes, Turns, Kept, IdleAgain, Revived
  <1>12. QED
    BY <1>2, <1>3, <1>8, <1>9, <1>10, <1>11 DEF Sound

(* The end of a bulk transfer.  That of a transfer which was cancelled      *)
(* finds its pipe at rest, and changes nothing.                             *)
LEMMA BulkEndSound ==
  ASSUME NEW d, NEW b, Taken(d, b), NEW h, NEW l, Sound(d, h, l),
         d.ev[1].t = "complete", d.ev[1].e \in Bulk,
         NEW r, r = usb_hal_handle_xfer_complete(b, d.ev[1].e)
  PROVE  Sound(r, h, l) /\ (d.ev[1].old => r = b) /\ Revived(b, r)
  <1> DEFINE x == d.ev[1]
             e == x.e
  <1>1. d \in Device /\ ControlInv(d, h) /\ BulkInv(d, h) /\ LateInv(d, h, l)
    BY DEF Sound
  <1>2. /\ b \in Device /\ Tailed(d, b) /\ b.ep = d.ep /\ 1 \in 1 .. Len(d.ev)
        /\ Alike(d, b) /\ ControlSame(d, b)
    BY DEF Taken, Same, Alike, ControlSame
  <1>3. e \in Endpoints /\ e \notin Control
    BY EndpointNumbers
  <1>4. ~IsEnd(x) /\ x.t # "done" /\ x.t # "reset"
    BY <1>3 DEF IsEnd
  <1>5. ControlInv(b, h)
    BY <1>1, <1>2, <1>4, TailedControl
  <1>6. BulkInv(b, h) /\ LateInv(b, h, l)
    BY <1>1, <1>4, TailedSound
  <1>7. x.old => ~b.ep[e].active
    BY <1>1, <1>2 DEF BulkInv, OldIsQuiet
  <1>8. CASE ~b.ep[e].active
    <2>1. r = b
      BY <1>8 DEF usb_hal_handle_xfer_complete
    <2>2. Sound(b, h, l)
      BY <1>2, <1>5, <1>6 DEF Sound
    <2>3. QED
      BY <2>1, <2>2 DEF Revived
  <1>9. CASE b.ep[e].active
    <2>1. r = Settled(b, e)
      <3>1. ~Surplus(Settled(b, e), e)
        BY <1>3 DEF Surplus, Control
      <3>2. QED
        BY <1>9, <3>1 DEF usb_hal_handle_xfer_complete
    <2>2. /\ r \in Device /\ Same(b, r) /\ Placed(b, r) /\ r.stall = b.stall /\ r.ev = b.ev
          /\ r.trb = b.trb /\ ~r.ep[e].active
          /\ \A y \in Endpoints \ {e} : r.ep[y] = b.ep[y]
      BY <1>2, <1>3, <2>1, SettledEnd
    <2>3. EventsSame(b, r)
      BY <2>2 DEF EventsSame
    <2>4. ControlSame(b, r) /\ Quiets(b, r)
      <3>1. \A y \in Bulk : r.ep[y].active => b.ep[y].active
        BY <2>2, EndpointNumbers
      <3>2. \A y \in Control : y \in Endpoints \ {e}
        BY <1>3, ControlNumbers
      <3>3. ControlSame(b, r)
        BY <2>2, <3>2 DEF ControlSame
      <3>4. QED
        BY <2>2, <3>1, <3>3, BufferSame
    <2>5. ControlInv(r, h)
      BY <1>2, <1>5, <2>2, <2>3, <2>4, FrameControl DEF Same, Alike
    <2>6. BulkInv(r, h)
      <3>1. SetupWaits(r) => SetupWaits(b)
        BY <2>2 DEF SetupWaits, NoEnd, Same
      <3>2. SetupWaits(r) => ~r.stall
        BY <1>6, <2>2, <3>1 DEF BulkInv
      <3>3. EndsAreOwn(r)
        BY <2>5 DEF ControlInv
      <3>4. QED
        BY <1>2, <1>6, <2>2, <2>3, <2>4, <3>1, <3>2, <3>3, BulkKept DEF Same
    <2>7. LateInv(r, h, l)
      BY <1>6, <2>2, <2>3, <2>4, LateKept DEF Same
    <2>8. QED
      BY <1>7, <1>9, <2>2, <2>5, <2>6, <2>7 DEF Sound, Same, Revived
  <1>10. QED
    BY <1>8, <1>9

(* A report that the host asks where no TRB is.                             *)
LEMMA PollSound ==
  ASSUME NEW d, NEW b, Taken(d, b), NEW h, NEW l, Sound(d, h, l), IsPoll(d.ev[1]),
         NEW r, r = usb_hal_handle_endpt_event(b, d.ev[1])
  PROVE  Sound(r, h, l) /\ Revived(b, r)
  <1> DEFINE x == d.ev[1]
             e == x.e
  <1>1. d \in Device /\ ControlInv(d, h) /\ BulkInv(d, h) /\ LateInv(d, h, l)
    BY DEF Sound
  <1>2. ControlInv(r, h) /\ (r = b \/ (NoEnd(b) /\ PollDone(b, r, x)))
    BY <1>1, PollControl
  <1>3. x.t # "reset" /\ b \in Device
    BY DEF IsPoll, Taken
  <1>4. BulkInv(b, h) /\ LateInv(b, h, l)
    BY <1>1, <1>3, TailedSound
  <1>5. CASE r = b
    BY <1>2, <1>3, <1>4, <1>5 DEF Sound, Revived
  <1>6. CASE NoEnd(b) /\ (StatusAsked(b, r, e) \/ DataAskedAgain(b, r, e))
    <2>1. Kept(b, r) /\ b.st # "idle" /\ r.st # "idle"
      BY <1>6 DEF StatusAsked, DataAskedAgain, DataState, Status
    <2>2. /\ r \in Device /\ EventsSame(b, r) /\ Quiets(b, r) /\ r.ready = b.ready
          /\ r.buffer = b.buffer /\ r.held = b.held
      BY <2>1 DEF Kept
    <2>3. BulkInv(r, h)
      <3>1. ~SetupWaits(r)
        BY <2>1 DEF SetupWaits
      <3>2. QED
        BY <1>2, <1>3, <1>4, <2>2, <3>1, BulkKept DEF ControlInv
    <2>4. LateInv(r, h, l)
      BY <1>4, <2>1, <2>2, LateBusy DEF LateInv
    <2>5. QED
      BY <1>2, <2>2, <2>3, <2>4 DEF Sound, Revived
  <1>7. CASE NoEnd(b) /\ IdleAgain(b, r)
    <2>1. /\ r \in Device /\ EventsSame(b, r) /\ Quiets(b, r)
          /\ r.buffer = b.buffer /\ r.held = b.held
      BY <1>7 DEF IdleAgain
    <2>2. BulkInv(r, h)
      <3>1. ~SetupWaits(r)
        BY <1>7, <2>1, SameEvents DEF SetupWaits
      <3>2. QED
        BY <1>2, <1>3, <1>4, <2>1, <3>1, BulkKept DEF ControlInv
    <2>3. LateInv(r, h, l)
      BY <1>4, <1>7, LateAgain
    <2>4. QED
      BY <1>2, <1>7, <2>1, <2>2, <2>3 DEF Sound, IdleAgain, Revived
  <1>8. QED
    BY <1>2, <1>5, <1>6, <1>7 DEF PollDone

(* A device event is neither.                                               *)
LEMMA DeviceEventTaken ==
  ASSUME NEW d, NEW b, Taken(d, b), NEW h, NEW l, Sound(d, h, l), ~IsEnd(d.ev[1]),
         ~IsPoll(d.ev[1])
  PROVE  /\ b \in Device /\ BulkInv(b, h) /\ HostIsGone(b, h)
         /\ d.ev[1].t # "reset" => LateInv(b, h, l)
         /\ (d.first => d.ev[1].t # "done") => ControlInv(b, h)
  <1>1. d \in Device /\ ControlInv(d, h) /\ BulkInv(d, h) /\ LateInv(d, h, l)
    BY DEF Sound
  <1>2. b \in Device /\ Tailed(d, b) /\ Alike(d, b) /\ ControlSame(d, b)
    BY DEF Taken, Same, Alike, ControlSame
  <1>3. ASSUME d.first => d.ev[1].t # "done"
        PROVE  ControlInv(b, h)
    BY <1>1, <1>2, <1>3, TailedControl
  <1>4. QED
    BY <1>1, <1>2, <1>3, TailedSound

(* A field that no transfer depends on.                                     *)
LEMMA PlainSound ==
  ASSUME NEW d \in Device, NEW r, Plain(d, r), NEW h, ControlInv(d, h), BulkInv(d, h)
  PROVE  ControlInv(r, h) /\ BulkInv(r, h) /\ r \in Device
  <1>1. Frame(d, r) /\ Quiets(d, r) /\ r.stall = d.stall /\ r.ev = d.ev
    BY PlainIsFrame DEF Plain
  <1>2. r \in Device /\ Same(d, r) /\ ControlSame(d, r) /\ EventsSame(d, r)
    BY <1>1 DEF Frame
  <1>3. ControlInv(r, h)
    BY <1>2, FrameControl DEF Same, Alike
  <1>4. SetupWaits(r) => SetupWaits(d) /\ ~r.stall
    BY <1>1, <1>2 DEF SetupWaits, NoEnd, Same, BulkInv
  <1>5. BulkInv(r, h)
    BY <1>1, <1>2, <1>3, <1>4, BulkKept DEF ControlInv, Same
  <1>6. QED
    BY <1>2, <1>3, <1>5

(* The reset of the bus is taken up at once, or after the control transfer. *)
LEMMA ResetSound ==
  ASSUME NEW d, NEW b, Taken(d, b), NEW h, NEW l, Sound(d, h, l), d.ev[1].t = "reset",
         NEW r, r = usb_hal_handle_usb_reset(b), NEW m
  PROVE  Sound(r, h, m) /\ (r.ready => BulkRests(r))
  <1> DEFINE s1 == [b EXCEPT !.enabled = Control]
             s2 == [s1 EXCEPT !.u1 = FALSE]
             s == [s2 EXCEPT !.u2 = FALSE]
  <1>1. b \in Device /\ BulkInv(b, h) /\ HostIsGone(b, h) /\ ControlInv(b, h)
    <2>1. ~IsEnd(d.ev[1]) /\ ~IsPoll(d.ev[1]) /\ d.ev[1].t # "done"
      BY DEF IsEnd, IsPoll
    <2>2. QED
      BY <2>1, DeviceEventTaken
  <1>2. Plain(b, s1)
    <2>1. Control \in PipeSets
      BY DEF PipeSets, Control, EP0_OUT, EP0_IN
    <2>2. QED
      BY <1>1, <2>1, PlainFields
  <1>3. s1 \in Device /\ ControlInv(s1, h) /\ BulkInv(s1, h)
    <2> HIDE DEF s1
    <2>1. QED
      BY <1>1, <1>2, PlainSound
  <1>4. Plain(s1, s2)
    <2> HIDE DEF s1
    <2>1. QED
      BY <1>3, PlainFields
  <1>5. s2 \in Device /\ ControlInv(s2, h) /\ BulkInv(s2, h)
    <2> HIDE DEF s2
    <2>1. QED
      BY <1>3, <1>4, PlainSound
  <1>6. Plain(s2, s)
    <2> HIDE DEF s2
    <2>1. QED
      BY <1>5, PlainFields
  <1>7. s \in Device /\ ControlInv(s, h) /\ BulkInv(s, h)
    <2> HIDE DEF s
    <2>1. QED
      BY <1>5, <1>6, PlainSound
  <1>8. HostIsGone(s, h) /\ s.st = b.st
    <2>1. s.ev = b.ev /\ s.st = b.st
      <3> HIDE DEF s1, s2, s
      <3>1. QED
        BY <1>2, <1>4, <1>6 DEF Plain, Same
    <2>2. QED
      BY <1>1, <2>1 DEF HostIsGone, ResetWaits
  <1>9. r = IF b.st = "idle" THEN usb_hal_handle_usb_reset_stage2(s)
            ELSE [s EXCEPT !.ready = FALSE]
    BY <1>1 DEF usb_hal_handle_usb_reset, Device
  <1> HIDE DEF s1, s2, s
  <1>10. CASE b.st = "idle"
    <2>1. /\ r \in Device /\ r.ready /\ r.dev = "default" /\ r.addr = 0 /\ BulkRests(r)
          /\ Alike(s, r) /\ r.stall = s.stall
          /\ ControlSame(s, r) /\ EventsSame(s, r) /\ Quiets(s, r)
      BY <1>7, <1>9, <1>10, ResetDone DEF Alike
    <2>2. ControlInv(r, h)
      BY <1>7, <2>1, FrameControl
    <2>3. BulkInv(r, h)
      <3>1. SetupWaits(r) => SetupWaits(s)
        BY <2>1, SameEvents DEF SetupWaits, Alike
      <3>2. SetupWaits(r) => ~r.stall
        BY <1>7, <2>1, <3>1 DEF BulkInv
      <3>3. QED
        BY <1>7, <2>1, <2>2, <3>1, <3>2, BulkKept DEF ControlInv, Alike
    <2>4. HostIsGone(r, h)
      BY <1>8, <2>1, SameEvents
    <2>5. AfterReset(r, h)
      BY <2>1 DEF AfterReset
    <2>6. LateInv(r, h, m)
      BY <1>8, <1>10, <2>1, <2>4, <2>5 DEF LateInv, Alike
    <2>7. QED
      BY <2>1, <2>2, <2>3, <2>6 DEF Sound
  <1>11. CASE b.st # "idle"
    <2>1. /\ r \in Device /\ ~r.ready /\ Alike(s, r) /\ r.stall = s.stall
          /\ r.ep = s.ep /\ r.trb = s.trb /\ r.ev = s.ev
      <3>1. r = [s EXCEPT !.ready = FALSE]
        BY <1>9, <1>11
      <3>2. s \in Device
        BY <1>7
      <3>3. r \in Device /\ ~r.ready
        BY <3>1, <3>2, ZenonT(90) DEF Device
      <3>4. QED
        BY <3>1, <3>2, <3>3, SMTT(60) DEF Device, Alike
    <2>2. ControlSame(s, r) /\ EventsSame(s, r) /\ Quiets(s, r)
      BY <2>1 DEF ControlSame, EventsSame, Quiets
    <2>3. ControlInv(r, h)
      BY <1>7, <2>1, <2>2, FrameControl
    <2>4. r.st # "idle"
      BY <1>8, <1>11, <2>1 DEF Alike
    <2>5. BulkInv(r, h)
      <3>1. ~SetupWaits(r)
        BY <2>4 DEF SetupWaits
      <3>2. QED
        BY <1>7, <2>1, <2>2, <2>3, <3>1, BulkKept DEF ControlInv, Alike
    <2>6. LateInv(r, h, m)
      BY <1>8, <2>1, <2>2, <2>4, LateBusy
    <2>7. QED
      BY <2>1, <2>3, <2>5, <2>6 DEF Sound
  <1>12. QED
    BY <1>10, <1>11

(* The connection is done: the first one awaits the first SETUP.            *)
LEMMA DoneSound ==
  ASSUME NEW d, NEW b, Taken(d, b), NEW h, NEW l, Sound(d, h, l), d.ev[1].t = "done",
         NEW r, r = usb_hal_handle_connection_done(b, d.ev[1].stage)
  PROVE  Sound(r, h, l) /\ Revived(b, r)
  <1> DEFINE v == d.ev[1].stage
             s == [b EXCEPT !.speed = v]
             a == [s EXCEPT !.first = FALSE]
  <1>1. ~IsEnd(d.ev[1]) /\ ~IsPoll(d.ev[1]) /\ d.ev[1].t # "reset"
    BY DEF IsEnd, IsPoll
  <1>2. d \in Device /\ ControlInv(d, h)
    BY DEF Sound
  <1>3. /\ b \in Device /\ BulkInv(b, h) /\ LateInv(b, h, l)
        /\ ~d.first => ControlInv(b, h)
    BY <1>1, DeviceEventTaken
  <1>4. v \in AnySpeed
    <2>1. d.ev[1] \in Events
      BY <1>2, EventIs DEF Taken
    <2>2. QED
      BY <2>1 DEF Events, Completion, NotReady, LinkChange, Connected
  <1>5. Plain(b, s) /\ Placed(b, s)
    BY <1>3, <1>4, PlainFields
  <1>6. s \in Device /\ s.first = b.first /\ b.first = d.first
    BY <1>5 DEF Plain, Same, Taken
  <1>7. r = IF d.first THEN usb_hal_ep0_setup_stage(a) ELSE s
    BY <1>6 DEF usb_hal_handle_connection_done
  <1> HIDE DEF s
  <1>8. CASE ~d.first
    <2>1. ControlInv(s, h) /\ BulkInv(s, h)
      BY <1>3, <1>5, <1>8, PlainSound
    <2>2. LateInv(s, h, l)
      <3>1. EventsSame(b, s) /\ Quiets(b, s) /\ s.st = b.st /\ s.ready = b.ready
        BY <1>3, <1>5, PlainIsFrame DEF Frame, Plain, Same
      <3>2. QED
        BY <1>3, <1>5, <3>1, LateKept
    <2>3. QED
      BY <1>5, <1>6, <1>7, <1>8, <2>1, <2>2 DEF Sound, Plain, Same, Revived
  <1>9. CASE d.first
    <2>1. /\ a \in Device /\ ~a.first /\ a.st = s.st /\ a.buffer = s.buffer /\ a.held = s.held
          /\ a.asked = s.asked /\ a.ready = s.ready /\ a.dev = s.dev /\ a.addr = s.addr
          /\ a.stall = s.stall /\ a.ep = s.ep /\ a.trb = s.trb /\ a.ev = s.ev
      BY <1>6 DEF Device
    <2> HIDE DEF a
    <2>2. /\ a.st = b.st /\ a.buffer = b.buffer /\ a.held = b.held
          /\ a.asked = b.asked /\ a.ready = b.ready /\ a.dev = b.dev /\ a.addr = b.addr
          /\ a.stall = b.stall /\ a.ep = b.ep /\ a.trb = b.trb /\ a.ev = b.ev
      BY <1>5, <2>1 DEF Plain, Same, Placed
    <2>3. /\ b.st = d.st /\ b.buffer = d.buffer /\ b.held = d.held /\ b.ep = d.ep
          /\ b.trb = d.trb /\ Tailed(d, b) /\ d.st = "idle"
          /\ \A k \in 1 .. Len(d.ev) : ~IsEnd(d.ev[k]) /\ ~IsPoll(d.ev[k])
      BY <1>2, <1>9 DEF Taken, Same, ControlInv, FirstShape
    <2>4. \A k \in 1 .. Len(a.ev) : ~IsEnd(a.ev[k]) /\ ~IsPoll(a.ev[k])
      <3>1. ASSUME NEW k \in 1 .. Len(b.ev)
            PROVE  ~IsEnd(b.ev[k]) /\ ~IsPoll(b.ev[k])
        <4>1. k + 1 \in 1 .. Len(d.ev) /\ b.ev[k] = d.ev[k + 1]
          BY <2>3, <3>1 DEF Tailed
        <4>2. QED
          BY <2>3, <4>1
      <3>2. QED
        BY <2>2, <3>1
    <2>5. Served(a, h)
      <3>1. HostShape(d, h)
        BY <1>2 DEF ControlInv
      <3>2. HostShape(a, h)
        BY <2>2, <2>3, <3>1 DEF HostShape, Asks
      <3>3. NoEnd(a)
        BY <2>4 DEF NoEnd
      <3>4. QED
        BY <2>1, <2>4, <3>2, <3>3 DEF Served
    <2>6. IdleAgain(a, r) /\ InSame(a, r)
      BY <1>7, <1>9, <2>1, SetupStage
    <2>7. InRests(r)
      <3>1. ~d.ep[EP0_IN].active /\ d.trb[EP0_IN] = "none"
        BY <1>2, <2>3, EndpointNumbers DEF ControlInv, Shape, IdleShape, ActiveHasTrb
      <3>2. QED
        BY <2>2, <2>3, <2>6, <3>1 DEF InSame, InRests
    <2>8. ControlInv(r, h)
      BY <2>5, <2>6, <2>7, IdleControl
    <2>9. EventsSame(b, a) /\ Quiets(b, a) /\ Placed(b, a)
      BY <2>2 DEF EventsSame, Quiets, Placed
    <2>10. NoEnd(a) /\ EndsAreOwn(a) /\ ~SetupWaits(a)
      BY <2>4 DEF NoEnd, EndsAreOwn, SetupWaits
    <2>11. BulkInv(a, h)
      BY <1>3, <2>2, <2>9, <2>10, BulkKept
    <2>12. LateInv(a, h, l)
      BY <1>3, <2>2, <2>9, LateKept
    <2>13. /\ r \in Device /\ EventsSame(a, r) /\ Quiets(a, r)
           /\ r.buffer = a.buffer /\ r.held = a.held
      BY <2>6 DEF IdleAgain
    <2>14. BulkInv(r, h)
      <3>1. ~SetupWaits(r)
        BY <2>10, <2>13, SameEvents DEF SetupWaits
      <3>2. QED
        BY <2>1, <2>8, <2>11, <2>13, <3>1, BulkKept DEF ControlInv
    <2>15. LateInv(r, h, l)
      BY <2>6, <2>12, LateAgain
    <2>16. QED
      BY <2>2, <2>6, <2>8, <2>13, <2>14, <2>15 DEF Sound, IdleAgain, Revived
  <1>10. QED
    BY <1>8, <1>9

(* The link goes on, or is suspended.                                       *)
LEMMA LinkSound ==
  ASSUME NEW d, NEW b, Taken(d, b), NEW h, NEW l, Sound(d, h, l),
         d.ev[1].t \in {"resume", "suspend"}, NEW v \in Links
  PROVE  Sound([b EXCEPT !.pm = v], h, l) /\ Revived(b, [b EXCEPT !.pm = v])
  <1> DEFINE r == [b EXCEPT !.pm = v]
  <1>1. ~IsEnd(d.ev[1]) /\ ~IsPoll(d.ev[1]) /\ d.ev[1].t \notin {"reset", "done"}
    BY DEF IsEnd, IsPoll
  <1>2. b \in Device /\ BulkInv(b, h) /\ LateInv(b, h, l) /\ ControlInv(b, h)
    BY <1>1, DeviceEventTaken
  <1>3. Plain(b, r) /\ Placed(b, r)
    BY <1>2, PlainFields
  <1> HIDE DEF r
  <1>4. r \in Device /\ ControlInv(r, h) /\ BulkInv(r, h)
    BY <1>2, <1>3, PlainSound
  <1>5. LateInv(r, h, l)
    <2>1. EventsSame(b, r) /\ Quiets(b, r) /\ r.st = b.st /\ r.ready = b.ready
      BY <1>2, <1>3, PlainIsFrame DEF Frame, Plain, Same
    <2>2. QED
      BY <1>2, <1>3, <2>1, LateKept
  <1>6. Sound(r, h, l) /\ Revived(b, r)
    BY <1>3, <1>4, <1>5 DEF Sound, Plain, Same, Revived
  <1>7. QED
    BY <1>6 DEF r

(* The connection is lost: the host has gone, and comes back with a reset.  *)
LEMMA LossSound ==
  ASSUME NEW d, NEW b, Taken(d, b), NEW h, NEW l, Sound(d, h, l),
         d.ev[1].t = "disconnect", NEW r, r = usb_hal_handle_disconnect(b)
  PROVE  Sound(r, h, l) /\ Revived(b, r)
  <1>1. ~IsEnd(d.ev[1]) /\ ~IsPoll(d.ev[1]) /\ d.ev[1].t \notin {"reset", "done"}
    BY DEF IsEnd, IsPoll
  <1>2. b \in Device /\ BulkInv(b, h) /\ LateInv(b, h, l) /\ ControlInv(b, h)
    BY <1>1, DeviceEventTaken
  <1> DEFINE p == [b EXCEPT !.dev = "none"]
             q == [p EXCEPT !.speed = "unknown"]
  <1>3. Plain(b, p) /\ p.addr = b.addr /\ p.dev = "none"
    BY <1>2, PlainFields DEF Places
  <1>4. p \in Device /\ ControlInv(p, h) /\ BulkInv(p, h)
    <2> HIDE DEF p
    <2>1. QED
      BY <1>2, <1>3, PlainSound
  <1>5. Plain(p, q) /\ Placed(p, q)
    <2> HIDE DEF p
    <2>1. QED
      BY <1>4, PlainFields DEF AnySpeed
  <1>6. q \in Device /\ ControlInv(q, h) /\ BulkInv(q, h)
    <2> HIDE DEF q
    <2>1. QED
      BY <1>4, <1>5, PlainSound
  <1>7. r = [q EXCEPT !.pm = "disconnect"]
    BY DEF usb_hal_handle_disconnect
  <1>8. Plain(q, r) /\ Placed(q, r)
    <2> HIDE DEF q
    <2>1. QED
      BY <1>6, <1>7, PlainFields DEF Links
  <1> HIDE DEF p, q
  <1>9. r \in Device /\ ControlInv(r, h) /\ BulkInv(r, h)
    BY <1>6, <1>8, PlainSound
  <1>10. /\ r.st = b.st /\ r.ready = b.ready /\ r.addr = b.addr /\ r.ev = b.ev /\ r.ep = b.ep
         /\ r.dev = "none"
    BY <1>3, <1>5, <1>8 DEF Plain, Same, Placed
  <1>11. Unanswered(b, h)
    <2>1. HostIsGone(d, h) /\ 1 \in 1 .. Len(d.ev)
      BY DEF Sound, LateInv, Taken
    <2>2. /\ h.stage = "none" /\ (h.here => ResetWaits(d, 1))
          /\ \A i \in 1 .. Len(d.ev) : ~IsEnd(d.ev[i])
      BY <2>1 DEF HostIsGone
    <2>3. NoEnd(b)
      BY <2>2, TailedSound DEF NoEnd, Sound
    <2>4. ResetWaits(d, 1) => ResetWaits(b, 1)
      <3>1. ASSUME NEW i \in 1 .. Len(d.ev), d.ev[i].t = "reset"
            PROVE  ResetWaits(b, 1)
        <4>1. i # 1
          BY <1>1, <3>1
        <4>2. i \in 2 .. Len(d.ev)
          BY <3>1, <4>1
        <4>3. i - 1 \in 1 .. Len(b.ev) /\ b.ev[i - 1] = d.ev[i]
          BY <4>2 DEF Taken, Tailed
        <4>4. QED
          BY <3>1, <4>3 DEF ResetWaits
      <3>2. QED
        BY <3>1 DEF ResetWaits
    <2>5. QED
      BY <2>2, <2>3, <2>4 DEF Unanswered
  <1>12. LateInv(r, h, l)
    <2>1. HostIsGone(r, h)
      BY <1>2, <1>10 DEF LateInv, HostIsGone, ResetWaits
    <2>2. Unanswered(r, h)
      BY <1>10, <1>11 DEF Unanswered, NoEnd, ResetWaits
    <2>3. ASSUME l, b.st = "idle"
          PROVE  AfterReset(r, h)
      BY <1>2, <1>10, <2>2, <2>3 DEF LateInv, AfterReset
    <2>4. QED
      BY <1>2, <1>10, <2>1, <2>3 DEF LateInv
  <1>13. QED
    BY <1>9, <1>10, <1>12 DEF Sound, Revived

(* The first event of the buffer is handled, whatever it is.                *)
LEMMA EventSound ==
  ASSUME NEW d \in Device, d.ev # <<>>, NEW h, NEW l, Sound(d, h, l),
         d.buffer.req = "SET_SEL" => d.buffer.len > 0,
         NEW b, b = [d EXCEPT !.ev = Tail(@)], NEW x, x = Head(d.ev),
         NEW r, r = Handled(b, x),
         NEW m, m = (x.t = "reset" \/ (l /\ ~SetupEnds(b, x)))
  PROVE  /\ Sound(r, h, m) /\ ~(x.t = "complete" /\ x.old /\ r # b)
         /\ Revived(b, r) /\ (x.t = "reset" /\ r.ready => BulkRests(r))
  <1>1. Taken(d, b) /\ x = d.ev[1]
    BY EventTaken
  <1>2. x \in Events /\ x.e \in Endpoints
    BY <1>1, EventIs DEF Taken
  <1>3. CASE x.t = "complete"
    <2>1. r = usb_hal_handle_xfer_complete(b, x.e)
      BY <1>3 DEF Handled, usb_hal_handle_endpt_event
    <2>2. m = (l /\ ~SetupEnds(b, x))
      BY <1>3
    <2>3. CASE x.e \in Control
      <3>1. IsEnd(x)
        BY <1>3, <2>3 DEF IsEnd
      <3>2. QED
        BY <1>1, <1>3, <2>1, <2>2, <3>1, EndSound
    <2>4. CASE x.e \in Bulk
      <3>1. Sound(r, h, l) /\ (x.old => r = b) /\ Revived(b, r)
        BY <1>1, <1>3, <2>1, <2>4, BulkEndSound
      <3>2. LateInv(r, h, m)
        BY <2>2, <3>1, LateForgotten DEF Sound
      <3>3. QED
        BY <1>3, <3>1, <3>2 DEF Sound
    <2>5. QED
      BY <1>2, <2>3, <2>4, EndpointNumbers
  <1>4. ASSUME x.t # "complete", x.t # "reset", Sound(r, h, l)
        PROVE  Sound(r, h, m)
    <2>1. m => l
      BY <1>4
    <2>2. QED
      BY <1>4, <2>1, LateForgotten DEF Sound
  <1>5. CASE x.t = "notready"
    <2>1. r = usb_hal_handle_endpt_event(b, x) /\ IsPoll(x)
      BY <1>5 DEF Handled, IsPoll
    <2>2. Sound(r, h, l) /\ Revived(b, r)
      BY <1>1, <2>1, PollSound
    <2>3. QED
      BY <1>4, <1>5, <2>2
  <1>6. CASE x.t = "reset"
    <2>1. r = usb_hal_handle_usb_reset(b)
      BY <1>6 DEF Handled, usb_hal_handle_device_event
    <2>2. Sound(r, h, m) /\ (r.ready => BulkRests(r))
      BY <1>1, <1>6, <2>1, ResetSound
    <2>3. QED
      BY <1>6, <2>2 DEF Revived
  <1>7. CASE x.t = "done"
    <2>1. r = usb_hal_handle_connection_done(b, x.stage)
      BY <1>7 DEF Handled, usb_hal_handle_device_event
    <2>2. QED
      BY <1>1, <1>4, <1>7, <2>1, DoneSound
  <1>8. CASE x.t = "disconnect"
    <2>1. r = usb_hal_handle_disconnect(b)
      BY <1>8 DEF Handled, usb_hal_handle_device_event
    <2>2. QED
      BY <1>1, <1>4, <1>8, <2>1, LossSound
  <1>9. CASE x.t \in {"resume", "suspend"}
    <2>1. PICK v \in Links : r = [b EXCEPT !.pm = v]
      BY <1>9 DEF Handled, usb_hal_handle_device_event, usb_hal_handle_resume, Links,
         usb_hal_handle_link_state_change, SuperSpeedSuspended, HighSpeedSuspended
    <2>2. Sound([b EXCEPT !.pm = v], h, l) /\ Revived(b, [b EXCEPT !.pm = v])
      BY <1>1, <1>9, LinkSound
    <2>3. Sound(r, h, l) /\ Revived(b, r)
      BY <2>1, <2>2
    <2>4. QED
      BY <1>4, <1>9, <2>3
  <1>10. QED
    BY <1>2, <1>3, <1>5, <1>6, <1>7, <1>8, <1>9
       DEF Events, Completion, NotReady, LinkChange, Connected

-----------------------------------------------------------------------------
(* The transports.  What changes is of a bulk pipe, and none is started.    *)
LEMMA FrameSound ==
  ASSUME NEW d, NEW h, NEW l, Sound(d, h, l), NEW r, Frame(d, r), Quiets(d, r), Placed(d, r),
         r.stall = d.stall
  PROVE  Sound(r, h, l)
  <1>1. d \in Device /\ ControlInv(d, h) /\ BulkInv(d, h) /\ LateInv(d, h, l)
    BY DEF Sound
  <1>2. /\ r \in Device /\ Same(d, r) /\ Alike(d, r) /\ ControlSame(d, r) /\ EventsSame(d, r)
    BY DEF Frame, Same, Alike
  <1>3. ControlInv(r, h)
    BY <1>1, <1>2, FrameControl
  <1>4. SetupWaits(r) => SetupWaits(d) /\ ~r.stall
    BY <1>1, <1>2, SameEvents DEF SetupWaits, Same, BulkInv
  <1>5. BulkInv(r, h)
    BY <1>1, <1>2, <1>3, <1>4, BulkKept DEF ControlInv, Same
  <1>6. LateInv(r, h, l)
    BY <1>1, <1>2, LateKept DEF Same
  <1>7. QED
    BY <1>2, <1>3, <1>5, <1>6 DEF Sound

(* The transports set fields that no transfer depends on.                   *)
LEMMA PlainStep ==
  ASSUME NEW d, NEW h, NEW l, Sound(d, h, l), NEW r, Plain(d, r), Placed(d, r)
  PROVE  Sound(r, h, l)
  <1>1. d \in Device
    BY DEF Sound
  <1>2. Frame(d, r) /\ Quiets(d, r) /\ r.stall = d.stall
    BY <1>1, PlainIsFrame DEF Plain
  <1>3. QED
    BY <1>2, FrameSound

(* A bulk transfer may be cancelled.                                        *)
LEMMA CancelSound ==
  ASSUME NEW d, NEW h, NEW l, Sound(d, h, l), NEW e \in Bulk
  PROVE  Sound(usb_hal_cancel_io_request(d, e), h, l)
  <1>1. d \in Device /\ e \notin Control
    BY EndpointNumbers DEF Sound
  <1>2. QED
    BY <1>1, BulkCancelled, FrameSound

(* A bulk pipe may be stalled.                                              *)
LEMMA StallSound ==
  ASSUME NEW d, NEW h, NEW l, Sound(d, h, l), NEW e \in Bulk, NEW v \in BOOLEAN
  PROVE  Sound(usb_hal_set_endpt_stall([d EXCEPT !.persist = v], e), h, l)
  <1> DEFINE s == [d EXCEPT !.persist = v]
  <1>1. d \in Device /\ e \notin Control /\ e # EP0_OUT /\ e # EP0_IN
    BY EndpointNumbers DEF Sound
  <1>2. Plain(d, s) /\ Placed(d, s)
    BY <1>1, PlainFields
  <1> HIDE DEF s
  <1>3. Sound(s, h, l) /\ s \in Device
    BY <1>2, PlainStep DEF Plain
  <1> DEFINE r == usb_hal_set_endpt_stall(s, e)
  <1>4. Frame(s, r) /\ Placed(s, r) /\ Quiets(s, r) /\ r.stall = s.stall
    BY <1>1, <1>3, EndpointStalled
  <1> HIDE DEF r
  <1>5. Sound(r, h, l)
    BY <1>3, <1>4, FrameSound
  <1>6. QED
    BY <1>5 DEF r, s

(* A transfer is started; an end that waits at its pipe is from now on that *)
(* of a transfer before it.                                                 *)
Restarted(d, e, n, w) ==
  [usb_hal_io_request(d, e, n, w) EXCEPT !.ev = Overtaken(@, e)]

LEMMA StartSound ==
  ASSUME NEW d, NEW h, NEW l, Sound(d, h, l), NEW e \in Bulk, NEW n \in Int, NEW w \in BOOLEAN
  PROVE  LET r == Restarted(d, e, n, w) IN
         Sound(r, h, l) /\ r.ready = d.ready
  <1> DEFINE q == usb_hal_io_request(d, e, n, w)
             v == Overtaken(q.ev, e)
             r == [q EXCEPT !.ev = v]
  <1>1. d \in Device /\ ControlInv(d, h) /\ BulkInv(d, h) /\ LateInv(d, h, l)
    BY DEF Sound
  <1>2. /\ Frame(d, q) /\ Placed(d, q) /\ q.stall = d.stall /\ q.ev = d.ev
        /\ \A x \in Bulk \ {e} : q.ep[x].active = d.ep[x].active
    BY <1>1, BulkStarted
  <1>3. r = Restarted(d, e, n, w)
    BY DEF Restarted
  <1> HIDE DEF q
  <1>4. q \in Device /\ q.ev \in Buffer
    BY <1>2 DEF Frame, Device
  <1>5. /\ v \in Buffer /\ Len(v) = Len(d.ev)
        /\ \A k \in 1 .. Len(d.ev) :
             /\ v[k].t = d.ev[k].t /\ v[k].e = d.ev[k].e /\ v[k].stage = d.ev[k].stage
             /\ d.ev[k].t = "complete" /\ d.ev[k].e = e => ~v[k].old
             /\ ~(d.ev[k].t = "complete" /\ d.ev[k].e = e) => v[k] = d.ev[k]
    BY <1>2, <1>4, OvertakenEvents
  <1> HIDE DEF v
  <1>6. /\ r \in Device /\ r.ev = v /\ r.ep = q.ep /\ r.trb = q.trb /\ r.stall = q.stall
        /\ Same(q, r) /\ Placed(q, r)
    BY <1>4, <1>5 DEF Device, Same, Placed
  <1> HIDE DEF r
  <1>7. /\ Same(d, r) /\ Alike(d, r) /\ ControlSame(d, r) /\ Placed(d, r)
        /\ r.stall = d.stall
    BY <1>2, <1>6 DEF Frame, Same, Alike, ControlSame, Placed
  <1>8. EventsSame(d, r)
    <2>1. e \notin Control
      BY EndpointNumbers
    <2>2. \A k \in 1 .. Len(d.ev) : IsEnd(d.ev[k]) => v[k] = d.ev[k]
      BY <1>5, <2>1 DEF IsEnd
    <2>3. QED
      BY <1>5, <1>6, <2>2 DEF EventsSame
  <1>9. ControlInv(r, h)
    BY <1>1, <1>6, <1>7, <1>8, FrameControl
  <1>10. BulkInv(r, h)
    <2>1. OldIsQuiet(r)
      <3>1. ASSUME NEW k \in 1 .. Len(d.ev), v[k].t = "complete", v[k].old
            PROVE  ~r.ep[v[k].e].active
        <4>1. v[k] = d.ev[k] /\ d.ev[k].e # e
          BY <1>5, <3>1
        <4>2. ~d.ep[d.ev[k].e].active
          BY <1>1, <3>1, <4>1 DEF BulkInv, OldIsQuiet
        <4>3. d.ev[k].e \in Endpoints
          BY <1>1, EventIs
        <4>4. d.ev[k].e \in Control => r.ep[d.ev[k].e].active = d.ep[d.ev[k].e].active
          BY <1>7 DEF ControlSame
        <4>5. QED
          BY <1>2, <1>6, <4>1, <4>2, <4>3, <4>4, EndpointNumbers
      <3>2. QED
        BY <1>5, <1>6, <3>1 DEF OldIsQuiet
    <2>2. (NoEnd(r) <=> NoEnd(d)) /\ (NoBulkEnd(d) => NoBulkEnd(r))
      BY <1>8, SameEvents
    <2>3. QED
      BY <1>1, <1>7, <2>1, <2>2 DEF BulkInv, SetupWaits, Same, Asks
  <1>11. LateInv(r, h, l)
    <2>1. HostIsGone(r, h)
      BY <1>1, <1>8, SameEvents DEF LateInv
    <2>2. AfterReset(d, h) => AfterReset(r, h)
      BY <1>7, <1>8, SameEvents DEF AfterReset, Unanswered, Placed
    <2>3. QED
      BY <1>1, <1>7, <2>1, <2>2 DEF LateInv, Same
  <1>12. QED
    BY <1>3, <1>6, <1>7, <1>9, <1>10, <1>11 DEF Sound, Same

-----------------------------------------------------------------------------
(* An event is added that is neither an end nor a report of the control     *)
(* endpoint.                                                                *)
LEMMA AppendedLater ==
  ASSUME NEW d, NEW r, NEW x, Appended(d, r, x)
  PROVE  /\ ~IsEnd(x) => (NoEnd(r) <=> NoEnd(d))
         /\ IsEnd(x) => ~NoEnd(r)
         /\ \A k \in Nat \ {0} : ResetWaits(d, k) => ResetWaits(r, k)
         /\ NoBulkEnd(d) /\ (x.t = "complete" => x.e \in Control) => NoBulkEnd(r)
         /\ \A h : HostIsGone(d, h) /\ ~IsEnd(x)
                  /\ (x.t = "disconnect" => h.stage = "none" /\ ~h.here) => HostIsGone(r, h)
  <1> DEFINE n == Len(d.ev) + 1
  <1>1. /\ Len(d.ev) \in Nat /\ Len(r.ev) = n /\ r.ev[n] = x
        /\ \A k \in 1 .. Len(d.ev) : r.ev[k] = d.ev[k] /\ k \in 1 .. n
        /\ \A k \in 1 .. n : k = n \/ k \in 1 .. Len(d.ev)
        /\ n \in 1 .. n
    BY DEF Appended
  <1> HIDE DEF n
  <1>2. ASSUME ~IsEnd(x)
        PROVE  NoEnd(r) <=> NoEnd(d)
    BY <1>1, <1>2 DEF NoEnd, IsEnd
  <1>3. IsEnd(x) => ~NoEnd(r)
    BY <1>1 DEF NoEnd
  <1>4. ASSUME NEW k \in Nat \ {0}, ResetWaits(d, k)
        PROVE  ResetWaits(r, k)
    <2>1. PICK i \in k .. Len(d.ev) : d.ev[i].t = "reset"
      BY <1>4 DEF ResetWaits
    <2>2. i \in 1 .. Len(d.ev) /\ i \in k .. Len(r.ev)
      BY <1>1, <2>1 DEF n
    <2>3. QED
      BY <1>1, <2>1, <2>2 DEF ResetWaits
  <1>5. NoBulkEnd(d) /\ (x.t = "complete" => x.e \in Control) => NoBulkEnd(r)
    BY <1>1 DEF NoBulkEnd
  <1>6. ASSUME NEW h, HostIsGone(d, h), ~IsEnd(x),
               x.t = "disconnect" => h.stage = "none" /\ ~h.here
        PROVE  HostIsGone(r, h)
    <2>1. ASSUME NEW k \in 1 .. n, r.ev[k].t = "disconnect"
          PROVE  /\ h.stage = "none" /\ (h.here => ResetWaits(r, k))
                 /\ \A i \in k .. n : ~IsEnd(r.ev[i])
      <3>1. CASE k = n
        <4>1. \A i \in k .. n : i = n
          BY <1>1, <3>1 DEF n
        <4>2. QED
          BY <1>1, <1>6, <2>1, <3>1, <4>1
      <3>2. CASE k # n
        <4>1. k \in 1 .. Len(d.ev) /\ d.ev[k].t = "disconnect"
          BY <1>1, <2>1, <3>2
        <4>2. /\ h.stage = "none" /\ (h.here => ResetWaits(d, k))
              /\ \A i \in k .. Len(d.ev) : ~IsEnd(d.ev[i])
          BY <1>6, <4>1 DEF HostIsGone
        <4>3. ASSUME NEW i \in k .. n
              PROVE  ~IsEnd(r.ev[i])
          <5>1. i = n \/ (i \in k .. Len(d.ev) /\ i \in 1 .. Len(d.ev))
            BY <1>1, <4>1, <4>3 DEF n
          <5>2. QED
            BY <1>1, <1>6, <4>2, <5>1
        <4>4. QED
          BY <1>4, <4>1, <4>2, <4>3
      <3>3. QED
        BY <3>1, <3>2
    <2>2. QED
      BY <1>1, <2>1 DEF HostIsGone
  <1>7. QED
    BY <1>2, <1>3, <1>4, <1>5, <1>6

(* An event of the link, or the end of a bulk transfer, may be added.       *)
LEMMA AppendedSound ==
  ASSUME NEW d, NEW h, NEW l, Sound(d, h, l), NEW x \in Events, ~IsEnd(x), ~IsPoll(x),
         x.t = "disconnect" => h.stage = "none" /\ ~h.here,
         NEW r \in Device, Appended(d, r, x), Alike(d, r),
         ControlSame(d, r), Placed(d, r), r.ready = d.ready, r.stall = d.stall, r.ep = d.ep,
         x.t = "complete" => /\ ~x.old /\ d.held.req \notin Resets
                             /\ ~(SetupWaits(d) /\ d.buffer.req \in Resets)
  PROVE  Sound(r, h, l)
  <1>1. d \in Device /\ ControlInv(d, h) /\ BulkInv(d, h) /\ LateInv(d, h, l)
    BY DEF Sound
  <1>2. ControlInv(r, h)
    BY <1>1, AppendedControl
  <1>3. /\ NoEnd(r) <=> NoEnd(d)
        /\ ResetWaits(d, 1) => ResetWaits(r, 1)
        /\ NoBulkEnd(d) /\ x.t # "complete" => NoBulkEnd(r)
    BY AppendedLater
  <1>4. HostIsGone(d, h) => HostIsGone(r, h)
    BY AppendedLater
  <1>5. SetupWaits(r) <=> SetupWaits(d)
    BY <1>3 DEF SetupWaits, Alike
  <1>6. OldIsQuiet(r)
    <2> DEFINE n == Len(d.ev) + 1
    <2>1. /\ Len(r.ev) = n /\ r.ev[n] = x
          /\ \A k \in 1 .. Len(d.ev) : r.ev[k] = d.ev[k]
          /\ \A k \in 1 .. n : k = n \/ k \in 1 .. Len(d.ev)
      BY DEF Appended
    <2> HIDE DEF n
    <2>2. QED
      BY <1>1, <2>1 DEF BulkInv, OldIsQuiet
  <1>7. BulkInv(r, h)
    BY <1>1, <1>3, <1>5, <1>6 DEF BulkInv, Alike, Asks
  <1>8. LateInv(r, h, l)
    BY <1>1, <1>3, <1>4 DEF LateInv, AfterReset, Unanswered, Alike, Placed
  <1>9. QED
    BY <1>2, <1>7, <1>8 DEF Sound

-----------------------------------------------------------------------------
(* The host.  What is said of the device alone does not depend on it.       *)
Unmoved(d, r) ==
  /\ r \in Device /\ r.st = d.st /\ r.three = d.three /\ r.buffer = d.buffer
  /\ r.first = d.first /\ r.ep = d.ep /\ r.trb = d.trb /\ r.ev = d.ev

DeviceParts(d) ==
  /\ EndsAreOwn(d) /\ EndIsSingle(d) /\ ActiveHasTrb(d) /\ Shape(d)
  /\ PollsInFront(d) /\ PollsApart(d) /\ PollsBehind(d) /\ PollsAlone(d)

(* The parts of the invariant that are of the device alone.                 *)
LEMMA UnmovedParts ==
  ASSUME NEW d, NEW r, Unmoved(d, r), NEW h, ControlInv(d, h)
  PROVE  DeviceParts(r)
  <1>1. /\ r.st = d.st /\ r.three = d.three /\ r.buffer = d.buffer
        /\ r.first = d.first /\ r.ep = d.ep /\ r.trb = d.trb /\ r.ev = d.ev
    BY DEF Unmoved
  <1>2. EndsAreOwn(r) /\ EndIsSingle(r)
    BY <1>1 DEF ControlInv, EndsAreOwn, EndIsSingle
  <1>3. ActiveHasTrb(r)
    BY <1>1 DEF ControlInv, ActiveHasTrb
  <1>4. Shape(r)
    BY <1>1 DEF ControlInv, Shape, IdleShape, BusyShape
  <1>5. PollsInFront(r) /\ PollsApart(r)
    BY <1>1 DEF ControlInv, PollsInFront, PollsApart, Harmless
  <1>6. PollsBehind(r)
    BY <1>1 DEF ControlInv, PollsBehind, PollAfterEnd
  <1>7. PollsAlone(r)
    BY <1>1 DEF ControlInv, PollsAlone, StatusPoll, DataPoll, NoEnd
  <1>8. QED
    BY <1>2, <1>3, <1>4, <1>5, <1>6, <1>7 DEF DeviceParts

(* The host is left with no transfer.                                       *)
LEMMA HostLeaves ==
  ASSUME NEW d, NEW h, NEW l, Sound(d, h, l), NEW r, Unmoved(d, r), r.held = None,
         Placed(d, r), r.ready = d.ready, r.stall = d.stall,
         NEW g, g.stage = "none", g.r = None,
         SetupWaits(d) => ~g.pipes,
         g.here => \/ h.here
                   \/ /\ \E k \in 1 .. Len(d.ev) : d.ev[k].t = "done"
                      /\ \A k \in 1 .. Len(d.ev) :
                           k = 1 \/ d.ev[k].t = "disconnect" => ResetWaits(d, k)
  PROVE  Sound(r, g, l)
  <1>1. d \in Device /\ ControlInv(d, h) /\ BulkInv(d, h) /\ LateInv(d, h, l)
    BY DEF Sound
  <1>2. DeviceParts(r)
    BY <1>1, UnmovedParts
  <1>3. /\ r.st = d.st /\ r.buffer = d.buffer /\ r.first = d.first /\ r.ep = d.ep
        /\ r.ev = d.ev /\ r \in Device
    BY DEF Unmoved
  <1>4. ~Asks(r, g)
    BY DEF Asks
  <1>5. FirstShape(r, g)
    BY <1>1, <1>3 DEF ControlInv, FirstShape
  <1>6. ControlInv(r, g)
    BY <1>2, <1>4, <1>5 DEF ControlInv, DeviceParts, HostShape, HostAndEnd, HostAlone,
       HostPolled
  <1>7. BulkInv(r, g)
    <2>1. None.req \notin Resets
      BY DEF None, Resets
    <2>2. SetupWaits(r) => SetupWaits(d)
      BY <1>3 DEF SetupWaits, NoEnd
    <2>3. QED
      BY <1>1, <1>3, <2>1, <2>2 DEF BulkInv, OldIsQuiet, NoBulkEnd
  <1>8. HostIsGone(r, g)
    <2>1. ASSUME NEW k \in 1 .. Len(d.ev), d.ev[k].t = "disconnect"
          PROVE  (g.here => ResetWaits(d, k)) /\ \A i \in k .. Len(d.ev) : ~IsEnd(d.ev[i])
      BY <1>1, <2>1 DEF LateInv, HostIsGone
    <2>2. QED
      BY <1>3, <2>1 DEF HostIsGone, ResetWaits
  <1>9. ASSUME AfterReset(d, h)
        PROVE  AfterReset(r, g)
    <2>1. ASSUME d.dev # "default", g.here
          PROVE  ResetWaits(d, 1)
      <3>1. CASE h.here
        BY <1>9, <2>1, <3>1 DEF AfterReset, Unanswered
      <3>2. CASE ~h.here
        <4>1. PICK k \in 1 .. Len(d.ev) : d.ev[k].t = "done"
          BY <2>1, <3>2
        <4>2. 1 \in 1 .. Len(d.ev)
          BY <4>1
        <4>3. QED
          BY <2>1, <3>2, <4>2
      <3>3. QED
        BY <3>1, <3>2
    <2>2. d.dev # "default" => Unanswered(r, g)
      BY <1>3, <1>9, <2>1 DEF AfterReset, Unanswered, NoEnd, ResetWaits
    <2>3. QED
      BY <1>3, <1>9, <2>2 DEF AfterReset, Placed
  <1>10. LateInv(r, g, l)
    BY <1>1, <1>3, <1>8, <1>9 DEF LateInv
  <1>11. QED
    BY <1>3, <1>6, <1>7, <1>10 DEF Sound

-----------------------------------------------------------------------------
(* The controller ends a transfer.                                          *)
End(e) == Event("complete", e, "none")

(* What is not told apart by the transfers, and the host does not change.   *)
Stays(d, r) ==
  /\ r.st = d.st /\ r.three = d.three /\ r.first = d.first /\ Placed(d, r)
  /\ r.ready = d.ready /\ r.ep = d.ep

(* What the end of a transfer changes: its TRB and the buffer.              *)
LEMMA EndedFields ==
  ASSUME NEW d \in Device, NEW e \in Endpoints, NEW n \in Int
  PROVE  LET r == Ended(d, e, n) IN
         /\ r \in Device /\ Appended(d, r, End(e)) /\ Stays(d, r) /\ r.stall = d.stall
         /\ r.buffer = d.buffer /\ r.held = d.held
         /\ r.asked = IF e \in Control THEN {} ELSE d.asked
         /\ r.trb[e] = "none" /\ \A x \in Endpoints \ {e} : r.trb[x] = d.trb[x]
         /\ End(e) \in Completion /\ End(e).t = "complete" /\ End(e).e = e /\ ~End(e).old
  <1> DEFINE x == End(e)
             tt == [d.trb EXCEPT ![e] = "none"]
             mm == [d.moved EXCEPT ![e] = n]
             aa == IF e \in Control THEN {} ELSE d.asked
             vv == Append(d.ev, x)
             r == Ended(d, e, n)
  <1>1. x \in Completion /\ x.t = "complete" /\ x.e = e /\ ~x.old
    BY DEF End, Event, Completion
  <1>2. x \in Events
    BY <1>1 DEF Events
  <1>3. r = [d EXCEPT !.trb = tt, !.moved = mm, !.asked = aa, !.ev = vv]
    BY DEF Ended, Raised, End, Device
  <1> HIDE DEF x, tt, mm, aa, vv, r
  <1>4. tt \in TrbTable /\ mm \in CountTable /\ aa \in Questions
    BY DEF tt, mm, aa, Device, TrbTable, CountTable, Kinds, Questions
  <1>5. vv \in Buffer
    <2>1. d.ev \in Seq(Events)
      BY DEF Device, Buffer
    <2>2. QED
      BY <1>2, <2>1, AppendProperties DEF vv, Buffer
  <1>6. r \in Device
    BY <1>3, <1>4, <1>5 DEF Device
  <1>7. /\ r.trb = tt /\ r.asked = aa /\ r.ev = vv
        /\ r.st = d.st /\ r.three = d.three /\ r.first = d.first /\ r.dev = d.dev
        /\ r.addr = d.addr /\ r.ready = d.ready /\ r.ep = d.ep /\ r.stall = d.stall
        /\ r.buffer = d.buffer /\ r.held = d.held
    BY <1>3 DEF Device
  <1>8. Stays(d, r)
    BY <1>7 DEF Stays, Placed
  <1>9. Appended(d, r, x)
    BY <1>2, <1>7, AppendedEvent DEF vv
  <1>10. tt[e] = "none" /\ \A y \in Endpoints \ {e} : tt[y] = d.trb[y]
    BY DEF tt, Device, TrbTable
  <1>11. QED
    BY <1>1, <1>6, <1>7, <1>8, <1>9, <1>10 DEF r, x, aa

(* The end of a bulk transfer.                                              *)
LEMMA BulkEnds ==
  ASSUME NEW d, NEW h, NEW l, Sound(d, h, l), NEW e \in Bulk, NEW n \in Int,
         h.r.req \notin Resets, h.pipes
  PROVE  Sound(Ended(d, e, n), h, l)
  <1> DEFINE r == Ended(d, e, n)
             x == End(e)
  <1>1. d \in Device /\ ControlInv(d, h) /\ BulkInv(d, h)
    BY DEF Sound
  <1>2. e \in Endpoints /\ e \notin Control
    BY EndpointNumbers
  <1>3. /\ r \in Device /\ Appended(d, r, x) /\ Stays(d, r) /\ r.stall = d.stall
        /\ r.buffer = d.buffer /\ r.held = d.held /\ r.asked = d.asked
        /\ \A y \in Endpoints \ {e} : r.trb[y] = d.trb[y]
        /\ x \in Completion /\ x.t = "complete" /\ x.e = e /\ ~x.old
    BY <1>1, <1>2, EndedFields
  <1> HIDE DEF r, x
  <1>4. x \in Events /\ ~IsEnd(x) /\ ~IsPoll(x) /\ x.t # "disconnect"
    BY <1>2, <1>3 DEF Events, IsEnd, IsPoll
  <1>5. Alike(d, r) /\ ControlSame(d, r) /\ Placed(d, r) /\ r.ready = d.ready /\ r.ep = d.ep
    BY <1>2, <1>3, EndpointNumbers DEF Alike, ControlSame, Stays
  <1>6. None.req \notin Resets
    BY DEF None, Resets
  <1>7. d.held.req \notin Resets
    BY <1>1, <1>6 DEF ControlInv, HostShape
  <1>8. ~(SetupWaits(d) /\ d.buffer.req \in Resets)
    BY <1>1 DEF ControlInv, HostShape, BulkInv
  <1>9. Sound(r, h, l)
    BY <1>3, <1>4, <1>5, <1>7, <1>8, AppendedSound
  <1>10. QED
    BY <1>9 DEF r

(* Where the controller has a transfer of the control endpoint, no end of   *)
(* another one waits.                                                       *)
LEMMA TrbRuns ==
  ASSUME NEW d, NEW h, ControlInv(d, h), NEW e \in Control, d.trb[e] # "none"
  PROVE  /\ d.ep[e].active /\ ~d.ep[Opposite(e)].active /\ d.trb[Opposite(e)] = "none"
         /\ NoEnd(d) /\ ~d.first
         /\ d.trb[e] # "setup" => d.st # "idle" /\ BusyShape(d)
         /\ d.trb[e] = "setup" => d.st = "idle" /\ e = EP0_OUT
  <1>1. Shape(d) /\ d.ep[e].active
    BY DEF ControlInv, ActiveHasTrb
  <1>2. /\ Opposite(e) \in Control /\ Opposite(e) # e
        /\ \A y \in Control : y = e \/ y = Opposite(e)
        /\ e = EP0_IN \/ e = EP0_OUT
    BY DEF Control, Opposite, EP0_IN, EP0_OUT
  <1>3. d.st = "idle" => IdleShape(d)
    BY <1>1 DEF Shape
  <1>4. d.st # "idle" => BusyShape(d)
    BY <1>1 DEF Shape
  <1>5. ~d.ep[Opposite(e)].active /\ ~d.first
    BY <1>1, <1>2, <1>3, <1>4, EndpointNumbers DEF IdleShape, BusyShape, Opposite
  <1>6. d.trb[Opposite(e)] = "none"
    BY <1>2, <1>5 DEF ControlInv, ActiveHasTrb
  <1>7. NoEnd(d)
    <2>1. ASSUME NEW k \in 1 .. Len(d.ev), IsEnd(d.ev[k])
          PROVE  FALSE
      <3>1. d.ep[d.ev[k].e].active /\ d.trb[d.ev[k].e] = "none" /\ d.ev[k].e \in Control
        BY <2>1 DEF ControlInv, EndsAreOwn, IsEnd
      <3>2. QED
        BY <1>2, <1>5, <3>1
    <2>2. QED
      BY <2>1 DEF NoEnd
  <1>8. ASSUME d.trb[e] # "setup"
        PROVE  d.st # "idle"
    BY <1>1, <1>2, <1>3, <1>5, <1>8 DEF IdleShape
  <1>9. ASSUME d.trb[e] = "setup"
        PROVE  d.st = "idle" /\ e = EP0_OUT
    BY <1>1, <1>2, <1>3, <1>4, <1>9 DEF IdleShape, BusyShape
  <1>10. QED
    BY <1>1, <1>4, <1>5, <1>6, <1>7, <1>8, <1>9

(* An end is added where none waits.                                        *)
LEMMA EndAppended ==
  ASSUME NEW d \in Device, NEW r, NEW e \in Control, Appended(d, r, End(e)), NoEnd(d),
         NEW h, ControlInv(d, h), r.ep[e].active, r.trb[e] = "none",
         \A j \in 1 .. Len(d.ev) : IsPoll(d.ev[j]) => Harmless(r, d.ev[j], End(e)),
         r.trb[Opposite(e)] = "none", ~r.ep[Opposite(e)].active, Shape(r), ~r.first,
         NEW g, HostShape(r, g),
         Asks(r, g) => IF r.st = "idle" THEN g.stage = FirstStage(g.r)
                       ELSE e = Of(g.r.dir) /\ g.r.len # 0
  PROVE  ControlInv(r, g)
  <1> DEFINE n == Len(d.ev) + 1
             x == End(e)
  <1>1. /\ Len(d.ev) \in Nat /\ Len(r.ev) = n /\ r.ev[n] = x /\ n \in 1 .. n
        /\ \A k \in 1 .. Len(d.ev) : r.ev[k] = d.ev[k]
        /\ \A k \in 1 .. n : k = n \/ (k \in 1 .. Len(d.ev) /\ k < n)
    BY DEF Appended
  <1>2. IsEnd(x) /\ ~IsPoll(x) /\ ~x.old /\ x.e = e
    BY DEF End, Event, IsEnd, IsPoll
  <1> HIDE DEF n, x
  <1>3. \A k \in 1 .. n : /\ IsEnd(r.ev[k]) <=> k = n
                          /\ IsPoll(r.ev[k]) => k # n /\ k \in 1 .. Len(d.ev) /\ k < n
    <2>1. ASSUME NEW k \in 1 .. n
          PROVE  /\ IsEnd(r.ev[k]) <=> k = n
                 /\ IsPoll(r.ev[k]) => k # n /\ k \in 1 .. Len(d.ev) /\ k < n
      <3>1. CASE k = n
        BY <1>1, <1>2, <3>1
      <3>2. CASE k # n
        <4>1. k \in 1 .. Len(d.ev) /\ k < n /\ r.ev[k] = d.ev[k]
          BY <1>1, <3>2
        <4>2. ~IsEnd(r.ev[k])
          BY <4>1 DEF NoEnd
        <4>3. QED
          BY <3>2, <4>1, <4>2
      <3>3. QED
        BY <3>1, <3>2
    <2>2. QED
      BY <2>1
  <1>4. \A y \in Control : y = e \/ y = Opposite(e)
    BY DEF Control, Opposite, EP0_IN, EP0_OUT
  <1>5. EndsAreOwn(r) /\ EndIsSingle(r)
    BY <1>1, <1>2, <1>3 DEF EndsAreOwn, EndIsSingle
  <1>6. ActiveHasTrb(r)
    BY <1>1, <1>2, <1>3, <1>4 DEF ActiveHasTrb
  <1>7. PollsInFront(r)
    <2>1. ASSUME NEW j \in 1 .. n, NEW k \in 1 .. n, IsPoll(r.ev[j]), IsEnd(r.ev[k])
          PROVE  Harmless(r, r.ev[j], r.ev[k])
      <3>1. j \in 1 .. Len(d.ev) /\ k = n
        BY <1>3, <2>1
      <3>2. r.ev[j] = d.ev[j] /\ r.ev[k] = x
        BY <1>1, <3>1
      <3>3. IsPoll(d.ev[j])
        BY <2>1, <3>2
      <3>4. QED
        BY <3>1, <3>2, <3>3 DEF x
    <2>2. QED
      BY <1>1, <2>1 DEF PollsInFront
  <1>8. PollsApart(r)
    <2>1. ASSUME NEW i \in 1 .. n, NEW j \in 1 .. n, IsPoll(r.ev[i]), IsPoll(r.ev[j]), i < j
          PROVE  FALSE
      <3>1. /\ i \in 1 .. Len(d.ev) /\ j \in 1 .. Len(d.ev)
            /\ r.ev[i] = d.ev[i] /\ r.ev[j] = d.ev[j]
        BY <1>1, <1>3, <2>1
      <3>2. IsPoll(d.ev[i]) /\ IsPoll(d.ev[j])
        BY <2>1, <3>1
      <3>3. PICK k \in i .. j : IsEnd(d.ev[k])
        BY <2>1, <3>1, <3>2 DEF ControlInv, PollsApart
      <3>4. k \in 1 .. Len(d.ev)
        BY <1>1, <3>1, <3>3
      <3>5. QED
        BY <3>3, <3>4 DEF NoEnd
    <2>2. QED
      BY <1>1, <2>1 DEF PollsApart
  <1>9. PollsBehind(r)
    <2>1. ASSUME NEW j \in 1 .. n, NEW k \in 1 .. n, IsPoll(r.ev[j]), IsEnd(r.ev[k])
          PROVE  ~(k < j)
      <3>1. j < n /\ k = n
        BY <1>3, <2>1
      <3>2. QED
        BY <1>1, <3>1
    <2>2. QED
      BY <1>1, <2>1 DEF PollsBehind
  <1>10. ~NoEnd(r)
    BY <1>1, <1>2 DEF NoEnd
  <1>11. HostAndEnd(r, g)
    BY <1>1, <1>2, <1>3 DEF HostAndEnd
  <1>12. HostPolled(r, g)
    <2>1. ASSUME NEW j \in 1 .. n
          PROVE  ~Last(r, j)
      <3>1. n \in j .. n
        BY <1>1, <2>1
      <3>2. QED
        BY <1>1, <1>2, <3>1 DEF Last
    <2>2. QED
      BY <1>1, <2>1 DEF HostPolled
  <1>13. QED
    BY <1>5, <1>6, <1>7, <1>8, <1>9, <1>10, <1>11, <1>12
       DEF ControlInv, PollsAlone, HostAlone, FirstShape

(* The end of a transfer of data, or of a status stage.                     *)
LEMMA StageEnds ==
  ASSUME NEW d, NEW h, NEW l, Sound(d, h, l), NEW e \in Control, NEW n \in Int,
         d.trb[e] \in {"data", "normal", "status"}, h.stage # "none",
         \A j \in 1 .. Len(d.ev) : IsPoll(d.ev[j]) => Harmless(d, d.ev[j], End(e)),
         NEW g, HostShape(d, g), Asks(d, g) => e = Of(g.r.dir) /\ g.r.len # 0
  PROVE  Sound(Ended(d, e, n), g, l)
  <1> DEFINE r == Ended(d, e, n)
             x == End(e)
  <1>1. d \in Device /\ ControlInv(d, h) /\ BulkInv(d, h) /\ LateInv(d, h, l)
    BY DEF Sound
  <1>2. e \in Endpoints /\ Opposite(e) \in Control /\ Opposite(e) # e
        /\ Opposite(e) \in Endpoints
    BY DEF Endpoints, Control, Opposite, EP0_IN, EP0_OUT
  <1>3. /\ r \in Device /\ Appended(d, r, x) /\ Stays(d, r) /\ r.stall = d.stall
        /\ r.buffer = d.buffer /\ r.held = d.held
        /\ r.trb[e] = "none" /\ \A y \in Endpoints \ {e} : r.trb[y] = d.trb[y]
        /\ x \in Completion /\ x.t = "complete" /\ x.e = e /\ ~x.old
    BY <1>1, <1>2, EndedFields, SMTT(90)
  <1>4. /\ r.st = d.st /\ r.three = d.three /\ r.first = d.first /\ r.ep = d.ep
        /\ r.ready = d.ready
    BY <1>3 DEF Stays
  <1> HIDE DEF r
  <1>5. /\ Shape(d) /\ d.ep[e].active /\ d.st # "idle" /\ BusyShape(d) /\ NoEnd(d)
        /\ ~d.ep[Opposite(e)].active /\ d.trb[Opposite(e)] = "none"
    BY <1>1, TrbRuns DEF ControlInv
  <1>6. ControlInv(r, g)
    <2>1. Shape(r)
      <3>1. \A y \in Control : r.trb[y] = "none" \/ r.trb[y] = d.trb[y]
        BY <1>3, EndpointNumbers
      <3>2. BusyShape(r)
        <4>1. Of(d.buffer.dir) \in Control
          BY DEF Of, Control
        <4>2. QED
          BY <1>3, <1>4, <1>5, <3>1, <4>1 DEF BusyShape
      <3>3. QED
        BY <1>4, <1>5, <3>2 DEF Shape
    <2>2. HostShape(r, g)
      BY <1>3 DEF HostShape, Asks
    <2>3. Asks(r, g) => e = Of(g.r.dir) /\ g.r.len # 0
      BY <1>3 DEF Asks
    <2>4. \A j \in 1 .. Len(d.ev) : IsPoll(d.ev[j]) => Harmless(r, d.ev[j], x)
      BY <1>4 DEF Harmless
    <2>5. ~r.first /\ r.st # "idle"
      BY <1>4, <1>5 DEF BusyShape
    <2>6. r.ep[e].active /\ ~r.ep[Opposite(e)].active /\ r.trb[Opposite(e)] = "none"
      BY <1>2, <1>3, <1>4, <1>5
    <2>7. QED
      BY <1>1, <1>3, <1>5, <2>1, <2>2, <2>3, <2>4, <2>5, <2>6, EndAppended
  <1>7. BulkInv(r, g)
    <2>1. OldIsQuiet(r)
      <3> DEFINE c == Len(d.ev) + 1
      <3>1. /\ Len(r.ev) = c /\ r.ev[c] = x
            /\ \A k \in 1 .. Len(d.ev) : r.ev[k] = d.ev[k]
            /\ \A k \in 1 .. c : k = c \/ k \in 1 .. Len(d.ev)
        BY <1>3 DEF Appended
      <3> HIDE DEF c, x
      <3>2. QED
        BY <1>1, <1>3, <1>4, <3>1 DEF BulkInv, OldIsQuiet
    <2>2. NoBulkEnd(d) => NoBulkEnd(r)
      BY <1>3, AppendedLater
    <2>3. ~SetupWaits(r)
      BY <1>4, <1>5 DEF SetupWaits
    <2>4. QED
      BY <1>1, <1>3, <2>1, <2>2, <2>3 DEF BulkInv
  <1>8. LateInv(r, g, l)
    <2>1. \A k \in 1 .. Len(d.ev) : d.ev[k].t # "disconnect"
      BY <1>1 DEF LateInv, HostIsGone
    <2>2. HostIsGone(r, g)
      <3> DEFINE c == Len(d.ev) + 1
      <3>1. /\ Len(r.ev) = c /\ r.ev[c] = x
            /\ \A k \in 1 .. Len(d.ev) : r.ev[k] = d.ev[k]
            /\ \A k \in 1 .. c : k = c \/ k \in 1 .. Len(d.ev)
        BY <1>3 DEF Appended
      <3> HIDE DEF c, x
      <3>2. \A k \in 1 .. c : r.ev[k].t # "disconnect"
        BY <1>3, <2>1, <3>1
      <3>3. QED
        BY <3>1, <3>2 DEF HostIsGone
    <2>3. QED
      BY <1>1, <1>4, <1>5, <2>2 DEF LateInv
  <1>9. Sound(r, g, l)
    BY <1>3, <1>6, <1>7, <1>8 DEF Sound
  <1>10. QED
    BY <1>9 DEF r

(* A SETUP packet is received.                                              *)
LEMMA SetupArrives ==
  ASSUME NEW d, NEW h, NEW l, Sound(d, h, l), NEW p \in Requests,
         d.trb[EP0_OUT] = "setup", p.req \in Resets => NoBulkEnd(d),
         \A j \in 1 .. Len(d.ev) : ~IsPoll(d.ev[j]) /\ d.ev[j].t # "disconnect",
         d.dev # "default" => ~Unanswered(d, h),
         NEW g, g.stage = FirstStage(p), g.r = p
  PROVE  Sound(Delivered(d, p), g, l)
  <1> DEFINE a == [d EXCEPT !.buffer = p, !.held = None, !.stall = FALSE]
             r == Ended(a, EP0_OUT, Packet)
             x == End(EP0_OUT)
  <1>1. d \in Device /\ ControlInv(d, h) /\ BulkInv(d, h) /\ LateInv(d, h, l)
    BY DEF Sound
  <1>2. /\ EP0_OUT \in Control /\ EP0_IN \in Control /\ EP0_OUT # EP0_IN
        /\ EP0_OUT \in Endpoints /\ EP0_IN \in Endpoints /\ Packet \in Int
        /\ Opposite(EP0_OUT) = EP0_IN /\ Control = {EP0_OUT, EP0_IN}
    BY DEF Control, Endpoints, Opposite, EP0_OUT, EP0_IN, Packet
  <1>3. /\ a \in Device /\ a.buffer = p /\ a.held = None /\ ~a.stall
        /\ a.st = d.st /\ a.three = d.three /\ a.first = d.first /\ a.dev = d.dev
        /\ a.addr = d.addr /\ a.ready = d.ready /\ a.ep = d.ep /\ a.trb = d.trb
        /\ a.ev = d.ev /\ a.asked = d.asked
    <2>1. p \in Packets /\ None \in Packets
      BY DEF Packets
    <2>2. QED
      BY <1>1, <2>1, ZenonT(90) DEF Device
  <1> HIDE DEF a
  <1>4. /\ r \in Device /\ Appended(a, r, x) /\ Stays(a, r) /\ r.stall = a.stall
        /\ r.buffer = a.buffer /\ r.held = a.held
        /\ r.trb[EP0_OUT] = "none" /\ \A y \in Endpoints \ {EP0_OUT} : r.trb[y] = a.trb[y]
        /\ x \in Completion /\ x.t = "complete" /\ x.e = EP0_OUT /\ ~x.old
    <2> HIDE DEF x
    <2>1. a \in Device /\ EP0_OUT \in Endpoints /\ Packet \in Int
      BY <1>2, <1>3
    <2>2. QED
      BY <2>1, EndedFields DEF x
  <1>5. Delivered(d, p) = r
    BY DEF Delivered, a
  <1> HIDE DEF r
  <1>6. /\ r.st = d.st /\ r.first = d.first /\ r.ep = d.ep /\ r.ready = d.ready
        /\ r.dev = d.dev /\ r.addr = d.addr /\ r.buffer = p /\ r.held = None /\ ~r.stall
        /\ Appended(d, r, x) /\ r.trb[EP0_IN] = d.trb[EP0_IN]
    BY <1>2, <1>3, <1>4 DEF Stays, Placed, Appended
  <1>7. /\ Shape(d) /\ d.ep[EP0_OUT].active /\ d.st = "idle" /\ ~d.first /\ NoEnd(d)
        /\ ~d.ep[EP0_IN].active /\ d.trb[EP0_IN] = "none"
    BY <1>1, <1>2, TrbRuns DEF ControlInv
  <1>8. g.stage # "none" /\ (g.stage = "data" => g.r.len # 0)
    BY DEF FirstStage
  <1>9. ControlInv(r, g)
    <2>1. Shape(r)
      BY <1>4, <1>6, <1>7 DEF Shape, IdleShape
    <2>2. HostShape(r, g)
      BY <1>6, <1>8 DEF HostShape, Asks
    <2>3. QED
      BY <1>1, <1>2, <1>4, <1>6, <1>7, <2>1, <2>2, EndAppended
  <1>10. BulkInv(r, g)
    <2>1. OldIsQuiet(r)
      <3> DEFINE c == Len(d.ev) + 1
      <3>1. /\ Len(r.ev) = c /\ r.ev[c] = x
            /\ \A k \in 1 .. Len(d.ev) : r.ev[k] = d.ev[k]
            /\ \A k \in 1 .. c : k = c \/ k \in 1 .. Len(d.ev)
        BY <1>6 DEF Appended
      <3> HIDE DEF c, x
      <3>2. QED
        BY <1>1, <1>4, <1>6, <3>1 DEF BulkInv, OldIsQuiet
    <2>2. NoBulkEnd(d) => NoBulkEnd(r)
      BY <1>2, <1>4, <1>6, AppendedLater
    <2>3. None.req \notin Resets
      BY DEF None, Resets
    <2>4. QED
      BY <1>6, <1>8, <2>1, <2>2, <2>3 DEF BulkInv, Asks
  <1>11. LateInv(r, g, l)
    <2>1. HostIsGone(r, g)
      <3> DEFINE c == Len(d.ev) + 1
      <3>1. /\ Len(r.ev) = c /\ r.ev[c] = x
            /\ \A k \in 1 .. Len(d.ev) : r.ev[k] = d.ev[k]
            /\ \A k \in 1 .. c : k = c \/ k \in 1 .. Len(d.ev)
        BY <1>6 DEF Appended
      <3> HIDE DEF c, x
      <3>2. \A k \in 1 .. c : r.ev[k].t # "disconnect"
        BY <1>4, <3>1
      <3>3. QED
        BY <3>1, <3>2 DEF HostIsGone
    <2>2. QED
      BY <1>1, <1>6, <1>7, <2>1 DEF LateInv, AfterReset
  <1>12. QED
    BY <1>4, <1>5, <1>9, <1>10, <1>11 DEF Sound

(* The host asks where no TRB is.                                           *)
Poll(e, stage) == Event("notready", e, stage)

(* A report may be raised that asks for the present stage, or for the one   *)
(* before a held SETUP.                                                     *)
LEMMA PollRaised ==
  ASSUME NEW d, NEW h, NEW l, Sound(d, h, l), NEW e \in Control,
         NEW stage \in {"data", "status"}, NEW q \in Questions, d.asked \subseteq q,
         \A j \in 1 .. Len(d.ev) : IsPoll(d.ev[j]) => ~Last(d, j),
         \A k \in 1 .. Len(d.ev) : IsEnd(d.ev[k]) => PollAfterEnd(d, Poll(e, stage), d.ev[k]),
         NoEnd(d) => IF stage = "status" THEN StatusPoll(d, e) ELSE DataPoll(d),
         Asks(d, h) => stage = h.stage /\ h.stage \in q /\ e = StageEnd(h.stage, h.r),
         d.held # None => /\ "old" \in q /\ NoEnd(d) /\ d.st \in Status
                          /\ \A y \in Control : ~d.ep[y].active,
         ~d.first
  PROVE  Sound(Raised([d EXCEPT !.asked = q], Poll(e, stage)), h, l)
  <1> DEFINE x == Poll(e, stage)
             a == [d EXCEPT !.asked = q]
             r == Raised(a, x)
             n == Len(d.ev) + 1
  <1>1. d \in Device /\ ControlInv(d, h) /\ BulkInv(d, h) /\ LateInv(d, h, l)
    BY DEF Sound
  <1>2. /\ x \in NotReady /\ x.e = e /\ x.stage = stage /\ x.t = "notready"
        /\ x \in Events
    BY DEF Poll, Event, NotReady, Events
  <1>3. /\ a \in Device /\ a.ev = d.ev /\ r = [a EXCEPT !.ev = Append(d.ev, x)]
    BY <1>1 DEF Device, Raised
  <1>28. /\ a.asked = q
        /\ a.st = d.st /\ a.three = d.three /\ a.first = d.first /\ a.dev = d.dev
        /\ a.addr = d.addr /\ a.ready = d.ready /\ a.ep = d.ep /\ a.trb = d.trb
        /\ a.stall = d.stall /\ a.buffer = d.buffer /\ a.held = d.held
    BY <1>1 DEF Device
  <1>4. ~IsEnd(x) /\ IsPoll(x)
    BY <1>2 DEF IsEnd, IsPoll
  <1> HIDE DEF x, a, r
  <1>5. Appended(d, [a EXCEPT !.ev = Append(d.ev, x)], x) /\ Append(d.ev, x) \in Buffer
    <2> DEFINE z == [a EXCEPT !.ev = Append(d.ev, x)]
    <2>1. z.ev = Append(d.ev, x)
      BY <1>3 DEF Device
    <2> HIDE DEF z
    <2>2. Appended(d, z, x) /\ z.ev \in Buffer
      BY <1>1, <1>2, <2>1, AppendedEvent
    <2>3. QED
      BY <2>1, <2>2 DEF z
  <1>6. /\ r \in Device /\ Appended(d, r, x) /\ r.asked = q
        /\ r.st = d.st /\ r.three = d.three /\ r.first = d.first /\ r.dev = d.dev
        /\ r.addr = d.addr /\ r.ready = d.ready /\ r.ep = d.ep /\ r.trb = d.trb
        /\ r.stall = d.stall /\ r.buffer = d.buffer /\ r.held = d.held
    <2>1. r \in Device
      BY <1>3, <1>5 DEF Device
    <2>2. Appended(d, r, x)
      BY <1>3, <1>5
    <2>3. QED
      BY <1>3, <2>1, <2>2, <1>28 DEF Device
  <1>7. /\ Len(d.ev) \in Nat /\ Len(r.ev) = n /\ r.ev[n] = x /\ n \in 1 .. n
        /\ \A k \in 1 .. Len(d.ev) : r.ev[k] = d.ev[k] /\ k \in 1 .. n /\ k < n
        /\ \A k \in 1 .. n : k = n \/ (k \in 1 .. Len(d.ev) /\ k < n)
    BY <1>6 DEF Appended
  <1> HIDE DEF n
  <1>8. /\ NoEnd(r) <=> NoEnd(d)
        /\ ResetWaits(d, 1) => ResetWaits(r, 1)
        /\ NoBulkEnd(d) => NoBulkEnd(r)
    BY <1>2, <1>4, <1>6, AppendedLater
  <1>9. HostIsGone(d, h) => HostIsGone(r, h)
    BY <1>2, <1>4, <1>6, AppendedLater
  <1>10. \A k \in 1 .. n : IsEnd(r.ev[k]) => k \in 1 .. Len(d.ev) /\ IsEnd(d.ev[k])
    BY <1>4, <1>7
  <1>11. EndsAreOwn(r) /\ EndIsSingle(r)
    BY <1>1, <1>6, <1>7, <1>10 DEF ControlInv, EndsAreOwn, EndIsSingle
  <1>12. ActiveHasTrb(r)
    <2>1. ASSUME NEW y \in Control, r.ep[y].active, r.trb[y] = "none"
          PROVE  \E k \in 1 .. n : IsEnd(r.ev[k]) /\ r.ev[k].e = y
      <3>1. PICK k \in 1 .. Len(d.ev) : IsEnd(d.ev[k]) /\ d.ev[k].e = y
        BY <1>1, <1>6, <2>1 DEF ControlInv, ActiveHasTrb
      <3>2. k \in 1 .. n /\ r.ev[k] = d.ev[k]
        BY <1>7, <3>1
      <3>3. QED
        BY <3>1, <3>2
    <2>2. QED
      BY <1>1, <1>6, <1>7, <2>1 DEF ControlInv, ActiveHasTrb
  <1>13. Shape(r)
    BY <1>1, <1>6 DEF ControlInv, Shape, IdleShape, BusyShape
  <1>14. PollsInFront(r)
    <2>1. ASSUME NEW j \in 1 .. n, NEW k \in 1 .. n, IsPoll(r.ev[j]), IsEnd(r.ev[k]), j < k
          PROVE  Harmless(r, r.ev[j], r.ev[k])
      <3>1. k \in 1 .. Len(d.ev) /\ IsEnd(d.ev[k]) /\ r.ev[k] = d.ev[k]
        BY <1>7, <1>10, <2>1
      <3>2. j \in 1 .. Len(d.ev) /\ r.ev[j] = d.ev[j]
        BY <1>7, <2>1, <3>1
      <3>3. IsPoll(d.ev[j])
        BY <2>1, <3>2
      <3>4. Harmless(d, d.ev[j], d.ev[k])
        BY <1>1, <2>1, <3>1, <3>2, <3>3 DEF ControlInv, PollsInFront
      <3>5. QED
        BY <1>6, <3>1, <3>2, <3>4 DEF Harmless
    <2>2. QED
      BY <1>7, <2>1 DEF PollsInFront
  <1>15. PollsApart(r)
    <2>1. ASSUME NEW i \in 1 .. n, NEW j \in 1 .. n, IsPoll(r.ev[i]), IsPoll(r.ev[j]), i < j
          PROVE  \E k \in i .. j : IsEnd(r.ev[k])
      <3>1. i \in 1 .. Len(d.ev) /\ r.ev[i] = d.ev[i]
        BY <1>7, <2>1
      <3>2. IsPoll(d.ev[i])
        BY <2>1, <3>1
      <3>3. CASE j = n
        <4>1. PICK k \in i .. Len(d.ev) : IsEnd(d.ev[k])
          BY <3>1, <3>2 DEF Last
        <4>2. k \in 1 .. Len(d.ev)
          BY <3>1, <4>1
        <4>3. r.ev[k] = d.ev[k] /\ k < n
          BY <1>7, <4>2
        <4>4. k \in i .. j
          BY <3>3, <4>1, <4>3, <1>7
        <4>5. QED
          BY <4>1, <4>3, <4>4
      <3>4. CASE j # n
        <4>1. j \in 1 .. Len(d.ev) /\ r.ev[j] = d.ev[j]
          BY <1>7, <3>4
        <4>2. IsPoll(d.ev[j])
          BY <2>1, <4>1
        <4>3. PICK k \in i .. j : IsEnd(d.ev[k])
          BY <1>1, <2>1, <3>1, <3>2, <4>1, <4>2 DEF ControlInv, PollsApart
        <4>4. k \in 1 .. Len(d.ev)
          BY <1>7, <3>1, <4>1, <4>3
        <4>5. r.ev[k] = d.ev[k]
          BY <1>7, <4>4
        <4>6. QED
          BY <4>3, <4>5
      <3>5. QED
        BY <3>3, <3>4
    <2>2. QED
      BY <1>7, <2>1 DEF PollsApart
  <1>16. PollsBehind(r)
    <2>1. ASSUME NEW j \in 1 .. n, NEW k \in 1 .. n, IsPoll(r.ev[j]), IsEnd(r.ev[k]), k < j
          PROVE  PollAfterEnd(r, r.ev[j], r.ev[k])
      <3>1. k \in 1 .. Len(d.ev) /\ IsEnd(d.ev[k]) /\ r.ev[k] = d.ev[k]
        BY <1>7, <1>10, <2>1
      <3>2. CASE j = n
        <4>1. PollAfterEnd(d, x, d.ev[k])
          BY <3>1 DEF x
        <4>2. QED
          BY <1>6, <1>7, <3>1, <3>2, <4>1 DEF PollAfterEnd
      <3>3. CASE j # n
        <4>1. j \in 1 .. Len(d.ev) /\ r.ev[j] = d.ev[j]
          BY <1>7, <3>3
        <4>2. IsPoll(d.ev[j])
          BY <2>1, <4>1
        <4>3. PollAfterEnd(d, d.ev[j], d.ev[k])
          BY <1>1, <2>1, <3>1, <4>1, <4>2 DEF ControlInv, PollsBehind
        <4>4. QED
          BY <1>6, <3>1, <4>1, <4>3 DEF PollAfterEnd
      <3>4. QED
        BY <3>2, <3>3
    <2>2. QED
      BY <1>7, <2>1 DEF PollsBehind
  <1>17. ASSUME NEW j \in 1 .. Len(d.ev), IsPoll(d.ev[j]), NoEnd(d)
         PROVE  FALSE
    <2>1. PICK k \in j .. Len(d.ev) : IsEnd(d.ev[k])
      BY <1>17 DEF Last
    <2>2. k \in 1 .. Len(d.ev)
      BY <1>7, <1>17, <2>1
    <2>3. QED
      BY <1>17, <2>1, <2>2 DEF NoEnd
  <1>18. PollsAlone(r)
    <2>1. ASSUME NoEnd(r), NEW j \in 1 .. n, IsPoll(r.ev[j])
          PROVE  IF r.ev[j].stage = "status" THEN StatusPoll(r, r.ev[j].e) ELSE DataPoll(r)
      <3>1. NoEnd(d)
        BY <1>8, <2>1
      <3>2. CASE j = n
        <4>1. IF stage = "status" THEN StatusPoll(d, e) ELSE DataPoll(d)
          BY <3>1
        <4>2. r.ev[j].stage = stage /\ r.ev[j].e = e
          BY <1>2, <1>7, <3>2
        <4>3. IF stage = "status" THEN StatusPoll(r, e) ELSE DataPoll(r)
          BY <1>6, <4>1 DEF StatusPoll, DataPoll
        <4>4. QED
          BY <4>2, <4>3
      <3>3. CASE j # n
        <4>1. j \in 1 .. Len(d.ev) /\ r.ev[j] = d.ev[j]
          BY <1>7, <3>3
        <4>2. IsPoll(d.ev[j])
          BY <2>1, <4>1
        <4>3. QED
          BY <1>17, <3>1, <4>1, <4>2
      <3>4. QED
        BY <3>2, <3>3
    <2>2. QED
      BY <1>7, <2>1 DEF PollsAlone
  <1>19. HostShape(r, h)
    BY <1>1, <1>6 DEF ControlInv, HostShape, Asks
  <1>20. HostAndEnd(r, h)
    BY <1>1, <1>6, <1>7, <1>10 DEF ControlInv, HostAndEnd, Asks
  <1>21. HostAlone(r, h)
    BY <1>1, <1>6, <1>8 DEF ControlInv, HostAlone, Asks, DataPoll
  <1>22. HostPolled(r, h)
    <2>1. ASSUME NEW j \in 1 .. n, IsPoll(r.ev[j]), Last(r, j)
          PROVE  /\ Asks(r, h) => /\ r.ev[j].stage = h.stage /\ h.stage \in r.asked
                                  /\ r.ev[j].e = StageEnd(h.stage, h.r)
                 /\ r.held # None => /\ "old" \in r.asked /\ NoEnd(r) /\ r.st \in Status
                                     /\ \A y \in Control : ~r.ep[y].active
      <3>1. CASE j = n
        <4>1. r.ev[j].stage = stage /\ r.ev[j].e = e
          BY <1>2, <1>7, <3>1
        <4>2. Asks(r, h) => Asks(d, h)
          BY <1>6 DEF Asks
        <4>3. QED
          BY <1>6, <1>8, <4>1, <4>2
      <3>2. CASE j # n
        <4>1. j \in 1 .. Len(d.ev) /\ r.ev[j] = d.ev[j]
          BY <1>7, <3>2
        <4>2. IsPoll(d.ev[j])
          BY <2>1, <4>1
        <4>3. PICK k \in j .. Len(d.ev) : IsEnd(d.ev[k])
          BY <4>1, <4>2 DEF Last
        <4>4. k \in 1 .. Len(d.ev)
          BY <1>7, <4>1, <4>3
        <4>5. k \in j .. n /\ r.ev[k] = d.ev[k]
          BY <1>7, <4>3, <4>4
        <4>6. QED
          BY <1>7, <2>1, <4>3, <4>5 DEF Last
      <3>3. QED
        BY <3>1, <3>2
    <2>2. QED
      BY <1>7, <2>1 DEF HostPolled
  <1>23. ControlInv(r, h)
    BY <1>6, <1>11, <1>12, <1>13, <1>14, <1>15, <1>16, <1>18, <1>19, <1>20, <1>21, <1>22
       DEF ControlInv, FirstShape
  <1>24. BulkInv(r, h)
    <2>1. OldIsQuiet(r)
      BY <1>1, <1>2, <1>6, <1>7 DEF BulkInv, OldIsQuiet
    <2>2. SetupWaits(r) => SetupWaits(d)
      BY <1>6, <1>8 DEF SetupWaits
    <2>3. QED
      BY <1>1, <1>6, <1>8, <2>1, <2>2 DEF BulkInv, Asks
  <1>25. LateInv(r, h, l)
    BY <1>1, <1>6, <1>8, <1>9 DEF LateInv, AfterReset, Unanswered
  <1>26. Sound(r, h, l)
    BY <1>6, <1>23, <1>24, <1>25 DEF Sound
  <1>27. QED
    BY <1>26 DEF r, a, x

(* A SETUP packet is held: the last transfer still awaits its end.          *)
LEMMA SetupHeld ==
  ASSUME NEW d, NEW h, NEW l, Sound(d, h, l), NEW p \in Requests, d.ev = <<>>, h.here,
         NEW g, g.stage = FirstStage(p), g.r = p
  PROVE  Sound([d EXCEPT !.stall = FALSE, !.asked = {}, !.held = p], g, l)
  <1> DEFINE r == [d EXCEPT !.stall = FALSE, !.asked = {}, !.held = p]
  <1>1. d \in Device /\ ControlInv(d, h) /\ BulkInv(d, h) /\ LateInv(d, h, l)
    BY DEF Sound
  <1>2. /\ r \in Device /\ r.held = p /\ ~r.stall /\ r.dev = d.dev /\ r.addr = d.addr
        /\ r.ready = d.ready /\ Unmoved(d, r)
    <2>1. p \in Packets /\ {} \in Questions
      BY DEF Packets, Questions
    <2>2. r \in Device
      BY <1>1, <2>1, ZenonT(90) DEF Device
    <2>3. QED
      BY <1>1, <2>2, SMTT(60) DEF Device, Unmoved
  <1> HIDE DEF r
  <1>3. Len(d.ev) = 0 /\ r.ev = <<>> /\ Len(r.ev) = 0
    BY <1>2 DEF Unmoved
  <1>4. p # None
    BY UsbAssumption
  <1>5. /\ r.st = d.st /\ r.first = d.first /\ r.ep = d.ep
    BY <1>2 DEF Unmoved
  <1>6. ~d.first
    BY <1>1, <1>3 DEF ControlInv, FirstShape
  <1>7. DeviceParts(r)
    BY <1>1, <1>2, UnmovedParts
  <1>8. g.stage \in {"status", "data"} /\ (g.stage = "data" => p.len # 0)
    BY DEF FirstStage
  <1>9. ControlInv(r, g)
    <2>1. ~Asks(r, g)
      BY <1>2, <1>4 DEF Asks
    <2>2. HostShape(r, g)
      BY <1>2, <1>4, <1>8, <2>1 DEF HostShape
    <2>3. HostAndEnd(r, g) /\ HostAlone(r, g)
      BY <2>1 DEF HostAndEnd, HostAlone
    <2>4. HostPolled(r, g) /\ FirstShape(r, g)
      BY <1>3, <1>5, <1>6 DEF HostPolled, FirstShape
    <2>5. QED
      BY <1>7, <2>2, <2>3, <2>4 DEF ControlInv, DeviceParts
  <1>10. BulkInv(r, g)
    BY <1>3 DEF BulkInv, OldIsQuiet, NoBulkEnd, SetupWaits, NoEnd
  <1>11. LateInv(r, g, l)
    <2>1. HostIsGone(r, g)
      BY <1>3 DEF HostIsGone
    <2>2. ~ResetWaits(d, 1)
      BY <1>3 DEF ResetWaits
    <2>3. AfterReset(d, h) => AfterReset(r, g)
      BY <1>2, <1>5, <2>2 DEF AfterReset, Unanswered
    <2>4. QED
      BY <1>1, <1>2, <1>5, <2>1, <2>3 DEF LateInv
  <1>12. Sound(r, g, l)
    BY <1>2, <1>9, <1>10, <1>11 DEF Sound
  <1>13. QED
    BY <1>12 DEF r

-----------------------------------------------------------------------------
(* The invariant is kept by every step.  First the controller.              *)
LEMMA HostReads ==
  ASSUME IInv
  PROVE  /\ u \in Device /\ ControlInv(u, host) /\ BulkInv(u, host) /\ LateInv(u, host, late)
         /\ host \in HostType /\ late \in BOOLEAN /\ ~wrong /\ Sound(u, host, late)
         /\ host.r \in Packets /\ host.left \in Int /\ host.stage \in {"none", "data", "status"}
         /\ host.stage # "none" => host.r \in Requests
         /\ u.held # None => u.held = host.r /\ host.stage = FirstStage(host.r)
                             /\ u.held \in Requests
         /\ Len(u.ev) \in Nat /\ DOMAIN u.ev = 1 .. Len(u.ev)
         /\ None.req \notin Resets /\ None \notin Requests
  <1>1. /\ u \in Device /\ ControlInv(u, host) /\ BulkInv(u, host) /\ LateInv(u, host, late)
        /\ host \in HostType /\ late \in BOOLEAN /\ ~wrong /\ Sound(u, host, late)
    BY DEF IInv, Sound
  <1>2. host.r \in Packets /\ host.left \in Int /\ host.stage \in {"none", "data", "status"}
    BY <1>1 DEF HostType
  <1>3. HostShape(u, host)
    BY <1>1 DEF ControlInv
  <1>4. FirstStage(host.r) # "none"
    BY DEF FirstStage
  <1>5. u.ev \in Seq(Events)
    BY <1>1 DEF Device, Buffer
  <1>6. Len(u.ev) \in Nat /\ DOMAIN u.ev = 1 .. Len(u.ev)
    BY <1>5, LenProperties
  <1>7. None.req \notin Resets /\ None \notin Requests
    BY UsbAssumption DEF None, Resets
  <1>8. QED
    BY <1>1, <1>2, <1>3, <1>4, <1>6, <1>7 DEF HostShape

(* Where a SETUP packet is held no report waits in front of its delivery,   *)
(* and none where a transfer of the last one comes to its end.              *)
LEMMA DeliverHeldKeeps ==
  ASSUME IInv, DeliverHeld
  PROVE  IInv'
  <1>1. /\ Sound(u, host, late) /\ ControlInv(u, host) /\ BulkInv(u, host)
        /\ u.held # None /\ u.held = host.r /\ u.held \in Requests
        /\ host.stage = FirstStage(host.r) /\ LateInv(u, host, late) /\ u \in Device
    BY HostReads DEF DeliverHeld
  <1>2. u.trb[EP0_OUT] = "setup" /\ u' = Delivered(u, u.held)
        /\ UNCHANGED <<host, late, wrong, upsets>>
    BY DEF DeliverHeld
  <1>3. u.st = "idle" /\ NoEnd(u)
    <2>1. EP0_OUT \in Control
      BY DEF Control
    <2>2. QED
      BY <1>1, <1>2, <2>1, TrbRuns
  <1>4. host.stage # "none"
    BY <1>1 DEF FirstStage
  <1>5. ASSUME NEW j \in 1 .. Len(u.ev)
        PROVE  ~IsPoll(u.ev[j]) /\ u.ev[j].t # "disconnect"
    <2>1. Last(u, j)
      BY <1>3 DEF NoEnd, Last
    <2>2. ~IsPoll(u.ev[j])
      BY <1>1, <1>3, <2>1 DEF ControlInv, HostPolled, Status
    <2>3. QED
      BY <1>1, <1>4, <2>2 DEF LateInv, HostIsGone
  <1>6. ~Unanswered(u, host)
    BY <1>4 DEF Unanswered
  <1>7. u.held.req \in Resets => NoBulkEnd(u)
    BY <1>1 DEF BulkInv
  <1>8. Sound(Delivered(u, u.held), host, late)
    BY <1>1, <1>2, <1>5, <1>6, <1>7, SetupArrives
  <1>9. QED
    BY <1>2, <1>8 DEF IInv

(* The controller ends the transfer that a held SETUP waits for.            *)
LEMMA CompleteHeldKeeps ==
  ASSUME IInv, CompleteHeld
  PROVE  IInv'
  <1>1. /\ Sound(u, host, late) /\ ControlInv(u, host) /\ u.held # None
        /\ host.stage = FirstStage(host.r) /\ u \in Device
    BY HostReads DEF CompleteHeld
  <1>2. PICK e \in Control : u.trb[e] \in {"data", "normal", "status"} /\ u' = Ended(u, e, 0)
    BY DEF CompleteHeld
  <1>3. UNCHANGED <<host, late, wrong, upsets>>
    BY DEF CompleteHeld
  <1>4. u.ep[e].active /\ NoEnd(u)
    BY <1>1, <1>2, TrbRuns
  <1>5. ASSUME NEW j \in 1 .. Len(u.ev), IsPoll(u.ev[j])
        PROVE  FALSE
    <2>1. Last(u, j)
      BY <1>4, <1>5 DEF NoEnd, Last
    <2>2. QED
      BY <1>1, <1>2, <1>4, <1>5, <2>1 DEF ControlInv, HostPolled
  <1>6. host.stage # "none" /\ HostShape(u, host) /\ ~Asks(u, host) /\ 0 \in Int
    BY <1>1 DEF FirstStage, ControlInv, Asks
  <1>7. Sound(Ended(u, e, 0), host, late)
    BY <1>1, <1>2, <1>5, <1>6, StageEnds
  <1>8. QED
    BY <1>2, <1>3, <1>7 DEF IInv

(* The controller still asks for the status stage that was given up.        *)
LEMMA OldNotReadyKeeps ==
  ASSUME IInv, OldNotReady
  PROVE  IInv'
  <1> DEFINE dir == IF u.st = "statusin" THEN "in" ELSE "out"
             e == Of(dir)
             q == u.asked \cup {"old"}
  <1>1. /\ Sound(u, host, late) /\ ControlInv(u, host) /\ u.held # None /\ u \in Device
        /\ DOMAIN u.ev = 1 .. Len(u.ev)
    BY HostReads DEF OldNotReady
  <1>2. /\ u.st \in Status /\ u.trb[e] = "none" /\ ~Waiting(e) /\ "old" \notin u.asked
        /\ u' = Raised([u EXCEPT !.asked = q], Poll(e, "status"))
        /\ UNCHANGED <<host, late, wrong, upsets>>
    BY DEF OldNotReady, Status, Poll
  <1>3. /\ e = IF u.st = "statusin" THEN EP0_IN ELSE EP0_OUT
        /\ e \in Control
    BY DEF Of, Control
  <1>4. Shape(u)
    BY <1>1 DEF ControlInv
  <1>5. BusyShape(u)
    BY <1>2, <1>4 DEF Shape, Status
  <1>6. \A y \in Control : ~u.ep[y].active
    <2>1. ~u.ep[e].active
      BY <1>1, <1>2, <1>3 DEF ControlInv, ActiveHasTrb, Waiting, IsEnd
    <2>2. u.st = "statusin" => ~u.ep[EP0_OUT].active
      BY <1>5 DEF BusyShape
    <2>3. u.st = "statusout" => ~u.ep[EP0_IN].active
      BY <1>5 DEF BusyShape
    <2>4. QED
      BY <1>2, <1>3, <2>1, <2>2, <2>3 DEF Control, Status
  <1>7. NoEnd(u)
    BY <1>1, <1>6 DEF NoEnd, ControlInv, EndsAreOwn, IsEnd
  <1>8. ASSUME NEW j \in 1 .. Len(u.ev), IsPoll(u.ev[j])
        PROVE  FALSE
    <2>1. Last(u, j)
      BY <1>7, <1>8 DEF NoEnd, Last
    <2>2. QED
      BY <1>1, <1>2, <1>8, <2>1 DEF ControlInv, HostPolled
  <1>9. StatusPoll(u, e)
    <2>1. ~u.ep[Opposite(e)].active
      BY <1>3, <1>6, EndpointNumbers
    <2>2. QED
      BY <1>2, <1>3, <2>1 DEF StatusPoll, Status
  <1>10. q \in Questions /\ u.asked \subseteq q /\ "old" \in q
    <2>1. u.asked \in Questions
      BY <1>1 DEF Device
    <2>2. QED
      BY <2>1 DEF Questions
  <1>11. ~u.first /\ ~Asks(u, host)
    BY <1>1, <1>5 DEF BusyShape, Asks
  <1> HIDE DEF e, q
  <1>12. Sound(Raised([u EXCEPT !.asked = q], Poll(e, "status")), host, late)
    BY <1>1, <1>2, <1>3, <1>6, <1>7, <1>8, <1>9, <1>10, <1>11, PollRaised DEF NoEnd
  <1>13. QED
    BY <1>1, <1>2, <1>12 DEF IInv

(* The host.                                                                *)
LEMMA HostDataKeeps ==
  ASSUME IInv, HostData
  PROVE  IInv'
  <1> DEFINE e == Of(host.r.dir)
             n == Least(u.ep[e].len, host.left)
  <1>1. /\ Sound(u, host, late) /\ ControlInv(u, host) /\ u \in Device /\ host \in HostType
        /\ host.r \in Packets /\ host.left \in Int
    BY HostReads
  <1>2. /\ Asks(u, host) /\ host.stage = "data" /\ u.trb[e] \in {"data", "normal"}
        /\ u' = Ended(u, e, n) /\ UNCHANGED <<late, wrong, upsets>>
    BY DEF HostData, Answering, Asks
  <1>18. PICK v \in {"data", "status"} :
          host' = [host EXCEPT !.left = host.left - n, !.stage = v]
    BY DEF HostData
  <1>3. e \in Control /\ e \in Endpoints
    BY DEF Of, Control, Endpoints
  <1>4. n \in Int
    <2>1. u.ep[e].len \in Int
      BY <1>1, <1>3 DEF Device, EndpointTable, Endpoint
    <2>2. QED
      BY <1>1, <2>1 DEF Least
  <1> HIDE DEF n
  <1>5. host' \in HostType /\ host'.r = host.r /\ host'.stage = v /\ host.r.len # 0
    <2>1. HostShape(u, host)
      BY <1>1 DEF ControlInv
    <2>2. host.left - n \in Int
      BY <1>1, <1>4
    <2>3. QED
      BY <1>1, <1>2, <1>18, <2>1, <2>2 DEF HostType, HostShape
  <1>6. u.buffer = host.r /\ u.held = None /\ host.r \in Requests
    BY <1>1, <1>2 DEF ControlInv, HostShape, Asks
  <1>7. host.r.dir = Dir(e)
    BY <1>1, <1>3, Directions
  <1>8. NoEnd(u) /\ BusyShape(u)
    BY <1>1, <1>2, <1>3, TrbRuns
  <1>9. u.st = DataState(host.r.dir) /\ u.three
    BY <1>2, <1>5, <1>6, <1>8 DEF BusyShape
  <1>10. ASSUME NEW j \in 1 .. Len(u.ev), IsPoll(u.ev[j])
         PROVE  Harmless(u, u.ev[j], End(e))
    <2>1. Last(u, j)
      BY <1>8, <1>10 DEF NoEnd, Last
    <2>2. u.ev[j].stage = "data" /\ u.ev[j].e = StageEnd("data", host.r)
      BY <1>1, <1>2, <1>10, <2>1 DEF ControlInv, HostPolled
    <2>3. u.ev[j].e = e
      BY <2>2 DEF StageEnd
    <2>4. End(e).e = e
      BY DEF End, Event
    <2>5. QED
      BY <1>7, <1>9, <2>2, <2>3, <2>4 DEF Harmless
  <1>11. HostShape(u, host')
    BY <1>2, <1>5, <1>6 DEF HostShape, Asks
  <1>12. host.stage # "none" /\ u.trb[e] \in {"data", "normal", "status"}
    BY <1>2
  <1>13. Sound(Ended(u, e, n), host', late)
    <2> DEFINE g == host'
    <2>1. e = Of(g.r.dir) /\ g.r.len # 0
      BY <1>5
    <2>2. HostShape(u, g)
      BY <1>11
    <2> HIDE DEF g, e
    <2>3. Sound(Ended(u, e, n), g, late)
      BY <1>1, <1>3, <1>4, <1>10, <1>12, <2>1, <2>2, StageEnds
    <2>4. QED
      BY <2>3 DEF g
  <1>14. QED
    BY <1>2, <1>5, <1>13, HostReads DEF IInv

(* The host ends the status stage.                                          *)
LEMMA HostStatusKeeps ==
  ASSUME IInv, HostStatus
  PROVE  IInv'
  <1> DEFINE e == Of(StatusDir(host.r))
             p == host.pipes \/ host.r.req = "SET_CONFIGURATION"
  <1>1. /\ Sound(u, host, late) /\ ControlInv(u, host) /\ u \in Device /\ host \in HostType
    BY HostReads
  <1>2. /\ Asks(u, host) /\ host.stage = "status" /\ u.trb[e] = "status"
        /\ u' = Ended(u, e, 0) /\ UNCHANGED <<late, wrong, upsets>>
        /\ host' = [host EXCEPT !.stage = "none", !.r = None, !.left = 0, !.pipes = p]
    BY DEF HostStatus, Answering, Asks
  <1>3. e \in Control /\ 0 \in Int
    BY DEF Of, Control
  <1>4. host' \in HostType /\ host'.stage = "none" /\ host'.r = None
    <2>1. p \in BOOLEAN
      <3>1. host.pipes \in BOOLEAN
        BY <1>1 DEF HostType
      <3>2. QED
        BY <3>1, Zenon
    <2>3. None \in Packets /\ 0 \in Int
      BY DEF Packets
    <2> HIDE DEF p
    <2>2. QED
      BY <1>1, <1>2, <2>1, <2>3 DEF HostType
  <1>5. NoEnd(u)
    BY <1>1, <1>2, <1>3, TrbRuns
  <1>6. ASSUME NEW j \in 1 .. Len(u.ev), IsPoll(u.ev[j])
        PROVE  FALSE
    <2>1. Last(u, j)
      BY <1>5, <1>6 DEF NoEnd, Last
    <2>2. u.ev[j].stage = "status" /\ u.ev[j].e = StageEnd("status", host.r)
      BY <1>1, <1>2, <1>6, <2>1 DEF ControlInv, HostPolled
    <2>3. u.ev[j].e = e
      BY <2>2 DEF StageEnd
    <2>4. StatusPoll(u, e)
      BY <1>1, <1>5, <1>6, <2>2, <2>3 DEF ControlInv, PollsAlone
    <2>5. QED
      BY <1>2, <2>4 DEF StatusPoll
  <1>7. u.held = None
    BY <1>2 DEF Asks
  <1>8. Sound(Ended(u, e, 0), host', late)
    <2> DEFINE g == host'
    <2>1. HostShape(u, g) /\ ~Asks(u, g)
      BY <1>4, <1>7 DEF HostShape, Asks
    <2> HIDE DEF g, e
    <2>2. host.stage # "none" /\ u.trb[e] \in {"data", "normal", "status"}
      BY <1>2
    <2>3. Sound(Ended(u, e, 0), g, late)
      BY <1>1, <1>3, <1>6, <2>1, <2>2, StageEnds
    <2>4. QED
      BY <2>3 DEF g
  <1>9. QED
    BY <1>2, <1>4, <1>8, HostReads DEF IInv

(* The host finds the control endpoint stalled.                             *)
LEMMA HostStalledKeeps ==
  ASSUME IInv, HostStalled
  PROVE  IInv'
  <1>1. /\ Sound(u, host, late) /\ ControlInv(u, host) /\ BulkInv(u, host)
        /\ u \in Device /\ host \in HostType
    BY HostReads
  <1>2. /\ Asks(u, host) /\ u.stall /\ UNCHANGED <<u, late, wrong, upsets>>
        /\ host' = [host EXCEPT !.stage = "none", !.r = None, !.left = 0]
    BY DEF HostStalled, Answering, Asks
  <1>3. /\ host' \in HostType /\ host'.stage = "none" /\ host'.r = None
        /\ host'.here = host.here
    <2>1. None \in Packets /\ 0 \in Int
      BY DEF Packets
    <2>2. QED
      BY <1>1, <1>2, <2>1 DEF HostType
  <1>4. ~SetupWaits(u) /\ u.held = None
    BY <1>1, <1>2 DEF BulkInv, Asks
  <1>5. Unmoved(u, u) /\ Placed(u, u)
    BY <1>1 DEF Unmoved, Placed
  <1>6. Sound(u, host', late)
    BY <1>1, <1>3, <1>4, <1>5, HostLeaves
  <1>7. QED
    BY <1>2, <1>3, <1>6, HostReads DEF IInv

(* The host asks where no TRB is.                                           *)
LEMMA HostPollsKeeps ==
  ASSUME IInv, HostPolls
  PROVE  IInv'
  <1> DEFINE e == Of(IF host.stage = "data" THEN host.r.dir ELSE StatusDir(host.r))
             q == u.asked \cup {host.stage}
  <1>1. /\ Sound(u, host, late) /\ ControlInv(u, host) /\ u \in Device
        /\ host.stage \in {"none", "data", "status"}
    BY HostReads
  <1>2. /\ Asks(u, host) /\ host.stage # "none" /\ u.held = None
        /\ u.trb[e] = "none" /\ host.stage \notin u.asked
        /\ u' = Raised([u EXCEPT !.asked = q], Poll(e, host.stage))
        /\ UNCHANGED <<host, late, wrong, upsets>>
    BY DEF HostPolls, Answering, Asks, Poll
  <1>3. e = StageEnd(host.stage, host.r) /\ e \in Control
    BY DEF StageEnd, Of, Control
  <1>4. u.buffer = host.r
    BY <1>1, <1>2 DEF ControlInv, HostShape
  <1>5. ASSUME NEW j \in 1 .. Len(u.ev), IsPoll(u.ev[j])
        PROVE  ~Last(u, j)
    BY <1>1, <1>2, <1>5 DEF ControlInv, HostPolled
  <1>6. Poll(e, host.stage).stage = host.stage /\ Poll(e, host.stage).e = e
    BY DEF Poll, Event
  <1>7. ASSUME NEW k \in 1 .. Len(u.ev), IsEnd(u.ev[k])
        PROVE  PollAfterEnd(u, Poll(e, host.stage), u.ev[k])
    BY <1>1, <1>2, <1>3, <1>4, <1>6, <1>7 DEF ControlInv, HostAndEnd, PollAfterEnd
  <1>8. ASSUME NoEnd(u)
        PROVE  IF host.stage = "status" THEN StatusPoll(u, e) ELSE DataPoll(u)
    <2>1. CASE host.stage = "status"
      <3>1. e = Of(StatusDir(host.r))
        BY <2>1
      <3>2. /\ u.st # "idle" /\ u.ep[Opposite(e)].active => u.three /\ u.ep[Opposite(e)].left > 0
            /\ u.st = "statusin" => e = EP0_IN
            /\ u.st = "statusout" => e = EP0_OUT
        BY <1>1, <1>2, <1>8, <2>1, <3>1 DEF ControlInv, HostAlone
      <3>3. QED
        BY <1>2, <2>1, <3>2 DEF StatusPoll
    <2>2. CASE host.stage # "status"
      BY <1>1, <1>2, <1>8, <2>2 DEF ControlInv, HostAlone
    <2>3. QED
      BY <2>1, <2>2
  <1>9. ~u.first
    BY <1>1, <1>2 DEF ControlInv, FirstShape
  <1>10. q \in Questions /\ u.asked \subseteq q /\ host.stage \in q
    <2>1. u.asked \in Questions
      BY <1>1 DEF Device
    <2>2. QED
      BY <1>1, <1>2, <2>1 DEF Questions
  <1> HIDE DEF e, q
  <1>11. Sound(Raised([u EXCEPT !.asked = q], Poll(e, host.stage)), host, late)
    <2> DEFINE stage == host.stage
    <2>1. /\ stage \in {"data", "status"}
          /\ \A k \in 1 .. Len(u.ev) : IsEnd(u.ev[k]) => PollAfterEnd(u, Poll(e, stage), u.ev[k])
          /\ NoEnd(u) => IF stage = "status" THEN StatusPoll(u, e) ELSE DataPoll(u)
          /\ stage = host.stage /\ host.stage \in q /\ e = StageEnd(host.stage, host.r)
      BY <1>1, <1>2, <1>3, <1>7, <1>8, <1>10
    <2> HIDE DEF stage
    <2>2. Sound(Raised([u EXCEPT !.asked = q], Poll(e, stage)), host, late)
      BY <1>1, <1>2, <1>3, <1>5, <1>9, <1>10, <2>1, PollRaised
    <2>3. QED
      BY <2>2 DEF stage
  <1>12. QED
    BY <1>2, <1>11, HostReads DEF IInv

(* The host sends a SETUP; it is delivered or held.                         *)
LEMMA HostSetupKeeps ==
  ASSUME IInv, ~Hasty, NEW p \in Requests, HostSetup(p)
  PROVE  IInv'
  <1>1. /\ Sound(u, host, late) /\ ControlInv(u, host) /\ u \in Device /\ host \in HostType
    BY HostReads
  <1>2. /\ host.here /\ u.ev = <<>> /\ UNCHANGED <<late, wrong>>
        /\ host' = [host EXCEPT !.stage = FirstStage(p), !.r = p, !.left = p.len]
        /\ u' = IF u.trb[EP0_OUT] = "setup" THEN Delivered(u, p)
                ELSE [[u EXCEPT !.stall = FALSE, !.asked = {}] EXCEPT !.held = p]
    BY DEF HostSetup, FirstStage
  <1>3. host' \in HostType /\ host'.stage = FirstStage(p) /\ host'.r = p
    <2>1. p \in Packets /\ p.len \in Int /\ FirstStage(p) \in {"none", "data", "status"}
      BY PacketFields DEF Packets, FirstStage
    <2>2. QED
      BY <1>1, <1>2, <2>1 DEF HostType
  <1>4. Len(u.ev) = 0
    BY <1>2
  <1>5. CASE u.trb[EP0_OUT] = "setup"
    <2>1. ~Unanswered(u, host)
      BY <1>2, <1>4 DEF Unanswered, ResetWaits
    <2>2. NoBulkEnd(u) /\ \A j \in 1 .. Len(u.ev) : FALSE
      BY <1>4 DEF NoBulkEnd
    <2>3. Sound(Delivered(u, p), host', late)
      BY <1>1, <1>3, <1>5, <2>1, <2>2, SetupArrives
    <2>4. QED
      BY <1>2, <1>3, <1>5, <2>3, HostReads DEF IInv
  <1>6. CASE u.trb[EP0_OUT] # "setup"
    <2>1. u' = [u EXCEPT !.stall = FALSE, !.asked = {}, !.held = p]
      BY <1>2, <1>6
    <2> DEFINE r == [u EXCEPT !.stall = FALSE, !.asked = {}, !.held = p]
               g == host'
    <2>2. g.stage = FirstStage(p) /\ g.r = p
      BY <1>3
    <2>3. Sound(r, g, late)
      <3> HIDE DEF g
      <3>1. QED
        BY <1>1, <1>2, <2>2, SetupHeld
    <2> HIDE DEF r
    <2>4. Sound(u', host', late)
      BY <2>1, <2>3 DEF r
    <2>5. QED
      BY <1>2, <1>3, <2>4, HostReads DEF IInv
  <1>7. QED
    BY <1>5, <1>6

(* An event of the device is raised.                                        *)
LEMMA EventRaised ==
  ASSUME NEW d, NEW h, NEW l, Sound(d, h, l), NEW x \in LinkChange \cup Connected,
         x.t = "disconnect" => h.stage = "none" /\ ~h.here
  PROVE  LET r == Raised(d, x) IN
         /\ Sound(r, h, l) /\ Appended(d, r, x) /\ r.ev = Append(d.ev, x)
         /\ r = [d EXCEPT !.ev = Append(d.ev, x)]
  <1> DEFINE v == Append(d.ev, x)
             r == [d EXCEPT !.ev = v]
  <1>1. d \in Device
    BY DEF Sound
  <1>2. /\ x \in Events /\ x.t \notin {"complete", "notready"}
    BY DEF LinkChange, Connected, Events
  <1>3. Raised(d, x) = r
    BY DEF Raised
  <1>4. r.ev = v
    BY <1>1 DEF Device
  <1> HIDE DEF r
  <1>5. Appended(d, r, x) /\ r.ev \in Buffer
    BY <1>1, <1>2, <1>4, AppendedEvent
  <1>6. r \in Device
    <2>1. v \in Buffer
      BY <1>4, <1>5
    <2> HIDE DEF v
    <2>2. QED
      BY <1>1, <2>1 DEF r, Device
  <1>7. /\ Alike(d, r) /\ Placed(d, r) /\ r.ready = d.ready /\ r.stall = d.stall
        /\ r.ep = d.ep /\ r.trb = d.trb
    BY <1>1 DEF r, Device, Alike, Placed
  <1>8. ControlSame(d, r)
    BY <1>7 DEF ControlSame
  <1>9. ~IsEnd(x) /\ ~IsPoll(x)
    BY <1>2 DEF IsEnd, IsPoll
  <1>10. Sound(r, h, l)
    BY <1>2, <1>5, <1>6, <1>7, <1>8, <1>9, AppendedSound
  <1>11. QED
    BY <1>3, <1>4, <1>5, <1>10 DEF r

(* The host resets the bus.                                                 *)
LEMMA BusResetKeeps ==
  ASSUME IInv, NEW speed \in Speeds, BusReset(speed)
  PROVE  IInv'
  <1> DEFINE x == Event("reset", EP0_OUT, "none")
             y == Event("done", EP0_OUT, speed)
             a == Raised(u, x)
             c == Raised(a, y)
             n == Len(u.ev)
             r == [u EXCEPT !.held = None, !.asked = {}, !.ev = c.ev]
             g == [Idle EXCEPT !.here = TRUE]
  <1>1. Sound(u, host, late) /\ u \in Device /\ Len(u.ev) \in Nat
    BY HostReads
  <1>2. /\ x \in LinkChange \cup Connected /\ y \in LinkChange \cup Connected
        /\ x.t = "reset" /\ y.t = "done"
    BY UsbAssumption DEF Event, LinkChange, Connected, AnySpeed
  <1>3. u' = r /\ host' = g /\ UNCHANGED <<late, wrong>>
    <2>1. c.ev = Append(Append(u.ev, x), y)
      BY <1>1 DEF Raised, Device
    <2>2. u' = Raised(Raised([u EXCEPT !.held = None, !.asked = {}], x), y)
      BY DEF BusReset
    <2> HIDE DEF c, x, y
    <2>3. u' = r
      BY <1>1, <2>1, <2>2 DEF Raised, Device
    <2>4. QED
      BY <2>3 DEF BusReset
  <1>4. g \in HostType /\ g.stage = "none" /\ g.r = None /\ ~g.pipes
    <2>1. None \in Packets /\ 0 \in Int
      BY DEF Packets
    <2>2. QED
      BY <2>1 DEF Idle, HostType
  <1> HIDE DEF x, y, a, g
  <1>5. /\ Sound(a, host, late) /\ Appended(u, a, x)
        /\ a = [u EXCEPT !.ev = Append(u.ev, x)]
    BY <1>1, <1>2, EventRaised DEF a
  <1>6. /\ Sound(c, host, late) /\ Appended(a, c, y)
        /\ c = [a EXCEPT !.ev = Append(a.ev, y)]
    BY <1>2, <1>5, EventRaised
  <1> HIDE DEF c
  <1>7. c = [u EXCEPT !.ev = c.ev]
    BY <1>1, <1>5, <1>6 DEF Device
  <1>8. c \in Device
    BY <1>6 DEF Sound
  <1>9. r \in Device /\ Unmoved(c, r) /\ Placed(c, r) /\ r.ready = c.ready
        /\ r.stall = c.stall /\ r.held = None
    <2> DEFINE v == c.ev
    <2>1. None \in Packets /\ {} \in Questions /\ v \in Buffer
      BY <1>8 DEF Packets, Questions, Device
    <2>2. c = [u EXCEPT !.ev = v] /\ c.ev = v
      BY <1>7
    <2> HIDE DEF v
    <2>3. r = [u EXCEPT !.held = None, !.asked = {}, !.ev = v]
      BY <2>2
    <2> HIDE DEF r
    <2>4. r \in Device
      BY <1>1, <2>1, <2>3 DEF Device
    <2>5. QED
      BY <1>1, <2>2, <2>3, <2>4 DEF Device, Unmoved, Placed
  <1>10. /\ \E k \in 1 .. Len(c.ev) : c.ev[k].t = "done"
         /\ \A k \in 1 .. Len(c.ev) :
              k = 1 \/ c.ev[k].t = "disconnect" => ResetWaits(c, k)
    <2>1. /\ Len(a.ev) = n + 1 /\ a.ev[n + 1] = x
      BY <1>5 DEF Appended
    <2>2. /\ Len(c.ev) = n + 2 /\ c.ev[n + 1] = x /\ c.ev[n + 2] = y
      <3>1. n + 1 \in 1 .. Len(a.ev) /\ Len(a.ev) + 1 = n + 2
        BY <1>1, <2>1
      <3>2. QED
        BY <1>6, <2>1, <3>1 DEF Appended
    <2>3. ASSUME NEW k \in 1 .. Len(c.ev), k = 1 \/ c.ev[k].t = "disconnect"
          PROVE  ResetWaits(c, k)
      <3>1. k # n + 2
        BY <1>1, <1>2, <2>2, <2>3
      <3>2. n + 1 \in k .. Len(c.ev)
        BY <1>1, <2>2, <2>3, <3>1
      <3>3. QED
        BY <1>2, <2>2, <3>2 DEF ResetWaits
    <2>4. n + 2 \in 1 .. Len(c.ev)
      BY <1>1, <2>2
    <2>5. QED
      BY <1>2, <2>2, <2>3, <2>4
  <1> HIDE DEF r
  <1>11. Sound(r, g, late)
    BY <1>4, <1>6, <1>9, <1>10, HostLeaves
  <1>12. QED
    BY <1>3, <1>4, <1>11, HostReads DEF IInv

(* The link is suspended, resumed or lost.                                  *)
LEMMA LinkEventKeeps ==
  ASSUME IInv, NEW t \in {"suspend", "resume", "disconnect"}, LinkEvent(t)
  PROVE  IInv'
  <1> DEFINE x == Event(t, EP0_OUT, "none")
             g == [host EXCEPT !.here = host.here /\ t # "disconnect",
                               !.pipes = host.pipes /\ t # "disconnect"]
  <1>1. /\ Sound(u, host, late) /\ ControlInv(u, host) /\ u \in Device /\ host \in HostType
    BY HostReads
  <1>2. /\ host.here /\ host.stage = "none" /\ u.ev = <<>>
        /\ host' = g /\ u' = Raised(u, x) /\ UNCHANGED <<late, wrong>>
    BY DEF LinkEvent
  <1>3. x \in LinkChange \cup Connected /\ x.t = t
    BY DEF Event, LinkChange
  <1>4. /\ g \in HostType /\ g.stage = "none" /\ g.r = host.r
        /\ t = "disconnect" => ~g.here
    <2> DEFINE b1 == host.here /\ t # "disconnect"
               b2 == host.pipes /\ t # "disconnect"
    <2>1. b1 \in BOOLEAN /\ b2 \in BOOLEAN
      BY Zenon
    <2>2. t = "disconnect" => ~b1
      OBVIOUS
    <2> HIDE DEF b1, b2
    <2>3. QED
      BY <1>1, <1>2, <2>1, <2>2 DEF HostType
  <1> HIDE DEF g, x
  <1>5. host.r = None /\ u.held = None
    BY <1>1, <1>2 DEF ControlInv, HostShape
  <1>6. Len(u.ev) = 0 /\ ~SetupWaits(u)
    BY <1>2 DEF SetupWaits, NoEnd
  <1>7. Unmoved(u, u) /\ Placed(u, u)
    BY <1>1 DEF Unmoved, Placed
  <1>8. Sound(u, g, late)
    BY <1>1, <1>2, <1>4, <1>5, <1>6, <1>7, HostLeaves
  <1>9. Sound(Raised(u, x), g, late)
    BY <1>3, <1>4, <1>8, EventRaised
  <1>10. QED
    BY <1>2, <1>4, <1>9, HostReads DEF IInv

(* The transports, and the code that connects and disconnects the device.   *)
LEMMA StartBulkKeeps ==
  ASSUME IInv, NEW e \in Bulk, NEW w \in BOOLEAN, StartBulk(e, w)
  PROVE  IInv' /\ u'.ready = u.ready
  <1>1. Sound(u, host, late) /\ Packet \in Int
    BY HostReads DEF Packet
  <1>2. u' = Restarted(u, e, Packet, w) /\ UNCHANGED <<host, late, wrong>>
    BY DEF StartBulk, Restarted
  <1>3. /\ Sound(Restarted(u, e, Packet, w), host, late)
        /\ Restarted(u, e, Packet, w).ready = u.ready
    BY <1>1, StartSound
  <1>4. Sound(u', host', late') /\ u'.ready = u.ready
    BY <1>2, <1>3
  <1>5. QED
    BY <1>2, <1>4, HostReads DEF IInv

(* A transfer of a transport is ended before its time.                      *)
LEMMA CancelBulkKeeps ==
  ASSUME IInv, NEW e \in Bulk, CancelBulk(e)
  PROVE  IInv'
  <1>1. Sound(usb_hal_cancel_io_request(u, e), host, late)
    BY HostReads, CancelSound
  <1>2. u' = usb_hal_cancel_io_request(u, e) /\ UNCHANGED <<host, late, wrong>>
    BY DEF CancelBulk
  <1>3. Sound(u', host', late')
    BY <1>1, <1>2
  <1>4. QED
    BY <1>2, <1>3, HostReads DEF IInv

(* A bulk pipe is halted.                                                   *)
LEMMA StallBulkKeeps ==
  ASSUME IInv, NEW e \in Bulk, NEW b \in BOOLEAN, StallBulk(e, b)
  PROVE  IInv'
  <1> DEFINE v == u.persist \/ (b /\ u.class = "bot")
  <1>1. Sound(u, host, late)
    BY HostReads
  <1>2. v \in BOOLEAN
    BY Zenon
  <1>3. /\ u' = usb_hal_set_endpt_stall([u EXCEPT !.persist = v], e)
        /\ UNCHANGED <<host, late, wrong>>
    BY DEF StallBulk
  <1> HIDE DEF v
  <1>4. Sound(usb_hal_set_endpt_stall([u EXCEPT !.persist = v], e), host, late)
    BY <1>1, <1>2, StallSound
  <1>5. Sound(u', host', late')
    BY <1>3, <1>4
  <1>6. QED
    BY <1>3, <1>5, HostReads DEF IInv

(* The host ends a transfer of a bulk pipe.                                 *)
LEMMA HostBulkKeeps ==
  ASSUME IInv, ~Hasty, NEW e \in Bulk, HostBulk(e)
  PROVE  IInv'
  <1> DEFINE n == u.ep[e].len
  <1>1. Sound(u, host, late) /\ u \in Device
    BY HostReads
  <1>2. /\ host.r.req \notin Resets /\ host.pipes
        /\ u' = Ended(u, e, n) /\ UNCHANGED <<host, late, wrong>>
    BY DEF HostBulk, Resets
  <1>3. n \in Int
    BY <1>1, EndpointNumbers DEF Device, EndpointTable, Endpoint
  <1> HIDE DEF n
  <1>4. Sound(Ended(u, e, n), host, late)
    BY <1>1, <1>2, <1>3, BulkEnds
  <1>5. Sound(u', host', late')
    BY <1>2, <1>4
  <1>6. QED
    BY <1>2, <1>5, HostReads DEF IInv

(* The device is connected.                                                 *)
LEMMA ConnectKeeps ==
  ASSUME IInv, usb_hal_connect
  PROVE  IInv'
  <1> DEFINE r == [u EXCEPT !.run = TRUE]
  <1>1. Sound(u, host, late) /\ u \in Device
    BY HostReads
  <1>2. u' = r /\ UNCHANGED <<host, late, wrong>>
    BY DEF usb_hal_connect
  <1>3. Plain(u, r) /\ Placed(u, r)
    BY <1>1, PlainFields
  <1> HIDE DEF r
  <1>4. Sound(r, host, late)
    BY <1>1, <1>3, PlainStep
  <1>5. Sound(u', host', late')
    BY <1>2, <1>4
  <1>6. QED
    BY <1>2, <1>5, HostReads DEF IInv

(* It is disconnected: the bulk transfers end, and a SETUP that is held is  *)
(* gone with the host.                                                      *)
LEMMA DisconnectKeeps ==
  ASSUME IInv, usb_hal_disconnect
  PROVE  IInv'
  <1> DEFINE c == usb_hal_cancel_all_io_requests(u)
             r == [c EXCEPT !.run = FALSE, !.held = None]
  <1>1. Sound(u, host, late) /\ u \in Device
    BY HostReads
  <1>2. u' = r /\ host' = Idle /\ UNCHANGED <<late, wrong>>
    BY DEF usb_hal_disconnect
  <1>3. /\ Frame(u, c) /\ Placed(u, c) /\ Quiets(u, c) /\ c.stall = u.stall
    BY <1>1, AllCancelled
  <1> HIDE DEF c
  <1>4. Sound(c, host, late)
    BY <1>1, <1>3, FrameSound
  <1>5. c \in Device
    BY <1>3 DEF Frame
  <1>6. None \in Packets
    BY DEF Packets
  <1>7. r \in Device
    BY <1>5, <1>6 DEF Device
  <1>8. /\ Unmoved(c, r) /\ Placed(c, r) /\ r.ready = c.ready /\ r.stall = c.stall
        /\ r.held = None
    BY <1>5, <1>7 DEF Device, Unmoved, Placed
  <1> HIDE DEF r
  <1> DEFINE g == Idle
  <1>9. g \in HostType /\ g.stage = "none" /\ g.r = None /\ ~g.pipes /\ ~g.here
    <2>1. 0 \in Int
      OBVIOUS
    <2>2. QED
      BY <1>6, <2>1 DEF Idle, HostType
  <1>10. g = host'
    BY <1>2
  <1> HIDE DEF g
  <1>11. Sound(r, g, late)
    BY <1>4, <1>8, <1>9, HostLeaves
  <1>12. Sound(u', host', late')
    BY <1>2, <1>10, <1>11
  <1>13. QED
    BY <1>2, <1>9, <1>10, <1>12, HostReads DEF IInv

(* The interrupt handler takes an event: no end is taken for another one's. *)
LEMMA InterruptKeeps ==
  ASSUME IInv, SelHasData, usb_hal_isr
  PROVE  IInv'
  <1> DEFINE x == Head(u.ev)
             b == [u EXCEPT !.ev = Tail(@)]
             r == Handled(b, x)
             m == x.t = "reset" \/ (late /\ ~SetupEnds(b, x))
             o == x.t = "complete" /\ x.old /\ r # b
  <1>1. Sound(u, host, late) /\ u \in Device /\ ~wrong
    BY HostReads
  <1>2. u.ev # <<>> /\ u' = r /\ UNCHANGED host
    BY DEF usb_hal_isr
  <1>3. late' = m /\ wrong' = (wrong \/ o)
    BY <1>2 DEF usb_hal_isr
  <1>4. u.buffer.req = "SET_SEL" => u.buffer.len > 0
    <2>1. u.buffer \in Packets
      BY <1>1 DEF Device
    <2>2. None.req # "SET_SEL"
      BY DEF None
    <2>3. QED
      BY <2>1, <2>2 DEF Packets, SelHasData
  <1>5. m \in BOOLEAN
    BY Zenon
  <1>6. Sound(r, host, m) /\ ~o
    <2>1. b = [u EXCEPT !.ev = Tail(@)] /\ x = Head(u.ev) /\ r = Handled(b, x)
          /\ m = (x.t = "reset" \/ (late /\ ~SetupEnds(b, x)))
      OBVIOUS
    <2> HIDE DEF b, x, r, m
    <2>2. Sound(r, host, m) /\ ~(x.t = "complete" /\ x.old /\ r # b)
      BY <1>1, <1>2, <1>4, <2>1, EventSound
    <2>3. QED
      BY <2>2
  <1> HIDE DEF b, x, r, m, o
  <1>7. Sound(u', host', late') /\ late' \in BOOLEAN /\ ~wrong'
    BY <1>1, <1>2, <1>3, <1>5, <1>6
  <1>8. QED
    BY <1>2, <1>7, HostReads DEF IInv

-----------------------------------------------------------------------------
(* At start the device waits for its first connection.                      *)
LEMMA InvInit == Init => IInv
<1> SUFFICES ASSUME Init PROVE IInv
  OBVIOUS
<1> DEFINE ee == [e \in Endpoints |-> Quiet]
           tt == [e \in Endpoints |-> "none"]
           mm == [e \in Endpoints |-> 0]
<1>1. u = usb_hal_init /\ host = Idle /\ ~late /\ late \in BOOLEAN /\ ~wrong
  BY DEF Init
<1>2. ee \in EndpointTable /\ tt \in TrbTable /\ mm \in CountTable
  <2>1. Quiet \in Endpoint /\ "none" \in Kinds /\ 0 \in Int
    BY DEF Quiet, Endpoint, Kinds
  <2>2. QED
    BY <2>1 DEF EndpointTable, TrbTable, CountTable
<1>3. \A e \in Endpoints : ~ee[e].active /\ tt[e] = "none"
  BY DEF Quiet
<1>4. /\ <<>> \in Buffer /\ None \in Packets /\ {} \in Questions /\ {} \in PipeSets
      /\ 0 \in Settings /\ 0 \in Nat /\ "bot" \in Classes /\ "none" \in Links
      /\ "unknown" \in AnySpeed /\ "none" \in Places /\ "idle" \in States
  BY DEF Buffer, Packets, Questions, PipeSets, Settings, Classes, Links, AnySpeed,
     Places, States
<1> HIDE DEF ee, tt, mm
<1>5. /\ u \in Device /\ u.st = "idle" /\ u.first /\ u.ready /\ u.ep = ee /\ u.trb = tt
      /\ u.ev = <<>> /\ u.held = None
  <2>1. u = [st |-> "idle", zlp |-> FALSE, three |-> FALSE, pkt |-> None, buffer |-> None,
             onOut |-> FALSE, dev |-> "none", addr |-> 0, conf |-> 0, alt |-> 0,
             speed |-> "unknown", ready |-> TRUE, first |-> TRUE, class |-> "bot",
             u1 |-> FALSE, u2 |-> FALSE, test |-> FALSE, persist |-> FALSE,
             ep |-> ee, trb |-> tt, moved |-> mm, stall |-> FALSE, enabled |-> {},
             pm |-> "none", ev |-> <<>>, held |-> None, asked |-> {}, run |-> FALSE]
    BY <1>1 DEF usb_hal_init, ee, tt, mm
  <2>2. QED
    BY <1>2, <1>4, <2>1 DEF Device
<1>6. Len(u.ev) = 0
  BY <1>5
<1>7. \A e \in Control : ~u.ep[e].active /\ u.trb[e] = "none"
  BY <1>3, <1>5, EndpointNumbers
<1>8. host \in HostType /\ host.stage = "none" /\ host.r = None /\ ~host.here /\ ~host.pipes
  <2>1. 0 \in Int
    OBVIOUS
  <2>2. QED
    BY <1>1, <1>4, <2>1 DEF Idle, HostType
<1>9. EndsAreOwn(u) /\ EndIsSingle(u) /\ ActiveHasTrb(u)
  BY <1>6, <1>7 DEF EndsAreOwn, EndIsSingle, ActiveHasTrb
<1>10. Shape(u)
  BY <1>5, <1>7 DEF Shape, IdleShape, Control
<1>11. PollsInFront(u) /\ PollsApart(u) /\ PollsBehind(u) /\ PollsAlone(u)
  BY <1>6 DEF PollsInFront, PollsApart, PollsBehind, PollsAlone
<1>12. /\ HostShape(u, host) /\ HostAndEnd(u, host) /\ HostAlone(u, host)
       /\ HostPolled(u, host) /\ FirstShape(u, host)
  <2>1. ~Asks(u, host)
    BY <1>8 DEF Asks
  <2>2. QED
    BY <1>5, <1>6, <1>8, <2>1
       DEF HostShape, HostAndEnd, HostAlone, HostPolled, FirstShape
<1>13. BulkInv(u, host)
  <2>1. NoEnd(u) /\ NoBulkEnd(u) /\ OldIsQuiet(u)
    BY <1>6 DEF NoEnd, NoBulkEnd, OldIsQuiet
  <2>2. QED
    BY <2>1 DEF BulkInv, SetupWaits
<1>14. LateInv(u, host, late)
  BY <1>1, <1>5, <1>6 DEF LateInv, HostIsGone
<1>15. Sound(u, host, late)
  BY <1>5, <1>9, <1>10, <1>11, <1>12, <1>13, <1>14 DEF Sound, ControlInv
<1>16. QED
  BY <1>1, <1>8, <1>15 DEF IInv

(* Every step keeps the invariant, one action after another.                *)
LEMMA InvStep ==
  ASSUME ~Hasty, SelHasData
  PROVE  IInv /\ [Next]_vars => IInv'
<1> SUFFICES ASSUME IInv, [Next]_vars PROVE IInv'
  OBVIOUS
<1>1. CASE Controller
  BY <1>1, DeliverHeldKeeps, CompleteHeldKeeps, OldNotReadyKeeps DEF Controller
<1>2. CASE Answers
  BY <1>2, HostDataKeeps, HostStatusKeeps, HostStalledKeeps, HostPollsKeeps DEF Answers
<1>3. CASE Host
  <2>1. ASSUME NEW p \in Requests, HostSetup(p)
        PROVE  IInv'
    BY <2>1, HostSetupKeeps
  <2>2. ASSUME NEW speed \in Speeds, BusReset(speed)
        PROVE  IInv'
    BY <2>2, BusResetKeeps
  <2>3. ASSUME NEW t \in {"suspend", "resume", "disconnect"}, LinkEvent(t)
        PROVE  IInv'
    BY <2>3, LinkEventKeeps
  <2>4. QED
    BY <1>3, <2>1, <2>2, <2>3 DEF Host
<1>4. CASE Transports
  <2>1. PICK e \in Clients : \/ \E b \in BOOLEAN : StartBulk(e, b)
                             \/ \E b \in Halts : StallBulk(e, b)
                             \/ CancelBulk(e)
                             \/ HostBulk(e)
    BY <1>4 DEF Transports
  <2>2. e \in Bulk /\ Halts \subseteq BOOLEAN
    BY UsbAssumption
  <2>3. ASSUME NEW b \in BOOLEAN, StartBulk(e, b)
        PROVE  IInv'
    BY <2>2, <2>3, StartBulkKeeps
  <2>4. ASSUME NEW b \in BOOLEAN, StallBulk(e, b)
        PROVE  IInv'
    BY <2>2, <2>4, StallBulkKeeps
  <2>5. QED
    BY <2>1, <2>2, <2>3, <2>4, CancelBulkKeeps, HostBulkKeeps
<1>5. CASE usb_hal_connect
  BY <1>5, ConnectKeeps
<1>6. CASE usb_hal_disconnect
  BY <1>6, DisconnectKeeps
<1>7. CASE usb_hal_isr
  BY <1>7, InterruptKeeps
<1>8. CASE UNCHANGED vars
  <2>1. u' = u /\ host' = host /\ late' = late /\ wrong' = wrong
    BY <1>8 DEF vars
  <2>2. Sound(u', host', late')
    BY <2>1, HostReads
  <2>3. QED
    BY <2>1, <2>2, HostReads DEF IInv
<1>9. QED
  BY <1>1, <1>2, <1>3, <1>4, <1>5, <1>6, <1>7, <1>8 DEF Next

-----------------------------------------------------------------------------
(* The transfers from before a reset have ended when its second stage is    *)
(* through.                                                                 *)
LeftInv == left \subseteq Bulk /\ (late /\ u.ready => left = {})

Steady == u'.ready = u.ready /\ late' = late /\ left' \subseteq left

(* Only the handler takes up a reset or makes up for it.                    *)
LEMMA OthersSteady ==
  ASSUME IInv, Next, ~usb_hal_isr
  PROVE  Steady
<1>1. u \in Device
  BY HostReads
<1>2. \A d : StillLeft(d) \subseteq left
  BY DEF StillLeft
<1>3. CASE Controller
  <2>1. CASE DeliverHeld
    BY <1>1, <2>1 DEF DeliverHeld, Delivered, Ended, Raised, Device, Steady
  <2>2. CASE CompleteHeld
    BY <1>1, <2>2 DEF CompleteHeld, Ended, Raised, Device, Steady
  <2>3. CASE OldNotReady
    BY <1>1, <2>3 DEF OldNotReady, Raised, Device, Steady
  <2>4. QED
    BY <1>3, <2>1, <2>2, <2>3 DEF Controller
<1>4. CASE Answers
  <2>1. CASE HostData
    BY <1>1, <2>1 DEF HostData, Ended, Raised, Device, Steady
  <2>2. CASE HostStatus
    BY <1>1, <2>2 DEF HostStatus, Ended, Raised, Device, Steady
  <2>3. CASE HostStalled
    BY <2>3 DEF HostStalled, Steady
  <2>4. CASE HostPolls
    BY <1>1, <2>4 DEF HostPolls, Raised, Device, Steady
  <2>5. QED
    BY <1>4, <2>1, <2>2, <2>3, <2>4 DEF Answers
<1>5. CASE Host
  <2>1. ASSUME NEW p \in Requests, HostSetup(p)
        PROVE  Steady
    <3>1. CASE u.trb[EP0_OUT] = "setup"
      BY <1>1, <2>1, <3>1 DEF HostSetup, Delivered, Ended, Raised, Device, Steady
    <3>2. CASE u.trb[EP0_OUT] # "setup"
      BY <1>1, <2>1, <3>2 DEF HostSetup, Device, Steady
    <3>3. QED
      BY <3>1, <3>2
  <2>2. ASSUME NEW speed \in Speeds, BusReset(speed)
        PROVE  Steady
    BY <1>1, <2>2 DEF BusReset, Raised, Device, Steady
  <2>3. ASSUME NEW t \in {"suspend", "resume", "disconnect"}, LinkEvent(t)
        PROVE  Steady
    BY <1>1, <2>3 DEF LinkEvent, Raised, Device, Steady
  <2>4. QED
    BY <1>5, <2>1, <2>2, <2>3 DEF Host
<1>6. CASE Transports
  <2>1. PICK e \in Clients : \/ \E b \in BOOLEAN : StartBulk(e, b)
                             \/ \E b \in Halts : StallBulk(e, b)
                             \/ CancelBulk(e)
                             \/ HostBulk(e)
    BY <1>6 DEF Transports
  <2>2. e \in Bulk /\ e \notin Control /\ e # EP0_OUT /\ e # EP0_IN /\ Halts \subseteq BOOLEAN
    BY UsbAssumption, EndpointNumbers
  <2>3. ASSUME NEW b \in BOOLEAN, StartBulk(e, b)
        PROVE  Steady
    <3>1. u'.ready = u.ready
      BY <2>2, <2>3, StartBulkKeeps
    <3>2. QED
      BY <2>3, <3>1 DEF StartBulk, Steady
  <2>4. ASSUME NEW b \in BOOLEAN, StallBulk(e, b)
        PROVE  Steady
    <3> DEFINE v == u.persist \/ (b /\ u.class = "bot")
               s == [u EXCEPT !.persist = v]
    <3>1. v \in BOOLEAN
      BY Zenon
    <3>2. u' = usb_hal_set_endpt_stall(s, e)
      BY <2>4 DEF StallBulk
    <3> HIDE DEF v
    <3>3. Plain(u, s)
      BY <1>1, <3>1, PlainFields
    <3> HIDE DEF s
    <3>4. Frame(s, u')
      BY <2>2, <3>2, <3>3, EndpointStalled DEF Plain
    <3>5. u'.ready = u.ready
      BY <3>3, <3>4 DEF Frame, Plain, Same
    <3>6. QED
      BY <1>2, <2>4, <3>5 DEF StallBulk, Steady
  <2>5. CASE CancelBulk(e)
    <3>1. Frame(u, usb_hal_cancel_io_request(u, e))
      BY <1>1, <2>2, BulkCancelled
    <3>2. QED
      BY <1>2, <2>5, <3>1 DEF CancelBulk, Frame, Same, Steady
  <2>6. CASE HostBulk(e)
    BY <1>1, <2>6 DEF HostBulk, Ended, Raised, Device, Steady
  <2>7. QED
    BY <2>1, <2>2, <2>3, <2>4, <2>5, <2>6
<1>7. CASE usb_hal_connect
  BY <1>1, <1>7 DEF usb_hal_connect, Device, Steady
<1>8. CASE usb_hal_disconnect
  <2> DEFINE c == usb_hal_cancel_all_io_requests(u)
  <2>1. u' = [c EXCEPT !.run = FALSE, !.held = None]
    BY <1>8 DEF usb_hal_disconnect
  <2>2. Frame(u, c)
    BY <1>1, AllCancelled
  <2> HIDE DEF c
  <2>3. u'.ready = u.ready
    BY <2>1, <2>2 DEF Frame, Same, Device
  <2>4. QED
    BY <1>2, <1>8, <2>3 DEF usb_hal_disconnect, Steady
<1>9. QED
  BY <1>3, <1>4, <1>5, <1>6, <1>7, <1>8 DEF Next

(* The handler notes what was under way at a reset, and ends it.            *)
LEMMA InterruptEnds ==
  ASSUME IInv, LeftInv, SelHasData, usb_hal_isr
  PROVE  LeftInv'
<1> DEFINE x == Head(u.ev)
           b == [u EXCEPT !.ev = Tail(@)]
           r == Handled(b, x)
           m == x.t = "reset" \/ (late /\ ~SetupEnds(b, x))
<1>1. Sound(u, host, late) /\ u \in Device
  BY HostReads
<1>2. u.ev # <<>> /\ u' = r /\ late' = m
  BY DEF usb_hal_isr
<1>3. left' = IF x.t = "reset" THEN {e \in Bulk : u'.ep[e].active} ELSE StillLeft(u')
  BY DEF usb_hal_isr
<1>4. b.ready = u.ready
  BY <1>1 DEF Device
<1>5. u.buffer.req = "SET_SEL" => u.buffer.len > 0
  <2>1. u.buffer \in Packets
    BY <1>1 DEF Device
  <2>2. None.req # "SET_SEL"
    BY DEF None
  <2>3. QED
    BY <2>1, <2>2 DEF Packets, SelHasData
<1>6. Revived(b, r) /\ (x.t = "reset" /\ r.ready => BulkRests(r))
  <2>1. b = [u EXCEPT !.ev = Tail(@)] /\ x = Head(u.ev) /\ r = Handled(b, x)
        /\ m = (x.t = "reset" \/ (late /\ ~SetupEnds(b, x)))
    OBVIOUS
  <2> HIDE DEF b, x, r, m
  <2>2. Sound(r, host, m) /\ ~(x.t = "complete" /\ x.old /\ r # b)
    BY <1>1, <1>2, <1>5, <2>1, EventSound
  <2>3. ASSUME ~Revived(b, r)
        PROVE  FALSE
    BY <1>1, <1>2, <1>5, <2>1, <2>2, <2>3, EventSound, SMTT(60)
  <2>4. ASSUME x.t = "reset", r.ready
        PROVE  BulkRests(r)
    BY <1>1, <1>2, <1>5, <2>1, <2>4, EventSound
  <2>5. QED
    BY <2>3, <2>4
<1>7. ASSUME late', u'.ready
      PROVE  left' = {}
  <2>1. CASE x.t = "reset"
    <3> HIDE DEF b, x, r
    <3>1. BulkRests(u')
      BY <1>2, <1>6, <1>7, <2>1
    <3>2. QED
      BY <1>3, <2>1, <3>1 DEF BulkRests
  <2>2. CASE x.t # "reset" /\ ~u.ready
    <3> HIDE DEF b, x, r
    <3>1. BulkRests(u')
      BY <1>2, <1>4, <1>6, <1>7, <2>2 DEF Revived
    <3>2. left \subseteq Bulk
      BY DEF LeftInv
    <3>3. QED
      BY <1>3, <2>2, <3>1, <3>2 DEF BulkRests, StillLeft
  <2>3. CASE x.t # "reset" /\ u.ready
    <3>1. late
      BY <1>2, <1>7, <2>3
    <3>2. left = {}
      BY <2>3, <3>1 DEF LeftInv
    <3>3. QED
      BY <1>3, <2>3, <3>2 DEF StillLeft
  <2>4. QED
    BY <2>1, <2>2, <2>3
<1>8. left' \subseteq Bulk
  BY <1>3 DEF LeftInv, StillLeft
<1>9. QED
  BY <1>7, <1>8 DEF LeftInv

(* Every step keeps it.                                                     *)
LEMMA LeftStep ==
  ASSUME SelHasData
  PROVE  IInv /\ LeftInv /\ [Next]_vars => LeftInv'
<1> SUFFICES ASSUME IInv, LeftInv, [Next]_vars PROVE LeftInv'
  OBVIOUS
<1>1. CASE usb_hal_isr
  BY <1>1, InterruptEnds
<1>2. CASE Next /\ ~usb_hal_isr
  BY <1>2, OthersSteady DEF Steady, LeftInv
<1>3. CASE UNCHANGED vars
  BY <1>3 DEF vars, LeftInv
<1>4. QED
  BY <1>1, <1>2, <1>3

-----------------------------------------------------------------------------
(* The invariant of the device: every transfer of the control endpoint has  *)
(* its TRB or its end, a report that waits agrees with the stage that the   *)
(* device or the host is in, nothing is told of a pipe that a request has   *)
(* started again, and no transfer outlives the second stage of a reset.     *)
THEOREM Invariant ==
  ASSUME ~Hasty, SelHasData
  PROVE  Spec => [](IInv /\ LeftInv)
<1>1. Init => IInv /\ LeftInv
  BY InvInit DEF Init, LeftInv
<1>2. IInv /\ LeftInv /\ [Next]_vars => (IInv /\ LeftInv)'
  BY InvStep, LeftStep
<1>3. QED
  BY <1>1, <1>2, PTL DEF Spec

(* The end of a transfer that was cancelled after it had ended by itself is *)
(* never taken for the end of another one, unless the foreground has        *)
(* started that one meanwhile: whatever the host asks, whenever the         *)
(* foreground uses the pipes, and however many events wait                  *)
(* (usb_hal_isr.c:417).                                                     *)
THEOREM CompletionCorrect ==
  ASSUME ~Hasty, SelHasData
  PROVE  Spec => []CompletionIsOfTransfer
<1>1. IInv => CompletionIsOfTransfer
  BY DEF IInv, CompletionIsOfTransfer
<1>2. QED
  BY <1>1, Invariant, PTL

(* The first SETUP that is handled after a reset of the bus finds the       *)
(* device in its default state, without address and with every transfer     *)
(* from before the reset ended, also when the reset came within a control   *)
(* transfer and its second stage was put off.                               *)
LEMMA SetupAfterReset ==
  ASSUME IInv, LeftInv, usb_hal_isr, late, ~late'
  PROVE  u.ready /\ u.dev = "default" /\ u.addr = 0 /\ left = {}
<1> DEFINE x == Head(u.ev)
           b == [u EXCEPT !.ev = Tail(@)]
<1>1. /\ u \in Device /\ LateInv(u, host, late)
  BY HostReads
<1>2. u.ev # <<>> /\ SetupEnds(b, x)
  BY DEF usb_hal_isr
<1>3. Taken(u, b) /\ x = u.ev[1]
  <2>1. b = [u EXCEPT !.ev = Tail(@)] /\ x = Head(u.ev)
    OBVIOUS
  <2> HIDE DEF b, x
  <2>2. QED
    BY <1>1, <1>2, <2>1, EventTaken
<1>4. b.st = u.st
  BY <1>1 DEF Device
<1> HIDE DEF b, x
<1>5. u.st = "idle" /\ IsEnd(x)
  BY <1>2, <1>4 DEF SetupEnds, IsEnd, Control
<1>6. 1 \in 1 .. Len(u.ev)
  BY <1>3 DEF Taken, Tailed
<1>7. ~NoEnd(u)
  BY <1>3, <1>5, <1>6 DEF NoEnd
<1>8. AfterReset(u, host) /\ u.ready
  BY <1>1, <1>5 DEF LateInv
<1>9. u.dev = "default"
  BY <1>7, <1>8 DEF AfterReset, Unanswered
<1>10. left = {}
  BY <1>8 DEF LeftInv
<1>11. QED
  BY <1>8, <1>9, <1>10 DEF AfterReset

(* The same of the runs of the device.                                      *)
THEOREM ResetBeforeSetup ==
  ASSUME ~Hasty, SelHasData
  PROVE  Spec => HandledAfterReset
<1>1. IInv /\ LeftInv /\ [Next]_vars =>
        [late /\ ~late' =>
           u.ready /\ u.dev = "default" /\ u.addr = 0 /\ left = {}]_vars
  <2> SUFFICES ASSUME IInv, LeftInv, Next, late, ~late'
               PROVE  u.ready /\ u.dev = "default" /\ u.addr = 0 /\ left = {}
    OBVIOUS
  <2>1. usb_hal_isr
    BY OthersSteady DEF Steady
  <2>2. QED
    BY <2>1, SetupAfterReset
<1>2. QED
  BY <1>1, Invariant, PTL DEF Spec, HandledAfterReset
=============================================================================
