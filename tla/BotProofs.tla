------------------------------ MODULE BotProofs ------------------------------
(***************************************************************************)
(* Theorems about the Bulk-Only transport, for data phases of any length   *)
(* and without a hypothesis on host or disk: they speak of every behaviour *)
(* up to the step in which something of a command acts after its end.      *)
(***************************************************************************)
EXTENDS BotTransport, TLAPS, SequenceTheorems

Whats == {"none", "cbw", "csw", "data", "discard", "window"}

Endpoint ==
  [active : BOOLEAN, hw : BOOLEAN, what : Whats, n : 0 .. Units,
   wrap : BOOLEAN, stalled : BOOLEAN]

Transport ==
  [state : {"IDLE", "DATA_IN", "DATA_OUT", "CSW_PENDING", "SEND_CSW", "ERROR"},
   case : {0, 5, 7, 9, 11, 13}, actual : 0 .. Units, residue : 0 .. Units,
   usb : BOOLEAN, sata : BOOLEAN, check : BOOLEAN, cbw : CBWs, valid : BOOLEAN,
   status : {"none", "passed", "failed", "phase"}, rw_pending : BOOLEAN,
   persistent : BOOLEAN, odd : BOOLEAN, in : Endpoint, out : Endpoint]

Host ==
  [phase : {"idle", "data_in", "data_out", "status", "retry", "recover", "clear"},
   got : 0 .. Units, csw : {"none", "passed", "failed", "phase"},
   residue : 0 .. Units]

Events == [ep : {"in", "out"}, n : 0 .. Units]

Callbacks == {"error", "ok", "bad", "late"}

Types ==
  /\ t \in Transport /\ h \in Host /\ events \in Seq(Events)
  /\ ata \in {"none", "mine", "old"} /\ ready \in BOOLEAN
  /\ cb \in Seq(Callbacks)
  /\ done \in {"none", "ok", "bad", "error", "fault"}

(* An endpoint rests, runs, or is done on the wire only.                   *)
Off(ep) == ~ep.active /\ ~ep.hw
Runs(ep) == ep.active /\ ep.hw
Fin(ep) == ep.active /\ ~ep.hw

-----------------------------------------------------------------------------
(* What the transport is doing in each of its states.                      *)
IdleShape(q) ==
  /\ ~q.in.active
  /\ q.in.hw => q.in.what = "csw"
  /\ q.case = 0 /\ ~q.usb /\ ~q.sata /\ ~q.check
  /\ q.persistent => Off(q.out) /\ Off(q.in)
  /\ ~q.persistent => q.out.active
  /\ q.out.hw => q.out.what = "cbw"
  /\ Fin(q.out) => Off(q.in) /\ ~q.in.stalled

InShape(q) ==
  /\ Off(q.out) /\ ~q.in.stalled /\ ~q.persistent
  /\ CaseOf(q.cbw) = 0 /\ q.cbw.dir = "in" /\ q.cbw.intent = "in" /\ q.cbw.len > 0
  /\ q.in.hw => /\ q.in.active /\ q.in.what \in {"data", "window"}
                /\ q.in.n >= 1 /\ q.in.n <= q.cbw.len
                /\ q.cbw.rw \/ q.case = 5 => q.in.n = q.actual
  /\ q.case \in {0, 5, 7}
  /\ IF q.case = 5 THEN q.actual < q.cbw.len ELSE q.actual = q.cbw.len
  /\ q.residue = IF q.usb THEN 0 ELSE q.cbw.len
  /\ q.actual >= 1
  /\ q.usb => ~q.in.active /\ ~q.sata /\ q.cbw.rw /\ q.case = 0
  /\ q.cbw.rw => q.in.active \/ q.usb
  /\ q.cbw.rw => (q.case = 5 <=> q.cbw.want < q.cbw.len)
  /\ ~q.cbw.rw => (q.in.active <=> q.sata)
  /\ ~q.cbw.rw /\ ~q.in.active => q.case = 0

OutShape(q) ==
  /\ Off(q.in) /\ ~q.in.stalled /\ ~q.persistent
  /\ q.cbw.dir = "out" /\ q.cbw.len > 0
  /\ q.out.hw => /\ q.out.active /\ q.out.what # "cbw"
                 /\ q.out.n >= 1 /\ q.out.n <= q.residue
  /\ IF q.out.active THEN ~q.usb /\ q.residue >= 1
     ELSE q.usb /\ ~q.sata /\ q.residue = 0 /\ q.case \in {0, 11}
  /\ q.actual >= 1
  /\ CASE q.case = 0  -> /\ q.cbw.intent = "out" /\ q.actual = q.cbw.len
                         /\ q.cbw.rw => q.cbw.want = q.cbw.len
       [] q.case = 9  -> q.cbw.intent = "none" /\ ~q.cbw.rw
       [] q.case = 11 -> /\ q.cbw.intent = "out" /\ q.cbw.rw
                         /\ q.actual = q.cbw.want /\ q.cbw.want < q.cbw.len
       [] q.case = 13 -> q.cbw.intent = "out" /\ q.cbw.rw
       [] OTHER       -> FALSE
  /\ ~q.cbw.rw => ~q.sata

PendingShape(q) ==
  /\ Off(q.in) /\ Off(q.out) /\ ~q.in.stalled /\ ~q.persistent
  /\ q.cbw.len = 0 /\ q.cbw.intent = "none" /\ ~q.cbw.rw /\ q.actual = 0

CswShape(q) ==
  /\ Off(q.out) /\ q.in.active /\ ~q.persistent
  /\ q.in.hw => q.in.what = "csw"

Shape(q) ==
  /\ ~q.odd
  /\ ~q.in.hw => q.in.what = "none"
  /\ q.state = "IDLE" => IdleShape(q)
  /\ q.state = "DATA_IN" => InShape(q)
  /\ q.state = "DATA_OUT" => OutShape(q)
  /\ q.state = "CSW_PENDING" => PendingShape(q)
  /\ q.state \in {"SEND_CSW", "ERROR"} => CswShape(q)

-----------------------------------------------------------------------------
(* What is in the event buffer.  An event of a transfer that was cancelled *)
(* when it was done on the wire stays there; that of data in is taken for  *)
(* the end of the CSW, which the host has not read.                        *)
Only(s, d) == Len(s) = 1 /\ s[1].ep = d
Both(s, d, e) == Len(s) = 2 /\ s[1].ep = d /\ s[2].ep = e

Wire(q, s) ==
  /\ q.state = "IDLE" =>
       IF Fin(q.out) THEN Only(s, "out") \/ Both(s, "in", "out")
       ELSE s = <<>> \/ (Only(s, "in") /\ Off(q.in) /\ ~q.persistent)
  /\ q.state = "DATA_IN" =>
       IF Fin(q.in)
       THEN /\ Only(s, "in") /\ s[1].n >= 1 /\ s[1].n <= q.cbw.len
            /\ q.cbw.rw \/ q.case = 5 => s[1].n = q.actual
       ELSE s = <<>>
  /\ q.state = "DATA_OUT" =>
       IF Fin(q.out)
       THEN Only(s, "out") /\ s[1].n >= 1 /\ s[1].n <= q.residue ELSE s = <<>>
  /\ q.state = "CSW_PENDING" => s = <<>>
  /\ q.state \in {"SEND_CSW", "ERROR"} =>
       IF Fin(q.in) THEN Only(s, "in") \/ Both(s, "out", "in")
       ELSE s = <<>> \/ Only(s, "out") \/ (Only(s, "in") /\ q.in.stalled)

(* Where the host is.                                                      *)
Reads(q, g, s) ==
  /\ q.cbw.dir = "in" /\ q.cbw.len > 0
  /\ q.in.what = "csw" => q.in.stalled
  /\ q.state = "IDLE" /\ Fin(q.out) => g.got = 0
  /\ q.state = "DATA_IN" =>
       /\ ~q.usb
       /\ IF Fin(q.in) THEN g.got = s[1].n /\ g.got < q.cbw.len ELSE g.got = 0

Sends(q, g, s) ==
  /\ q.cbw.dir = "out" /\ q.cbw.len > 0
  /\ q.state = "IDLE" => ~q.out.hw
  /\ q.state \in {"SEND_CSW", "ERROR"} => ~Only(s, "in")
  /\ q.state = "IDLE" /\ Fin(q.out) => g.got = 0
  /\ q.state = "DATA_OUT" =>
       g.got = q.cbw.len - q.residue + IF Fin(q.out) THEN s[1].n ELSE 0

Asks(q, g, s) ==
  /\ q.state = "IDLE" /\ Fin(q.out) => g.got = 0 /\ q.cbw.len = 0
  /\ q.state = "DATA_IN" =>
       /\ ~q.in.hw
       /\ g.got = IF Fin(q.in) THEN s[1].n ELSE q.cbw.len
       /\ ~q.in.active => q.usb

AsksAgain(q, s) ==
  /\ s = <<>>
  /\ q.state \in {"IDLE", "SEND_CSW", "ERROR"}
  /\ q.in.stalled => q.persistent

Hands(q, g, s) ==
  /\ q.state = "IDLE" /\ Runs(q.out) => g.phase \in {"idle", "clear", "recover"} \/ q.in.hw
  /\ q.state \in {"SEND_CSW", "ERROR"} /\ ~q.in.hw => g.phase \in {"idle", "recover"}
  /\ g.phase = "idle" =>
       /\ ~q.in.stalled /\ ~q.in.hw
       /\ q.state = "IDLE" => Runs(q.out)
       /\ q.state \in {"IDLE", "SEND_CSW", "ERROR"}
  /\ g.phase = "clear" => q.state = "IDLE" /\ Runs(q.out) /\ Off(q.in) /\ s = <<>>
  /\ g.phase = "data_in" => Reads(q, g, s)
  /\ g.phase = "data_out" => Sends(q, g, s)
  /\ g.phase = "status" => Asks(q, g, s)
  /\ g.phase = "retry" => AsksAgain(q, s)
  /\ q.state = "IDLE" /\ Fin(q.out) /\ ~q.valid => g.phase \in {"status", "recover"}

-----------------------------------------------------------------------------
(* The disk.  Answered: the answer to the command in hand is in the queue. *)
(* Owed: it is, or is still to come.  Unasked: the disk has not heard of   *)
(* the command.                                                            *)
Answer(k) == k \in {"ok", "bad"}
Answered == \E i \in DOMAIN cb : Answer(cb[i])
Owed == (ata = "mine" /\ ready) \/ Answered
Unasked == ata # "mine" /\ done = "none"

IsDone(q) ==
  /\ ata # "mine" /\ done \notin {"bad", "error", "fault"}
  /\ q.cbw.rw => done = "ok"

IsShort(q) == q.cbw.rw /\ q.cbw.intent = "in" /\ q.cbw.want < q.cbw.len

AnswerInv ==
  /\ ata = "mine" => done = "none"
  /\ \A i \in DOMAIN cb : Answer(cb[i]) => ata # "mine" /\ done = cb[i]
  /\ \A i, j \in DOMAIN cb : Answer(cb[i]) /\ Answer(cb[j]) => i = j

DiskInv ==
  /\ AnswerInv
  /\ t.state = "IDLE" /\ Fin(t.out) => Unasked
  /\ t.state = "DATA_OUT" /\ ~t.cbw.rw /\ t.out.active => Unasked
  /\ Owed => /\ t.rw_pending = t.cbw.rw
             /\ t.actual = 0 => t.state \notin {"DATA_IN", "DATA_OUT"}
             /\ t.state = "DATA_IN" /\ ~t.cbw.rw => ~t.in.active
  /\ t.state \in {"DATA_IN", "DATA_OUT"} /\ t.sata => IsDone(t)
  /\ t.in.what = "csw" /\ t.status = "passed" => IsShort(t) \/ IsDone(t)
  /\ h.csw = "passed" => h.phase = "idle" /\ (IsShort(t) \/ IsDone(t))

(* The residue in a CSW that has passed.                                   *)
Left(c, got) ==
  c.len - CASE c.dir = "in"                            -> got
            [] c.dir = "out" /\ c.rw                   -> c.want
            [] c.dir = "out" /\ c.intent = "none"      -> 0
            [] c.dir = "out" /\ c.intent = "out" /\ ~c.rw -> c.len

ResidueInv ==
  /\ t.in.what = "csw" /\ t.status = "passed" /\ t.cbw.len > 0
     /\ h.phase \in {"data_in", "data_out", "status", "retry"} =>
       t.residue = Left(t.cbw, h.got)
  /\ h.csw = "passed" /\ t.cbw.len > 0 => h.residue = Left(t.cbw, h.got)

IInv ==
  /\ Types /\ Shape(t) /\ Wire(t, events) /\ Hands(t, h, events)
  /\ DiskInv /\ ResidueInv

-----------------------------------------------------------------------------
(* What the operators on an endpoint do to it.                             *)

(* A unit is a packet and fits.                                            *)
LEMMA UnitsType == Units \in Nat /\ 1 <= Units
  BY BotAssumption

(* A request that finds the endpoint at rest starts its transfer.          *)
LEMMA Requested ==
  ASSUME NEW ep \in Endpoint, NEW what \in Whats, NEW n \in 0 .. Units, ~ep.active
  PROVE  LET r == Request(ep, what, n) IN
         /\ r \in Endpoint /\ Runs(r) /\ r.what = what /\ r.n = n
         /\ r.stalled = ep.stalled
  BY DEF Request, Endpoint, Runs

(* One that finds a transfer changes nothing.                              *)
LEMMA RequestIgnored ==
  ASSUME NEW ep, NEW what, NEW n, ep.active
  PROVE  Request(ep, what, n) = ep
  BY DEF Request

(* A transfer that has ended leaves the endpoint.                          *)
LEMMA ReleasedType ==
  ASSUME NEW ep \in Endpoint
  PROVE  LET r == Released(ep) IN
         /\ r \in Endpoint /\ ~r.hw /\ r.what = "none"
         /\ r.active = ep.active /\ r.stalled = ep.stalled
<1>1. 0 \in 0 .. Units /\ "none" \in Whats
  BY UnitsType DEF Whats
<1>2. Released(ep) \in Endpoint
  BY <1>1 DEF Released, Endpoint
<1>3. QED
  BY <1>2 DEF Released, Endpoint

(* Cancelling brings the endpoint to rest, except for a transfer that the  *)
(* software has already counted as done.                                   *)
LEMMA Cancelled ==
  ASSUME NEW ep \in Endpoint
  PROVE  LET r == Cancel(ep) IN
         /\ r \in Endpoint /\ ~r.active /\ r.stalled = ep.stalled
         /\ ep.active => ~r.hw /\ r.what = "none"
         /\ ~ep.active => r = ep
<1>1. CASE ep.active
  <2>1. Released(ep) \in Endpoint
    BY ReleasedType
  <2>2. QED
    BY <1>1, <2>1, ReleasedType DEF Cancel, Endpoint
<1>2. CASE ~ep.active
  BY <1>2 DEF Cancel
<1>3. QED
  BY <1>1, <1>2

(* A halt.                                                                 *)
LEMMA StallSet ==
  ASSUME NEW ep \in Endpoint, ~ep.active
  PROVE  LET r == SetStall(ep) IN
         /\ r \in Endpoint /\ r.stalled /\ ~r.active
         /\ r.hw = ep.hw /\ r.what = ep.what
  BY DEF SetStall, Cancel, Endpoint

-----------------------------------------------------------------------------
(* What the operators on the transport do to it.                           *)

(* The endpoints of a transport.                                           *)
LEMMA Parts ==
  ASSUME NEW q \in Transport
  PROVE  q.in \in Endpoint /\ q.out \in Endpoint /\ q.cbw \in CBWs
  BY DEF Transport

(* The fields of a command block wrapper.                                  *)
LEMMA CBWType ==
  ASSUME NEW c \in CBWs
  PROVE  /\ c.dir \in {"in", "out"} /\ c.len \in 0 .. Units
         /\ c.intent \in {"in", "out", "none"} /\ c.want \in 0 .. Units
         /\ c.rw \in BOOLEAN /\ c.check \in BOOLEAN
         /\ c.rw => c.intent # "none" /\ ~c.check
         /\ ~c.rw => c.want = 0
         /\ c.len = 0 => c.dir = "out"
         /\ CaseOf(c) # 0 => ~c.rw /\ ~c.check
  BY DEF CBWs

(* Changing an endpoint of a transport.                                    *)
LEMMA NewIn ==
  ASSUME NEW q \in Transport, NEW ep \in Endpoint
  PROVE  [q EXCEPT !.in = ep] \in Transport
  BY DEF Transport

(* The same of the other endpoint.                                         *)
LEMMA NewOut ==
  ASSUME NEW q \in Transport, NEW ep \in Endpoint
  PROVE  [q EXCEPT !.out = ep] \in Transport
  BY DEF Transport

(* All of a transport but its endpoints.                                   *)
SameBut(q, r) ==
  /\ r.state = q.state /\ r.case = q.case /\ r.actual = q.actual
  /\ r.residue = q.residue /\ r.usb = q.usb /\ r.sata = q.sata
  /\ r.check = q.check /\ r.cbw = q.cbw /\ r.valid = q.valid
  /\ r.status = q.status /\ r.rw_pending = q.rw_pending
  /\ r.persistent = q.persistent /\ r.odd = q.odd

(* Stalling an endpoint at rest.                                           *)
LEMMA InStalled ==
  ASSUME NEW q \in Transport, ~q.in.active
  PROVE  LET r == Stall(q, "in") IN
         /\ r \in Transport /\ SameBut(q, r) /\ r.out = q.out
         /\ r.in.stalled /\ ~r.in.active /\ r.in.hw = q.in.hw /\ r.in.what = q.in.what
<1>1. q.in \in Endpoint
  BY Parts
<1>2. SetStall(q.in) \in Endpoint
  BY <1>1, StallSet
<1>3. Stall(q, "in") = [q EXCEPT !.in = SetStall(q.in)]
  BY DEF Stall
<1>4. Stall(q, "in") \in Transport
  BY <1>2, <1>3, NewIn
<1>5. SameBut(q, Stall(q, "in")) /\ Stall(q, "in").out = q.out
      /\ Stall(q, "in").in = SetStall(q.in)
  BY <1>3 DEF Transport, SameBut
<1>6. QED
  BY <1>1, <1>4, <1>5, StallSet

(* The same of the other endpoint.                                         *)
LEMMA OutStalled ==
  ASSUME NEW q \in Transport, ~q.out.active
  PROVE  LET r == Stall(q, "out") IN
         /\ r \in Transport /\ SameBut(q, r) /\ r.in = q.in
         /\ r.out.stalled /\ ~r.out.active /\ r.out.hw = q.out.hw /\ r.out.what = q.out.what
<1>1. q.out \in Endpoint
  BY Parts
<1>2. SetStall(q.out) \in Endpoint
  BY <1>1, StallSet
<1>3. Stall(q, "out") = [q EXCEPT !.out = SetStall(q.out)]
  BY DEF Stall
<1>4. Stall(q, "out") \in Transport
  BY <1>2, <1>3, NewOut
<1>5. SameBut(q, Stall(q, "out")) /\ Stall(q, "out").in = q.in
      /\ Stall(q, "out").out = SetStall(q.out)
  BY <1>3 DEF Transport, SameBut
<1>6. QED
  BY <1>1, <1>4, <1>5, StallSet

(* A CSW is sent, from a state in which none is: its status is the         *)
(* caller's or a check condition, its residue what the case says.          *)
Statuses == {"passed", "failed", "phase"}
SentCsw(q, r, status) ==
  /\ r \in Transport
  /\ r.state = IF status = "phase" THEN "ERROR" ELSE "SEND_CSW"
  /\ r.status = IF q.check THEN "failed" ELSE status
  /\ r.residue = Residue(q)
  /\ Runs(r.in) /\ r.in.what = "csw" /\ r.in.stalled = q.in.stalled
  /\ r.out = q.out
  /\ r.actual = q.actual /\ r.cbw = q.cbw /\ r.valid = q.valid
  /\ r.rw_pending = q.rw_pending /\ r.persistent = q.persistent /\ r.odd = q.odd

(* The CSW goes out on an endpoint at rest.                                *)
LEMMA CswSent ==
  ASSUME NEW q \in Transport, NEW status \in Statuses,
         q.state \notin {"SEND_CSW", "ERROR"}, ~q.in.active,
         Residue(q) \in 0 .. Units
  PROVE  SentCsw(q, SendCSW(q, status), status)
<1> DEFINE e == Request(q.in, "csw", 1)
<1>1. q.in \in Endpoint /\ 1 \in 0 .. Units /\ "csw" \in Whats
  BY Parts, UnitsType DEF Whats
<1>2. e \in Endpoint /\ Runs(e) /\ e.what = "csw" /\ e.stalled = q.in.stalled
  BY <1>1, Requested
<1> DEFINE s == IF q.check THEN "failed" ELSE status
           st == IF status = "phase" THEN "ERROR" ELSE "SEND_CSW"
<1>3. SendCSW(q, status) =
        [q EXCEPT !.status = s, !.residue = Residue(q), !.state = st, !.in = e]
  BY DEF SendCSW
<1>4. s \in {"none", "passed", "failed", "phase"}
      /\ st \in {"IDLE", "DATA_IN", "DATA_OUT", "CSW_PENDING", "SEND_CSW", "ERROR"}
  BY DEF Statuses
<1> HIDE DEF e, s, st
<1>5. SendCSW(q, status) \in Transport
  BY <1>2, <1>3, <1>4, ZenonT(60) DEF Transport
<1>6. /\ SendCSW(q, status).state = st /\ SendCSW(q, status).status = s
      /\ SendCSW(q, status).residue = Residue(q) /\ SendCSW(q, status).in = e
      /\ SendCSW(q, status).out = q.out /\ SendCSW(q, status).actual = q.actual
      /\ SendCSW(q, status).cbw = q.cbw /\ SendCSW(q, status).valid = q.valid
      /\ SendCSW(q, status).rw_pending = q.rw_pending
      /\ SendCSW(q, status).persistent = q.persistent
      /\ SendCSW(q, status).odd = q.odd
  BY <1>3 DEF Transport
<1>7. QED
  BY <1>2, <1>5, <1>6 DEF SentCsw, s, st

(* A buffer for data out.                                                  *)
LEMMA Received ==
  ASSUME NEW q \in Transport, ~q.out.active,
         NEW what \in Whats, NEW n \in 1 .. Units
  PROVE  LET r == Rx(q, what, n) IN
         /\ r \in Transport /\ SameBut(q, r) /\ r.in = q.in
         /\ Runs(r.out) /\ r.out.what = what /\ r.out.n = n
<1> DEFINE e == Request(q.out, what, n)
<1>1. q.out \in Endpoint /\ n \in 0 .. Units /\ n # 0
  BY Parts, UnitsType
<1>2. e \in Endpoint /\ Runs(e) /\ e.what = what /\ e.n = n
  BY <1>1, Requested
<1>3. Rx(q, what, n) = [q EXCEPT !.out = e]
  BY <1>1 DEF Rx
<1> HIDE DEF e
<1>4. Rx(q, what, n) \in Transport
  BY <1>2, <1>3, NewOut
<1>5. SameBut(q, Rx(q, what, n)) /\ Rx(q, what, n).in = q.in /\ Rx(q, what, n).out = e
  BY <1>3 DEF Transport, SameBut
<1>6. QED
  BY <1>2, <1>4, <1>5

(* Data in.                                                                *)
LEMMA Transmitted ==
  ASSUME NEW q \in Transport, ~q.in.active,
         NEW what \in Whats, NEW n \in 1 .. Units
  PROVE  LET r == Tx(q, what, n) IN
         /\ r \in Transport /\ SameBut(q, r) /\ r.out = q.out
         /\ Runs(r.in) /\ r.in.what = what /\ r.in.n = n /\ r.in.stalled = q.in.stalled
<1> DEFINE e == Request(q.in, what, n)
<1>1. q.in \in Endpoint /\ n \in 0 .. Units /\ n # 0
  BY Parts, UnitsType
<1>2. e \in Endpoint /\ Runs(e) /\ e.what = what /\ e.n = n /\ e.stalled = q.in.stalled
  BY <1>1, Requested
<1>3. Tx(q, what, n) = [q EXCEPT !.in = e]
  BY <1>1 DEF Tx
<1> HIDE DEF e
<1>4. Tx(q, what, n) \in Transport
  BY <1>2, <1>3, NewIn
<1>5. SameBut(q, Tx(q, what, n)) /\ Tx(q, what, n).out = q.out /\ Tx(q, what, n).in = e
  BY <1>3 DEF Transport, SameBut
<1>6. QED
  BY <1>2, <1>4, <1>5

(* The cancelling of data out, with or without a stall.                    *)
LEMMA OutCancelled ==
  ASSUME NEW q \in Transport, NEW stall \in BOOLEAN
  PROVE  LET r == CancelOut(q, stall) IN
         /\ r \in Transport /\ SameBut(q, r) /\ r.in = q.in
         /\ IF q.state = "DATA_OUT" /\ q.out.active THEN Off(r.out) ELSE r.out = q.out
<1>1. CASE ~(q.state = "DATA_OUT" /\ q.out.active)
  <2>1. CancelOut(q, stall) = q
    BY <1>1 DEF CancelOut
  <2>2. QED
    BY <1>1, <2>1 DEF SameBut
<1>2. CASE q.state = "DATA_OUT" /\ q.out.active /\ q.out.hw
  <2> DEFINE e == Cancel(q.out)
             c == [q EXCEPT !.out = e]
  <2>1. e \in Endpoint /\ ~e.active /\ ~e.hw
    BY <1>2, Parts, Cancelled
  <2>2. CancelOut(q, stall) = IF stall THEN Stall(c, "out") ELSE c
    BY <1>2 DEF CancelOut, CancelUnfinished
  <2> HIDE DEF e
  <2>3. c \in Transport
    BY <2>1, NewOut
  <2>4. SameBut(q, c) /\ c.in = q.in /\ c.out = e
    BY DEF Transport, SameBut
  <2> HIDE DEF c
  <2>5. CASE stall
    <3>1. LET r == Stall(c, "out") IN
          /\ r \in Transport /\ SameBut(c, r) /\ r.in = c.in
          /\ ~r.out.active /\ r.out.hw = c.out.hw
      BY <2>1, <2>3, <2>4, OutStalled
    <3>2. QED
      BY <1>2, <2>1, <2>2, <2>4, <2>5, <3>1 DEF SameBut, Off
  <2>6. CASE ~stall
    BY <1>2, <2>1, <2>2, <2>3, <2>4, <2>6 DEF Off
  <2>7. QED
    BY <2>5, <2>6
<1>3. CASE q.state = "DATA_OUT" /\ q.out.active /\ ~q.out.hw
  <2> DEFINE e == [q.out EXCEPT !.active = FALSE]
  <2>1. e \in Endpoint /\ ~e.active /\ ~e.hw
    BY <1>3, Parts DEF Endpoint
  <2>2. CancelOut(q, stall) = [q EXCEPT !.out = e]
    BY <1>3 DEF CancelOut
  <2> HIDE DEF e
  <2>3. CancelOut(q, stall) \in Transport
    BY <2>1, <2>2, NewOut
  <2>4. SameBut(q, CancelOut(q, stall)) /\ CancelOut(q, stall).in = q.in
        /\ CancelOut(q, stall).out = e
    BY <2>2 DEF Transport, SameBut
  <2>5. QED
    BY <1>3, <2>1, <2>3, <2>4 DEF Off
<1>4. QED
  BY <1>1, <1>2, <1>3

(* The clean-up after an error or at a reset.                              *)
CleanedUp(q, r, stall) ==
  /\ r \in Transport /\ SameBut(q, r)
  /\ IF q.state = "DATA_OUT" /\ q.out.active THEN Off(r.out) ELSE r.out = q.out
  /\ ~r.in.active
  /\ IF q.in.active THEN ~r.in.hw /\ r.in.what = "none"
     ELSE r.in.hw = q.in.hw /\ r.in.what = q.in.what
  /\ r.in.stalled <=> q.in.stalled \/ (stall /\ q.state = "DATA_IN")

(* Nothing is left to run.                                                 *)
LEMMA Cleaned ==
  ASSUME NEW q \in Transport, NEW stall \in BOOLEAN
  PROVE  CleanedUp(q, Cleanup(q, stall), stall)
<1> DEFINE o == CancelOut(q, stall)
           e == Cancel(o.in)
           c == [o EXCEPT !.in = e]
<1>1. /\ o \in Transport /\ SameBut(q, o) /\ o.in = q.in
      /\ IF q.state = "DATA_OUT" /\ q.out.active THEN Off(o.out) ELSE o.out = q.out
  BY OutCancelled
<1>2. Cleanup(q, stall) = IF stall /\ q.state = "DATA_IN" THEN Stall(c, "in") ELSE c
  BY DEF Cleanup, CancelIn
<1> HIDE DEF o
<1>3. /\ e \in Endpoint /\ ~e.active /\ e.stalled = q.in.stalled
      /\ q.in.active => ~e.hw /\ e.what = "none"
      /\ ~q.in.active => e = q.in
  BY <1>1, Parts, Cancelled
<1> HIDE DEF e
<1>4. c \in Transport
  BY <1>1, <1>3, NewIn
<1>5. SameBut(o, c) /\ c.out = o.out /\ c.in = e
  BY <1>1 DEF Transport, SameBut
<1> HIDE DEF c
<1>6. CASE stall /\ q.state = "DATA_IN"
  <2>1. LET r == Stall(c, "in") IN
        /\ r \in Transport /\ SameBut(c, r) /\ r.out = c.out
        /\ r.in.stalled /\ ~r.in.active /\ r.in.hw = c.in.hw /\ r.in.what = c.in.what
    BY <1>3, <1>4, <1>5, InStalled
  <2>2. Cleanup(q, stall) = Stall(c, "in")
    BY <1>2, <1>6
  <2> DEFINE r == Cleanup(q, stall)
  <2>3. /\ r \in Transport /\ SameBut(c, r) /\ r.out = c.out
        /\ r.in.stalled /\ ~r.in.active /\ r.in.hw = c.in.hw /\ r.in.what = c.in.what
    BY <2>1, <2>2
  <2> HIDE DEF r
  <2>4. SameBut(q, r)
    BY <1>1, <1>5, <2>3 DEF SameBut
  <2>5. IF q.state = "DATA_OUT" /\ q.out.active THEN Off(r.out) ELSE r.out = q.out
    BY <1>1, <1>5, <2>3
  <2>6. IF q.in.active THEN ~r.in.hw /\ r.in.what = "none"
        ELSE r.in.hw = q.in.hw /\ r.in.what = q.in.what
    BY <1>3, <1>5, <2>3
  <2>7. CleanedUp(q, r, stall)
    BY <1>6, <2>3, <2>4, <2>5, <2>6 DEF CleanedUp
  <2>8. QED
    BY <2>7 DEF r
<1>7. CASE ~(stall /\ q.state = "DATA_IN")
  <2>1. Cleanup(q, stall) = c
    BY <1>2, <1>7
  <2>2. QED
    BY <1>1, <1>3, <1>4, <1>5, <1>7, <2>1 DEF CleanedUp, SameBut
<1>8. QED
  BY <1>6, <1>7

(* Back to waiting for a CBW.                                              *)
IdleAgain(q, r) ==
  /\ r \in Transport
  /\ r.state = "IDLE" /\ r.case = 0 /\ ~r.usb /\ ~r.sata /\ ~r.check
  /\ r.in = q.in
  /\ IF q.out.active THEN r.out = q.out
     ELSE Runs(r.out) /\ r.out.what = "cbw"
  /\ r.actual = q.actual /\ r.residue = q.residue /\ r.cbw = q.cbw
  /\ r.valid = q.valid /\ r.status = q.status /\ r.rw_pending = q.rw_pending
  /\ r.persistent = q.persistent /\ r.odd = q.odd

(* A buffer for a CBW is there afterwards.                                 *)
LEMMA Idled ==
  ASSUME NEW q \in Transport
  PROVE  IdleAgain(q, Idle(q))
<1> DEFINE c == [q EXCEPT !.state = "IDLE", !.case = 0, !.usb = FALSE, !.sata = FALSE,
                          !.check = FALSE]
<1>1. c \in Transport
  BY DEF Transport
<1>2. /\ c.state = "IDLE" /\ c.case = 0 /\ ~c.usb /\ ~c.sata /\ ~c.check
      /\ c.in = q.in /\ c.out = q.out
      /\ c.actual = q.actual /\ c.residue = q.residue /\ c.cbw = q.cbw
      /\ c.valid = q.valid /\ c.status = q.status /\ c.rw_pending = q.rw_pending
      /\ c.persistent = q.persistent /\ c.odd = q.odd
  BY DEF Transport
<1>3. Idle(q) = Rx(c, "cbw", 1)
  BY DEF Idle
<1> HIDE DEF c
<1>4. CASE q.out.active
  <2>1. Request(c.out, "cbw", 1) = c.out
    BY <1>2, <1>4, RequestIgnored
  <2>2. Rx(c, "cbw", 1) = [c EXCEPT !.out = c.out]
    BY <2>1 DEF Rx
  <2>3. [c EXCEPT !.out = c.out] = c
    BY <1>1 DEF Transport
  <2>4. QED
    BY <1>1, <1>2, <1>3, <1>4, <2>2, <2>3 DEF IdleAgain
<1>5. CASE ~q.out.active
  <2>1. "cbw" \in Whats /\ 1 \in 1 .. Units
    BY UnitsType DEF Whats
  <2>2. LET r == Rx(c, "cbw", 1) IN
        /\ r \in Transport /\ SameBut(c, r) /\ r.in = c.in
        /\ Runs(r.out) /\ r.out.what = "cbw"
    BY <1>1, <1>2, <1>5, <2>1, Received
  <2>3. QED
    BY <1>2, <1>3, <1>5, <2>2 DEF IdleAgain, SameBut
<1>6. QED
  BY <1>4, <1>5

-----------------------------------------------------------------------------
(* The sequences of the model.                                             *)

(* A callback is put behind the others.                                    *)
LEMMA Queued ==
  ASSUME NEW s \in Seq(Callbacks), NEW r \in Callbacks
  PROVE  /\ Append(s, r) \in Seq(Callbacks)
         /\ DOMAIN s \subseteq DOMAIN Append(s, r)
         /\ \A i \in DOMAIN s : Append(s, r)[i] = s[i]
         /\ \A i \in DOMAIN Append(s, r) : i \in DOMAIN s \/ i = Len(s) + 1
         /\ Append(s, r)[Len(s) + 1] = r
<1> HIDE DEF Callbacks
<1>1. /\ Append(s, r) \in Seq(Callbacks) /\ Len(Append(s, r)) = Len(s) + 1
      /\ \A i \in 1 .. Len(s) : Append(s, r)[i] = s[i]
      /\ Append(s, r)[Len(s) + 1] = r
  BY AppendProperties
<1>2. Len(s) \in Nat /\ DOMAIN s = 1 .. Len(s)
      /\ DOMAIN Append(s, r) = 1 .. Len(s) + 1
  BY <1>1
<1>3. QED
  BY <1>1, <1>2

(* The first callback is taken.                                            *)
LEMMA Dequeued ==
  ASSUME NEW s \in Seq(Callbacks), s # <<>>
  PROVE  /\ Tail(s) \in Seq(Callbacks) /\ Head(s) \in Callbacks
         /\ 1 \in DOMAIN s /\ Head(s) = s[1]
         /\ \A i \in DOMAIN Tail(s) :
              i + 1 \in DOMAIN s /\ i + 1 # 1 /\ Tail(s)[i] = s[i + 1] /\ i \in Int
         /\ \A i \in DOMAIN s : i = 1 \/ i - 1 \in DOMAIN Tail(s)
<1> HIDE DEF Callbacks
<1>1. /\ Tail(s) \in Seq(Callbacks) /\ Head(s) \in Callbacks
      /\ Len(Tail(s)) = Len(s) - 1
      /\ \A i \in 1 .. Len(Tail(s)) : Tail(s)[i] = s[i + 1]
  BY HeadTailProperties
<1>2. Len(s) \in Nat \ {0} /\ DOMAIN s = 1 .. Len(s)
      /\ DOMAIN Tail(s) = 1 .. Len(s) - 1
  BY <1>1, EmptySeq
<1>3. Head(s) = s[1]
  OBVIOUS
<1>4. QED
  BY <1>1, <1>2, <1>3

(* Without a step of disk, link or foreground, all that is known of the    *)
(* disk stays true.                                                        *)
LEMMA DiskKept ==
  ASSUME cb' = cb, ata' = ata, ready' = ready, done' = done
  PROVE  /\ AnswerInv => AnswerInv'
         /\ Owed' <=> Owed
         /\ Unasked' <=> Unasked
  BY DEF AnswerInv, Answered, Owed, Unasked

(* To a command that the disk has not heard of it owes nothing.            *)
LEMMA UnaskedIsFree ==
  ASSUME AnswerInv, Unasked
  PROVE  ~Owed
  BY DEF AnswerInv, Answer, Answered, Owed, Unasked

(* So it does when a callback is taken, except that an answer of the       *)
(* command in hand is the only one, and nothing is owed after it.          *)
LEMMA DiskServed ==
  ASSUME Types, AnswerInv, cb # <<>>, cb' = Tail(cb), ata' = ata, ready' = ready,
         done' = done
  PROVE  /\ AnswerInv' /\ cb' \in Seq(Callbacks)
         /\ Owed' => Owed
         /\ Unasked' <=> Unasked
         /\ Answer(Head(cb)) => Owed /\ ~Owed' /\ ata # "mine" /\ done = Head(cb)
<1>1. cb \in Seq(Callbacks)
  BY DEF Types
<1>2. /\ Tail(cb) \in Seq(Callbacks)
      /\ 1 \in DOMAIN cb /\ Head(cb) = cb[1]
      /\ \A i \in DOMAIN Tail(cb) :
           i + 1 \in DOMAIN cb /\ i + 1 # 1 /\ Tail(cb)[i] = cb[i + 1] /\ i \in Int
  BY <1>1, Dequeued
<1>3. AnswerInv'
  <2>1. \A i \in DOMAIN Tail(cb) : Answer(Tail(cb)[i]) => ata # "mine" /\ done = Tail(cb)[i]
    BY <1>2 DEF AnswerInv
  <2>2. ASSUME NEW i \in DOMAIN Tail(cb), NEW j \in DOMAIN Tail(cb),
               Answer(Tail(cb)[i]), Answer(Tail(cb)[j])
        PROVE  i = j
    <3>1. i + 1 = j + 1
      BY <1>2, <2>2 DEF AnswerInv
    <3>2. i \in Int /\ j \in Int
      BY <1>2
    <3>3. QED
      BY <3>1, <3>2
  <2>3. QED
    BY <2>1, <2>2 DEF AnswerInv
<1>4. Answered' => Answered
  BY <1>2 DEF Answered
<1>5. ASSUME Answer(Head(cb))
      PROVE  Owed /\ ~Owed' /\ ata # "mine" /\ done = Head(cb)
  <2>1. ata # "mine" /\ done = Head(cb) /\ Answered
    BY <1>2, <1>5 DEF AnswerInv, Answered
  <2>2. \A i \in DOMAIN Tail(cb) : ~Answer(Tail(cb)[i])
    BY <1>2, <1>5 DEF AnswerInv
  <2>3. QED
    BY <2>1, <2>2 DEF Owed, Answered
<1>6. QED
  BY <1>2, <1>3, <1>4, <1>5 DEF Owed, Unasked

(* No buffer is of two kinds.                                              *)
LEMMA Kinds ==
  /\ \A s, d : Only(s, d) => s # <<>> /\ ~Both(s, "in", "out") /\ ~Both(s, "out", "in")
  /\ \A s : Only(s, "in") => ~Only(s, "out")
  /\ \A s, d, e : Both(s, d, e) => s # <<>>
  /\ \A s : Both(s, "in", "out") => ~Both(s, "out", "in")
<1>1. ASSUME NEW s, NEW d, Only(s, d)
      PROVE  s # <<>> /\ ~Both(s, "in", "out") /\ ~Both(s, "out", "in")
  BY <1>1 DEF Only, Both
<1>2. ASSUME NEW s, NEW d, NEW e, Both(s, d, e) PROVE s # <<>>
  BY <1>2 DEF Both
<1>3. QED
  BY <1>1, <1>2 DEF Only, Both

(* An event is added to an empty buffer.                                   *)
LEMMA FirstEvent ==
  ASSUME NEW e \in Events
  PROVE  /\ Append(<<>>, e) \in Seq(Events) /\ Append(<<>>, e) # <<>>
         /\ Only(Append(<<>>, e), e.ep) /\ Append(<<>>, e)[1] = e
         /\ Len(Append(<<>>, e)) = 1
  BY DEF Only

(* A second one.                                                           *)
LEMMA SecondEvent ==
  ASSUME NEW s \in Seq(Events), NEW e \in Events, NEW d, Only(s, d)
  PROVE  /\ Append(s, e) \in Seq(Events) /\ Append(s, e) # <<>>
         /\ Both(Append(s, e), d, e.ep)
<1> HIDE DEF Events
<1>1. Len(s) = 1 /\ s[1].ep = d
  BY DEF Only
<1>2. /\ Append(s, e) \in Seq(Events) /\ Append(s, e) # <<>>
      /\ Len(Append(s, e)) = Len(s) + 1
      /\ \A i \in 1 .. Len(s) : Append(s, e)[i] = s[i]
      /\ Append(s, e)[Len(s) + 1] = e
  BY AppendProperties
<1>3. Len(Append(s, e)) = 2 /\ Append(s, e)[1] = s[1] /\ Append(s, e)[2] = e
  BY <1>1, <1>2
<1>4. QED
  BY <1>1, <1>2, <1>3 DEF Both

(* The only event is taken.                                                *)
LEMMA LastEvent ==
  ASSUME NEW s \in Seq(Events), NEW d, Only(s, d)
  PROVE  s # <<>> /\ Head(s) = s[1] /\ Head(s) \in Events /\ Head(s).ep = d
         /\ Tail(s) = <<>>
<1>1. Len(s) = 1 /\ s[1].ep = d
  BY DEF Only
<1>2. s # <<>>
  BY Kinds
<1>3. Head(s) = s[1]
  BY <1>2
<1>4. Head(s) \in Events /\ Tail(s) \in Seq(Events) /\ Len(Tail(s)) = 0
  BY <1>1, <1>2, HeadTailProperties
<1>5. Tail(s) = <<>>
  BY <1>4, EmptySeq
<1>6. QED
  BY <1>1, <1>2, <1>3, <1>4, <1>5

(* The first of two is taken.                                              *)
LEMMA NextEvent ==
  ASSUME NEW s \in Seq(Events), NEW d, NEW e, Both(s, d, e)
  PROVE  s # <<>> /\ Head(s) \in Events /\ Head(s).ep = d
         /\ Tail(s) \in Seq(Events) /\ Only(Tail(s), e)
  BY SMTT(40) DEF Only, Both

-----------------------------------------------------------------------------
(* The disk and the link: nothing else moves.                              *)

(* What the invariant says of the disk, when it alone moves and what was   *)
(* known of it stays true.                                                 *)
LEMMA DiskMoves ==
  ASSUME IInv, t' = t, events' = events, h' = h, Types', AnswerInv',
         Owed' => Owed, Unasked => Unasked',
         ata # "mine" => ata' # "mine" /\ done' = done
  PROVE  IInv'
<1>1. Shape(t)' /\ Wire(t, events)' /\ Hands(t, h, events)' /\ ResidueInv'
  BY DEF IInv, ResidueInv
<1>2. DiskInv
  BY DEF IInv
<1>3. IsDone(t) => IsDone(t)'
  BY DEF IsDone
<1>4. DiskInv'
  <2>1. /\ t.state = "IDLE" /\ Fin(t.out) => Unasked'
        /\ t.state = "DATA_OUT" /\ ~t.cbw.rw /\ t.out.active => Unasked'
    BY <1>2 DEF DiskInv
  <2>2. Owed' => /\ t.rw_pending = t.cbw.rw
                 /\ t.actual = 0 => t.state \notin {"DATA_IN", "DATA_OUT"}
                 /\ t.state = "DATA_IN" /\ ~t.cbw.rw => ~t.in.active
    BY <1>2 DEF DiskInv
  <2>3. /\ t.state \in {"DATA_IN", "DATA_OUT"} /\ t.sata => IsDone(t)'
        /\ t.in.what = "csw" /\ t.status = "passed" => IsShort(t) \/ IsDone(t)'
        /\ h.csw = "passed" => h.phase = "idle" /\ (IsShort(t) \/ IsDone(t)')
    BY <1>2, <1>3 DEF DiskInv
  <2>4. QED
    BY <2>1, <2>2, <2>3 DEF DiskInv, IsShort
<1>5. QED
  BY <1>1, <1>4 DEF IInv

(* An answer of the disk is the one that is owed, or that of an earlier    *)
(* command.                                                                *)
LEMMA AtaAnswersStep == IInv /\ AtaAnswers => IInv'
<1> SUFFICES ASSUME IInv, AtaAnswers PROVE IInv'
  OBVIOUS
<1>1. Types /\ AnswerInv /\ ready /\ ata # "none" /\ ata \in {"none", "mine", "old"}
  BY DEF IInv, Types, DiskInv, AtaAnswers
<1>2. PICK r \in {"ok", "bad", "error"} :
        /\ cb' = IF r = "error" /\ cb # <<>> THEN cb
                 ELSE Append(cb, IF r = "error" \/ ata = "mine" THEN r ELSE "late")
        /\ done' = (IF ata = "mine" THEN r ELSE done)
        /\ ready' \in IF r = "error" THEN BOOLEAN ELSE {TRUE}
  BY DEF AtaAnswers
<1>3. ata' = "none" /\ t' = t /\ events' = events /\ h' = h
  BY DEF AtaAnswers
<1>4. cb \in Seq(Callbacks)
  BY <1>1 DEF Types
<1>5. ata = "mine" => ~Answered /\ done = "none" /\ Owed /\ ~Unasked
  BY <1>1 DEF AnswerInv, Answered, Owed, Unasked
<1>6. cb' \in Seq(Callbacks) /\ AnswerInv' /\ (Answered' => Owed)
  <2>1. CASE cb' = cb
    <3>1. \A i \in DOMAIN cb : Answer(cb[i]) => ata # "mine"
      BY <1>1 DEF AnswerInv
    <3>2. Answered' => Owed
      BY <2>1 DEF Answered, Owed
    <3>3. AnswerInv'
      BY <1>1, <1>2, <1>3, <2>1, <3>1 DEF AnswerInv
    <3>4. QED
      BY <1>4, <2>1, <3>2, <3>3
  <2>2. ASSUME NEW k \in Callbacks, cb' = Append(cb, k),
               Answer(k) => ata = "mine" /\ done' = k
        PROVE  cb' \in Seq(Callbacks) /\ AnswerInv' /\ (Answered' => Owed)
    <3>1. /\ cb' \in Seq(Callbacks)
          /\ \A i \in DOMAIN cb : cb'[i] = cb[i]
          /\ \A i \in DOMAIN cb' : i \in DOMAIN cb \/ i = Len(cb) + 1
          /\ cb'[Len(cb) + 1] = k
      BY <1>4, <2>2, Queued
    <3>2. CASE ata = "mine"
      <4>1. \A i \in DOMAIN cb' : Answer(cb'[i]) => i = Len(cb) + 1
        BY <1>5, <3>1, <3>2 DEF Answered
      <4>2. QED
        BY <1>3, <1>5, <2>2, <3>1, <3>2, <4>1 DEF AnswerInv
    <3>3. CASE ata # "mine"
      <4>1. \A i \in DOMAIN cb' : Answer(cb'[i]) => i \in DOMAIN cb /\ Answer(cb[i])
        BY <2>2, <3>1, <3>3
      <4>2. Answered' => Answered
        BY <4>1 DEF Answered
      <4>3. done' = done
        BY <1>2, <3>3
      <4>4. AnswerInv'
        BY <1>1, <1>3, <3>1, <4>1, <4>3 DEF AnswerInv
      <4>5. QED
        BY <3>1, <4>2, <4>4 DEF Owed
    <3>4. QED
      BY <3>2, <3>3
  <2>3. CASE cb' # cb
    <3> DEFINE k == IF r = "error" \/ ata = "mine" THEN r ELSE "late"
    <3>1. cb' = Append(cb, k)
      BY <1>2, <2>3
    <3>2. k \in Callbacks /\ (Answer(k) => ata = "mine" /\ done' = k)
      BY <1>2 DEF Callbacks, Answer
    <3> HIDE DEF k
    <3>3. QED
      BY <2>2, <3>1, <3>2
  <2>4. QED
    BY <2>1, <2>3
<1>7. Types'
  BY <1>1, <1>2, <1>3, <1>6 DEF Types
<1>8. Owed' => Owed
  BY <1>3, <1>6 DEF Owed
<1>9. ata # "mine" => ata' # "mine" /\ done' = done
  BY <1>2, <1>3
<1>10. Unasked => Unasked'
  BY <1>5, <1>9 DEF Unasked
<1>11. QED
  BY <1>3, <1>6, <1>7, <1>8, <1>9, <1>10, DiskMoves

(* A link change leaves an error callback, unless there is one.            *)
LEMMA LinkChangeStep == IInv /\ LinkChange => IInv'
<1> SUFFICES ASSUME IInv, LinkChange PROVE IInv'
  OBVIOUS
<1>1. /\ ready /\ ready' = FALSE /\ cb' = IF cb = <<>> THEN <<"error">> ELSE cb
      /\ t' = t /\ events' = events /\ h' = h /\ ata' = ata /\ done' = done
  BY DEF LinkChange
<1>2. Types /\ AnswerInv
  BY DEF IInv, DiskInv
<1>3. cb' \in Seq(Callbacks) /\ AnswerInv' /\ (Answered' => Answered)
  <2>1. CASE cb' = cb
    BY <1>1, <1>2, <2>1 DEF AnswerInv, Answered, Types
  <2>2. CASE cb' = <<"error">>
    <3>1. cb' \in Seq(Callbacks) /\ \A i \in DOMAIN cb' : ~Answer(cb'[i])
      BY <2>2 DEF Callbacks, Answer
    <3>2. QED
      BY <1>1, <1>2, <3>1 DEF AnswerInv, Answered
  <2>3. QED
    BY <1>1, <2>1, <2>2
<1>4. Types'
  BY <1>1, <1>2, <1>3 DEF Types
<1>5. (Owed' => Owed) /\ (Unasked => Unasked')
  BY <1>1, <1>3 DEF Owed, Unasked
<1>6. QED
  BY <1>1, <1>3, <1>4, <1>5, DiskMoves

(* Discovery frees the slot.                                               *)
LEMMA RediscoverStep == IInv /\ Rediscover => IInv'
<1> SUFFICES ASSUME IInv, Rediscover PROVE IInv'
  OBVIOUS
<1>1. /\ cb = <<>> /\ ready' = TRUE /\ ata' = "none"
      /\ t' = t /\ events' = events /\ h' = h /\ cb' = cb /\ done' = done
  BY DEF Rediscover
<1>2. Types'
  BY <1>1 DEF IInv, Types
<1>3. AnswerInv' /\ ~Owed' /\ (Unasked => Unasked')
  BY <1>1 DEF AnswerInv, Answered, Owed, Unasked
<1>4. QED
  BY <1>1, <1>2, <1>3, DiskMoves

-----------------------------------------------------------------------------
(* The wire.                                                               *)

(* A transfer is done on the wire.                                         *)
LEMMA InDone ==
  ASSUME NEW q \in Transport
  PROVE  LET r == [q EXCEPT !["in"] = Released(@)] IN
         /\ r \in Transport /\ SameBut(q, r) /\ r.out = q.out
         /\ r.in.active = q.in.active /\ ~r.in.hw /\ r.in.what = "none"
         /\ r.in.stalled = q.in.stalled
<1> DEFINE e == Released(q.in)
           r == [q EXCEPT !.in = e]
<1>1. /\ e \in Endpoint /\ ~e.hw /\ e.what = "none"
      /\ e.active = q.in.active /\ e.stalled = q.in.stalled
  BY Parts, ReleasedType
<1>2. [q EXCEPT !["in"] = Released(@)] = r
  OBVIOUS
<1> HIDE DEF e
<1>3. r \in Transport
  BY <1>1, NewIn
<1>4. SameBut(q, r) /\ r.out = q.out /\ r.in = e
  BY DEF Transport, SameBut
<1>5. QED
  BY <1>1, <1>2, <1>3, <1>4

(* The same of data out.                                                   *)
LEMMA OutDone ==
  ASSUME NEW q \in Transport
  PROVE  LET r == [q EXCEPT !["out"] = Released(@)] IN
         /\ r \in Transport /\ SameBut(q, r) /\ r.in = q.in
         /\ r.out.active = q.out.active /\ ~r.out.hw /\ r.out.what = "none"
<1> DEFINE e == Released(q.out)
           r == [q EXCEPT !.out = e]
<1>1. /\ e \in Endpoint /\ ~e.hw /\ e.what = "none"
      /\ e.active = q.out.active /\ e.stalled = q.out.stalled
  BY Parts, ReleasedType
<1>2. [q EXCEPT !["out"] = Released(@)] = r
  OBVIOUS
<1> HIDE DEF e
<1>3. r \in Transport
  BY <1>1, NewOut
<1>4. SameBut(q, r) /\ r.in = q.in /\ r.out = e
  BY DEF Transport, SameBut
<1>5. QED
  BY <1>1, <1>2, <1>3, <1>4

(* A new command of the host.                                              *)
LEMMA FreshType ==
  /\ \A p \in {"idle", "data_in", "data_out", "status", "recover", "clear"} :
       LET g == [Fresh EXCEPT !.phase = p] IN
       g \in Host /\ g.phase = p /\ g.got = 0 /\ g.csw = "none"
  /\ Fresh \in Host /\ Fresh.phase = "idle" /\ Fresh.csw = "none"
<1>1. 0 \in 0 .. Units
  BY UnitsType
<1>2. QED
  BY <1>1 DEF Fresh, Host

(* The host sends a CBW only when the device waits for one; nothing is     *)
(* owed to the new command.                                                *)
LEMMA HostSendsCBWStep == IInv /\ HostSendsCBW => IInv'
<1> SUFFICES ASSUME IInv, HostSendsCBW PROVE IInv'
  OBVIOUS
<1>1. h.phase = "idle" /\ t.out.hw
  BY DEF HostSendsCBW
<1>2. Types /\ Shape(t) /\ Wire(t, events) /\ Hands(t, h, events)
  BY DEF IInv
<1>3. t \in Transport /\ h \in Host /\ events \in Seq(Events)
  BY <1>2 DEF Types
<1>4. t.state = "IDLE" /\ Runs(t.out) /\ Off(t.in) /\ ~t.in.stalled /\ ~t.persistent
      /\ t.out.what = "cbw" /\ ~t.odd
  BY <1>1, <1>2 DEF Hands, Shape, IdleShape, CswShape, Off, Runs
<1>5. events = <<>> \/ Only(events, "in")
  BY <1>2, <1>4 DEF Wire, Fin, Runs
<1>6. PICK v \in BOOLEAN, c \in CBWs :
        /\ t' = [t EXCEPT !.cbw = c, !.valid = v, !.out = Released(@)]
        /\ h' = [Fresh EXCEPT !.phase = IF v THEN AfterCBW(c) ELSE "status"]
        /\ ~v => c = Blank
  <2>1. Blank \in CBWs
    <3>1. [dir |-> "out", len |-> 0, intent |-> "none", rw |-> FALSE, want |-> 0,
           check |-> FALSE] \in CBWs
      BY UnitsType DEF CBWs, CaseOf
    <3>2. \E c \in CBWs : c.len = 0 /\ c.intent = "none" /\ ~c.check
      BY <3>1
    <3>3. QED
      BY <3>2 DEF Blank
  <2>2. PICK v \in BOOLEAN : \E c \in IF v THEN CBWs ELSE {Blank} :
          /\ t' = [t EXCEPT !.cbw = c, !.valid = v, !.out = Released(@)]
          /\ h' = [Fresh EXCEPT !.phase = IF t.out.what # "cbw" THEN "confused"
                                          ELSE IF v THEN AfterCBW(c) ELSE "status"]
    BY DEF HostSendsCBW
  <2>3. QED
    BY <1>4, <2>1, <2>2
<1> DEFINE p == IF v THEN AfterCBW(c) ELSE "status"
<1>7. p \in {"status", "data_in", "data_out"} /\ h' = [Fresh EXCEPT !.phase = p]
  BY <1>6 DEF AfterCBW
<1>8. /\ p = "data_in" => c.dir = "in" /\ c.len > 0
      /\ p = "data_out" => c.dir = "out" /\ c.len > 0
      /\ p = "status" /\ v => c.len = 0
      /\ ~v => p = "status" /\ c.len = 0
  <2>1. ~v => c.len = 0
    <3>1. [dir |-> "out", len |-> 0, intent |-> "none", rw |-> FALSE, want |-> 0,
           check |-> FALSE] \in CBWs
      BY UnitsType DEF CBWs, CaseOf
    <3>2. \E d \in CBWs : d.len = 0 /\ d.intent = "none" /\ ~d.check
      BY <3>1
    <3>3. Blank.len = 0
      BY <3>2 DEF Blank
    <3>4. QED
      BY <1>6, <3>3
  <2>2. c.len \in Nat /\ c.dir \in {"in", "out"}
    BY <1>6, CBWType, UnitsType
  <2>3. QED
    BY <2>1, <2>2 DEF AfterCBW
<1> HIDE DEF p
<1>9. h' \in Host /\ h'.phase = p /\ h'.got = 0 /\ h'.csw = "none"
  BY <1>7, FreshType
<1> DEFINE e == Released(t.out)
<1>10. e \in Endpoint /\ Fin(e)
  BY <1>3, <1>4, Parts, ReleasedType DEF Fin, Runs
<1>11. t' = [t EXCEPT !.cbw = c, !.valid = v, !.out = e]
  BY <1>6
<1> HIDE DEF e
<1>12. t' \in Transport
  BY <1>3, <1>6, <1>10, <1>11 DEF Transport
<1>13. /\ t'.state = "IDLE" /\ t'.case = t.case /\ t'.usb = t.usb /\ t'.sata = t.sata
       /\ t'.check = t.check /\ t'.cbw = c /\ t'.valid = v /\ t'.persistent = t.persistent
       /\ t'.odd = t.odd /\ t'.in = t.in /\ t'.out = e
  BY <1>3, <1>4, <1>11 DEF Transport
<1> DEFINE n == [ep |-> "out", n |-> 1]
<1>14. n \in Events /\ n.ep = "out" /\ events' = Append(events, n)
  BY UnitsType DEF Events, HostSendsCBW
<1> HIDE DEF n
<1>15. events' \in Seq(Events) /\ (Only(events', "out") \/ Both(events', "in", "out"))
  BY <1>3, <1>5, <1>14, FirstEvent, SecondEvent
<1>16. /\ ata' \in {"none", "old"} /\ done' = "none" /\ ready' = ready
       /\ cb' = [i \in DOMAIN cb |-> IF cb[i] = "error" THEN "error" ELSE "late"]
  BY DEF HostSendsCBW
<1>24. cb' \in Seq(Callbacks) /\ \A i \in DOMAIN cb' : ~Answer(cb'[i])
  BY <1>2, <1>16 DEF Types, Callbacks, Answer
<1>25. AnswerInv' /\ ~Owed' /\ Unasked'
  BY <1>16, <1>24 DEF AnswerInv, Answered, Owed, Unasked
<1>17. Types'
  BY <1>2, <1>9, <1>12, <1>15, <1>16, <1>24 DEF Types
<1>18. Shape(t')
  BY <1>2, <1>4, <1>10, <1>13 DEF Shape, IdleShape, Off, Fin
<1>19. Wire(t', events')
  BY <1>10, <1>13, <1>15 DEF Wire
<1>20. Hands(t', h', events')
  <2>1. ~Only(events', "in")
    BY <1>15, Kinds
  <2>2. p = "data_in" => Reads(t', h', events')
    BY <1>4, <1>8, <1>9, <1>13, <1>2 DEF Reads, Off, Shape
  <2>3. p = "data_out" => Sends(t', h', events')
    BY <1>8, <1>9, <1>10, <1>13 DEF Sends, Fin
  <2>4. p = "status" => Asks(t', h', events')
    BY <1>8, <1>9, <1>13 DEF Asks
  <2>5. QED
    BY <1>7, <1>8, <1>9, <1>10, <1>13, <2>1, <2>2, <2>3, <2>4 DEF Hands, Runs, Fin
<1>21. DiskInv'
  BY <1>4, <1>9, <1>13, <1>25, <1>2 DEF DiskInv, Off, Shape
<1>22. ResidueInv'
  BY <1>4, <1>9, <1>13, <1>2 DEF ResidueInv, Off, Shape
<1>23. QED
  BY <1>17, <1>18, <1>19, <1>20, <1>21, <1>22 DEF IInv

(* Data out go into a buffer that takes them.                              *)
LEMMA HostSendsDataStep == IInv /\ HostSendsData => IInv'
<1> SUFFICES ASSUME IInv, HostSendsData PROVE IInv'
  OBVIOUS
<1>1. h.phase = "data_out" /\ t.out.hw
  BY DEF HostSendsData
<1>2. Types /\ Shape(t) /\ Wire(t, events) /\ Hands(t, h, events) /\ Sends(t, h, events)
  BY <1>1 DEF IInv, Hands
<1>3. t \in Transport /\ h \in Host /\ events \in Seq(Events) /\ t.out \in Endpoint
  BY <1>2, Parts DEF Types
<1>4. t.state = "DATA_OUT"
  BY <1>1, <1>2, <1>3 DEF Shape, InShape, PendingShape, CswShape, Sends, Off, Transport
<1>5. OutShape(t) /\ events = <<>>
  BY <1>1, <1>2, <1>4 DEF Shape, Wire, Fin
<1>6. /\ t' \in Transport /\ SameBut(t, t') /\ t'.in = t.in
      /\ t'.out.active = t.out.active /\ ~t'.out.hw /\ t'.out.what = "none"
  BY <1>3, OutDone DEF HostSendsData, Complete
<1> DEFINE e == [ep |-> "out", n |-> t.out.n]
<1>7. e \in Events /\ e.ep = "out" /\ e.n = t.out.n /\ events' = Append(events, e)
  BY <1>3 DEF HostSendsData, Complete, Events, Endpoint
<1> HIDE DEF e
<1>8. /\ events' \in Seq(Events) /\ Only(events', "out") /\ events'[1].n = t.out.n
      /\ events' # <<>>
  BY <1>5, <1>7, FirstEvent
<1>9. PICK k \in Nat : k = t.out.n /\ k >= 1 /\ k <= t.residue
  BY <1>1, <1>3, <1>5, UnitsType DEF OutShape, Endpoint
<1>10. PICK len \in 0 .. Units, res \in 0 .. Units, got \in 0 .. Units :
         len = t.cbw.len /\ res = t.residue /\ got = h.got /\ got = len - res
  <2>1. t.cbw.len \in 0 .. Units /\ t.residue \in 0 .. Units /\ h.got \in 0 .. Units
    BY <1>3, Parts, CBWType DEF Transport, Host
  <2>2. h.got = t.cbw.len - t.residue
    BY <1>1, <1>2, <1>3, <1>4, <2>1, UnitsType DEF Sends, Fin
  <2>3. QED
    BY <2>1, <2>2
<1>11. got + k \in 0 .. Units /\ ~(got + k > len)
  BY <1>9, <1>10, UnitsType
<1> DEFINE p == IF got + k = len THEN "status" ELSE "data_out"
<1>12. h' = [h EXCEPT !.got = got + k, !.phase = p]
  BY <1>1, <1>5, <1>9, <1>10, <1>11 DEF HostSendsData, OutShape
<1>13. p \in {"status", "data_out"}
  OBVIOUS
<1> HIDE DEF p
<1>14. h' \in Host /\ h'.phase = p /\ h'.got = got + k /\ h'.csw = h.csw
  BY <1>3, <1>11, <1>12, <1>13 DEF Host
<1>15. ata' = ata /\ cb' = cb /\ ready' = ready /\ done' = done
  BY DEF HostSendsData, Quiet
<1>16. Types'
  BY <1>2, <1>6, <1>8, <1>14, <1>15 DEF Types
<1>17. t'.state = "DATA_OUT" /\ Fin(t'.out) /\ t'.cbw = t.cbw /\ t'.residue = t.residue
  BY <1>1, <1>4, <1>5, <1>6 DEF SameBut, Fin, OutShape
<1>18. Shape(t')
  BY <1>1, <1>2, <1>4, <1>5, <1>6 DEF Shape, OutShape, SameBut
<1>19. Wire(t', events')
  BY <1>8, <1>9, <1>17 DEF Wire
<1>20. Hands(t', h', events')
  <2>1. Sends(t', h', events')
    BY <1>2, <1>8, <1>9, <1>10, <1>14, <1>17 DEF Sends
  <2>2. Asks(t', h', events')
    BY <1>17 DEF Asks
  <2>3. QED
    BY <1>13, <1>14, <1>17, <2>1, <2>2 DEF Hands
<1>21. ~t'.in.hw /\ t'.in.what = "none"
  BY <1>2, <1>5, <1>6 DEF Shape, OutShape, Off
<1>22. h.csw # "passed"
  BY <1>1 DEF IInv, DiskInv
<1>23. DiskInv'
  BY <1>4, <1>6, <1>14, <1>15, <1>17, <1>21, <1>22, DiskKept DEF IInv, DiskInv, IsDone, Fin, SameBut
<1>24. ResidueInv'
  BY <1>14, <1>21, <1>22 DEF ResidueInv
<1>25. QED
  BY <1>16, <1>18, <1>19, <1>20, <1>23, <1>24 DEF IInv

(* Data in are read while they are offered, never a CSW in their place.    *)
LEMMA HostReadsDataStep == IInv /\ HostReadsData => IInv'
<1> SUFFICES ASSUME IInv, HostReadsData PROVE IInv'
  OBVIOUS
<1>1. h.phase = "data_in" /\ t.in.hw /\ ~t.in.stalled
  BY DEF HostReadsData
<1>2. Types /\ Shape(t) /\ Wire(t, events) /\ Hands(t, h, events) /\ Reads(t, h, events)
  BY <1>1 DEF IInv, Hands
<1>3. t \in Transport /\ h \in Host /\ events \in Seq(Events) /\ t.in \in Endpoint
  BY <1>2, Parts DEF Types
<1>4. t.state = "DATA_IN"
  BY <1>1, <1>2, <1>3 DEF Shape, IdleShape, OutShape, PendingShape, CswShape, Reads, Off, Transport
<1>5. InShape(t) /\ events = <<>>
  BY <1>1, <1>2, <1>4 DEF Shape, Wire, Fin
<1>6. /\ t' \in Transport /\ SameBut(t, t') /\ t'.out = t.out
      /\ t'.in.active = t.in.active /\ ~t'.in.hw /\ t'.in.what = "none"
      /\ t'.in.stalled = t.in.stalled
  BY <1>3, InDone DEF HostReadsData, Complete
<1> DEFINE e == [ep |-> "in", n |-> t.in.n]
<1>7. e \in Events /\ e.ep = "in" /\ e.n = t.in.n /\ events' = Append(events, e)
  BY <1>3 DEF HostReadsData, Complete, Events, Endpoint
<1> HIDE DEF e
<1>8. /\ events' \in Seq(Events) /\ Only(events', "in") /\ events'[1].n = t.in.n
      /\ events' # <<>>
  BY <1>5, <1>7, FirstEvent
<1>9. PICK k \in 0 .. Units, len \in 0 .. Units :
        k = t.in.n /\ len = t.cbw.len /\ k >= 1 /\ k <= len
  BY <1>1, <1>3, <1>5, UnitsType, Parts, CBWType DEF InShape, Endpoint
<1>10. h.got = 0
  BY <1>1, <1>2, <1>4 DEF Reads, Fin
<1>11. h.got + t.in.n = k /\ ~(k > len)
  BY <1>9, <1>10, UnitsType
<1>12. t.in.what # "csw"
  BY <1>1, <1>5 DEF InShape
<1>13. PICK short \in BOOLEAN :
         h' = [h EXCEPT !.got = k,
                        !.phase = IF k = len \/ short THEN "status" ELSE @]
  BY <1>9, <1>11, <1>12 DEF HostReadsData
<1> DEFINE p == IF k = len \/ short THEN "status" ELSE "data_in"
<1>14. /\ h' = [h EXCEPT !.got = k, !.phase = p] /\ p \in {"status", "data_in"}
       /\ p = "data_in" => k < len
  <2>1. p \in {"status", "data_in"}
    OBVIOUS
  <2>2. p = "data_in" => k < len
    BY <1>9, UnitsType
  <2>3. h' = [h EXCEPT !.got = k, !.phase = p]
    BY <1>1, <1>13
  <2>4. QED
    BY <2>1, <2>2, <2>3
<1> HIDE DEF p
<1>15. h' \in Host /\ h'.phase = p /\ h'.got = k /\ h'.csw = h.csw
  <2>1. p \in {"idle", "data_in", "data_out", "status", "retry", "recover", "clear"}
    BY <1>14
  <2>2. h' = [h EXCEPT !.got = k, !.phase = p]
    BY <1>14
  <2>3. QED
    BY <1>3, <1>9, <2>1, <2>2 DEF Host
<1>16. ata' = ata /\ cb' = cb /\ ready' = ready /\ done' = done
  BY DEF HostReadsData, Quiet
<1>17. Types'
  BY <1>2, <1>6, <1>8, <1>15, <1>16 DEF Types
<1>18. t'.state = "DATA_IN" /\ Fin(t'.in) /\ t'.cbw = t.cbw
  BY <1>1, <1>4, <1>5, <1>6 DEF SameBut, Fin, InShape
<1>19. Shape(t')
  BY <1>1, <1>2, <1>4, <1>5, <1>6 DEF Shape, InShape, SameBut
<1>20. Wire(t', events')
  <2>1. events'[1].n = k /\ t'.cbw.len = len /\ t'.actual = t.actual
        /\ t'.cbw.rw = t.cbw.rw /\ t'.case = t.case
    BY <1>6, <1>8, <1>9 DEF SameBut
  <2>2. t.cbw.rw \/ t.case = 5 => k = t.actual
    BY <1>1, <1>5, <1>9 DEF InShape
  <2>3. events'[1].n >= 1 /\ events'[1].n <= t'.cbw.len
    BY <1>9, <2>1
  <2>4. t'.cbw.rw \/ t'.case = 5 => events'[1].n = t'.actual
    BY <2>1, <2>2
  <2>5. QED
    BY <1>8, <1>18, <2>3, <2>4 DEF Wire
<1>21. Hands(t', h', events')
  <2>1. p = "data_in" => Reads(t', h', events')
    <3>1. t'.cbw.dir = "in" /\ t'.cbw.len > 0
      BY <1>2, <1>4, <1>6 DEF Reads, SameBut
    <3>2. h'.got = events'[1].n
      BY <1>8, <1>9, <1>15
    <3>3. p = "data_in" => h'.got < t'.cbw.len
      BY <1>9, <1>14, <1>15, <1>18
    <3>5. ~t'.usb
      BY <1>2, <1>4, <1>6 DEF Reads, SameBut
    <3>4. QED
      BY <1>6, <1>18, <3>1, <3>2, <3>3, <3>5 DEF Reads
  <2>2. p = "status" => Asks(t', h', events')
    BY <1>6, <1>8, <1>9, <1>15, <1>18 DEF Asks, Fin
  <2>3. QED
    BY <1>14, <1>15, <1>18, <2>1, <2>2 DEF Hands
<1>22. h.csw # "passed"
  BY <1>1 DEF IInv, DiskInv
<1>23. DiskInv'
  BY <1>4, <1>6, <1>15, <1>16, <1>18, <1>22, DiskKept
     DEF IInv, DiskInv, IsDone, Fin, SameBut
<1>24. ResidueInv'
  BY <1>6, <1>15, <1>22 DEF ResidueInv
<1>25. QED
  BY <1>17, <1>19, <1>20, <1>21, <1>23, <1>24 DEF IInv

(* What is read for a status is a CSW, and it is true.                     *)
LEMMA HostReadsStatusStep == IInv /\ HostReadsStatus => IInv'
<1> SUFFICES ASSUME IInv, HostReadsStatus PROVE IInv'
  OBVIOUS
<1>1. h.phase \in {"status", "retry"} /\ t.in.hw /\ ~t.in.stalled
  BY DEF HostReadsStatus
<1>2. Types /\ Shape(t) /\ Wire(t, events) /\ Hands(t, h, events)
  BY <1>1 DEF IInv
<1>3. t \in Transport /\ h \in Host /\ events \in Seq(Events) /\ t.in \in Endpoint
  BY <1>2, Parts DEF Types
<1>4. t.state \in {"IDLE", "SEND_CSW", "ERROR"} /\ t.in.what = "csw"
  BY <1>1, <1>2, <1>3
     DEF Shape, IdleShape, OutShape, PendingShape, CswShape, Hands, Asks, AsksAgain, Off, Transport
<1>5. /\ t' \in Transport /\ SameBut(t, t') /\ t'.out = t.out
      /\ t'.in.active = t.in.active /\ ~t'.in.hw /\ t'.in.what = "none"
      /\ t'.in.stalled = t.in.stalled
  BY <1>3, InDone DEF HostReadsStatus, Complete
<1> DEFINE e == [ep |-> "in", n |-> t.in.n]
<1>6. e \in Events /\ e.ep = "in" /\ events' = Append(events, e)
  BY <1>3 DEF HostReadsStatus, Complete, Events, Endpoint
<1> HIDE DEF e
<1> DEFINE p == IF t.status = "phase" THEN "recover" ELSE "idle"
<1>7. h' = [h EXCEPT !.phase = p, !.csw = t.status, !.residue = t.residue]
      /\ p \in {"recover", "idle"}
  BY <1>4 DEF HostReadsStatus
<1>8. t.status = "passed" => p = "idle"
  OBVIOUS
<1> HIDE DEF p
<1>9. /\ h' \in Host /\ h'.phase = p /\ h'.csw = t.status /\ h'.residue = t.residue
      /\ h'.got = h.got
  BY <1>3, <1>7 DEF Host, Transport
<1>10. ata' = ata /\ cb' = cb /\ ready' = ready /\ done' = done
  BY DEF HostReadsStatus, Quiet
<1>11. ASSUME t.state = "IDLE"
       PROVE  events' \in Seq(Events) /\ Shape(t') /\ Wire(t', events') /\ Hands(t', h', events')
  <2>1. events = <<>> /\ Runs(t.out) /\ ~t.persistent /\ ~t.in.active
    BY <1>1, <1>2, <1>11 DEF Shape, IdleShape, Wire, Fin, Off, Runs
  <2>2. events' \in Seq(Events) /\ Only(events', "in")
    BY <1>6, <2>1, FirstEvent
  <2>3. Off(t'.in) /\ t'.state = "IDLE" /\ ~t'.persistent
    BY <1>5, <1>11, <2>1 DEF Off, SameBut
  <2>4. Shape(t')
    BY <1>2, <1>5, <1>11, <2>1, <2>3 DEF Shape, IdleShape, SameBut, Off, Fin, Runs
  <2>5. Wire(t', events')
    BY <1>5, <2>1, <2>2, <2>3 DEF Wire, Fin, Runs
  <2>6. Hands(t', h', events')
    BY <1>1, <1>5, <1>7, <1>9, <2>1, <2>3 DEF Hands, Runs, Fin, Off
  <2>7. QED
    BY <2>2, <2>4, <2>5, <2>6
<1>12. ASSUME t.state \in {"SEND_CSW", "ERROR"}
       PROVE  events' \in Seq(Events) /\ Shape(t') /\ Wire(t', events') /\ Hands(t', h', events')
  <2>1. (events = <<>> \/ Only(events, "out")) /\ t.in.active /\ ~t.persistent
    BY <1>1, <1>2, <1>12 DEF Shape, CswShape, Wire, Fin
  <2>2. events' \in Seq(Events) /\ (Only(events', "in") \/ Both(events', "out", "in"))
    BY <1>3, <1>6, <2>1, FirstEvent, SecondEvent
  <2>3. Fin(t'.in) /\ t'.state = t.state /\ ~t'.persistent
    BY <1>5, <1>12, <2>1 DEF Fin, SameBut
  <2>4. Shape(t')
    BY <1>2, <1>5, <1>12, <2>1, <2>3 DEF Shape, CswShape, SameBut, Off, Fin, Runs
  <2>5. Wire(t', events')
    BY <1>5, <1>12, <2>1, <2>2, <2>3 DEF Wire
  <2>6. Hands(t', h', events')
    BY <1>1, <1>5, <1>7, <1>9, <1>12, <2>1, <2>3 DEF Hands, Runs, Fin, Off
  <2>7. QED
    BY <2>2, <2>4, <2>5, <2>6
<1>13. events' \in Seq(Events) /\ Shape(t') /\ Wire(t', events') /\ Hands(t', h', events')
  BY <1>4, <1>11, <1>12
<1>14. Types'
  BY <1>2, <1>5, <1>9, <1>10, <1>13 DEF Types
<1>15. DiskInv'
  BY <1>4, <1>5, <1>8, <1>9, <1>10, DiskKept
     DEF IInv, DiskInv, IsDone, IsShort, Fin, SameBut
<1>16. ResidueInv'
  BY <1>1, <1>4, <1>5, <1>9 DEF IInv, ResidueInv, SameBut
<1>17. QED
  BY <1>13, <1>14, <1>15, <1>16 DEF IInv

(* The halt of data out is cleared when the device has given up on them.   *)
LEMMA HostClearsOutStep == IInv /\ HostClearsOut => IInv'
<1> SUFFICES ASSUME IInv, HostClearsOut PROVE IInv'
  OBVIOUS
<1>1. h.phase = "data_out" /\ events = <<>> /\ events' = events
  BY DEF HostClearsOut
<1>2. Types /\ Shape(t) /\ Wire(t, events) /\ Hands(t, h, events) /\ Sends(t, h, events)
  BY <1>1 DEF IInv, Hands
<1>3. t \in Transport /\ h \in Host /\ t.out \in Endpoint /\ t.persistent \in BOOLEAN
  BY <1>2, Parts DEF Types, Transport
<1> DEFINE e == [t.out EXCEPT !.stalled = t.persistent]
<1>4. e \in Endpoint /\ e.active = t.out.active /\ e.hw = t.out.hw /\ e.what = t.out.what
      /\ e.n = t.out.n
  BY <1>3 DEF Endpoint
<1>5. t' = [t EXCEPT !.out = e]
  BY DEF HostClearsOut, ClearStall
<1> HIDE DEF e
<1>6. t' \in Transport
  BY <1>3, <1>4, <1>5, NewOut
<1>7. SameBut(t, t') /\ t'.in = t.in /\ t'.out = e
  BY <1>3, <1>5 DEF Transport, SameBut
<1>8. h' \in Host /\ h'.phase = "status" /\ h'.got = h.got /\ h'.csw = h.csw
  BY <1>3 DEF HostClearsOut, Host
<1>9. ata' = ata /\ cb' = cb /\ ready' = ready /\ done' = done
  BY DEF HostClearsOut, Quiet
<1>10. Types'
  BY <1>1, <1>2, <1>6, <1>8, <1>9 DEF Types
<1>11. Shape(t')
  BY <1>2, <1>4, <1>7
     DEF Shape, SameBut, IdleShape, InShape, OutShape, PendingShape, CswShape, Off, Fin
<1>12. Wire(t', events')
  BY <1>1, <1>2, <1>4, <1>7, Kinds DEF Wire, SameBut, Off, Fin
<1>13. ~(t.state = "IDLE" /\ Fin(t.out)) /\ t.state # "DATA_IN"
  <2>1. t.state # "DATA_IN"
    BY <1>2 DEF Shape, InShape, Sends
  <2>2. QED
    BY <1>1, <1>2, <2>1, Kinds DEF Wire
<1>14. Hands(t', h', events')
  <2>1. Asks(t', h', events')
    BY <1>4, <1>7, <1>13 DEF Asks, SameBut, Fin
  <2>2. QED
    BY <1>1, <1>2, <1>4, <1>7, <1>8, <2>1 DEF Hands, SameBut, Fin, Runs
<1>15. h.csw # "passed"
  BY <1>1 DEF IInv, DiskInv
<1>16. DiskInv'
  BY <1>4, <1>7, <1>8, <1>9, <1>15, DiskKept
     DEF IInv, DiskInv, IsDone, IsShort, Fin, SameBut
<1>17. ResidueInv'
  BY <1>1, <1>7, <1>8, <1>15 DEF IInv, ResidueInv, SameBut
<1>18. QED
  BY <1>10, <1>11, <1>12, <1>14, <1>16, <1>17 DEF IInv

(* The halt of data in is cleared, once for the data and once for the      *)
(* status: only a persistent one is met again.                             *)
LEMMA HostClearsInStep == IInv /\ HostClearsIn => IInv'
<1> SUFFICES ASSUME IInv, HostClearsIn PROVE IInv'
  OBVIOUS
<1>1. /\ h.phase \in {"data_in", "status", "retry"} /\ events = <<>> /\ events' = events
      /\ t.in.stalled
  BY DEF HostClearsIn
<1>2. /\ Types /\ Shape(t) /\ Wire(t, events) /\ Hands(t, h, events)
      /\ h.phase = "data_in" => Reads(t, h, events)
      /\ h.phase = "retry" => AsksAgain(t, events)
  BY <1>1 DEF IInv, Hands
<1>3. t \in Transport /\ h \in Host /\ t.in \in Endpoint /\ t.persistent \in BOOLEAN
  BY <1>2, Parts DEF Types, Transport
<1>4. t.state \in {"IDLE", "SEND_CSW", "ERROR"}
  BY <1>1, <1>2, <1>3 DEF Shape, InShape, OutShape, PendingShape, Transport
<1> DEFINE e == [t.in EXCEPT !.stalled = t.persistent]
<1>5. e \in Endpoint /\ e.active = t.in.active /\ e.hw = t.in.hw /\ e.what = t.in.what
      /\ e.n = t.in.n /\ e.stalled = t.persistent
  BY <1>3 DEF Endpoint
<1>6. t' = [t EXCEPT !.in = e]
  BY DEF HostClearsIn, ClearStall
<1> HIDE DEF e
<1>7. t' \in Transport
  BY <1>3, <1>5, <1>6, NewIn
<1>8. SameBut(t, t') /\ t'.out = t.out /\ t'.in = e
  BY <1>3, <1>6 DEF Transport, SameBut
<1>9. PICK p \in {"status", "retry", "recover"} :
        /\ h' = [h EXCEPT !.phase = p]
        /\ h.phase = "data_in" => p = "status"
        /\ h.phase = "status" => p = "retry"
        /\ h.phase = "retry" => p = "recover"
  BY <1>1, <1>2 DEF HostClearsIn, AsksAgain
<1>10. /\ h' \in Host /\ h'.phase = p /\ h'.got = h.got /\ h'.csw = h.csw
       /\ h'.residue = h.residue
  BY <1>3, <1>9 DEF Host
<1>11. ata' = ata /\ cb' = cb /\ ready' = ready /\ done' = done
  BY DEF HostClearsIn, Quiet
<1>12. Types'
  BY <1>1, <1>2, <1>7, <1>10, <1>11 DEF Types
<1>13. Shape(t')
  BY <1>2, <1>4, <1>5, <1>8 DEF Shape, SameBut, IdleShape, CswShape, Off, Fin
<1>14. Wire(t', events')
  BY <1>1, <1>2, <1>4, <1>5, <1>8 DEF Wire, SameBut, Off, Fin
<1>15. ~(t.state = "IDLE" /\ Fin(t.out))
  BY <1>1, <1>2, Kinds DEF Wire
<1>16. ~(t.state \in {"SEND_CSW", "ERROR"} /\ ~t.in.hw)
  BY <1>1, <1>2 DEF Hands
<1>17. Hands(t', h', events')
  <2>1. Asks(t', h', events')
    BY <1>4, <1>8, <1>15 DEF Asks, SameBut, Fin
  <2>2. AsksAgain(t', events')
    BY <1>1, <1>4, <1>5, <1>8 DEF AsksAgain, SameBut
  <2>3. t.state = "IDLE" /\ Runs(t.out) => t.in.hw
    BY <1>1, <1>2 DEF Hands
  <2>4. QED
    BY <1>4, <1>5, <1>8, <1>9, <1>10, <1>15, <1>16, <2>1, <2>2, <2>3 DEF Hands, SameBut
<1>18. h.csw # "passed"
  BY <1>1 DEF IInv, DiskInv
<1>19. DiskInv'
  BY <1>4, <1>5, <1>8, <1>10, <1>11, <1>18, DiskKept
     DEF IInv, DiskInv, IsDone, IsShort, Fin, SameBut
<1>20. ResidueInv'
  BY <1>1, <1>5, <1>8, <1>10, <1>18 DEF IInv, ResidueInv, SameBut
<1>21. QED
  BY <1>12, <1>13, <1>14, <1>17, <1>19, <1>20 DEF IInv

(* The host's time-out touches nothing of the device.                      *)
LEMMA HostTimeoutStep == IInv /\ HostTimeout => IInv'
<1> SUFFICES ASSUME IInv, HostTimeout PROVE IInv'
  OBVIOUS
<1>1. /\ t' = t /\ events' = events /\ ata' = ata /\ cb' = cb /\ ready' = ready
      /\ done' = done /\ h' = [Fresh EXCEPT !.phase = "recover"]
  BY DEF HostTimeout, Quiet
<1>2. h' \in Host /\ h'.phase = "recover" /\ h'.csw = "none"
  BY <1>1, FreshType
<1>3. Types' /\ Shape(t') /\ Wire(t', events')
  BY <1>1, <1>2 DEF IInv, Types
<1>4. Hands(t', h', events')
  BY <1>1, <1>2 DEF Hands
<1>5. DiskInv'
  BY <1>1, <1>2, DiskKept DEF IInv, DiskInv, IsDone, IsShort
<1>6. ResidueInv'
  BY <1>1, <1>2 DEF ResidueInv
<1>7. QED
  BY <1>3, <1>4, <1>5, <1>6 DEF IInv

(* After a reset recovery host and device are both at rest.                *)
LEMMA ClearHaltsStep == IInv /\ ClearHalts => IInv'
<1> SUFFICES ASSUME IInv, ClearHalts PROVE IInv'
  OBVIOUS
<1>1. h.phase = "clear" /\ events = <<>> /\ events' = events /\ h' = Fresh
  BY DEF ClearHalts
<1>2. Types /\ Shape(t) /\ Wire(t, events)
      /\ t.state = "IDLE" /\ Runs(t.out) /\ Off(t.in)
  BY <1>1 DEF IInv, Hands
<1>3. t \in Transport /\ t.in \in Endpoint /\ t.out \in Endpoint
  BY <1>2, Parts DEF Types
<1>4. ~t.persistent
  BY <1>2 DEF Shape, IdleShape, Off, Runs
<1> DEFINE e == [t.in EXCEPT !.stalled = t.persistent]
           f == [t.out EXCEPT !.stalled = t.persistent]
           u == [t EXCEPT !.in = e]
<1>5. t.persistent \in BOOLEAN
  BY <1>3 DEF Transport
<1>6. e \in Endpoint /\ Off(e) /\ e.what = t.in.what /\ ~e.stalled
  BY <1>2, <1>3, <1>4, <1>5 DEF Endpoint, Off
<1>7. f \in Endpoint /\ Runs(f) /\ f.what = t.out.what
  BY <1>2, <1>3, <1>5 DEF Endpoint, Runs
<1> HIDE DEF e
<1>8. u \in Transport /\ u.persistent = t.persistent /\ u.out = t.out
  BY <1>3, <1>6, NewIn DEF Transport
<1>9. t' = [u EXCEPT !.out = f]
  BY <1>8 DEF ClearHalts, ClearStall, e
<1> HIDE DEF f
<1>10. t' \in Transport
  BY <1>7, <1>8, <1>9, NewOut
<1>11. SameBut(t, t') /\ t'.in = e /\ t'.out = f
  BY <1>3, <1>9 DEF Transport, SameBut
<1>12. ata' = ata /\ cb' = cb /\ ready' = ready /\ done' = done
  BY DEF ClearHalts, Quiet
<1>13. Types'
  BY <1>1, <1>2, <1>10, <1>12, FreshType DEF Types
<1>14. Shape(t')
  BY <1>2, <1>6, <1>7, <1>11 DEF Shape, IdleShape, SameBut, Off, Fin, Runs
<1>15. Wire(t', events')
  BY <1>1, <1>2, <1>7, <1>11 DEF Wire, SameBut, Fin, Runs
<1>16. Hands(t', h', events')
  BY <1>1, <1>2, <1>6, <1>7, <1>11, FreshType DEF Hands, SameBut, Fin, Runs, Off
<1>17. DiskInv'
  BY <1>1, <1>2, <1>6, <1>7, <1>11, <1>12, DiskKept, FreshType
     DEF IInv, DiskInv, IsDone, IsShort, Fin, Runs, SameBut, Shape, Off
<1>18. ResidueInv'
  BY <1>1, FreshType DEF ResidueInv
<1>19. QED
  BY <1>13, <1>14, <1>15, <1>16, <1>17, <1>18 DEF IInv

-----------------------------------------------------------------------------
(* Resets of the transport.                                                *)

(* After a reset the transport waits for a CBW.                            *)
LEMMA ResetDone ==
  ASSUME NEW q \in Transport
  PROVE  LET r == Reset(q) IN
         /\ r \in Transport
         /\ r.state = "IDLE" /\ r.case = 0 /\ ~r.usb /\ ~r.sata /\ ~r.check
         /\ ~r.persistent /\ r.odd = q.odd
         /\ r.rw_pending = q.rw_pending /\ r.cbw = q.cbw
         /\ IF q.out.active /\ q.state # "DATA_OUT" THEN r.out = q.out
            ELSE Runs(r.out) /\ r.out.what = "cbw"
         /\ ~r.in.active /\ r.in.stalled = q.in.stalled
         /\ IF q.in.active THEN ~r.in.hw /\ r.in.what = "none"
            ELSE r.in.hw = q.in.hw /\ r.in.what = q.in.what
<1> DEFINE c == Cleanup(q, FALSE)
           d == [c EXCEPT !.persistent = FALSE]
<1>1. CleanedUp(q, c, FALSE)
  BY Cleaned
<1> HIDE DEF c
<1>2. c \in Transport
  BY <1>1 DEF CleanedUp
<1>3. d \in Transport
  BY <1>2 DEF Transport
<1>4. /\ ~d.persistent /\ d.odd = c.odd /\ d.out = c.out /\ d.in = c.in
      /\ d.rw_pending = c.rw_pending /\ d.cbw = c.cbw
  BY <1>2 DEF Transport
<1>5. Reset(q) = Idle(d)
  BY DEF Reset, c
<1> HIDE DEF d
<1> DEFINE r == Idle(d)
<1>6. IdleAgain(d, r)
  BY <1>3, Idled
<1> HIDE DEF r
<1>7. /\ r \in Transport
      /\ r.state = "IDLE" /\ r.case = 0 /\ ~r.usb /\ ~r.sata /\ ~r.check
      /\ ~r.persistent /\ r.odd = q.odd
      /\ r.rw_pending = q.rw_pending /\ r.cbw = q.cbw
  BY <1>1, <1>4, <1>6 DEF IdleAgain, CleanedUp, SameBut
<1>8. IF q.out.active /\ q.state # "DATA_OUT" THEN r.out = q.out
      ELSE Runs(r.out) /\ r.out.what = "cbw"
  BY <1>1, <1>4, <1>6 DEF IdleAgain, CleanedUp, Off
<1>9. /\ ~r.in.active
      /\ IF q.in.active THEN ~r.in.hw /\ r.in.what = "none"
         ELSE r.in.hw = q.in.hw /\ r.in.what = q.in.what
  BY <1>1, <1>4, <1>6 DEF IdleAgain, CleanedUp
<1>10. r.in.stalled = q.in.stalled
  <2>1. r.in = c.in /\ q.in \in Endpoint /\ c.in \in Endpoint
    BY <1>2, <1>4, <1>6, Parts DEF IdleAgain
  <2>2. q.in.stalled \in BOOLEAN /\ c.in.stalled \in BOOLEAN
    BY <2>1 DEF Endpoint
  <2>3. c.in.stalled <=> q.in.stalled
    BY <1>1 DEF CleanedUp
  <2>4. QED
    BY <2>1, <2>2, <2>3
<1>11. QED
  BY <1>5, <1>7, <1>8, <1>9, <1>10 DEF r

(* Both sides are at rest: the invariant holds whatever the disk still     *)
(* owes.                                                                   *)
AtRest ==
  /\ t \in Transport /\ t.state = "IDLE" /\ Runs(t.out) /\ t.out.what = "cbw" /\ Off(t.in)
  /\ t.in.what = "none" /\ t.case = 0 /\ ~t.usb /\ ~t.sata /\ ~t.check /\ ~t.persistent
  /\ ~t.odd /\ events = <<>>
  /\ h \in Host /\ h.csw = "none"
  /\ h.phase = "clear" \/ (h.phase = "idle" /\ ~t.in.stalled)
  /\ AnswerInv /\ (Owed => t.rw_pending = t.cbw.rw)
  /\ ata \in {"none", "mine", "old"} /\ ready \in BOOLEAN /\ cb \in Seq(Callbacks)
  /\ done \in {"none", "ok", "bad", "error", "fault"}

(* It satisfies the invariant.                                             *)
LEMMA RestInv == AtRest => IInv
<1> SUFFICES ASSUME AtRest PROVE IInv
  OBVIOUS
<1>1. Types
  BY DEF AtRest, Types
<1>2. Shape(t)
  BY DEF AtRest, Shape, IdleShape, Off, Runs, Fin
<1>3. Wire(t, events)
  BY DEF AtRest, Wire, Runs, Fin
<1>4. Hands(t, h, events)
  BY DEF AtRest, Hands, Runs, Fin, Off
<1>5. DiskInv
  BY DEF AtRest, DiskInv, Runs, Fin
<1>6. ResidueInv
  BY DEF AtRest, ResidueInv
<1>7. QED
  BY <1>1, <1>2, <1>3, <1>4, <1>5, <1>6 DEF IInv

(* The transport starts at rest.                                           *)
LEMMA InvInit == Init => IInv
<1> SUFFICES ASSUME Init PROVE IInv
  OBVIOUS
<1> DEFINE q == [state |-> "IDLE", case |-> 0, actual |-> 0, residue |-> 0,
                usb |-> FALSE, sata |-> FALSE, check |-> FALSE, cbw |-> Blank,
                valid |-> TRUE, status |-> "none", rw_pending |-> FALSE,
                persistent |-> FALSE, odd |-> FALSE, in |-> Free, out |-> Free]
<1>1. 0 \in 0 .. Units
  BY UnitsType
<1>2. Free \in Endpoint /\ Off(Free) /\ Free.what = "none" /\ ~Free.stalled
  BY <1>1 DEF Free, Endpoint, Off, Whats
<1>3. Blank \in CBWs
  <2>1. [dir |-> "out", len |-> 0, intent |-> "none", rw |-> FALSE, want |-> 0,
         check |-> FALSE] \in CBWs
    BY <1>1 DEF CBWs, CaseOf
  <2>2. \E c \in CBWs : c.len = 0 /\ c.intent = "none" /\ ~c.check
    BY <2>1
  <2>3. QED
    BY <2>2 DEF Blank
<1>4. q \in Transport
  BY <1>1, <1>2, <1>3 DEF Transport
<1>5. q.in = Free /\ q.out = Free /\ q.state = "IDLE" /\ ~q.odd
  OBVIOUS
<1>6. t = Reset(q)
  BY DEF Init
<1> HIDE DEF q
<1>7. /\ t \in Transport
      /\ t.state = "IDLE" /\ t.case = 0 /\ ~t.usb /\ ~t.sata /\ ~t.check
      /\ ~t.persistent /\ ~t.odd
      /\ Runs(t.out) /\ t.out.what = "cbw"
      /\ Off(t.in) /\ ~t.in.stalled /\ t.in.what = "none"
  BY <1>2, <1>4, <1>5, <1>6, ResetDone DEF Off
<1>8. AtRest
  <2>1. cb \in Seq(Callbacks) /\ ~Owed /\ AnswerInv
    BY DEF Init, Owed, Answered, AnswerInv
  <2>2. QED
    BY <1>7, <2>1, FreshType DEF Init, AtRest
<1>9. QED
  BY <1>8, RestInv

(* Without what is on the wire no endpoint but a CSW's is ahead of the     *)
(* software, and a reset brings all to rest; a CSW that stays acts after   *)
(* its end.                                                                *)
LEMMA MassStorageResetStep == IInv /\ MassStorageReset /\ ~stale' => IInv'
<1> SUFFICES ASSUME IInv, MassStorageReset, ~stale' PROVE IInv'
  OBVIOUS
<1>1. /\ events = <<>> /\ events' = <<>> /\ ~(t.state = "IDLE" /\ t.in.hw)
      /\ t' = Reset(t) /\ h' = [Fresh EXCEPT !.phase = "clear"] /\ done' = done
      /\ IF ready THEN ata' = "none" /\ cb' = <<"error">> /\ ready' \in BOOLEAN
                  ELSE ata' = ata /\ cb' = cb /\ ready' = ready
  BY DEF MassStorageReset
<1>2. Types /\ Shape(t) /\ Wire(t, events) /\ DiskInv
  BY DEF IInv
<1>3. t \in Transport
  BY <1>2 DEF Types
<1>4. t.state \in {"IDLE", "DATA_IN", "DATA_OUT", "CSW_PENDING", "SEND_CSW", "ERROR"}
  BY <1>3 DEF Transport
<1>5. ~t.odd /\ (~t.in.hw => t.in.what = "none")
  BY <1>2 DEF Shape
<1>6. ~t.in.active => ~t.in.hw
  BY <1>1, <1>2, <1>4 DEF Shape, InShape, OutShape, PendingShape, CswShape, Off
<1>7. t.out.active /\ t.state # "DATA_OUT" => Runs(t.out) /\ t.out.what = "cbw"
  BY <1>1, <1>2, <1>4, Kinds
     DEF Shape, IdleShape, InShape, PendingShape, CswShape, Off, Runs, Fin, Wire
<1>8. /\ t' \in Transport
      /\ t'.state = "IDLE" /\ t'.case = 0 /\ ~t'.usb /\ ~t'.sata /\ ~t'.check
      /\ ~t'.persistent /\ ~t'.odd
      /\ Runs(t'.out) /\ t'.out.what = "cbw"
      /\ Off(t'.in) /\ t'.in.what = "none"
      /\ t'.rw_pending = t.rw_pending /\ t'.cbw = t.cbw
  BY <1>1, <1>3, <1>5, <1>6, <1>7, ResetDone DEF Off
<1>9. h' \in Host /\ h'.phase = "clear" /\ h'.csw = "none"
  BY <1>1, FreshType
<1>10. /\ AnswerInv' /\ (Owed' => Owed)
       /\ ata' \in {"none", "mine", "old"} /\ ready' \in BOOLEAN /\ cb' \in Seq(Callbacks)
       /\ done' \in {"none", "ok", "bad", "error", "fault"}
  <2>1. CASE ready
    <3>4. cb' = <<"error">>
      BY <1>1, <2>1
    <3>1. cb' \in Seq(Callbacks) /\ \A i \in DOMAIN cb' : ~Answer(cb'[i])
      BY <3>4 DEF Callbacks, Answer
    <3>2. AnswerInv' /\ ~Owed'
      BY <1>1, <2>1, <3>1 DEF AnswerInv, Answered, Owed
    <3>3. QED
      BY <1>1, <1>2, <2>1, <3>1, <3>2 DEF Types
  <2>2. CASE ~ready
    BY <1>1, <1>2, <2>2, DiskKept DEF DiskInv, Types
  <2>3. QED
    BY <2>1, <2>2
<1>13. Owed' => t'.rw_pending = t'.cbw.rw
  BY <1>2, <1>8, <1>10 DEF DiskInv
<1>11. AtRest'
  BY <1>1, <1>8, <1>9, <1>10, <1>13 DEF AtRest
<1>12. QED
  BY <1>11, RestInv, PTL

(* The same when the interface is selected anew.                           *)
LEMMA SetInterfaceStep == IInv /\ SetInterface => IInv'
<1> SUFFICES ASSUME IInv, SetInterface PROVE IInv'
  OBVIOUS
<1> DEFINE q == [t EXCEPT !.in = Free, !.out = Free]
<1>1. /\ events = <<>> /\ events' = events
      /\ t' = Reset(q) /\ h' = Fresh
      /\ ata' = ata /\ cb' = cb /\ ready' = ready /\ done' = done
  BY DEF SetInterface, Quiet
<1>2. Types /\ ~t.odd /\ DiskInv
  BY DEF IInv, Shape
<1>3. t \in Transport
  BY <1>2 DEF Types
<1>4. Free \in Endpoint /\ Off(Free) /\ Free.what = "none" /\ ~Free.stalled
  <2>1. 0 \in 0 .. Units
    BY UnitsType
  <2>2. QED
    BY <2>1 DEF Free, Endpoint, Off, Whats
<1>5. /\ q \in Transport /\ q.in = Free /\ q.out = Free /\ ~q.odd
      /\ q.rw_pending = t.rw_pending /\ q.cbw = t.cbw
  BY <1>2, <1>3, <1>4 DEF Transport
<1> HIDE DEF q
<1>6. /\ t' \in Transport
      /\ t'.state = "IDLE" /\ t'.case = 0 /\ ~t'.usb /\ ~t'.sata /\ ~t'.check
      /\ ~t'.persistent /\ ~t'.odd
      /\ Runs(t'.out) /\ t'.out.what = "cbw"
      /\ Off(t'.in) /\ ~t'.in.stalled /\ t'.in.what = "none"
      /\ t'.rw_pending = t.rw_pending /\ t'.cbw = t.cbw
  BY <1>1, <1>4, <1>5, ResetDone DEF Off
<1>9. AnswerInv' /\ (Owed' => t'.rw_pending = t'.cbw.rw)
  BY <1>1, <1>2, <1>6, DiskKept DEF DiskInv
<1>7. AtRest'
  BY <1>1, <1>2, <1>6, <1>9, FreshType DEF AtRest, Types
<1>8. QED
  BY <1>7, RestInv, PTL

-----------------------------------------------------------------------------
(* The end of a command.                                                   *)

(* What a CSW counts as left.                                              *)
LEMMA ResidueValue ==
  ASSUME NEW q \in Transport, q.case \in {5, 11} => q.actual <= q.cbw.len
  PROVE  /\ Residue(q) \in 0 .. Units
         /\ q.case \in {5, 11} => Residue(q) = q.cbw.len - q.actual
         /\ q.case = 9 => Residue(q) = q.cbw.len
         /\ q.case \notin {5, 9, 11} => Residue(q) = q.residue
<1>1. q.cbw.len \in 0 .. Units /\ q.actual \in 0 .. Units /\ q.residue \in 0 .. Units
  BY Parts, CBWType DEF Transport
<1>2. CASE q.case \in {5, 11}
  <2>1. Residue(q) = q.cbw.len - q.actual
    BY <1>2 DEF Residue
  <2>2. q.cbw.len - q.actual \in 0 .. Units
    BY <1>1, <1>2, UnitsType
  <2>3. QED
    BY <1>2, <2>1, <2>2
<1>3. CASE q.case = 9
  BY <1>1, <1>3 DEF Residue
<1>4. CASE q.case \notin {5, 9, 11}
  BY <1>1, <1>4 DEF Residue
<1>5. QED
  BY <1>2, <1>3, <1>4

(* A command that fails cancels what runs, stalls data in and sends a CSW. *)
FailedCsw(q, r) ==
  /\ r \in Transport /\ r.state = "SEND_CSW" /\ r.status = "failed"
  /\ Off(r.out) /\ Runs(r.in) /\ r.in.what = "csw"
  /\ q.state = "DATA_IN" => r.in.stalled
  /\ r.actual = q.actual /\ r.cbw = q.cbw /\ r.valid = q.valid
  /\ r.rw_pending = q.rw_pending /\ r.persistent = q.persistent /\ r.odd = q.odd

(* Whatever the command was doing.                                         *)
LEMMA Failed ==
  ASSUME NEW q \in Transport, q.state \in {"DATA_IN", "DATA_OUT", "CSW_PENDING"},
         q.case \in {5, 11} => q.actual <= q.cbw.len,
         q.out.active => q.state = "DATA_OUT", ~q.out.active => Off(q.out)
  PROVE  FailedCsw(q, SendCSW(Cleanup(q, TRUE), "failed"))
<1> DEFINE c == Cleanup(q, TRUE)
           r == SendCSW(c, "failed")
<1>1. CleanedUp(q, c, TRUE)
  BY Cleaned
<1> HIDE DEF c
<1>2. c \in Transport /\ SameBut(q, c) /\ ~c.in.active /\ Off(c.out)
      /\ (q.state = "DATA_IN" => c.in.stalled)
  BY <1>1 DEF CleanedUp, Off
<1>3. Residue(c) \in 0 .. Units
  BY <1>2, ResidueValue DEF SameBut
<1>4. SentCsw(c, r, "failed")
  BY <1>2, <1>3, CswSent DEF SameBut, Statuses
<1> HIDE DEF r
<1>5. FailedCsw(q, r)
  BY <1>2, <1>4 DEF SentCsw, SameBut, FailedCsw
<1>6. QED
  BY <1>5 DEF r, c

(* Once a CSW is on its way, everything it says must be true, and the host *)
(* must not be able to take it for data.                                   *)
LEMMA EndStep ==
  ASSUME IInv, Types',
         t'.state \in {"SEND_CSW", "ERROR"}, Off(t'.out), Runs(t'.in),
         t'.in.what = "csw", ~t'.persistent, ~t'.odd, t'.cbw = t.cbw,
         h' = h, h.phase \in {"data_in", "data_out", "status", "recover"},
         h.phase = "data_in" => t'.in.stalled,
         h.phase = "data_out" => ~Only(events', "in"),
         events' = <<>> \/ Only(events', "out") \/ (Only(events', "in") /\ t'.in.stalled),
         AnswerInv',
         Owed' => t'.rw_pending = t.cbw.rw,
         t'.status = "passed" => IsShort(t)' \/ IsDone(t)',
         t'.status = "passed" /\ t.cbw.len > 0 /\ h.phase # "recover" =>
           t'.residue = Left(t.cbw, h.got)
  PROVE  IInv'
<1>1. Shape(t')
  BY DEF Shape, CswShape, Runs
<1>2. Wire(t', events')
  BY DEF Wire, Runs, Fin
<1>3. Hands(t', h', events')
  <2>1. h.phase = "data_in" => t.cbw.dir = "in" /\ t.cbw.len > 0
    BY DEF IInv, Hands, Reads
  <2>2. h.phase = "data_out" => t.cbw.dir = "out" /\ t.cbw.len > 0
    BY DEF IInv, Hands, Sends
  <2>3. h.phase = "data_in" => Reads(t', h', events')
    BY <2>1 DEF Reads
  <2>4. h.phase = "data_out" => Sends(t', h', events')
    BY <2>2 DEF Sends
  <2>5. Asks(t', h', events')
    BY DEF Asks
  <2>6. QED
    BY <2>3, <2>4, <2>5 DEF Hands, Runs, Fin
<1>4. h.csw # "passed"
  BY DEF IInv, DiskInv
<1>5. DiskInv'
  BY <1>4 DEF DiskInv
<1>6. ResidueInv'
  BY <1>4 DEF ResidueInv
<1>7. QED
  BY <1>1, <1>2, <1>3, <1>5, <1>6 DEF IInv

-----------------------------------------------------------------------------
(* Callbacks.                                                              *)

(* Who is in hand while the command runs.                                  *)
LEMMA InHandWhileRunning ==
  ASSUME IInv, t.state \in {"DATA_IN", "DATA_OUT", "CSW_PENDING"}
  PROVE  /\ h.phase \in {"data_in", "data_out", "status", "recover"}
         /\ t.state = "DATA_IN" => h.phase # "data_out"
         /\ t.state = "DATA_OUT" => h.phase # "data_in"
         /\ t.state = "CSW_PENDING" => h.phase \notin {"data_in", "data_out"}
<1>1. Types /\ Shape(t) /\ Hands(t, h, events)
  BY DEF IInv
<1>2. h \in Host /\ t \in Transport
  BY <1>1 DEF Types
<1>3. h.phase \in {"idle", "data_in", "data_out", "status", "retry", "recover", "clear"}
  BY <1>2 DEF Host
<1>4. h.phase \notin {"idle", "retry", "clear"}
  BY <1>1 DEF Hands, AsksAgain
<1>5. t.cbw.len \in 0 .. Units
  BY <1>2, Parts, CBWType
<1>6. t.state = "DATA_IN" => t.cbw.dir = "in"
  BY <1>1 DEF Shape, InShape
<1>7. t.state = "DATA_OUT" => t.cbw.dir = "out"
  BY <1>1 DEF Shape, OutShape
<1>8. t.state = "CSW_PENDING" => t.cbw.len = 0
  BY <1>1 DEF Shape, PendingShape
<1>9. h.phase = "data_in" => t.cbw.dir = "in" /\ t.cbw.len > 0
  BY <1>1 DEF Hands, Reads
<1>10. h.phase = "data_out" => t.cbw.dir = "out" /\ t.cbw.len > 0
  BY <1>1 DEF Hands, Sends
<1>11. QED
  BY <1>3, <1>4, <1>5, <1>6, <1>7, <1>8, <1>9, <1>10

(* What a running command keeps to.                                        *)
LEMMA RunningShape ==
  ASSUME NEW q \in Transport, Shape(q), q.state \in {"DATA_IN", "DATA_OUT", "CSW_PENDING"}
  PROVE  /\ q.case \in {5, 11} => q.actual <= q.cbw.len
         /\ q.out.active => q.state = "DATA_OUT"
         /\ ~q.out.active => Off(q.out)
         /\ ~q.persistent /\ ~q.odd /\ ~q.in.stalled
<1>1. q.cbw.len \in 0 .. Units /\ q.actual \in 0 .. Units /\ q.cbw.want \in 0 .. Units
  BY Parts, CBWType DEF Transport
<1>2. CASE q.state = "DATA_IN"
  BY <1>1, <1>2, UnitsType DEF Shape, InShape, Off
<1>3. CASE q.state = "DATA_OUT"
  BY <1>1, <1>3, UnitsType DEF Shape, OutShape, Off
<1>4. CASE q.state = "CSW_PENDING"
  BY <1>1, <1>4, UnitsType DEF Shape, PendingShape, Off
<1>5. QED
  BY <1>2, <1>3, <1>4

(* A command that runs and fails, its disk command done with or not.       *)
LEMMA FailStep ==
  ASSUME IInv, t.state \in {"DATA_IN", "DATA_OUT", "CSW_PENDING"},
         FailedCsw(t, t'), h' = h, events' = events, Types', AnswerInv',
         Owed' => Owed
  PROVE  IInv'
<1>1. Types /\ Shape(t) /\ Wire(t, events)
  BY DEF IInv
<1>2. t \in Transport
  BY <1>1 DEF Types
<1>3. ~t.persistent /\ ~t.odd
  BY <1>1, <1>2, RunningShape
<1>4. \/ events' = <<>> \/ Only(events', "out")
      \/ Only(events', "in") /\ t.state = "DATA_IN"
  BY <1>1 DEF Wire
<1>5. h.phase = "data_out" => ~Only(events', "in")
  BY <1>4, InHandWhileRunning, Kinds
<1>6. h.phase = "data_in" => t.state = "DATA_IN"
  BY InHandWhileRunning
<1>8. Owed' => t'.rw_pending = t.cbw.rw
  BY DEF IInv, DiskInv, FailedCsw
<1>7. QED
  BY <1>3, <1>4, <1>5, <1>6, <1>8, InHandWhileRunning, EndStep DEF FailedCsw

(* One callback is taken from the queue.                                   *)
Serving ==
  /\ IInv /\ cb # <<>> /\ cb' = Tail(cb)
  /\ h' = h /\ events' = events /\ ata' = ata /\ ready' = ready /\ done' = done

(* What is known then.                                                     *)
LEMMA ServingFacts ==
  ASSUME Serving
  PROVE  /\ Types /\ AnswerInv /\ t \in Transport /\ Shape(t)
         /\ AnswerInv' /\ (Owed' => Owed) /\ (Unasked' <=> Unasked)
         /\ Answer(Head(cb)) => Owed /\ ~Owed' /\ ata # "mine" /\ done = Head(cb)
         /\ t' \in Transport => Types'
<1>1. Types /\ AnswerInv /\ Shape(t) /\ cb # <<>> /\ cb' = Tail(cb)
      /\ ata' = ata /\ ready' = ready /\ done' = done /\ h' = h /\ events' = events
  BY DEF Serving, IInv, DiskInv
<1>2. /\ AnswerInv' /\ (Owed' => Owed) /\ (Unasked' <=> Unasked) /\ cb' \in Seq(Callbacks)
      /\ Answer(Head(cb)) => Owed /\ ~Owed' /\ ata # "mine" /\ done = Head(cb)
  BY <1>1, DiskServed
<1>3. QED
  BY <1>1, <1>2 DEF Types

(* A callback that changes nothing.                                        *)
LEMMA IgnoredStep ==
  ASSUME Serving, t' = t
  PROVE  IInv'
<1>1. IInv /\ h' = h /\ events' = events /\ ata' = ata /\ done' = done
  BY DEF Serving
<1>2. Types' /\ AnswerInv' /\ (Owed' => Owed) /\ (Unasked => Unasked')
  BY ServingFacts
<1>3. QED
  BY <1>1, <1>2, DiskMoves

(* The error callback fails the command that runs, and leaves all others   *)
(* alone.                                                                  *)
LEMMA ErrorCallbackStep ==
  ASSUME Serving, t' = ErrorCallback(t)
  PROVE  IInv'
<1>1. Types /\ Shape(t) /\ t \in Transport
  BY ServingFacts
<1>3. CASE t.state \notin {"DATA_IN", "DATA_OUT", "CSW_PENDING"}
  <2>1. t' = t
    BY <1>3 DEF ErrorCallback
  <2>2. QED
    BY <2>1, IgnoredStep
<1>4. CASE t.state \in {"DATA_IN", "DATA_OUT", "CSW_PENDING"}
  <2>1. t' = SendCSW(Cleanup(t, TRUE), "failed")
    BY <1>4 DEF ErrorCallback
  <2>2. FailedCsw(t, t')
    BY <1>1, <1>4, <2>1, RunningShape, Failed
  <2>3. Types' /\ AnswerInv' /\ (Owed' => Owed)
    BY <2>2, ServingFacts DEF FailedCsw
  <2>4. QED
    BY <1>4, <2>2, <2>3, FailStep DEF Serving
<1>5. QED
  BY <1>3, <1>4

(* The disk's part of the command is done.                                 *)
LEMMA SataSet ==
  ASSUME NEW q \in Transport
  PROVE  LET r == [q EXCEPT !.sata = TRUE] IN
         /\ r \in Transport /\ r.sata = TRUE /\ r.in = q.in /\ r.out = q.out
         /\ r.state = q.state /\ r.case = q.case /\ r.actual = q.actual
         /\ r.residue = q.residue /\ r.usb = q.usb /\ r.check = q.check /\ r.cbw = q.cbw
         /\ r.valid = q.valid /\ r.status = q.status /\ r.rw_pending = q.rw_pending
         /\ r.persistent = q.persistent /\ r.odd = q.odd
  BY DEF Transport

(* The disk command of the command in hand has ended with r, and what is   *)
(* known when its callback is served.                                      *)
Answering(r) == Serving /\ Head(cb) = r

(* Nothing is owed then.                                                   *)
LEMMA AnsweredFacts ==
  ASSUME NEW r \in {"ok", "bad"}, Answering(r)
  PROVE  /\ ata # "mine" /\ done = r /\ AnswerInv' /\ ~Owed'
         /\ t \in Transport /\ Shape(t) /\ Wire(t, events) /\ Hands(t, h, events)
         /\ t.rw_pending = t.cbw.rw
         /\ t.actual = 0 => t.state \notin {"DATA_IN", "DATA_OUT"}
         /\ t.state = "DATA_IN" /\ ~t.cbw.rw => ~t.in.active
         /\ t.state = "DATA_OUT" /\ ~t.cbw.rw => ~t.out.active
         /\ t' \in Transport => Types'
<1>1. DiskInv /\ Wire(t, events) /\ Hands(t, h, events)
  BY DEF Answering, Serving, IInv
<1>2. /\ t \in Transport /\ Shape(t) /\ AnswerInv' /\ (t' \in Transport => Types')
      /\ Owed /\ ~Owed' /\ ata # "mine" /\ done = r
  BY ServingFacts DEF Answering, Answer
<1>3. /\ t.rw_pending = t.cbw.rw
      /\ t.actual = 0 => t.state \notin {"DATA_IN", "DATA_OUT"}
      /\ t.state = "DATA_IN" /\ ~t.cbw.rw => ~t.in.active
  BY <1>1, <1>2 DEF DiskInv
<1>4. t.state = "DATA_OUT" /\ ~t.cbw.rw => ~t.out.active
  BY <1>1, <1>2 DEF DiskInv, Unasked
<1>5. QED
  BY <1>1, <1>2, <1>3, <1>4

(* A command without data ends with its disk command.                      *)
LEMMA NoDataEnds ==
  ASSUME NEW r \in {"ok", "bad"}, Answering(r), t.state = "CSW_PENDING",
         t' = SendCSW(t, IF r = "ok" THEN "passed" ELSE "failed")
  PROVE  IInv'
<1> DEFINE s == IF r = "ok" THEN "passed" ELSE "failed"
<1>1. /\ t \in Transport /\ PendingShape(t) /\ ~t.odd /\ events = <<>>
  BY AnsweredFacts DEF Shape, Wire
<1>2. Residue(t) \in 0 .. Units
  BY <1>1, AnsweredFacts, RunningShape, ResidueValue
<1>3. s \in Statuses /\ s # "phase"
  BY DEF Statuses
<1>4. SentCsw(t, t', s)
  BY <1>1, <1>2, <1>3, CswSent DEF PendingShape, Off
<1> HIDE DEF s
<1>5. t' \in Transport /\ t'.state = "SEND_CSW" /\ Off(t'.out) /\ Runs(t'.in)
      /\ t'.in.what = "csw" /\ ~t'.persistent /\ ~t'.odd /\ t'.cbw = t.cbw
  BY <1>1, <1>3, <1>4 DEF SentCsw, PendingShape
<1>6. t'.status = "passed" => r = "ok"
  BY <1>4 DEF SentCsw, s
<1>7. t'.status = "passed" => IsDone(t)'
  BY <1>1, <1>5, <1>6, AnsweredFacts DEF IsDone, PendingShape, Answering, Serving
<1>8. h.phase \in {"status", "recover"}
  BY InHandWhileRunning DEF Answering, Serving
<1>9. ~(t.cbw.len > 0)
  BY <1>1 DEF PendingShape
<1>10. Types' /\ AnswerInv' /\ ~Owed' /\ IInv /\ h' = h /\ events' = <<>>
  BY <1>1, <1>5, AnsweredFacts DEF Answering, Serving
<1>11. QED
  BY <1>5, <1>7, <1>8, <1>9, <1>10, EndStep

(* The disk was faster than the wire.                                      *)
LEMMA DiskFirst ==
  ASSUME Answering("ok"), t.state \in {"DATA_IN", "DATA_OUT"}, t.cbw.rw, ~t.usb,
         t' = [t EXCEPT !.sata = TRUE]
  PROVE  IInv'
<1>1. t \in Transport /\ Shape(t) /\ Wire(t, events) /\ Hands(t, h, events)
  BY AnsweredFacts
<1>2. /\ t' \in Transport /\ t'.sata = TRUE /\ t'.in = t.in /\ t'.out = t.out
      /\ t'.state = t.state /\ t'.case = t.case /\ t'.actual = t.actual
      /\ t'.residue = t.residue /\ t'.usb = t.usb /\ t'.check = t.check /\ t'.cbw = t.cbw
      /\ t'.valid = t.valid /\ t'.status = t.status /\ t'.rw_pending = t.rw_pending
      /\ t'.persistent = t.persistent /\ t'.odd = t.odd
  BY <1>1, SataSet
<1>3. Types' /\ AnswerInv' /\ ~Owed' /\ h' = h /\ events' = events
  BY <1>2, AnsweredFacts DEF Answering, Serving
<1>4. Shape(t')
  <2>1. CASE t.state = "DATA_IN"
    BY <1>1, <1>2, <2>1 DEF Shape, InShape
  <2>2. CASE t.state = "DATA_OUT"
    BY <1>1, <1>2, <2>2 DEF Shape, OutShape
  <2>3. QED
    BY <2>1, <2>2
<1>5. Wire(t', events')
  BY <1>1, <1>2, <1>3 DEF Wire
<1>6. Hands(t', h', events')
  BY <1>1, <1>2, <1>3 DEF Hands, Reads, Sends, Asks, AsksAgain
<1>7. t.in.what # "csw" /\ h.csw # "passed"
  <2>1. t.in.what # "csw"
    BY <1>1 DEF Shape, InShape, OutShape, Off
  <2>2. h.phase # "idle"
    BY InHandWhileRunning DEF Answering, Serving
  <2>3. QED
    BY <2>1, <2>2 DEF Answering, Serving, IInv, DiskInv
<1>8. IsDone(t)'
  BY <1>2, AnsweredFacts DEF IsDone, Answering, Serving
<1>9. DiskInv'
  BY <1>2, <1>3, <1>7, <1>8 DEF DiskInv
<1>10. ResidueInv'
  BY <1>2, <1>3, <1>7 DEF ResidueInv
<1>11. QED
  BY <1>3, <1>4, <1>5, <1>6, <1>9, <1>10 DEF IInv

(* The wire was faster than the disk.                                      *)
LEMMA DiskLast ==
  ASSUME Answering("ok"), t.state \in {"DATA_IN", "DATA_OUT"}, t.usb,
         t' = SendCSW(t, "passed")
  PROVE  IInv'
<1>1. /\ t \in Transport /\ ~t.in.active /\ Off(t.out) /\ ~t.odd /\ events = <<>>
      /\ ~t.persistent /\ t.residue = 0 /\ t.case \in {0, 11}
      /\ t.state = "DATA_IN" => t.case = 0
  <2>1. t \in Transport /\ Shape(t) /\ Wire(t, events)
    BY AnsweredFacts
  <2>2. CASE t.state = "DATA_IN"
    BY <2>1, <2>2 DEF Shape, InShape, Wire, Off, Fin
  <2>3. CASE t.state = "DATA_OUT"
    BY <2>1, <2>3 DEF Shape, OutShape, Wire, Off, Fin
  <2>4. QED
    BY <2>2, <2>3
<1>2. /\ Residue(t) \in 0 .. Units
      /\ t.case = 11 => Residue(t) = t.cbw.len - t.actual
      /\ t.case = 0 => Residue(t) = 0
  BY <1>1, AnsweredFacts, RunningShape, ResidueValue
<1>3. SentCsw(t, t', "passed")
  BY <1>1, <1>2, CswSent DEF Statuses
<1>4. t' \in Transport /\ t'.state = "SEND_CSW" /\ Off(t'.out) /\ Runs(t'.in)
      /\ t'.in.what = "csw" /\ ~t'.persistent /\ ~t'.odd /\ t'.cbw = t.cbw
      /\ t'.residue = Residue(t)
  BY <1>1, <1>3 DEF SentCsw
<1>5. IsDone(t)'
  BY <1>4, AnsweredFacts DEF IsDone, Answering, Serving
<1>6. h.phase \in {"status", "data_out", "recover"}
  <2>1. h.phase \in {"data_in", "data_out", "status", "recover"}
    BY InHandWhileRunning DEF Answering, Serving
  <2>2. h.phase # "data_in"
    BY AnsweredFacts, InHandWhileRunning DEF Answering, Serving, Hands, Reads
  <2>3. QED
    BY <2>1, <2>2
<1>7. h.phase # "recover" => t'.residue = Left(t.cbw, h.got)
  <2>1. CASE t.state = "DATA_IN"
    <3>1. h.phase # "recover" => h.phase = "status"
      BY <1>6, <2>1, InHandWhileRunning DEF Answering, Serving
    <3>2. h.phase # "recover" => h.got = t.cbw.len
      BY <1>1, <2>1, <3>1, AnsweredFacts DEF Hands, Asks, Fin
    <3>3. t.cbw.dir = "in" /\ t.cbw.len \in 0 .. Units
      BY <1>1, <2>1, AnsweredFacts, Parts, CBWType DEF Shape, InShape
    <3>4. t'.residue = 0
      BY <1>1, <1>2, <1>4, <2>1
    <3>5. Left(t.cbw, t.cbw.len) = 0
      BY <3>3, UnitsType DEF Left
    <3>6. QED
      BY <3>2, <3>4, <3>5
  <2>2. CASE t.state = "DATA_OUT"
    <3>1. OutShape(t)
      BY <2>2, AnsweredFacts DEF Shape
    <3>2. t.cbw.dir = "out" /\ t.cbw.len \in 0 .. Units /\ t.cbw.want \in 0 .. Units
          /\ t.cbw.intent = "out"
      BY <1>1, <3>1, Parts, CBWType DEF OutShape
    <3>3. CASE t.case = 0
      BY <1>2, <1>4, <3>1, <3>2, <3>3, UnitsType DEF OutShape, Left
    <3>4. CASE t.case = 11
      BY <1>2, <1>4, <3>1, <3>2, <3>4, UnitsType DEF OutShape, Left
    <3>5. QED
      BY <1>1, <3>3, <3>4
  <2>3. QED
    BY <2>1, <2>2
<1>8. Types' /\ AnswerInv' /\ ~Owed' /\ IInv /\ h' = h /\ events' = <<>>
  BY <1>1, <1>4, AnsweredFacts DEF Answering, Serving
<1>9. ~Only(events', "in")
  BY <1>8, Kinds
<1>10. QED
  BY <1>4, <1>5, <1>6, <1>7, <1>8, <1>9, EndStep

(* The disk has filled the buffer of a command that is not a read.         *)
LEMMA DiskFills ==
  ASSUME NEW k \in 0 .. Units, Answering("ok"), t.state = "DATA_IN", ~t.cbw.rw,
         t' = [Tx(t, "data", Least(k, t.cbw.len)) EXCEPT !.sata = TRUE]
  PROVE  IInv'
<1>1. t \in Transport /\ Shape(t) /\ Wire(t, events) /\ Hands(t, h, events) /\ ~t.in.active
  BY AnsweredFacts
<1>2. InShape(t)
  BY <1>1 DEF Shape
<1>3. /\ t.case = 0 /\ ~t.usb /\ t.residue = t.cbw.len /\ Off(t.in) /\ Off(t.out)
      /\ ~t.persistent /\ ~t.odd /\ events = <<>> /\ t.cbw.dir = "in" /\ t.cbw.len > 0
  BY <1>1, <1>2 DEF Shape, InShape, Wire, Off, Fin
<1>4. t.cbw.len \in 1 .. Units
  BY <1>1, <1>3, Parts, CBWType, UnitsType
<1>5. h.phase \in {"data_in", "recover"} /\ h.phase # "idle"
  <2>1. h.phase \in {"data_in", "status", "recover"}
    BY <1>2, InHandWhileRunning DEF Answering, Serving
  <2>2. h.phase # "status"
    BY <1>1, <1>3 DEF Hands, Asks
  <2>3. QED
    BY <2>1, <2>2
<1>6. h.phase = "data_in" => h.got = 0
  BY <1>1, <1>3 DEF Hands, Reads, Fin, Off
<1>7. h.csw # "passed"
  BY <1>5 DEF Answering, Serving, IInv, DiskInv
<1>8. CASE k = 0
  <2> DEFINE s == Stall(t, "in")
             c == SendCSW(s, "passed")
  <2>1. t' = [c EXCEPT !.sata = TRUE]
    <3>1. Least(k, t.cbw.len) = 0
      BY <1>4, <1>8, UnitsType DEF Least
    <3>2. Tx(t, "data", 0) = CaseHandler(t, 4)
      BY DEF Tx
    <3>3. CaseHandler(t, 4) = c
      BY DEF CaseHandler
    <3>4. QED
      BY <3>1, <3>2, <3>3
  <2>2. s \in Transport /\ SameBut(t, s) /\ s.out = t.out /\ s.in.stalled /\ ~s.in.active
    BY <1>1, InStalled
  <2> HIDE DEF s
  <2>3. Residue(s) \in 0 .. Units /\ Residue(s) = t.cbw.len
    BY <1>3, <2>2, ResidueValue DEF SameBut
  <2>4. SentCsw(s, c, "passed")
    BY <2>2, <2>3, CswSent DEF SameBut, Statuses
  <2> HIDE DEF c
  <2>5. c \in Transport
    BY <2>4 DEF SentCsw
  <2>6. /\ t' \in Transport /\ t'.in = c.in /\ t'.out = c.out /\ t'.state = c.state
        /\ t'.cbw = c.cbw /\ t'.status = c.status /\ t'.residue = c.residue
        /\ t'.persistent = c.persistent /\ t'.odd = c.odd
    BY <2>1, <2>5, SataSet
  <2>7. /\ t'.state = "SEND_CSW" /\ Off(t'.out) /\ Runs(t'.in) /\ t'.in.what = "csw"
        /\ t'.in.stalled /\ ~t'.persistent /\ ~t'.odd /\ t'.cbw = t.cbw
        /\ t'.residue = t.cbw.len
    BY <1>3, <2>2, <2>3, <2>4, <2>6 DEF SentCsw, SameBut
  <2>8. Types' /\ AnswerInv' /\ ~Owed' /\ IInv /\ h' = h /\ events' = <<>>
    BY <1>3, <2>6, AnsweredFacts DEF Answering, Serving
  <2>9. IsDone(t)'
    BY <2>7, AnsweredFacts DEF IsDone, Answering, Serving
  <2>10. h.phase = "data_in" => t'.residue = Left(t.cbw, h.got)
    BY <1>3, <1>4, <1>6, <2>7 DEF Left
  <2>11. QED
    BY <1>5, <2>7, <2>8, <2>9, <2>10, EndStep
<1>9. CASE k # 0
  <2> DEFINE n == Least(k, t.cbw.len)
             c == Tx(t, "data", n)
  <2>1. n \in 1 .. Units /\ n <= t.cbw.len /\ "data" \in Whats
    BY <1>4, <1>9, UnitsType DEF Least, Whats
  <2> HIDE DEF n
  <2>2. /\ c \in Transport /\ SameBut(t, c) /\ c.out = t.out
        /\ Runs(c.in) /\ c.in.what = "data" /\ c.in.n = n /\ c.in.stalled = t.in.stalled
    BY <1>1, <2>1, Transmitted
  <2>3. t' = [c EXCEPT !.sata = TRUE]
    BY DEF n
  <2> HIDE DEF c
  <2> DEFINE d == [c EXCEPT !.sata = TRUE]
  <2>15. /\ d \in Transport /\ d.sata = TRUE /\ d.in = c.in /\ d.out = c.out
         /\ d.state = c.state /\ d.case = c.case /\ d.actual = c.actual
         /\ d.residue = c.residue /\ d.usb = c.usb /\ d.cbw = c.cbw
         /\ d.persistent = c.persistent /\ d.odd = c.odd
    BY <2>2, SataSet
  <2>16. t' = d
    BY <2>3
  <2> HIDE DEF d
  <2>4. /\ t' \in Transport /\ t'.sata = TRUE /\ t'.in = c.in /\ t'.out = c.out
        /\ t'.state = c.state /\ t'.case = c.case /\ t'.actual = c.actual
        /\ t'.residue = c.residue /\ t'.usb = c.usb /\ t'.cbw = c.cbw
        /\ t'.persistent = c.persistent /\ t'.odd = c.odd
    BY <2>15, <2>16
  <2>5. /\ t'.in = c.in /\ Runs(t'.in) /\ t'.in.what = "data" /\ t'.in.n = n /\ t'.out = t.out
        /\ t'.state = "DATA_IN" /\ t'.case = t.case /\ t'.actual = t.actual
        /\ t'.residue = t.residue /\ t'.usb = t.usb /\ t'.cbw = t.cbw /\ ~t'.persistent
        /\ ~t'.odd /\ t'.sata /\ t'.in.stalled = t.in.stalled
    BY <1>3, <2>2, <2>4 DEF SameBut
  <2>6. InShape(t')
    BY <1>2, <1>3, <2>1, <2>5 DEF InShape, Runs
  <2>7. Shape(t')
    BY <2>5, <2>6 DEF Shape, Runs
  <2>8. Types' /\ AnswerInv' /\ ~Owed' /\ h' = h /\ events' = <<>>
    BY <1>3, <2>4, AnsweredFacts DEF Answering, Serving
  <2>9. Wire(t', events')
    BY <2>5, <2>8 DEF Wire, Fin, Runs
  <2>10. Hands(t', h', events')
    <3>1. h.phase = "data_in" => Reads(t', h', events')
      BY <1>3, <1>6, <2>5, <2>8 DEF Reads, Runs, Fin
    <3>2. QED
      BY <1>5, <2>5, <2>8, <3>1 DEF Hands
  <2>11. IsDone(t)'
    BY <1>1, <2>5, AnsweredFacts DEF IsDone, Answering, Serving
  <2>12. DiskInv'
    BY <1>7, <2>5, <2>8, <2>11 DEF DiskInv
  <2>13. ResidueInv'
    BY <1>7, <2>5, <2>8 DEF ResidueInv
  <2>14. QED
    BY <2>7, <2>8, <2>9, <2>10, <2>12, <2>13 DEF IInv
<1>10. QED
  BY <1>8, <1>9

(* The command callback.                                                   *)
LEMMA CommandCallbackStep ==
  ASSUME NEW r \in {"ok", "bad"}, NEW k \in 0 .. Units, Answering(r),
         t' = CommandCallback(t, r = "ok", k), t.state # "IDLE"
  PROVE  IInv'
<1>1. t \in Transport /\ Shape(t)
  BY AnsweredFacts
<1>2. CASE t.actual = 0
  <2>1. t.state \notin {"DATA_IN", "DATA_OUT", "IDLE"}
    BY <1>2, AnsweredFacts
  <2>2. t' = SendCSW(t, IF r = "ok" THEN "passed" ELSE "failed")
    BY <1>2 DEF CommandCallback
  <2>3. CASE t.state = "CSW_PENDING"
    BY <2>2, <2>3, NoDataEnds
  <2>4. CASE t.state \in {"SEND_CSW", "ERROR"}
    <3>1. t' = t
      BY <2>2, <2>4 DEF SendCSW
    <3>2. QED
      BY <3>1, IgnoredStep DEF Answering
  <2>5. QED
    BY <1>1, <2>1, <2>3, <2>4 DEF Transport
<1>3. CASE t.actual # 0 /\ t.state \notin {"DATA_IN", "DATA_OUT"}
  <2>1. t' = t
    BY <1>3 DEF CommandCallback
  <2>2. QED
    BY <2>1, IgnoredStep DEF Answering
<1>4. CASE t.actual # 0 /\ t.state \in {"DATA_IN", "DATA_OUT"} /\ r = "bad"
  <2>1. t' = ErrorCallback(t)
    BY <1>4 DEF CommandCallback
  <2>3. QED
    BY <2>1, ErrorCallbackStep DEF Answering
<1>5. CASE t.actual # 0 /\ t.state \in {"DATA_IN", "DATA_OUT"} /\ r = "ok"
  <2>1. CASE t.state = "DATA_IN" /\ ~t.cbw.rw
    <3>1. ~t.rw_pending
      BY <2>1, AnsweredFacts
    <3> DEFINE c == Tx(t, "data", Least(k, t.cbw.len))
    <3>2. t' = IF c.usb THEN SendCSW(c, "passed") ELSE [c EXCEPT !.sata = TRUE]
      BY <1>5, <2>1, <3>1 DEF CommandCallback
    <3>3. ~c.usb
      <4>1. ~t.usb /\ ~t.in.active /\ t.cbw.len \in 0 .. Units
        BY <1>1, <2>1, AnsweredFacts, Parts, CBWType DEF Shape, InShape
      <4>2. CASE Least(k, t.cbw.len) = 0
        <5> DEFINE s == Stall(t, "in")
        <5>1. c = SendCSW(s, "passed")
          BY <4>2 DEF Tx, CaseHandler
        <5>2. s \in Transport /\ SameBut(t, s)
          BY <1>1, <4>1, InStalled
        <5> HIDE DEF s
        <5>3. SendCSW(s, "passed").usb = s.usb
          BY <5>2 DEF SendCSW, Transport
        <5>4. QED
          BY <4>1, <5>1, <5>2, <5>3 DEF SameBut
      <4>3. CASE Least(k, t.cbw.len) # 0
        <5>1. Least(k, t.cbw.len) \in 1 .. Units /\ "data" \in Whats
          BY <4>1, <4>3, UnitsType DEF Least, Whats
        <5>2. SameBut(t, c)
          BY <1>1, <4>1, <5>1, Transmitted
        <5>3. QED
          BY <4>1, <5>2 DEF SameBut
      <4>4. QED
        BY <4>2, <4>3
    <3>4. t' = [c EXCEPT !.sata = TRUE]
      BY <3>2, <3>3
    <3>5. QED
      BY <1>5, <2>1, <3>4, DiskFills
  <2>2. CASE ~(t.state = "DATA_IN" /\ ~t.cbw.rw)
    <3>1. t.state = "DATA_IN" => t.rw_pending
      BY <2>2, AnsweredFacts
    <3>2. t' = IF t.usb THEN SendCSW(t, "passed") ELSE [t EXCEPT !.sata = TRUE]
      BY <1>5, <3>1 DEF CommandCallback
    <3>3. CASE t.usb
      <4>1. t' = SendCSW(t, "passed")
        BY <3>2, <3>3
      <4>2. QED
        BY <1>5, <3>3, <4>1, DiskLast
    <3>4. CASE ~t.usb
      <4>1. t' = [t EXCEPT !.sata = TRUE]
        BY <3>2, <3>4
      <4>2. t.cbw.rw
        <5>1. t.state = "DATA_OUT" /\ ~t.cbw.rw => ~t.out.active
          BY <1>5, AnsweredFacts
        <5>2. t.state = "DATA_OUT" /\ ~t.out.active => t.usb
          BY <1>1 DEF Shape, OutShape
        <5>3. QED
          BY <1>5, <2>2, <3>4, <5>1, <5>2
      <4>3. QED
        BY <1>5, <3>4, <4>1, <4>2, DiskFirst
    <3>5. QED
      BY <3>3, <3>4
  <2>3. QED
    BY <2>1, <2>2
<1>6. QED
  BY <1>2, <1>3, <1>4, <1>5

(* The foreground serves one callback; one that is overdue changes         *)
(* nothing, or acts after the end of its command.                          *)
LEMMA ServeCallbackStep == IInv /\ ServeCallback /\ ~stale' => IInv'
<1> SUFFICES ASSUME IInv, ServeCallback, ~stale' PROVE IInv'
  OBVIOUS
<1>1. Serving /\ ~(t' # t /\ Head(cb) # "error" /\ Overdue)
  BY DEF ServeCallback, Serving
<1>2. Head(cb) \in Callbacks
  <2>1. cb \in Seq(Callbacks) /\ cb # <<>>
    BY <1>1 DEF Serving, IInv, Types
  <2>2. QED
    BY <2>1, Dequeued
<1>3. CASE Head(cb) = "error"
  <2>1. t' = ErrorCallback(t)
    BY <1>3 DEF ServeCallback
  <2>2. QED
    BY <1>1, <2>1, ErrorCallbackStep
<1>4. CASE Head(cb) # "error" /\ Overdue
  BY <1>1, <1>4, IgnoredStep
<1>5. CASE Head(cb) # "error" /\ ~Overdue
  <2> DEFINE r == Head(cb)
  <2>1. r \in {"ok", "bad"} /\ t.state # "IDLE"
    BY <1>2, <1>5 DEF Overdue, Callbacks
  <2>2. PICK k \in 0 .. Units : t' = CommandCallback(t, r = "ok", k)
    <3>1. 0 \in 0 .. Units
      BY UnitsType
    <3>2. \E k \in IF t.rw_pending THEN {0} ELSE 0 .. Units :
            t' = CommandCallback(t, r = "ok", k)
      BY <1>5, <2>1 DEF ServeCallback
    <3>3. QED
      BY <3>1, <3>2
  <2>3. Answering(r)
    BY <1>1 DEF Answering
  <2> HIDE DEF r
  <2>4. QED
    BY <2>1, <2>2, <2>3, CommandCallbackStep
<1>6. QED
  BY <1>3, <1>4, <1>5

-----------------------------------------------------------------------------
(* Events of the wire.                                                     *)

(* What is taken with an event.                                            *)
Taken ==
  /\ IInv /\ events # <<>> /\ events' = Tail(events) /\ h' = h

(* What a buffer of events has to do with the host's phase.                *)
LEMMA HandsKept ==
  ASSUME NEW q, NEW g, NEW s, NEW r, Hands(q, g, s),
         g.phase # "clear", g.phase # "retry",
         g.phase = "data_in" => Reads(q, g, r),
         g.phase = "data_out" => Sends(q, g, r),
         g.phase = "status" => Asks(q, g, r)
  PROVE  Hands(q, g, r)
  BY DEF Hands

(* The event of a transfer that was cancelled changes nothing.             *)
LEMMA StaleEventStep ==
  ASSUME Taken, ~t[Head(events).ep].active,
         t' = t, ata' = ata, cb' = cb, ready' = ready, done' = done
  PROVE  IInv'
<1>1. Types /\ Shape(t) /\ Wire(t, events) /\ Hands(t, h, events)
  BY DEF Taken, IInv
<1>2. t \in Transport /\ events \in Seq(Events)
  BY <1>1 DEF Types
<1>3. ~Only(events, "in") \/ ~t.in.active
  BY <1>2, LastEvent
<1>4. ~Only(events, "out") \/ ~t.out.active
  BY <1>2, LastEvent
<1>12. h.phase # "retry" /\ h.phase # "clear"
  BY <1>1 DEF Hands, AsksAgain, Taken
<1>13. <<>> \in Seq(Events)
  OBVIOUS
<1>5. ASSUME t.state = "IDLE"
      PROVE  events' \in Seq(Events) /\ Wire(t', events') /\ Hands(t', h', events')
  <2>1. \/ Fin(t.out) /\ Both(events, "in", "out")
        \/ ~Fin(t.out) /\ Only(events, "in")
    BY <1>1, <1>4, <1>5 DEF Wire, Fin, Taken
  <2>2. \/ Fin(t.out) /\ events' \in Seq(Events) /\ Only(events', "out")
        \/ ~Fin(t.out) /\ events' = <<>>
    BY <1>2, <2>1, LastEvent, NextEvent DEF Taken
  <2>3. Wire(t', events')
    BY <1>5, <2>2 DEF Wire
  <2>6. h.phase = "data_in" => Reads(t, h, events')
    BY <1>1, <1>5 DEF Hands, Reads, Taken
  <2>7. h.phase = "data_out" => Sends(t, h, events')
    BY <1>1, <1>5 DEF Hands, Sends, Taken
  <2>8. h.phase = "status" => Asks(t, h, events')
    BY <1>1, <1>5 DEF Hands, Asks, Taken
  <2>9. Hands(t, h, events')
    BY <1>1, <1>12, <2>6, <2>7, <2>8, HandsKept
  <2>4. Hands(t', h', events')
    BY <2>9 DEF Taken
  <2>5. events' \in Seq(Events)
    BY <1>13, <2>2
  <2>10. QED
    BY <2>3, <2>4, <2>5
<1>6. ASSUME t.state \in {"SEND_CSW", "ERROR"}
      PROVE  events' \in Seq(Events) /\ Wire(t', events') /\ Hands(t', h', events')
  <2>1. t.in.active
    BY <1>1, <1>6 DEF Shape, CswShape
  <2>2. \/ Fin(t.in) /\ Both(events, "out", "in")
        \/ ~Fin(t.in) /\ Only(events, "out")
    BY <1>1, <1>3, <1>6, <2>1 DEF Wire, Taken
  <2>3. \/ Fin(t.in) /\ events' \in Seq(Events) /\ Only(events', "in")
        \/ ~Fin(t.in) /\ events' = <<>>
    BY <1>2, <2>2, LastEvent, NextEvent DEF Taken
  <2>4. Wire(t', events')
    BY <1>6, <2>3 DEF Wire
  <2>5. Fin(t.in) => h.phase \in {"idle", "recover"}
    BY <1>1, <1>6 DEF Hands, Fin
  <2>6. ~Fin(t.in) => ~Only(events', "in")
    BY <2>3, Kinds
  <2>7. h.phase = "data_in" => Reads(t, h, events')
    BY <1>1, <1>6 DEF Hands, Reads, Taken
  <2>8. h.phase = "data_out" => Sends(t, h, events')
    BY <1>1, <1>6, <2>5, <2>6 DEF Hands, Sends, Taken
  <2>9. h.phase = "status" => Asks(t, h, events')
    BY <1>1, <1>6 DEF Hands, Asks, Taken
  <2>12. Hands(t, h, events')
    BY <1>1, <1>12, <2>7, <2>8, <2>9, HandsKept
  <2>10. Hands(t', h', events')
    BY <2>12 DEF Taken
  <2>11. events' \in Seq(Events)
    BY <1>13, <2>3
  <2>13. QED
    BY <2>4, <2>10, <2>11
<1>7. ASSUME t.state \in {"DATA_IN", "DATA_OUT", "CSW_PENDING"} PROVE FALSE
  BY <1>1, <1>3, <1>4, <1>7 DEF Wire, Fin, Taken
<1>8. events' \in Seq(Events) /\ Wire(t', events') /\ Hands(t', h', events')
  BY <1>2, <1>5, <1>6, <1>7 DEF Transport
<1>9. Types'
  BY <1>1, <1>8 DEF Types, Taken
<1>10. DiskInv' /\ ResidueInv'
  BY DiskKept DEF Taken, IInv, DiskInv, IsDone, IsShort, ResidueInv
<1>11. QED
  BY <1>1, <1>8, <1>9, <1>10 DEF IInv

(* The flag of an endpoint when its event is handled.                      *)
LEMMA InFlag ==
  ASSUME NEW q \in Transport
  PROVE  LET r == [q EXCEPT !.in.active = FALSE] IN
         /\ r \in Transport /\ SameBut(q, r) /\ r.out = q.out
         /\ ~r.in.active /\ r.in.hw = q.in.hw /\ r.in.what = q.in.what
         /\ r.in.stalled = q.in.stalled
<1> DEFINE e == [q.in EXCEPT !.active = FALSE]
           r == [q EXCEPT !.in = e]
<1>1. /\ e \in Endpoint /\ ~e.active /\ e.hw = q.in.hw /\ e.what = q.in.what
      /\ e.stalled = q.in.stalled
  BY Parts DEF Endpoint
<1>2. [q EXCEPT !.in.active = FALSE] = r
  OBVIOUS
<1> HIDE DEF e
<1>3. r \in Transport
  BY <1>1, NewIn
<1>4. SameBut(q, r) /\ r.out = q.out /\ r.in = e
  BY DEF Transport, SameBut
<1>5. QED
  BY <1>1, <1>2, <1>3, <1>4

(* The same of the other endpoint.                                         *)
LEMMA OutFlag ==
  ASSUME NEW q \in Transport
  PROVE  LET r == [q EXCEPT !.out.active = FALSE] IN
         /\ r \in Transport /\ SameBut(q, r) /\ r.in = q.in
         /\ ~r.out.active /\ r.out.hw = q.out.hw
<1> DEFINE e == [q.out EXCEPT !.active = FALSE]
           r == [q EXCEPT !.out = e]
<1>1. e \in Endpoint /\ ~e.active /\ e.hw = q.out.hw
  BY Parts DEF Endpoint
<1>2. [q EXCEPT !.out.active = FALSE] = r
  OBVIOUS
<1> HIDE DEF e
<1>3. r \in Transport
  BY <1>1, NewOut
<1>4. SameBut(q, r) /\ r.in = q.in /\ r.out = e
  BY DEF Transport, SameBut
<1>5. QED
  BY <1>1, <1>2, <1>3, <1>4

(* What is left after a transfer.                                          *)
LEMMA Counted ==
  ASSUME NEW q \in Transport, NEW n \in 0 .. Units, n <= q.residue
  PROVE  LET r == [q EXCEPT !.residue = @ - n] IN
         /\ r \in Transport /\ r.residue = q.residue - n
         /\ r.in = q.in /\ r.out = q.out
         /\ r.state = q.state /\ r.case = q.case /\ r.actual = q.actual
         /\ r.usb = q.usb /\ r.sata = q.sata /\ r.check = q.check /\ r.cbw = q.cbw
         /\ r.valid = q.valid /\ r.status = q.status /\ r.rw_pending = q.rw_pending
         /\ r.persistent = q.persistent /\ r.odd = q.odd
<1> DEFINE k == q.residue - n
<1>1. k \in 0 .. Units
  BY UnitsType DEF Transport
<1>2. [q EXCEPT !.residue = @ - n] = [q EXCEPT !.residue = k]
  OBVIOUS
<1> HIDE DEF k
<1>3. [q EXCEPT !.residue = k] \in Transport
  BY <1>1 DEF Transport
<1>4. QED
  BY <1>2, <1>3 DEF Transport, k

(* The wire's part of the command is done.                                 *)
LEMMA UsbSet ==
  ASSUME NEW q \in Transport
  PROVE  LET r == [q EXCEPT !.usb = TRUE] IN
         /\ r \in Transport /\ r.usb = TRUE /\ r.in = q.in /\ r.out = q.out
         /\ r.state = q.state /\ r.case = q.case /\ r.actual = q.actual
         /\ r.residue = q.residue /\ r.sata = q.sata /\ r.check = q.check /\ r.cbw = q.cbw
         /\ r.valid = q.valid /\ r.status = q.status /\ r.rw_pending = q.rw_pending
         /\ r.persistent = q.persistent /\ r.odd = q.odd
  BY DEF Transport

(* The kind of what the disk has been asked for.                           *)
LEMMA PendingSet ==
  ASSUME NEW q \in Transport
  PROVE  LET r == [q EXCEPT !.rw_pending = q.cbw.rw] IN
         /\ r \in Transport /\ r.rw_pending = q.cbw.rw /\ r.in = q.in /\ r.out = q.out
         /\ r.state = q.state /\ r.case = q.case /\ r.actual = q.actual
         /\ r.residue = q.residue /\ r.usb = q.usb /\ r.sata = q.sata /\ r.check = q.check
         /\ r.cbw = q.cbw /\ r.valid = q.valid /\ r.status = q.status
         /\ r.persistent = q.persistent /\ r.odd = q.odd
<1>1. q.cbw.rw \in BOOLEAN
  BY Parts, CBWType
<1>2. QED
  BY <1>1 DEF Transport

(* A CSW does not mind it.                                                 *)
LEMMA UsbKeepsCsw ==
  ASSUME NEW q \in Transport, NEW c \in Transport, NEW status \in Statuses
  PROVE  /\ SentCsw(q, c, status) => SentCsw(q, [c EXCEPT !.usb = TRUE], status)
         /\ FailedCsw(q, c) => FailedCsw(q, [c EXCEPT !.usb = TRUE])
<1> DEFINE d == [c EXCEPT !.usb = TRUE]
<1>1. /\ d \in Transport /\ d.in = c.in /\ d.out = c.out /\ d.state = c.state
      /\ d.actual = c.actual /\ d.residue = c.residue /\ d.cbw = c.cbw
      /\ d.valid = c.valid /\ d.status = c.status /\ d.rw_pending = c.rw_pending
      /\ d.persistent = c.persistent /\ d.odd = c.odd
  BY UsbSet
<1> HIDE DEF d
<1>2. SentCsw(q, c, status) => SentCsw(q, d, status)
  BY <1>1 DEF SentCsw
<1>3. FailedCsw(q, c) => FailedCsw(q, d)
  BY <1>1 DEF FailedCsw
<1>4. QED
  BY <1>2, <1>3 DEF d

(* The end of a CSW, or what is taken for it: the transport waits for the  *)
(* next CBW.                                                               *)
LEMMA CswEndStep ==
  ASSUME Taken, t.state \in {"SEND_CSW", "ERROR"}, Only(events, "in"),
         t' = Idle([t EXCEPT !.in.active = FALSE]),
         ata' = ata, cb' = cb, ready' = ready, done' = done
  PROVE  IInv'
<1>1. Types /\ Shape(t) /\ Wire(t, events) /\ Hands(t, h, events) /\ CswShape(t)
  BY DEF Taken, IInv, Shape
<1>2. t \in Transport /\ events \in Seq(Events)
  BY <1>1 DEF Types
<1>3. events' = <<>>
  BY <1>2, LastEvent DEF Taken
<1> DEFINE q == [t EXCEPT !.in.active = FALSE]
<1>4. /\ q \in Transport /\ SameBut(t, q) /\ q.out = t.out
      /\ ~q.in.active /\ q.in.hw = t.in.hw /\ q.in.what = t.in.what
      /\ q.in.stalled = t.in.stalled
  BY <1>2, InFlag
<1> HIDE DEF q
<1>5. IdleAgain(q, t')
  BY <1>4, Idled DEF q
<1>6. /\ t' \in Transport
      /\ t'.state = "IDLE" /\ t'.case = 0 /\ ~t'.usb /\ ~t'.sata /\ ~t'.check
      /\ ~t'.in.active /\ t'.in.hw = t.in.hw /\ t'.in.what = t.in.what
      /\ t'.in.stalled = t.in.stalled
      /\ Runs(t'.out) /\ t'.out.what = "cbw"
      /\ t'.actual = t.actual /\ t'.residue = t.residue /\ t'.cbw = t.cbw
      /\ t'.status = t.status /\ t'.rw_pending = t.rw_pending
      /\ ~t'.persistent /\ ~t'.odd
  BY <1>1, <1>4, <1>5 DEF IdleAgain, SameBut, Shape, CswShape, Off
<1>7. Types'
  BY <1>1, <1>3, <1>6 DEF Types, Taken
<1>8. Shape(t')
  BY <1>1, <1>6 DEF Shape, CswShape, IdleShape, Runs, Fin
<1>9. Wire(t', events')
  BY <1>3, <1>6 DEF Wire, Fin, Runs
<1>10. Hands(t', h', events')
  <2>1. ~t.in.hw => h.phase \in {"idle", "recover"}
    BY <1>1 DEF Hands
  <2>2. t.in.hw => t.in.stalled
    BY <1>1, Kinds DEF Wire, Fin, CswShape
  <2>3. h.phase # "data_out"
    BY <1>1 DEF Hands, Sends
  <2>4. h.phase # "retry"
    BY DEF Taken, IInv, Hands, AsksAgain
  <2>5. h.phase # "clear"
    BY <1>1 DEF Hands
  <2>6. h.phase = "data_in" => Reads(t', h', events')
    BY <1>1, <1>6, <2>1, <2>2 DEF Taken, Hands, Reads, Fin, Runs
  <2>7. Asks(t', h', events')
    BY <1>6 DEF Asks, Fin, Runs
  <2>8. h.phase = "idle" => ~t.in.stalled /\ ~t.in.hw
    BY <1>1 DEF Hands
  <2>9. t.in.hw \/ h.phase \in {"idle", "recover"}
    BY <2>1
  <2>10. QED
    BY <1>6, <2>3, <2>4, <2>5, <2>6, <2>7, <2>8, <2>9 DEF Taken, Hands, Fin, Runs
<1>15. AnswerInv' /\ (Owed' <=> Owed)
  BY DiskKept DEF Taken, IInv, DiskInv
<1>11. Owed' => t'.rw_pending = t'.cbw.rw
  BY <1>6, <1>15 DEF Taken, IInv, DiskInv
<1>12. DiskInv'
  BY <1>6, <1>11, <1>15 DEF Taken, IInv, DiskInv, IsDone, IsShort, Fin, Runs
<1>13. ResidueInv'
  BY <1>6 DEF Taken, IInv, ResidueInv
<1>14. QED
  BY <1>7, <1>8, <1>9, <1>10, <1>12, <1>13 DEF IInv

(* Data in have been read: the command ends when there is nothing else to  *)
(* wait for, and otherwise waits for the disk.                             *)
LEMMA DataInEndStep ==
  ASSUME Taken, t.state = "DATA_IN", t.in.active, Only(events, "in"),
         t' = InCallback([t EXCEPT !.in.active = FALSE], Head(events).n),
         ata' = ata, cb' = cb, ready' = ready, done' = done
  PROVE  IInv'
<1>1. Types /\ Shape(t) /\ Wire(t, events) /\ Hands(t, h, events) /\ InShape(t) /\ DiskInv
  BY DEF Taken, IInv, Shape
<1>2. t \in Transport /\ events \in Seq(Events)
  BY <1>1 DEF Types
<1>3. events' = <<>> /\ Head(events) = events[1] /\ Head(events) \in Events
  BY <1>2, LastEvent DEF Taken
<1>4. Fin(t.in)
  BY <1>1, Kinds DEF Wire
<1>5. PICK n \in 0 .. Units, len \in 0 .. Units, act \in 0 .. Units :
        /\ n = Head(events).n /\ len = t.cbw.len /\ act = t.actual
        /\ n >= 1 /\ n <= len /\ (t.cbw.rw \/ t.case = 5 => n = act)
  <2>1. Head(events).n \in 0 .. Units /\ t.cbw.len \in 0 .. Units /\ t.actual \in 0 .. Units
    BY <1>2, <1>3, Parts, CBWType DEF Events, Transport
  <2>2. /\ Head(events).n >= 1 /\ Head(events).n <= t.cbw.len
        /\ t.cbw.rw \/ t.case = 5 => Head(events).n = t.actual
    BY <1>1, <1>3, <1>4 DEF Wire
  <2>3. QED
    BY <2>1, <2>2
<1>6. /\ ~t.usb /\ t.residue = len /\ Off(t.out) /\ ~t.in.stalled /\ ~t.persistent /\ ~t.odd
      /\ t.cbw.dir = "in" /\ t.cbw.intent = "in" /\ len > 0 /\ t.case \in {0, 5, 7}
      /\ t.actual # 0
      /\ IF t.case = 5 THEN act < len ELSE act = len
      /\ t.cbw.rw => (t.case = 5 <=> t.cbw.want < len)
      /\ ~t.cbw.rw => t.sata
  BY <1>1, <1>2, <1>5 DEF Shape, InShape
<1>7. h.phase \in {"data_in", "status", "recover"}
  BY InHandWhileRunning DEF Taken
<1>8. /\ h.phase = "data_in" => h.got = n /\ n < len
      /\ h.phase = "status" => h.got = n
  BY <1>1, <1>3, <1>4, <1>5 DEF Hands, Reads, Asks
<1> DEFINE q == [t EXCEPT !.in.active = FALSE]
           r == [q EXCEPT !.residue = @ - n]
<1>9. /\ q \in Transport /\ SameBut(t, q) /\ q.out = t.out
      /\ ~q.in.active /\ q.in.hw = t.in.hw /\ q.in.what = t.in.what
      /\ q.in.stalled = t.in.stalled
  BY <1>2, InFlag
<1>10. t' = InCallback(q, n)
  BY <1>5
<1> HIDE DEF q
<1>11. /\ r \in Transport /\ r.residue = len - n
       /\ r.in = q.in /\ r.out = t.out /\ r.state = "DATA_IN" /\ r.case = t.case
       /\ r.actual = t.actual /\ r.usb = t.usb /\ r.sata = t.sata /\ r.cbw = t.cbw
       /\ r.rw_pending = t.rw_pending /\ r.persistent = t.persistent /\ r.odd = t.odd
  BY <1>5, <1>6, <1>9, Counted DEF SameBut
<1>12. t' = IF r.residue # 0 THEN CaseHandler(r, 5)
            ELSE IF r.case = 7 THEN CaseHandler(r, 7)
            ELSE IF r.sata THEN SendCSW(r, "passed")
            ELSE [r EXCEPT !.usb = TRUE]
  <2>1. q.state = "DATA_IN"
    BY <1>9 DEF SameBut
  <2>2. QED
    BY <1>10, <2>1 DEF InCallback
<1> HIDE DEF r
<1>13. ~r.in.active /\ ~r.in.stalled /\ ~r.in.hw
  BY <1>4, <1>6, <1>9, <1>11 DEF Fin
<1>14. t' \in Transport => Types'
  <2>1. <<>> \in Seq(Events)
    OBVIOUS
  <2>2. QED
    BY <1>1, <1>3, <2>1 DEF Types, Taken
<1>15. AnswerInv' /\ (Owed' <=> Owed)
  BY <1>1, DiskKept DEF DiskInv
<1>16. Owed => t.rw_pending = t.cbw.rw
  BY <1>1 DEF DiskInv
<1>17. h' = h /\ events' = <<>> /\ IInv
  BY <1>3 DEF Taken
<1>18. t.sata /\ t'.cbw = t.cbw => IsDone(t)'
  BY <1>1 DEF DiskInv, IsDone, Taken
<1>19. r.actual <= r.cbw.len
  BY <1>5, <1>6, <1>11
<1>20. CASE r.residue # 0
  <2> DEFINE s == Stall(r, "in")
  <2>1. t' = SendCSW(s, "passed")
    BY <1>12, <1>20 DEF CaseHandler
  <2>2. s \in Transport /\ SameBut(r, s) /\ s.out = r.out /\ s.in.stalled /\ ~s.in.active
    BY <1>11, <1>13, InStalled
  <2> HIDE DEF s
  <2>3. Residue(s) \in 0 .. Units /\ Residue(s) = len - n
    <3>1. s.case = t.case /\ s.actual = act /\ s.cbw.len = len /\ s.residue = len - n
      BY <1>5, <1>11, <2>2 DEF SameBut
    <3>2. s.case \in {5, 11} => s.actual <= s.cbw.len
      BY <1>5, <1>6, <3>1
    <3>3. QED
      BY <1>5, <1>6, <2>2, <3>1, <3>2, ResidueValue
  <2>4. SentCsw(s, t', "passed")
    BY <1>11, <2>1, <2>2, <2>3, CswSent DEF SameBut, Statuses
  <2>5. /\ t' \in Transport /\ t'.state = "SEND_CSW" /\ Off(t'.out) /\ Runs(t'.in)
        /\ t'.in.what = "csw" /\ t'.in.stalled /\ ~t'.persistent /\ ~t'.odd
        /\ t'.cbw = t.cbw /\ t'.rw_pending = t.rw_pending /\ t'.actual = t.actual
    <3>1. r.out = t.out /\ r.cbw = t.cbw /\ r.rw_pending = t.rw_pending
          /\ r.actual = t.actual /\ r.persistent = t.persistent /\ r.odd = t.odd
      BY <1>11
    <3>2. Off(t.out) /\ ~t.persistent /\ ~t.odd
      BY <1>6
    <3>3. QED
      BY <2>2, <2>4, <3>1, <3>2 DEF SentCsw, SameBut
  <2>11. t'.residue = len - n
    BY <2>3, <2>4 DEF SentCsw
  <2>6. IsShort(t)' \/ IsDone(t)'
    <3>1. CASE t.cbw.rw
      <4>1. t.cbw.want < t.cbw.len
        BY <1>5, <1>6, <1>11, <1>20, <3>1
      <4>2. QED
        BY <1>6, <2>5, <3>1, <4>1 DEF IsShort
    <3>2. CASE ~t.cbw.rw
      BY <1>6, <1>18, <2>5, <3>2
    <3>3. QED
      BY <3>1, <3>2
  <2>7. h.phase # "recover" => t'.residue = Left(t.cbw, h.got)
    BY <1>5, <1>6, <1>7, <1>8, <2>11 DEF Left
  <2>8. ~Only(events', "in")
    BY <1>3, Kinds
  <2>9. Owed' => t'.rw_pending = t.cbw.rw
    BY <1>6, <1>15, <1>16, <2>5
  <2>10. QED
    BY <1>7, <1>14, <1>15, <1>17, <2>5, <2>6, <2>7, <2>8, <2>9, EndStep
<1>21. CASE r.residue = 0 /\ r.case = 7
  <2> DEFINE s == Stall(r, "in")
  <2>1. t' = SendCSW(s, "phase")
    BY <1>12, <1>21 DEF CaseHandler
  <2>2. s \in Transport /\ SameBut(r, s) /\ s.out = r.out /\ s.in.stalled /\ ~s.in.active
    BY <1>11, <1>13, InStalled
  <2> HIDE DEF s
  <2>3. Residue(s) \in 0 .. Units
    BY <1>19, <2>2, ResidueValue DEF SameBut
  <2>4. SentCsw(s, t', "phase")
    BY <1>11, <2>1, <2>2, <2>3, CswSent DEF SameBut, Statuses
  <2>5. /\ t' \in Transport /\ t'.state = "ERROR" /\ Off(t'.out) /\ Runs(t'.in)
        /\ t'.in.what = "csw" /\ t'.in.stalled /\ ~t'.persistent /\ ~t'.odd
        /\ t'.cbw = t.cbw /\ t'.status # "passed"
        /\ t'.rw_pending = t.rw_pending /\ t'.actual = t.actual
    <3>1. /\ s.out = t.out /\ s.cbw = t.cbw /\ s.rw_pending = t.rw_pending
          /\ s.actual = t.actual /\ s.persistent = t.persistent /\ s.odd = t.odd
          /\ s.in.stalled
      BY <1>11, <2>2 DEF SameBut
    <3>2. Off(t.out) /\ ~t.persistent /\ ~t.odd
      BY <1>6
    <3>3. QED
      BY <2>4, <3>1, <3>2 DEF SentCsw, SameBut
  <2>6. Owed' => t'.rw_pending = t.cbw.rw
    BY <1>6, <1>15, <1>16, <2>5
  <2>7. QED
    BY <1>7, <1>14, <1>15, <1>17, <2>5, <2>6, EndStep
<1>22. ASSUME r.residue = 0, r.case # 7
       PROVE  h.phase # "data_in" /\ t.case = 0 /\ n = len
  BY <1>5, <1>6, <1>8, <1>11, <1>22
<1>23. CASE r.residue = 0 /\ r.case # 7 /\ r.sata
  <2>1. t' = SendCSW(r, "passed")
    BY <1>12, <1>23
  <2>2. Residue(r) \in 0 .. Units /\ Residue(r) = 0
    BY <1>11, <1>19, <1>22, <1>23, ResidueValue
  <2>3. SentCsw(r, t', "passed")
    BY <1>11, <1>13, <2>1, <2>2, CswSent DEF Statuses
  <2>4. /\ t' \in Transport /\ t'.state = "SEND_CSW" /\ Off(t'.out) /\ Runs(t'.in)
        /\ t'.in.what = "csw" /\ ~t'.persistent /\ ~t'.odd
        /\ t'.cbw = t.cbw /\ t'.residue = 0
        /\ t'.rw_pending = t.rw_pending /\ t'.actual = t.actual
    BY <1>6, <1>11, <2>2, <2>3 DEF SentCsw
  <2>5. IsDone(t)'
    BY <1>11, <1>18, <1>23, <2>4
  <2>6. h.phase # "recover" => t'.residue = Left(t.cbw, h.got)
    BY <1>5, <1>6, <1>7, <1>8, <1>22, <1>23, <2>4 DEF Left
  <2>7. Owed' => t'.rw_pending = t.cbw.rw /\ t'.actual # 0
    BY <1>6, <1>15, <1>16, <2>4
  <2>8. ~Only(events', "in")
    BY <1>3, Kinds
  <2>9. QED
    BY <1>7, <1>14, <1>15, <1>17, <1>22, <1>23, <2>4, <2>5, <2>6, <2>7, <2>8, EndStep
<1>24. CASE r.residue = 0 /\ r.case # 7 /\ ~r.sata
  <2>1. t' = [r EXCEPT !.usb = TRUE]
    BY <1>12, <1>24
  <2> DEFINE d == [r EXCEPT !.usb = TRUE]
  <2>2. /\ d \in Transport /\ d.usb = TRUE /\ d.in = r.in /\ d.out = r.out
        /\ d.state = r.state /\ d.case = r.case /\ d.actual = r.actual
        /\ d.residue = r.residue /\ d.sata = r.sata /\ d.cbw = r.cbw
        /\ d.rw_pending = r.rw_pending /\ d.persistent = r.persistent /\ d.odd = r.odd
    BY <1>11, UsbSet
  <2> HIDE DEF d
  <2>3. /\ t' \in Transport /\ t'.usb = TRUE /\ t'.in = r.in /\ t'.out = r.out
        /\ t'.state = r.state /\ t'.case = r.case /\ t'.actual = r.actual
        /\ t'.residue = r.residue /\ t'.sata = r.sata /\ t'.cbw = r.cbw
        /\ t'.rw_pending = r.rw_pending /\ t'.persistent = r.persistent /\ t'.odd = r.odd
    BY <2>1, <2>2 DEF d
  <2>4. /\ t'.state = "DATA_IN" /\ t'.case = 0 /\ t'.actual = len /\ t'.actual # 0
        /\ t'.residue = 0 /\ ~t'.sata /\ t'.cbw = t.cbw /\ t'.rw_pending = t.rw_pending
        /\ ~t'.persistent /\ ~t'.odd /\ ~t'.in.active /\ ~t'.in.hw /\ ~t'.in.stalled
        /\ Off(t'.out) /\ t.cbw.rw
    BY <1>5, <1>6, <1>11, <1>13, <1>22, <1>24, <2>3
  <2>5. t'.in.what = "none"
    <3>1. t'.in.what = t.in.what
      BY <1>9, <1>11, <2>3
    <3>2. QED
      BY <1>1, <1>4, <3>1 DEF Shape, Fin
  <2>6. InShape(t')
    <3>1. CaseOf(t'.cbw) = 0
      BY <1>1, <2>4 DEF InShape
    <3>2. t'.actual >= 1 /\ ~(t'.cbw.want < t'.cbw.len)
      BY <1>5, <1>6, <1>22, <1>24, <2>4
    <3>3. QED
      BY <1>5, <1>6, <2>3, <2>4, <3>1, <3>2 DEF InShape
  <2>7. Shape(t')
    BY <2>4, <2>5, <2>6 DEF Shape
  <2>8. Wire(t', events')
    BY <1>3, <2>4 DEF Wire, Fin
  <2>9. Hands(t', h', events')
    <3>1. h.phase = "status" => Asks(t', h', events')
      BY <1>5, <1>8, <1>17, <1>22, <1>24, <2>3, <2>4 DEF Asks, Fin
    <3>2. QED
      BY <1>7, <1>17, <1>22, <1>24, <2>4, <3>1 DEF Hands
  <2>10. h.csw # "passed"
    BY <1>1, <1>7 DEF DiskInv
  <2>11. DiskInv'
    BY <1>15, <1>16, <1>17, <2>4, <2>5, <2>10 DEF DiskInv
  <2>12. ResidueInv'
    BY <1>17, <2>5, <2>10 DEF ResidueInv
  <2>13. QED
    BY <1>14, <2>3, <2>7, <2>8, <2>9, <2>11, <2>12 DEF IInv
<1>25. QED
  BY <1>20, <1>21, <1>23, <1>24

-----------------------------------------------------------------------------
(* The SCSI layer answers.                                                 *)

(* What it may answer.                                                     *)
LEMMA Answers ==
  ASSUME NEW o \in Outcomes(t.cbw)
  PROVE  /\ o \in {"error", "pending", "ready", "ok", "ata_error"}
         /\ o = "pending"   => ready /\ ata = "none" /\ (t.cbw.rw => t.cbw.want > 0)
         /\ o = "ready"     => ~t.cbw.rw /\ t.cbw.intent = "in"
         /\ o = "ok"        => ~t.cbw.rw /\ t.cbw.intent # "in"
         /\ o = "ata_error" => ~t.cbw.rw /\ t.cbw.intent = "none"
  BY DEF Outcomes

(* Only a command that is pending has the disk at work; only one that      *)
(* tests the device has a fault without an answer.                         *)
LEMMA FirstHeard ==
  ASSUME IInv, Unasked, NEW o \in Outcomes(t.cbw) \cup {"none"}, AfterOutcome(o)
  PROVE  /\ ata' \in {"none", "mine", "old"} /\ ready' \in BOOLEAN /\ cb' = cb /\ AnswerInv'
         /\ done' \in {"none", "fault"}
         /\ o # "pending" => ~Owed' /\ ata' # "mine"
         /\ o \notin {"pending", "ata_error"} => Unasked' /\ done' = "none"
<1>1. Types /\ AnswerInv /\ cb' = cb /\ ata # "mine" /\ done = "none"
      /\ done' = (IF o = "ata_error" THEN "fault" ELSE done)
      /\ ata' = IF o = "pending" THEN "mine" ELSE ata
  BY DEF IInv, DiskInv, Unasked, AfterOutcome
<1>2. \A i \in DOMAIN cb : ~Answer(cb[i])
  BY <1>1 DEF AnswerInv, Answer
<1>3. ready' \in BOOLEAN
  <2>1. ready' \in IF o = "error" THEN {ready, FALSE} ELSE {ready}
    BY DEF AfterOutcome
  <2>2. ready \in BOOLEAN
    BY <1>1 DEF Types
  <2>3. QED
    BY <2>1, <2>2
<1>4. ata' \in {"none", "mine", "old"}
  BY <1>1 DEF Types
<1>5. AnswerInv'
  BY <1>1, <1>2 DEF AnswerInv
<1>6. ~Answered'
  BY <1>1, <1>2 DEF Answered
<1>7. QED
  BY <1>1, <1>3, <1>4, <1>5, <1>6 DEF Owed, Unasked

(* Data out have come: more are taken to be discarded, the command is      *)
(* issued, or it ends when there is nothing else to wait for.              *)
LEMMA DataOutEndStep ==
  ASSUME Taken, t.state = "DATA_OUT", t.out.active, Only(events, "out"),
         NEW o, NEW k,
         o \in IF IssuedWithData([t EXCEPT !.out.active = FALSE], Head(events).n)
               THEN Outcomes(t.cbw) ELSE {"none"},
         t' = OutCallback([t EXCEPT !.out.active = FALSE], Head(events).n, o, k),
         AfterOutcome(o)
  PROVE  IInv'
<1>1. Types /\ Shape(t) /\ Wire(t, events) /\ Hands(t, h, events) /\ OutShape(t) /\ DiskInv
      /\ IInv
  BY DEF Taken, IInv, Shape
<1>2. t \in Transport /\ events \in Seq(Events)
  BY <1>1 DEF Types
<1>3. events' = <<>> /\ Head(events) = events[1] /\ Head(events) \in Events
  BY <1>2, LastEvent DEF Taken
<1>4. Fin(t.out)
  BY <1>1, Kinds DEF Wire
<1>5. PICK n \in 0 .. Units, len \in 0 .. Units, res \in 0 .. Units :
        /\ n = Head(events).n /\ len = t.cbw.len /\ res = t.residue
        /\ n >= 1 /\ n <= res
  <2>1. Head(events).n \in 0 .. Units /\ t.cbw.len \in 0 .. Units /\ t.residue \in 0 .. Units
    BY <1>2, <1>3, Parts, CBWType DEF Events, Transport
  <2>2. Head(events).n >= 1 /\ Head(events).n <= t.residue
    BY <1>1, <1>3, <1>4 DEF Wire
  <2>3. QED
    BY <2>1, <2>2
<1>6. /\ Off(t.in) /\ ~t.in.stalled /\ ~t.persistent /\ ~t.odd /\ t.in.what = "none"
      /\ t.cbw.dir = "out" /\ len > 0 /\ ~t.usb /\ t.actual # 0 /\ t.actual >= 1
      /\ ~t.cbw.rw => ~t.sata
  BY <1>1, <1>2, <1>5 DEF Shape, OutShape, Transport, Off
<1>7. /\ t.case \in {0, 9, 11, 13}
      /\ t.case = 0  => t.cbw.intent = "out" /\ t.actual = len /\ (t.cbw.rw => t.cbw.want = len)
      /\ t.case = 9  => t.cbw.intent = "none" /\ ~t.cbw.rw
      /\ t.case = 11 => t.cbw.intent = "out" /\ t.cbw.rw /\ t.actual = t.cbw.want
                        /\ t.cbw.want < len
      /\ t.case = 13 => t.cbw.intent = "out" /\ t.cbw.rw
  BY <1>1, <1>2, <1>5 DEF OutShape, Transport
<1>8. t.cbw.want \in 0 .. Units /\ t.actual \in 0 .. Units
  BY <1>2, Parts, CBWType DEF Transport
<1>9. h.phase \in {"data_out", "status", "recover"}
  BY InHandWhileRunning DEF Taken
<1>10. h.phase = "data_out" => h.got = len - res + n
  BY <1>1, <1>3, <1>4, <1>5 DEF Hands, Sends
<1> DEFINE q == [t EXCEPT !.out.active = FALSE]
           r == [q EXCEPT !.residue = @ - n]
<1>11. /\ q \in Transport /\ SameBut(t, q) /\ q.in = t.in /\ ~q.out.active /\ ~q.out.hw
  BY <1>2, <1>4, OutFlag DEF Fin
<1>12. /\ o \in IF IssuedWithData(q, n) THEN Outcomes(t.cbw) ELSE {"none"}
       /\ t' = OutCallback(q, n, o, k)
  BY <1>5
<1> HIDE DEF q
<1>13. /\ r \in Transport /\ r.residue = res - n
       /\ r.in = t.in /\ r.out = q.out /\ r.state = "DATA_OUT" /\ r.case = t.case
       /\ r.actual = t.actual /\ r.usb = t.usb /\ r.sata = t.sata /\ r.cbw = t.cbw
       /\ r.rw_pending = t.rw_pending /\ r.persistent = t.persistent /\ r.odd = t.odd
  BY <1>5, <1>11, Counted DEF SameBut
<1>14. t' = IF r.residue # 0 THEN Rx(r, "discard", 1)
            ELSE IF r.case = 13 THEN CaseHandler(r, 13)
            ELSE IF r.case = 9 THEN SendCSW(r, "passed")
            ELSE PassWhenWritten(IF r.cbw.rw THEN r ELSE Issue(r, o, k))
  <2>1. q.state = "DATA_OUT"
    BY <1>11 DEF SameBut
  <2>2. QED
    BY <1>12, <2>1 DEF OutCallback
<1>15. IssuedWithData(q, n) <=> r.residue = 0 /\ t.case \notin {9, 13} /\ ~t.cbw.rw
  BY <1>5, <1>11, <1>13 DEF IssuedWithData, SameBut
<1> HIDE DEF r
<1>16. Off(r.in) /\ ~r.in.stalled /\ Off(r.out)
  BY <1>6, <1>11, <1>13 DEF Off
<1>17. r.case \in {5, 11} => r.actual <= r.cbw.len
  BY <1>5, <1>7, <1>8, <1>13
<1>18. ~t.cbw.rw => Unasked
  BY <1>1 DEF Taken, DiskInv
<1>19. h' = h /\ events' = <<>> /\ IInv /\ <<>> \in Seq(Events)
  BY <1>1, <1>3 DEF Taken
<1>20. h.csw # "passed"
  BY <1>1, <1>9 DEF DiskInv
<1>21. ASSUME o = "none"
       PROVE  /\ ata' = ata /\ cb' = cb /\ ready' = ready /\ done' = done
              /\ AnswerInv' /\ (Owed' <=> Owed) /\ (Unasked' <=> Unasked)
              /\ t' \in Transport => Types'
  <2>1. ata' = ata /\ cb' = cb /\ ready' = ready /\ done' = done
    BY <1>21 DEF AfterOutcome
  <2>2. AnswerInv' /\ (Owed' <=> Owed) /\ (Unasked' <=> Unasked)
    BY <1>1, <2>1, DiskKept DEF DiskInv
  <2>3. QED
    BY <1>1, <1>19, <2>1, <2>2 DEF Types
<1>22. Owed => t.rw_pending = t.cbw.rw
  BY <1>1 DEF DiskInv
<1>23. ~Only(events', "in")
  BY <1>3, Kinds
<1>24. o = "none" /\ ~t.cbw.rw /\ t'.cbw = t.cbw => IsDone(t)'
  BY <1>18, <1>19, <1>21 DEF IsDone, Unasked
<1>25. ASSUME t' \in Transport, t'.state = "DATA_OUT", t'.in = t.in, t'.out = r.out,
              t'.case = t.case, t'.actual = t.actual, t'.residue = 0, t'.usb = TRUE,
              ~t'.sata, t'.cbw = t.cbw, ~t'.persistent, ~t'.odd,
              r.residue = 0, t.case \in {0, 11}, Types', AnswerInv',
              Owed' => t'.rw_pending = t.cbw.rw
       PROVE  IInv'
  <2>1. t'.in.what = "none" /\ ~t'.in.hw /\ ~t'.in.active /\ Off(t'.in) /\ ~t'.in.stalled
        /\ Off(t'.out)
    BY <1>6, <1>16, <1>25 DEF Off
  <2>2. OutShape(t')
    BY <1>5, <1>6, <1>7, <1>25, <2>1 DEF OutShape, Off
  <2>3. Shape(t')
    BY <1>25, <2>1, <2>2 DEF Shape
  <2>4. Wire(t', events')
    BY <1>3, <1>25, <2>1 DEF Wire, Fin, Off
  <2>5. Hands(t', h', events')
    <3>1. h.phase = "data_out" => h.got = len
      BY <1>5, <1>10, <1>13, <1>25
    <3>2. h.phase = "data_out" => Sends(t', h', events')
      BY <1>5, <1>6, <1>19, <1>25, <2>1, <3>1 DEF Sends, Fin, Off
    <3>3. Asks(t', h', events')
      BY <1>25 DEF Asks
    <3>4. QED
      BY <1>9, <1>19, <1>25, <3>2, <3>3 DEF Hands
  <2>6. DiskInv'
    BY <1>6, <1>19, <1>20, <1>25, <2>1 DEF DiskInv, Off
  <2>7. ResidueInv'
    BY <1>19, <1>20, <2>1 DEF ResidueInv
  <2>8. QED
    BY <1>25, <2>3, <2>4, <2>5, <2>6, <2>7 DEF IInv
<1>26. CASE r.residue # 0
  <2>1. t' = Rx(r, "discard", 1) /\ o = "none"
    BY <1>12, <1>14, <1>15, <1>26
  <2>2. 1 \in 1 .. Units /\ "discard" \in Whats
    BY UnitsType DEF Whats
  <2>3. /\ t' \in Transport /\ SameBut(r, t') /\ t'.in = r.in
        /\ Runs(t'.out) /\ t'.out.what = "discard" /\ t'.out.n = 1
    BY <1>13, <1>16, <2>1, <2>2, Received DEF Off
  <2>4. /\ t'.state = "DATA_OUT" /\ t'.case = t.case /\ t'.actual = t.actual
        /\ t'.usb = t.usb /\ t'.sata = t.sata /\ t'.cbw = t.cbw
        /\ t'.rw_pending = t.rw_pending /\ t'.persistent = t.persistent /\ t'.odd = t.odd
        /\ t'.in = t.in
    BY <1>13, <2>3 DEF SameBut
  <2>5. t'.residue = res - n /\ res - n >= 1
    BY <1>5, <1>13, <1>26, <2>3 DEF SameBut
  <2>6. OutShape(t')
    BY <1>1, <1>6, <2>3, <2>4, <2>5 DEF OutShape, Runs
  <2>7. Shape(t')
    BY <1>1, <2>4, <2>6 DEF Shape
  <2>8. Wire(t', events')
    BY <1>3, <2>3, <2>4 DEF Wire, Fin, Runs
  <2>9. Hands(t', h', events')
    <3>1. h.phase = "data_out" => Sends(t', h', events')
      BY <1>5, <1>6, <1>10, <1>19, <2>3, <2>4, <2>5 DEF Sends, Fin, Runs
    <3>2. Asks(t', h', events')
      BY <2>4 DEF Asks
    <3>3. QED
      BY <1>9, <1>19, <2>4, <3>1, <3>2 DEF Hands
  <2>10. ata' = ata /\ cb' = cb /\ ready' = ready /\ done' = done /\ Types' /\ AnswerInv'
         /\ (Owed' <=> Owed) /\ (Unasked' <=> Unasked)
    BY <1>21, <2>1, <2>3
  <2>11. DiskInv'
    <3>1. ~t.cbw.rw => Unasked'
      BY <1>18, <2>10
    <3>2. t.sata => IsDone(t)'
      BY <1>1, <1>19, <2>4, <2>10 DEF DiskInv, IsDone
    <3>3. QED
      BY <1>6, <1>19, <1>20, <1>22, <2>4, <2>10, <3>1, <3>2 DEF DiskInv
  <2>12. ResidueInv'
    BY <1>6, <1>19, <1>20, <2>4 DEF ResidueInv
  <2>13. QED
    BY <2>7, <2>8, <2>9, <2>10, <2>11, <2>12 DEF IInv
<1>27. CASE r.residue = 0 /\ r.case = 13
  <2> DEFINE s == Stall(r, "out")
  <2>1. t' = SendCSW(s, "phase") /\ o = "none"
    BY <1>12, <1>13, <1>14, <1>15, <1>27 DEF CaseHandler
  <2>2. s \in Transport /\ SameBut(r, s) /\ s.in = r.in /\ Off(s.out)
    BY <1>13, <1>16, OutStalled DEF Off
  <2> HIDE DEF s
  <2>3. Residue(s) \in 0 .. Units
    BY <1>17, <2>2, ResidueValue DEF SameBut
  <2>4. SentCsw(s, t', "phase")
    BY <1>13, <1>16, <2>1, <2>2, <2>3, CswSent DEF SameBut, Statuses, Off
  <2>5. /\ t' \in Transport /\ t'.state = "ERROR" /\ Off(t'.out) /\ Runs(t'.in)
        /\ t'.in.what = "csw" /\ ~t'.persistent /\ ~t'.odd
        /\ t'.cbw = t.cbw /\ t'.status # "passed"
        /\ t'.rw_pending = t.rw_pending /\ t'.actual = t.actual
    BY <1>6, <1>13, <2>2, <2>4 DEF SentCsw, SameBut
  <2>6. Types' /\ AnswerInv' /\ (Owed' => t'.rw_pending = t.cbw.rw)
    BY <1>21, <1>22, <2>1, <2>5
  <2>7. QED
    BY <1>9, <1>19, <1>23, <2>5, <2>6, EndStep
<1>31. /\ Residue(r) \in 0 .. Units
       /\ r.residue = 0 /\ r.case = 11 => Residue(r) = len - t.cbw.want
       /\ r.case = 9 => Residue(r) = len
       /\ r.residue = 0 /\ r.case = 0 => Residue(r) = 0
  BY <1>5, <1>7, <1>13, <1>17, ResidueValue
<1>32. SentCsw(r, SendCSW(r, "passed"), "passed")
  BY <1>13, <1>16, <1>31, CswSent DEF Statuses, Off
<1>28. ASSUME r.residue = 0, r.case # 13, SentCsw(r, t', "passed"),
              Types', AnswerInv', Owed' => t'.rw_pending = t.cbw.rw,
              t'.cbw = t.cbw => IsDone(t)'
       PROVE  IInv'
  <2>1. /\ r.case = 11 => Residue(r) = len - t.cbw.want
        /\ r.case = 9 => Residue(r) = len
        /\ r.case = 0 => Residue(r) = 0
    BY <1>28, <1>31
  <2>3. /\ t' \in Transport /\ t'.state = "SEND_CSW" /\ Off(t'.out) /\ Runs(t'.in)
        /\ t'.in.what = "csw" /\ ~t'.persistent /\ ~t'.odd
        /\ t'.cbw = t.cbw /\ t'.rw_pending = t.rw_pending /\ t'.actual = t.actual
        /\ t'.residue = Residue(r)
    BY <1>6, <1>13, <1>16, <1>28 DEF SentCsw
  <2>4. t'.residue = Left(t.cbw, h.got)
    <3>1. CASE t.case = 0
      BY <1>5, <1>6, <1>7, <1>8, <1>13, <2>1, <2>3, <3>1 DEF Left
    <3>2. CASE t.case = 9
      BY <1>5, <1>6, <1>7, <1>13, <2>1, <2>3, <3>2 DEF Left
    <3>3. CASE t.case = 11
      BY <1>5, <1>6, <1>7, <1>8, <1>13, <2>1, <2>3, <3>3 DEF Left
    <3>4. QED
      BY <1>7, <1>13, <1>28, <3>1, <3>2, <3>3
  <2>5. QED
    BY <1>6, <1>9, <1>19, <1>23, <1>28, <2>3, <2>4, EndStep
<1>29. CASE r.residue = 0 /\ r.case = 9
  <2>1. t' = SendCSW(r, "passed") /\ o = "none"
    BY <1>12, <1>13, <1>14, <1>15, <1>29
  <2>2. t' \in Transport
    BY <1>32, <2>1 DEF SentCsw
  <2>3. ~t.cbw.rw
    BY <1>7, <1>13, <1>29
  <2>4. QED
    BY <1>21, <1>22, <1>24, <1>29, <1>32, <2>1, <2>2, <2>3, <1>28, <1>13 DEF SentCsw
<1> DEFINE Rest == r.residue = 0 /\ r.case # 13 /\ r.case # 9
<1>33. Rest => t.case \in {0, 11}
  BY <1>7, <1>13
<1>34. CASE Rest /\ t.cbw.rw /\ t.sata
  <2>1. t' = SendCSW(r, "passed") /\ o = "none"
    BY <1>12, <1>13, <1>14, <1>15, <1>34 DEF PassWhenWritten
  <2>2. t' \in Transport /\ t'.rw_pending = t.rw_pending
    BY <1>13, <1>32, <2>1 DEF SentCsw
  <2>3. Types' /\ AnswerInv' /\ (Owed' => t'.rw_pending = t.cbw.rw)
    BY <1>21, <1>22, <2>1, <2>2
  <2>4. t'.cbw = t.cbw => IsDone(t)'
    BY <1>1, <1>19, <1>21, <1>34, <2>1 DEF DiskInv, IsDone
  <2>5. QED
    BY <1>28, <1>32, <1>34, <2>1, <2>3, <2>4
<1>35. CASE Rest /\ t.cbw.rw /\ ~t.sata
  <2> DEFINE d == [r EXCEPT !.usb = TRUE]
  <2>1. t' = d /\ o = "none"
    BY <1>12, <1>13, <1>14, <1>15, <1>35 DEF PassWhenWritten
  <2>2. /\ d \in Transport /\ d.usb = TRUE /\ d.in = r.in /\ d.out = r.out
        /\ d.state = r.state /\ d.case = r.case /\ d.actual = r.actual
        /\ d.residue = r.residue /\ d.sata = r.sata /\ d.cbw = r.cbw
        /\ d.rw_pending = r.rw_pending /\ d.persistent = r.persistent /\ d.odd = r.odd
    BY <1>13, UsbSet
  <2> HIDE DEF d
  <2>3. Types' /\ AnswerInv' /\ (Owed' => t'.rw_pending = t.cbw.rw)
    BY <1>13, <1>21, <1>22, <2>1, <2>2
  <2>4. /\ t' \in Transport /\ t'.state = "DATA_OUT" /\ t'.in = t.in /\ t'.out = r.out
        /\ t'.case = t.case /\ t'.actual = t.actual /\ t'.usb = TRUE
        /\ ~t'.sata /\ t'.cbw = t.cbw /\ ~t'.persistent /\ ~t'.odd
    BY <1>6, <1>13, <1>35, <2>1, <2>2
  <2>5. t'.residue = 0
    BY <1>35, <2>1, <2>2
  <2>6. QED
    BY <1>25, <1>33, <1>35, <2>3, <2>4, <2>5
<1>36. CASE Rest /\ ~t.cbw.rw
  <2>1. o \in Outcomes(t.cbw)
    BY <1>12, <1>13, <1>15, <1>36
  <2>2. t.case = 0 /\ t.cbw.intent = "out"
    BY <1>7, <1>33, <1>36
  <2>3. o \in {"error", "pending", "ok"}
    BY <2>1, <2>2, Answers
  <2>4. /\ ata' \in {"none", "mine", "old"} /\ ready' \in BOOLEAN /\ cb' = cb /\ AnswerInv'
        /\ done' \in {"none", "fault"}
        /\ o # "pending" => ~Owed' /\ Unasked' /\ ata' # "mine" /\ done' = "none"
    BY <1>18, <1>19, <1>36, <2>1, <2>3, FirstHeard
  <2>5. t' \in Transport => Types'
    BY <1>1, <1>19, <2>4 DEF Types
  <2> DEFINE x == Issue(r, o, k)
  <2>6. t' = PassWhenWritten(x)
    BY <1>13, <1>14, <1>36
  <2>7. ~r.sata
    BY <1>6, <1>13, <1>36
  <2>8. CASE o = "pending"
    <3> DEFINE y == [r EXCEPT !.rw_pending = r.cbw.rw]
               d == [y EXCEPT !.usb = TRUE]
    <3>1. x = y
      BY <2>8 DEF Issue
    <3>2. /\ y \in Transport /\ y.rw_pending = r.cbw.rw /\ y.in = r.in /\ y.out = r.out
          /\ y.state = r.state /\ y.case = r.case /\ y.actual = r.actual
          /\ y.residue = r.residue /\ y.usb = r.usb /\ y.sata = r.sata /\ y.cbw = r.cbw
          /\ y.persistent = r.persistent /\ y.odd = r.odd
      BY <1>13, PendingSet
    <3> HIDE DEF x, y
    <3>3. t' = d
      BY <2>6, <2>7, <3>1, <3>2 DEF PassWhenWritten
    <3>4. /\ d \in Transport /\ d.usb = TRUE /\ d.in = y.in /\ d.out = y.out
          /\ d.state = y.state /\ d.case = y.case /\ d.actual = y.actual
          /\ d.residue = y.residue /\ d.sata = y.sata /\ d.cbw = y.cbw
          /\ d.rw_pending = y.rw_pending /\ d.persistent = y.persistent /\ d.odd = y.odd
      BY <3>2, UsbSet
    <3> HIDE DEF d
    <3>5. /\ t' \in Transport /\ t'.state = "DATA_OUT" /\ t'.in = t.in /\ t'.out = r.out
          /\ t'.case = t.case /\ t'.actual = t.actual /\ t'.usb = TRUE
          /\ ~t'.sata /\ t'.cbw = t.cbw /\ ~t'.persistent /\ ~t'.odd
          /\ t'.rw_pending = t.cbw.rw
      BY <1>6, <1>13, <2>7, <3>2, <3>3, <3>4
    <3>6. t'.residue = 0
      BY <1>36, <3>2, <3>3, <3>4
    <3>7. QED
      BY <1>25, <1>33, <1>36, <2>4, <2>5, <3>5, <3>6
  <2>9. CASE o = "ok"
    <3> DEFINE c == SendCSW(r, "passed")
    <3>1. x = c
      BY <2>9 DEF Issue
    <3>2. c.sata = r.sata
      BY <1>13 DEF SendCSW, Transport
    <3>3. t' = [c EXCEPT !.usb = TRUE]
      BY <2>6, <2>7, <3>1, <3>2 DEF PassWhenWritten
    <3>4. c \in Transport
      BY <1>32 DEF SentCsw
    <3>5. SentCsw(r, t', "passed")
      BY <1>13, <1>32, <3>3, <3>4, UsbKeepsCsw DEF Statuses
    <3>6. t' \in Transport
      BY <3>5 DEF SentCsw
    <3>7. t'.cbw = t.cbw => IsDone(t)'
      BY <1>36, <2>4, <2>9 DEF IsDone
    <3>8. QED
      BY <1>28, <1>36, <2>4, <2>5, <2>9, <3>5, <3>6, <3>7
  <2>10. CASE o = "error"
    <3> DEFINE c == SendCSW(Cleanup(r, TRUE), "failed")
    <3>1. x = c
      BY <2>10 DEF Issue
    <3>2. FailedCsw(r, c)
      BY <1>13, <1>16, <1>17, Failed DEF Off
    <3>3. c \in Transport
      BY <3>2 DEF FailedCsw
    <3>4. t' = c \/ t' = [c EXCEPT !.usb = TRUE] \/ t' = SendCSW(c, "passed")
      BY <2>6, <3>1 DEF PassWhenWritten
    <3>5. SendCSW(c, "passed") = c
      BY <3>2 DEF FailedCsw, SendCSW
    <3>6. FailedCsw(r, t')
      BY <1>13, <3>2, <3>3, <3>4, <3>5, UsbKeepsCsw DEF Statuses
    <3> HIDE DEF c
    <3>7. /\ t' \in Transport /\ t'.state = "SEND_CSW" /\ Off(t'.out) /\ Runs(t'.in)
          /\ t'.in.what = "csw" /\ ~t'.persistent /\ ~t'.odd
          /\ t'.cbw = t.cbw /\ t'.status # "passed"
      BY <1>6, <1>13, <3>6 DEF FailedCsw
    <3>8. QED
      BY <1>9, <1>19, <1>23, <2>4, <2>5, <2>10, <3>7, EndStep
  <2>11. QED
    BY <2>3, <2>8, <2>9, <2>10
<1>37. QED
  BY <1>26, <1>27, <1>29, <1>34, <1>35, <1>36

-----------------------------------------------------------------------------
(* A CBW.                                                                  *)

(* The CBW case where the host's expectation and the command agree, and    *)
(* what they do not agree on where they do not.                            *)
LEMMA CaseKinds ==
  ASSUME NEW c \in CBWs
  PROVE  /\ CaseOf(c) \in {0, 2, 3, 4, 8, 9, 10}
         /\ CaseOf(c) = 0 => /\ c.intent = "in"  => c.dir = "in" /\ c.len > 0
                             /\ c.intent = "out" => c.dir = "out" /\ c.len > 0
                             /\ c.intent = "none" => c.len = 0
         /\ CaseOf(c) \in {2, 3} => c.len = 0
         /\ CaseOf(c) \in {4, 8} => c.dir = "in" /\ c.len > 0
         /\ CaseOf(c) = 9 => c.dir = "out" /\ c.len > 0 /\ c.intent = "none"
         /\ CaseOf(c) = 10 => c.dir = "out" /\ c.len > 0
<1>1. c.dir \in {"in", "out"} /\ c.intent \in {"in", "out", "none"} /\ c.len \in Nat
  BY CBWType, UnitsType
<1>2. CASE c.len = 0
  <2>1. CaseOf(c) = IF c.intent = "in" THEN 2 ELSE IF c.intent = "out" THEN 3 ELSE 0
    BY <1>2 DEF CaseOf
  <2>2. QED
    BY <1>1, <1>2, <2>1
<1>3. CASE c.len > 0 /\ c.dir = "in"
  <2>1. CaseOf(c) = IF c.intent = "out" THEN 8 ELSE IF c.intent = "none" THEN 4 ELSE 0
    BY <1>3 DEF CaseOf
  <2>2. QED
    BY <1>1, <1>3, <2>1
<1>4. CASE c.len > 0 /\ c.dir = "out"
  <2>1. CaseOf(c) = IF c.intent = "in" THEN 10 ELSE IF c.intent = "none" THEN 9 ELSE 0
    BY <1>4 DEF CaseOf
  <2>2. QED
    BY <1>1, <1>4, <2>1
<1>5. QED
  BY <1>1, <1>2, <1>3, <1>4

(* The event of a CBW is handled.                                          *)
Arrived ==
  /\ Taken /\ t.state = "IDLE" /\ t.out.active /\ Only(events, "out")

(* Both sides are ready for the command then.                              *)
LEMMA ArrivedFacts ==
  ASSUME Arrived
  PROVE  /\ IInv /\ t \in Transport /\ Fin(t.out) /\ Off(t.in) /\ ~t.in.stalled
         /\ t.in.what = "none" /\ ~t.persistent /\ ~t.odd /\ t.case = 0 /\ ~t.usb /\ ~t.sata
         /\ ~t.check /\ Unasked /\ h' = h /\ events' = <<>>
         /\ events' \in Seq(Events)
         /\ h.phase \in {"data_in", "data_out", "status", "recover"} /\ h.csw # "passed"
         /\ h.phase = "data_in" => t.cbw.dir = "in" /\ t.cbw.len > 0
         /\ h.phase = "data_out" => t.cbw.dir = "out" /\ t.cbw.len > 0
         /\ h.phase = "status" => t.cbw.len = 0
         /\ h.phase # "recover" => h.got = 0
         /\ ~t.valid => h.phase \in {"status", "recover"}
<1>1. /\ IInv /\ Types /\ Shape(t) /\ Wire(t, events) /\ Hands(t, h, events) /\ DiskInv
      /\ IdleShape(t)
  BY DEF Arrived, Taken, IInv, Shape
<1>2. t \in Transport /\ events \in Seq(Events) /\ h \in Host
  BY <1>1 DEF Types
<1>3. events' = <<>>
  BY <1>2, LastEvent DEF Arrived, Taken
<1>4. Fin(t.out)
  BY <1>1, Kinds DEF Arrived, Wire
<1>5. /\ Off(t.in) /\ ~t.in.stalled /\ t.in.what = "none" /\ ~t.persistent /\ ~t.odd
      /\ t.case = 0 /\ ~t.usb /\ ~t.sata /\ ~t.check
  BY <1>1, <1>4 DEF Shape, IdleShape, Off, Fin
<1>6. Unasked
  BY <1>1, <1>4 DEF DiskInv, Arrived
<1>7. h.phase \in {"idle", "data_in", "data_out", "status", "retry", "recover", "clear"}
  BY <1>2 DEF Host
<1>8. h.phase \notin {"idle", "clear"}
  BY <1>1, <1>4 DEF Arrived, Hands, Runs, Fin
<1>9. h.phase # "retry"
  BY <1>1 DEF Arrived, Taken, Hands, AsksAgain
<1>10. h.csw # "passed"
  BY <1>1, <1>8 DEF DiskInv
<1>11. /\ h.phase = "data_in" => t.cbw.dir = "in" /\ t.cbw.len > 0 /\ h.got = 0
       /\ h.phase = "data_out" => t.cbw.dir = "out" /\ t.cbw.len > 0 /\ h.got = 0
       /\ h.phase = "status" => t.cbw.len = 0 /\ h.got = 0
       /\ ~t.valid => h.phase \in {"status", "recover"}
  BY <1>1, <1>4 DEF Arrived, Hands, Reads, Sends, Asks
<1>12. h' = h
  BY DEF Arrived, Taken
<1>13. events' \in Seq(Events)
  BY <1>3
<1>14. QED
  BY <1>1, <1>2, <1>3, <1>4, <1>5, <1>6, <1>7, <1>8, <1>9, <1>10, <1>11, <1>12, <1>13

(* One that is not valid halts both endpoints until the reset.             *)
LEMMA InvalidCbwStep ==
  ASSUME Arrived, ~t.valid,
         t' = [Stall(Stall([t EXCEPT !.out.active = FALSE], "in"), "out")
                 EXCEPT !.persistent = TRUE],
         ata' = ata, cb' = cb, ready' = ready, done' = done
  PROVE  IInv'
<1> DEFINE q == [t EXCEPT !.out.active = FALSE]
           a == Stall(q, "in")
           b == Stall(a, "out")
           d == [b EXCEPT !.persistent = TRUE]
<1>1. /\ q \in Transport /\ SameBut(t, q) /\ q.in = t.in /\ ~q.out.active /\ ~q.out.hw
  BY ArrivedFacts, OutFlag DEF Fin
<1>2. t' = d
  OBVIOUS
<1> HIDE DEF q
<1>3. a \in Transport /\ SameBut(q, a) /\ a.out = q.out /\ ~a.in.active
      /\ a.in.hw = q.in.hw /\ a.in.what = q.in.what
  BY <1>1, ArrivedFacts, InStalled DEF Off
<1> HIDE DEF a
<1>4. b \in Transport /\ SameBut(a, b) /\ b.in = a.in /\ ~b.out.active /\ b.out.hw = a.out.hw
  BY <1>1, <1>3, OutStalled
<1> HIDE DEF b
<1>5. /\ d \in Transport /\ d.persistent = TRUE /\ d.in = b.in /\ d.out = b.out
      /\ d.state = b.state /\ d.case = b.case /\ d.usb = b.usb /\ d.sata = b.sata
      /\ d.check = b.check /\ d.odd = b.odd
  BY <1>4 DEF Transport
<1> HIDE DEF d
<1>6. /\ t' \in Transport /\ t'.persistent /\ Off(t'.in) /\ Off(t'.out)
      /\ t'.in.what = "none" /\ t'.state = "IDLE" /\ t'.case = 0 /\ ~t'.usb /\ ~t'.sata
      /\ ~t'.check /\ ~t'.odd
  <2>1. Off(d.in) /\ Off(d.out) /\ d.in.what = "none"
    <3>1. ~t.in.hw /\ t.in.what = "none"
      BY ArrivedFacts DEF Off
    <3>2. ~d.in.active /\ ~d.in.hw /\ d.in.what = "none"
      BY <1>1, <1>3, <1>4, <1>5, <3>1
    <3>3. ~d.out.active /\ ~d.out.hw
      BY <1>1, <1>3, <1>4, <1>5
    <3>4. QED
      BY <3>2, <3>3 DEF Off
  <2>2. /\ d.state = t.state /\ d.case = t.case /\ d.usb = t.usb /\ d.sata = t.sata
        /\ d.check = t.check /\ d.odd = t.odd
    BY <1>1, <1>3, <1>4, <1>5 DEF SameBut
  <2>3. QED
    BY <1>2, <1>5, <2>1, <2>2, ArrivedFacts DEF Arrived
<1>7. Types /\ DiskInv
  BY ArrivedFacts DEF IInv
<1>8. Types'
  BY <1>6, <1>7, ArrivedFacts DEF Types
<1>9. Shape(t')
  BY <1>6 DEF Shape, IdleShape, Off, Fin
<1>10. Wire(t', events')
  BY <1>6, ArrivedFacts DEF Wire, Off, Fin
<1>11. Hands(t', h', events')
  <2>1. h.phase \in {"status", "recover"}
    BY ArrivedFacts
  <2>2. Asks(t', h', events')
    BY <1>6 DEF Asks, Off, Fin
  <2>3. QED
    BY <1>6, <2>1, <2>2, ArrivedFacts DEF Hands, Off, Runs, Fin
<1>12. AnswerInv' /\ ~Owed'
  BY <1>7, ArrivedFacts, DiskKept, UnaskedIsFree DEF DiskInv
<1>13. DiskInv'
  BY <1>6, <1>12, ArrivedFacts DEF DiskInv, Off, Fin
<1>14. ResidueInv'
  BY <1>6, ArrivedFacts DEF ResidueInv
<1>15. QED
  BY <1>8, <1>9, <1>10, <1>11, <1>13, <1>14 DEF IInv

(* A command that has been looked at and is neither running nor ended.     *)
Begun(s) ==
  /\ s \in Transport /\ s.cbw = t.cbw /\ s.residue = t.cbw.len
  /\ Off(s.in) /\ Off(s.out) /\ ~s.in.stalled /\ s.in.what = "none"
  /\ ~s.persistent /\ ~s.odd /\ ~s.usb
  /\ s.state = CASE t.cbw.intent = "in"   -> "DATA_IN"
                 [] t.cbw.intent = "out"  -> "DATA_OUT"
                 [] t.cbw.intent = "none" -> "CSW_PENDING"

(* A command begins to run.                                                *)
LEMMA BeginStep ==
  ASSUME Arrived, Types', AnswerInv', Shape(t'),
         t'.state \in {"DATA_IN", "DATA_OUT", "CSW_PENDING"},
         t'.cbw = t.cbw, t'.residue = t.cbw.len, ~t'.usb,
         ~Fin(t'.in), ~Fin(t'.out), t'.in.what # "csw",
         Owed' => /\ t'.rw_pending = t.cbw.rw
                  /\ t'.actual = 0 => t'.state = "CSW_PENDING"
                  /\ t'.state = "DATA_IN" /\ ~t.cbw.rw => ~t'.in.active,
         t'.state = "DATA_OUT" /\ ~t.cbw.rw /\ t'.out.active => Unasked',
         t'.sata => IsDone(t)'
  PROVE  IInv'
<1>1. /\ h' = h /\ events' = <<>> /\ h.csw # "passed"
      /\ h.phase \in {"data_in", "data_out", "status", "recover"}
  BY ArrivedFacts
<1>2. Wire(t', events')
  BY <1>1 DEF Wire
<1>3. Hands(t', h', events')
  <2>1. h.phase = "data_in" => Reads(t', h', events')
    BY <1>1, ArrivedFacts DEF Reads
  <2>2. h.phase = "data_out" => Sends(t', h', events')
    <3>1. t.cbw.len \in 0 .. Units
      BY ArrivedFacts, Parts, CBWType
    <3>2. h.phase = "data_out" => h.got = t'.cbw.len - t'.residue
      BY <3>1, ArrivedFacts, UnitsType
    <3>3. QED
      BY <1>1, <3>2, ArrivedFacts DEF Sends
  <2>3. h.phase = "status" => Asks(t', h', events')
    <3>1. t'.state = "DATA_IN" => t.cbw.len > 0
      BY DEF Shape, InShape
    <3>2. h.phase = "status" => t.cbw.len = 0
      BY ArrivedFacts
    <3>3. ~(t.cbw.len > 0 /\ t.cbw.len = 0)
      OBVIOUS
    <3>4. QED
      BY <3>1, <3>2, <3>3 DEF Asks
  <2>4. QED
    BY <1>1, <2>1, <2>2, <2>3 DEF Hands
<1>4. DiskInv'
  BY <1>1 DEF DiskInv
<1>5. ResidueInv'
  BY <1>1 DEF ResidueInv
<1>6. QED
  BY <1>2, <1>3, <1>4, <1>5 DEF IInv

(* One that fails before it runs.                                          *)
LEMMA RefusedStep ==
  ASSUME Arrived, NEW s, Begun(s), CaseOf(t.cbw) = 0, FailedCsw(s, t'),
         Types', AnswerInv', ~Owed'
  PROVE  IInv'
<1>1. /\ t' \in Transport /\ t'.state = "SEND_CSW" /\ Off(t'.out) /\ Runs(t'.in)
      /\ t'.in.what = "csw" /\ ~t'.persistent /\ ~t'.odd
      /\ t'.cbw = t.cbw /\ t'.status # "passed"
  BY DEF Begun, FailedCsw
<1>2. h.phase = "data_in" => t'.in.stalled
  <2>1. /\ t.cbw.intent \in {"in", "out", "none"} /\ t.cbw.len \in Nat
        /\ t.cbw.intent = "out" => t.cbw.dir = "out"
        /\ t.cbw.intent = "none" => t.cbw.len = 0
    BY ArrivedFacts, Parts, CBWType, CaseKinds, UnitsType
  <2>2. h.phase = "data_in" => t.cbw.intent = "in"
    BY <2>1, ArrivedFacts
  <2>3. QED
    BY <2>2 DEF Begun, FailedCsw
<1>3. events' = <<>> /\ ~Only(events', "in")
  BY ArrivedFacts, Kinds
<1>4. QED
  BY <1>1, <1>2, <1>3, ArrivedFacts, EndStep

(* One that is answered before it runs.                                    *)
LEMMA EndedAtOnce ==
  ASSUME Arrived, NEW s \in Transport, s.cbw = t.cbw, Off(s.out), ~s.persistent, ~s.odd,
         NEW status \in Statuses, SentCsw(s, t', status),
         h.phase = "data_in" => s.in.stalled,
         Types', AnswerInv', ~Owed',
         status = "passed" => IsShort(t)' \/ IsDone(t)',
         status = "passed" /\ t.cbw.len > 0 => t'.residue = Left(t.cbw, 0)
  PROVE  IInv'
<1>1. /\ t' \in Transport /\ t'.state \in {"SEND_CSW", "ERROR"} /\ Off(t'.out) /\ Runs(t'.in)
      /\ t'.in.what = "csw" /\ t'.in.stalled = s.in.stalled /\ ~t'.persistent /\ ~t'.odd
      /\ t'.cbw = t.cbw /\ (t'.status = "passed" => status = "passed")
  BY DEF SentCsw
<1>2. events' = <<>> /\ ~Only(events', "in")
  BY ArrivedFacts, Kinds
<1>3. QED
  BY <1>1, <1>2, ArrivedFacts, EndStep

(* What the SCSI layer's answer leaves.                                    *)
LEMMA ArrivedHeard ==
  ASSUME Arrived, NEW o \in Outcomes(t.cbw) \cup {"none"}, AfterOutcome(o)
  PROVE  /\ AnswerInv' /\ (t' \in Transport => Types')
         /\ o # "pending" => ~Owed' /\ ata' # "mine"
         /\ o \notin {"pending", "ata_error"} => Unasked' /\ done' = "none"
<1>1. /\ ata' \in {"none", "mine", "old"} /\ ready' \in BOOLEAN /\ cb' = cb /\ AnswerInv'
      /\ done' \in {"none", "fault"}
      /\ o # "pending" => ~Owed' /\ ata' # "mine"
      /\ o \notin {"pending", "ata_error"} => Unasked' /\ done' = "none"
  BY ArrivedFacts, FirstHeard
<1>2. Types
  BY ArrivedFacts DEF IInv
<1>3. t' \in Transport => Types'
  BY <1>1, <1>2, ArrivedFacts DEF Types
<1>4. QED
  BY <1>1, <1>3

(* A command that is not a read or a write is done when nothing is owed.   *)
LEMMA UnaskedIsDone ==
  ASSUME ata' # "mine", done' = "none", t'.cbw = t.cbw, ~t.cbw.rw
  PROVE  IsDone(t)'
  BY DEF IsDone

(* The command is looked at.                                               *)
LEMMA Opened ==
  ASSUME Arrived
  PROVE  LET q == [t EXCEPT !.out.active = FALSE]
             d == DetermineState([q EXCEPT !.residue = q.cbw.len])
             v == [d EXCEPT !.actual = d.cbw.len]
         IN  /\ Begun(d) /\ d.case = 0 /\ ~d.sata /\ ~d.check
             /\ Begun(v) /\ v.case = 0 /\ ~v.sata /\ v.actual = t.cbw.len
<1> DEFINE q == [t EXCEPT !.out.active = FALSE]
           p == [q EXCEPT !.residue = q.cbw.len]
           d == DetermineState(p)
           v == [d EXCEPT !.actual = d.cbw.len]
           st == CASE t.cbw.intent = "in"   -> "DATA_IN"
                   [] t.cbw.intent = "out"  -> "DATA_OUT"
                   [] t.cbw.intent = "none" -> "CSW_PENDING"
<1>1. /\ q \in Transport /\ SameBut(t, q) /\ q.in = t.in /\ ~q.out.active /\ ~q.out.hw
  BY ArrivedFacts, OutFlag DEF Fin
<1> HIDE DEF q
<1>2. /\ t.cbw.len \in 0 .. Units /\ t.cbw.intent \in {"in", "out", "none"}
      /\ q.cbw = t.cbw
  BY <1>1, ArrivedFacts, Parts, CBWType DEF SameBut
<1>3. p \in Transport
  BY <1>1, <1>2 DEF Transport
<1>4. /\ p.residue = t.cbw.len /\ p.in = q.in /\ p.out = q.out /\ p.case = q.case
      /\ p.usb = q.usb /\ p.sata = q.sata /\ p.check = q.check /\ p.cbw = q.cbw
      /\ p.persistent = q.persistent /\ p.odd = q.odd
  BY <1>1, <1>2 DEF Transport
<1> HIDE DEF p
<1>5. st \in {"DATA_IN", "DATA_OUT", "CSW_PENDING"}
  BY <1>2
<1>6. d = [p EXCEPT !.state = st]
  BY <1>2, <1>4 DEF DetermineState
<1> HIDE DEF st, d
<1>7. d \in Transport
  BY <1>3, <1>5, <1>6 DEF Transport
<1>8. /\ d.state = st /\ d.residue = t.cbw.len /\ d.in = t.in /\ d.out = q.out
      /\ d.case = q.case /\ d.usb = q.usb /\ d.sata = q.sata /\ d.check = q.check
      /\ d.cbw = t.cbw /\ d.persistent = q.persistent /\ d.odd = q.odd
  BY <1>1, <1>2, <1>3, <1>4, <1>6 DEF Transport
<1>9. Off(q.out) /\ q.case = 0 /\ ~q.usb /\ ~q.sata /\ ~q.check /\ ~q.persistent /\ ~q.odd
  BY <1>1, ArrivedFacts DEF SameBut, Off
<1>10. Begun(d) /\ d.case = 0 /\ ~d.sata /\ ~d.check
  BY <1>7, <1>8, <1>9, ArrivedFacts DEF Begun, st
<1>11. v \in Transport
  BY <1>2, <1>7, <1>8 DEF Transport
<1>12. /\ v.state = d.state /\ v.residue = d.residue /\ v.in = d.in /\ v.out = d.out
       /\ v.case = d.case /\ v.usb = d.usb /\ v.sata = d.sata /\ v.cbw = d.cbw
       /\ v.persistent = d.persistent /\ v.odd = d.odd /\ v.actual = t.cbw.len
  BY <1>7, <1>8 DEF Transport
<1> HIDE DEF v
<1>13. Begun(v) /\ v.case = 0 /\ ~v.sata /\ v.actual = t.cbw.len
  BY <1>10, <1>11, <1>12 DEF Begun
<1>14. QED
  BY <1>10, <1>13 DEF d, v, p, q

(* A refusal before the command runs.                                      *)
LEMMA BegunFails ==
  ASSUME Arrived, NEW s, Begun(s), s.case \in {5, 11} => s.actual <= t.cbw.len
  PROVE  FailedCsw(s, SendCSW(Cleanup(s, TRUE), "failed"))
<1>1. t.cbw.intent \in {"in", "out", "none"}
  BY ArrivedFacts, Parts, CBWType
<1>2. s.state \in {"DATA_IN", "DATA_OUT", "CSW_PENDING"}
  BY <1>1 DEF Begun
<1>3. QED
  BY <1>2, Failed DEF Begun, Off

(* Data in are stalled and the command has passed, without data.           *)
LEMMA PassedShort ==
  ASSUME Arrived, NEW s, Begun(s), s.case \in {0, 5}, s.case = 5 => s.actual = 0,
         t.cbw.dir = "in", t' = SendCSW(Stall(s, "in"), "passed"),
         AnswerInv', t' \in Transport => Types', ~Owed', ata' # "mine", done' = "none",
         IsShort(t) \/ ~t.cbw.rw
  PROVE  IInv'
<1> DEFINE c == Stall(s, "in")
<1>1. /\ c \in Transport /\ SameBut(s, c) /\ c.out = s.out /\ c.in.stalled /\ ~c.in.active
  BY InStalled DEF Begun, Off
<1> HIDE DEF c
<1>2. /\ c.cbw = t.cbw /\ c.residue = t.cbw.len /\ Off(c.out) /\ ~c.persistent /\ ~c.odd
      /\ c.case \in {0, 5} /\ (c.case = 5 => c.actual = 0)
  BY <1>1 DEF Begun, SameBut
<1>3. c.state \notin {"SEND_CSW", "ERROR"}
  <2>1. t.cbw.intent \in {"in", "out", "none"}
    BY ArrivedFacts, Parts, CBWType
  <2>2. QED
    BY <1>1, <2>1 DEF Begun, SameBut
<1>4. t.cbw.len \in 0 .. Units
  BY ArrivedFacts, Parts, CBWType
<1>5. Residue(c) \in 0 .. Units /\ Residue(c) = t.cbw.len
  <2>1. c.case \in {5, 11} => c.actual <= c.cbw.len
    BY <1>2, <1>4, UnitsType
  <2>2. QED
    BY <1>1, <1>2, <1>4, <2>1, UnitsType, ResidueValue
<1>6. SentCsw(c, t', "passed")
  BY <1>1, <1>3, <1>5, CswSent DEF c, Statuses
<1>7. t' \in Transport /\ t'.cbw = t.cbw /\ t'.residue = t.cbw.len
  BY <1>2, <1>5, <1>6 DEF SentCsw
<1>8. IsShort(t)' \/ IsDone(t)'
  BY <1>7, UnaskedIsDone DEF IsShort
<1>9. t'.residue = Left(t.cbw, 0)
  BY <1>4, <1>7, UnitsType DEF Left
<1>10. "passed" \in Statuses
  BY DEF Statuses
<1>11. QED
  BY <1>1, <1>2, <1>6, <1>7, <1>8, <1>9, <1>10, EndedAtOnce

(* The expectation and the command do not agree.                           *)
LEMMA MismatchStep ==
  ASSUME Arrived, NEW s, Begun(s), s.case = 0, ~s.sata, CaseOf(t.cbw) # 0,
         t' = CaseHandler(s, CaseOf(t.cbw)), AfterOutcome("none")
  PROVE  IInv'
<1>1. /\ AnswerInv' /\ (t' \in Transport => Types')
      /\ ~Owed' /\ Unasked' /\ ata' # "mine" /\ done' = "none"
  BY ArrivedHeard
<1>2. t.cbw \in CBWs /\ t.cbw.intent \in {"in", "out", "none"} /\ ~t.cbw.rw
      /\ t.cbw.len \in 0 .. Units /\ s \in Transport
  BY ArrivedFacts, Parts, CBWType DEF Begun
<1>3. s.state \notin {"SEND_CSW", "ERROR"}
  BY <1>2 DEF Begun
<1>4. Residue(s) \in 0 .. Units
  BY <1>2, ResidueValue DEF Begun
<1>5. "phase" \in Statuses
  BY DEF Statuses
<1>6. CASE CaseOf(t.cbw) \in {2, 3, 8}
  <2> DEFINE c == Stall(s, "in")
  <2>1. t' = SendCSW(c, "phase")
    BY <1>6 DEF CaseHandler
  <2>2. /\ c \in Transport /\ SameBut(s, c) /\ c.out = s.out /\ c.in.stalled /\ ~c.in.active
    BY InStalled DEF Begun, Off
  <2> HIDE DEF c
  <2>3. Residue(c) \in 0 .. Units /\ c.state \notin {"SEND_CSW", "ERROR"}
    BY <1>3, <1>4, <2>2 DEF SameBut, Residue
  <2>4. SentCsw(c, t', "phase")
    BY <1>5, <2>1, <2>2, <2>3, CswSent
  <2>5. c.cbw = t.cbw /\ Off(c.out) /\ ~c.persistent /\ ~c.odd /\ t' \in Transport
    BY <2>2, <2>4 DEF Begun, SameBut, SentCsw
  <2>6. QED
    BY <1>1, <1>5, <2>2, <2>4, <2>5, EndedAtOnce
<1>7. CASE CaseOf(t.cbw) = 10
  <2> DEFINE c == Stall(s, "out")
  <2>1. t' = SendCSW(c, "phase")
    BY <1>7 DEF CaseHandler
  <2>2. /\ c \in Transport /\ SameBut(s, c) /\ c.in = s.in /\ ~c.out.active
        /\ c.out.hw = s.out.hw
    BY OutStalled DEF Begun, Off
  <2> HIDE DEF c
  <2>3. Residue(c) \in 0 .. Units /\ c.state \notin {"SEND_CSW", "ERROR"} /\ ~c.in.active
    BY <1>3, <1>4, <2>2 DEF SameBut, Residue, Begun, Off
  <2>4. SentCsw(c, t', "phase")
    BY <1>5, <2>1, <2>2, <2>3, CswSent
  <2>5. c.cbw = t.cbw /\ Off(c.out) /\ ~c.persistent /\ ~c.odd /\ t' \in Transport
    BY <2>2, <2>4 DEF Begun, SameBut, SentCsw, Off
  <2>6. h.phase # "data_in"
    BY <1>2, <1>7, CaseKinds, ArrivedFacts
  <2>7. QED
    BY <1>1, <1>5, <2>2, <2>4, <2>5, <2>6, EndedAtOnce
<1>8. CASE CaseOf(t.cbw) = 4
  <2>1. t' = SendCSW(Stall(s, "in"), "passed")
    BY <1>8 DEF CaseHandler
  <2>2. t.cbw.dir = "in"
    BY <1>2, <1>8, CaseKinds
  <2>3. QED
    BY <1>1, <1>2, <2>1, <2>2, PassedShort
<1>9. CASE CaseOf(t.cbw) = 9
  <2> DEFINE c == [s EXCEPT !.case = 9, !.state = "DATA_OUT", !.actual = s.cbw.len]
  <2>1. t' = Rx(c, "discard", 1)
    BY <1>9 DEF CaseHandler
  <2>2. c \in Transport
    BY <1>2, ZenonT(60) DEF Begun, Transport
  <2>3. /\ c.state = "DATA_OUT" /\ c.case = 9 /\ c.actual = t.cbw.len
        /\ c.residue = t.cbw.len /\ ~c.usb /\ ~c.sata /\ c.cbw = t.cbw
        /\ ~c.persistent /\ ~c.odd /\ Off(c.in) /\ Off(c.out) /\ ~c.in.stalled
        /\ c.in.what = "none"
    BY <1>2 DEF Begun, Transport
  <2> HIDE DEF c
  <2>4. 1 \in 1 .. Units /\ "discard" \in Whats
    BY UnitsType DEF Whats
  <2>5. /\ t' \in Transport /\ SameBut(c, t') /\ t'.in = c.in
        /\ Runs(t'.out) /\ t'.out.what = "discard" /\ t'.out.n = 1
    BY <2>1, <2>2, <2>3, <2>4, Received DEF Off
  <2>6. /\ t'.state = "DATA_OUT" /\ t'.case = 9 /\ t'.actual = t.cbw.len
        /\ t'.residue = t.cbw.len /\ ~t'.usb /\ ~t'.sata /\ t'.cbw = t.cbw
        /\ ~t'.persistent /\ ~t'.odd /\ Off(t'.in) /\ ~t'.in.stalled /\ t'.in.what = "none"
    BY <2>3, <2>5 DEF SameBut
  <2>7. t.cbw.dir = "out" /\ t.cbw.intent = "none" /\ t.cbw.len > 0 /\ t.cbw.len >= 1
    BY <1>2, <1>9, CaseKinds, UnitsType
  <2>8. OutShape(t')
    BY <1>2, <2>5, <2>6, <2>7 DEF OutShape, Runs
  <2>9. Shape(t')
    BY <2>6, <2>8 DEF Shape, Off
  <2>10. ~Fin(t'.in) /\ ~Fin(t'.out)
    BY <2>5, <2>6 DEF Fin, Off, Runs
  <2>11. QED
    BY <1>1, <2>5, <2>6, <2>9, <2>10, BeginStep
<1>10. QED
  BY <1>2, <1>6, <1>7, <1>8, <1>9, CaseKinds

(* The length of a command that has begun, and the case it may make.       *)
LEMMA LengthSet ==
  ASSUME NEW s, Begun(s), s.case = 0, NEW n \in 0 .. Units
  PROVE  LET r == SetLength(s, n) IN
         /\ Begun(r) /\ r.sata = s.sata
         /\ IF n <= t.cbw.len THEN r.case = 0 /\ r.actual = n
            ELSE /\ r.case = IF t.cbw.intent = "out" THEN 13 ELSE 7
                 /\ r.actual = t.cbw.len
<1> DEFINE r == SetLength(s, n)
<1>1. /\ s \in Transport /\ s.cbw = t.cbw /\ t.cbw.len \in 0 .. Units
      /\ t.cbw.intent \in {"in", "out", "none"}
  BY Parts, CBWType DEF Begun
<1>2. CASE n <= t.cbw.len
  <2>1. r = [s EXCEPT !.actual = n]
    BY <1>1, <1>2 DEF SetLength
  <2> HIDE DEF r
  <2>2. r \in Transport
    BY <1>1, <2>1 DEF Transport
  <2>3. /\ r.state = s.state /\ r.residue = s.residue /\ r.in = s.in /\ r.out = s.out
        /\ r.case = s.case /\ r.usb = s.usb /\ r.sata = s.sata /\ r.cbw = s.cbw
        /\ r.persistent = s.persistent /\ r.odd = s.odd /\ r.actual = n
    BY <1>1, <2>1 DEF Transport
  <2>4. Begun(r)
    BY <2>2, <2>3 DEF Begun
  <2>5. QED
    BY <1>2, <2>3, <2>4 DEF r
<1>3. CASE ~(n <= t.cbw.len)
  <2> DEFINE c == IF s.state = "DATA_OUT" THEN 13 ELSE 7
  <2>1. r = [s EXCEPT !.case = c, !.actual = s.cbw.len]
    BY <1>1, <1>3 DEF SetLength
  <2>2. c \in {7, 13} /\ c = IF t.cbw.intent = "out" THEN 13 ELSE 7
    BY <1>1 DEF Begun
  <2> HIDE DEF r, c
  <2>3. r \in Transport
    <3>1. c \in {0, 5, 7, 9, 11, 13}
      BY <2>2
    <3>2. s.cbw.len \in 0 .. Units
      BY <1>1
    <3>3. QED
      BY <1>1, <2>1, <3>1, <3>2, ZenonT(60) DEF Transport
  <2>4. /\ r.state = s.state /\ r.residue = s.residue /\ r.in = s.in /\ r.out = s.out
        /\ r.case = c /\ r.usb = s.usb /\ r.sata = s.sata /\ r.cbw = s.cbw
        /\ r.persistent = s.persistent /\ r.odd = s.odd /\ r.actual = t.cbw.len
    BY <1>1, <2>1 DEF Transport
  <2>5. Begun(r)
    BY <2>3, <2>4 DEF Begun
  <2>6. QED
    BY <1>3, <2>2, <2>4, <2>5 DEF r
<1>4. QED
  BY <1>2, <1>3

(* Another case for a command that has begun.                              *)
LEMMA CaseSet ==
  ASSUME NEW s, Begun(s), NEW c \in {5, 11}
  PROVE  LET r == [s EXCEPT !.case = c] IN
         Begun(r) /\ r.sata = s.sata /\ r.case = c /\ r.actual = s.actual
<1> DEFINE r == [s EXCEPT !.case = c]
<1>1. s \in Transport
  BY DEF Begun
<1>2. r \in Transport
  BY <1>1 DEF Transport
<1>3. /\ r.state = s.state /\ r.residue = s.residue /\ r.in = s.in /\ r.out = s.out
      /\ r.case = c /\ r.usb = s.usb /\ r.sata = s.sata /\ r.cbw = s.cbw
      /\ r.persistent = s.persistent /\ r.odd = s.odd /\ r.actual = s.actual
  BY <1>1 DEF Transport
<1> HIDE DEF r
<1>4. Begun(r)
  BY <1>2, <1>3 DEF Begun
<1>5. QED
  BY <1>3, <1>4 DEF r

(* Data in that are shorter than the host expects.                         *)
LEMMA ShortMarked ==
  ASSUME NEW s, Begun(s), t.cbw.intent = "in"
  PROVE  LET r == MarkShort(s) IN
         /\ Begun(r) /\ r.sata = s.sata /\ r.actual = s.actual
         /\ r.case = IF s.actual < t.cbw.len THEN 5 ELSE s.case
<1>1. s.state = "DATA_IN" /\ s.cbw = t.cbw
  BY DEF Begun
<1>2. MarkShort(s) = IF s.actual < t.cbw.len THEN [s EXCEPT !.case = 5] ELSE s
  BY <1>1 DEF MarkShort
<1>3. CASE s.actual < t.cbw.len
  BY <1>2, <1>3, CaseSet
<1>4. CASE ~(s.actual < t.cbw.len)
  BY <1>2, <1>4
<1>5. QED
  BY <1>3, <1>4

(* The disk has the command; nothing else about it changes.                *)
LEMMA BegunPending ==
  ASSUME NEW s, Begun(s)
  PROVE  LET r == [s EXCEPT !.rw_pending = s.cbw.rw] IN
         /\ Begun(r) /\ r.sata = s.sata /\ r.actual = s.actual /\ r.case = s.case
         /\ r.rw_pending = t.cbw.rw
<1> DEFINE r == [s EXCEPT !.rw_pending = s.cbw.rw]
<1>1. s \in Transport /\ s.cbw = t.cbw
  BY DEF Begun
<1>2. /\ r \in Transport /\ r.rw_pending = s.cbw.rw /\ r.in = s.in /\ r.out = s.out
      /\ r.state = s.state /\ r.case = s.case /\ r.actual = s.actual
      /\ r.residue = s.residue /\ r.usb = s.usb /\ r.sata = s.sata /\ r.cbw = s.cbw
      /\ r.persistent = s.persistent /\ r.odd = s.odd
  BY <1>1, PendingSet
<1> HIDE DEF r
<1>3. Begun(r)
  BY <1>2 DEF Begun
<1>4. QED
  BY <1>1, <1>2, <1>3 DEF r

(* Its data are in the buffer.                                             *)
LEMMA BegunReady ==
  ASSUME NEW s, Begun(s)
  PROVE  LET r == [s EXCEPT !.sata = TRUE] IN
         Begun(r) /\ r.sata = TRUE /\ r.actual = s.actual /\ r.case = s.case
<1> DEFINE r == [s EXCEPT !.sata = TRUE]
<1>1. s \in Transport
  BY DEF Begun
<1>2. /\ r \in Transport /\ r.sata = TRUE /\ r.in = s.in /\ r.out = s.out
      /\ r.state = s.state /\ r.case = s.case /\ r.actual = s.actual
      /\ r.residue = s.residue /\ r.usb = s.usb /\ r.cbw = s.cbw
      /\ r.persistent = s.persistent /\ r.odd = s.odd
  BY <1>1, SataSet
<1> HIDE DEF r
<1>3. Begun(r)
  BY <1>2 DEF Begun
<1>4. QED
  BY <1>2, <1>3 DEF r

(* Data in are offered: the command runs.                                  *)
LEMMA OfferStep ==
  ASSUME Arrived, NEW s, Begun(s), CaseOf(t.cbw) = 0, t.cbw.intent = "in",
         s.actual \in 1 .. Units, s.case \in {0, 5, 7},
         IF s.case = 5 THEN s.actual < t.cbw.len ELSE s.actual = t.cbw.len,
         t.cbw.rw => (s.case = 5 <=> t.cbw.want < t.cbw.len),
         ~t.cbw.rw => s.sata,
         NEW what \in {"data", "window"}, t' = Tx(s, what, s.actual),
         AnswerInv', t' \in Transport => Types',
         Owed' => t.cbw.rw /\ s.rw_pending = t.cbw.rw, s.sata /\ t'.cbw = t.cbw => IsDone(t)'
  PROVE  IInv'
<1>1. what \in Whats /\ s \in Transport /\ ~s.in.active
  BY DEF Whats, Begun, Off
<1>2. /\ t' \in Transport /\ SameBut(s, t') /\ t'.out = s.out
      /\ Runs(t'.in) /\ t'.in.what = what /\ t'.in.n = s.actual
      /\ t'.in.stalled = s.in.stalled
  BY <1>1, Transmitted
<1>3. /\ t'.state = "DATA_IN" /\ t'.cbw = t.cbw /\ t'.residue = t.cbw.len /\ ~t'.usb
      /\ ~t'.persistent /\ ~t'.odd /\ Off(t'.out) /\ ~t'.in.stalled
      /\ t'.sata = s.sata /\ t'.case = s.case /\ t'.actual = s.actual
      /\ t'.rw_pending = s.rw_pending
  BY <1>2 DEF Begun, SameBut
<1>4. t.cbw.dir = "in" /\ t.cbw.len > 0 /\ t.cbw \in CBWs /\ t.cbw.len \in 0 .. Units
  BY ArrivedFacts, Parts, CBWType, CaseKinds
<1>5. s.actual >= 1 /\ s.actual <= t.cbw.len /\ s.actual # 0
  BY <1>4, UnitsType
<1>6. InShape(t')
  BY <1>2, <1>3, <1>4, <1>5 DEF InShape, Runs
<1>7. Shape(t')
  BY <1>2, <1>3, <1>6 DEF Shape, Runs
<1>8. ~Fin(t'.in) /\ ~Fin(t'.out) /\ t'.in.what # "csw"
  BY <1>2, <1>3 DEF Fin, Off, Runs
<1>9. QED
  BY <1>2, <1>3, <1>5, <1>7, <1>8, BeginStep

(* Data out are asked for: the command runs.                               *)
LEMMA AskStep ==
  ASSUME Arrived, NEW s, Begun(s), CaseOf(t.cbw) = 0, t.cbw.intent = "out",
         s.actual \in 1 .. Units, s.actual <= t.cbw.len, s.case \in {0, 11, 13}, ~s.sata,
         s.case = 0 => s.actual = t.cbw.len /\ (t.cbw.rw => t.cbw.want = t.cbw.len),
         s.case = 11 => t.cbw.rw /\ s.actual = t.cbw.want /\ t.cbw.want < t.cbw.len,
         s.case = 13 => t.cbw.rw,
         NEW what \in {"data", "window"}, t' = Rx(s, what, s.actual),
         AnswerInv', t' \in Transport => Types',
         Owed' => s.rw_pending = t.cbw.rw, ~t.cbw.rw => Unasked'
  PROVE  IInv'
<1>1. what \in Whats /\ s \in Transport /\ ~s.out.active
  BY DEF Whats, Begun, Off
<1>2. /\ t' \in Transport /\ SameBut(s, t') /\ t'.in = s.in
      /\ Runs(t'.out) /\ t'.out.what = what /\ t'.out.n = s.actual
  BY <1>1, Received
<1>3. /\ t'.state = "DATA_OUT" /\ t'.cbw = t.cbw /\ t'.residue = t.cbw.len /\ ~t'.usb
      /\ ~t'.persistent /\ ~t'.odd /\ Off(t'.in) /\ ~t'.in.stalled /\ t'.in.what = "none"
      /\ ~t'.sata /\ t'.case = s.case /\ t'.actual = s.actual
      /\ t'.rw_pending = s.rw_pending
  BY <1>2 DEF Begun, SameBut
<1>4. t.cbw.dir = "out" /\ t.cbw.len > 0 /\ t.cbw \in CBWs /\ t.cbw.len \in 0 .. Units
  BY ArrivedFacts, Parts, CBWType, CaseKinds
<1>5. s.actual >= 1 /\ s.actual # 0 /\ t.cbw.len >= 1
  BY <1>4, UnitsType
<1>6. OutShape(t')
  BY <1>2, <1>3, <1>4, <1>5 DEF OutShape, Runs
<1>7. Shape(t')
  BY <1>3, <1>6 DEF Shape, Off
<1>8. ~Fin(t'.in) /\ ~Fin(t'.out) /\ t'.in.what # "csw"
  BY <1>2, <1>3 DEF Fin, Off, Runs
<1>9. QED
  BY <1>2, <1>3, <1>5, <1>7, <1>8, BeginStep

(* A command that is not a read or a write.                                *)
LEMMA OtherStep ==
  ASSUME Arrived, NEW s, Begun(s), s.case = 0, ~s.sata, s.actual = t.cbw.len,
         CaseOf(t.cbw) = 0, ~t.cbw.rw, NEW k \in 0 .. Units,
         NEW o \in IF IssuedAtOnce(t.cbw) THEN Outcomes(t.cbw) ELSE {"none"},
         AfterOutcome(o), t' = ProcessOther(s, o, k)
  PROVE  IInv'
<1> DEFINE c == [s EXCEPT !.check = s.cbw.check]
<1>1. /\ t.cbw \in CBWs /\ t.cbw.intent \in {"in", "out", "none"} /\ t.cbw.check \in BOOLEAN
      /\ t.cbw.len \in 0 .. Units /\ s \in Transport /\ s.cbw = t.cbw
      /\ t.cbw.intent = "in" => t.cbw.len > 0 /\ t.cbw.dir = "in"
      /\ t.cbw.intent = "out" => t.cbw.len > 0
      /\ t.cbw.intent = "none" => t.cbw.len = 0
  BY ArrivedFacts, Parts, CBWType, CaseKinds DEF Begun
<1>2. /\ c \in Transport /\ c.state = s.state /\ c.residue = s.residue /\ c.in = s.in
      /\ c.out = s.out /\ c.case = s.case /\ c.usb = s.usb /\ c.sata = s.sata
      /\ c.cbw = s.cbw /\ c.persistent = s.persistent /\ c.odd = s.odd
      /\ c.actual = s.actual
  BY <1>1 DEF Transport
<1>3. t' = IF s.state = "DATA_OUT" THEN Rx(c, "data", c.actual) ELSE Issue(c, o, k)
  BY DEF ProcessOther
<1> HIDE DEF c
<1>4. Begun(c) /\ c.case = 0 /\ ~c.sata /\ c.actual = t.cbw.len
  BY <1>2 DEF Begun
<1>5. o \in Outcomes(t.cbw) \cup {"none"}
  OBVIOUS
<1>6. /\ AnswerInv' /\ (t' \in Transport => Types')
      /\ o # "pending" => ~Owed' /\ ata' # "mine"
      /\ o \notin {"pending", "ata_error"} => Unasked' /\ done' = "none"
  BY <1>5, ArrivedHeard
<1>7. o \notin {"pending", "ata_error"} /\ t'.cbw = t.cbw => IsDone(t)'
  BY <1>6, UnaskedIsDone
<1>8. IssuedAtOnce(t.cbw) <=> t.cbw.intent # "out"
  BY DEF IssuedAtOnce
<1>9. CASE t.cbw.intent = "out"
  <2>1. t' = Rx(c, "data", c.actual)
    BY <1>3, <1>9 DEF Begun
  <2>2. o = "none"
    BY <1>8, <1>9
  <2>3. c.actual \in 1 .. Units /\ c.actual <= t.cbw.len /\ "data" \in {"data", "window"}
    BY <1>1, <1>4, <1>9, UnitsType
  <2>4. QED
    BY <1>4, <1>6, <1>9, <2>1, <2>2, <2>3, AskStep
<1>10. ASSUME t.cbw.intent # "out"
       PROVE  t' = Issue(c, o, k) /\ o \in Outcomes(t.cbw)
  <2>1. s.state # "DATA_OUT"
    BY <1>1, <1>10 DEF Begun
  <2>2. QED
    BY <1>3, <1>8, <1>10, <2>1
<1>11. ASSUME t.cbw.intent = "none", Begun(t'), ~t'.sata,
              t'.actual = 0,
              Owed' => t'.rw_pending = t.cbw.rw
       PROVE  IInv'
  <2>1. /\ t'.state = "CSW_PENDING" /\ Off(t'.in) /\ Off(t'.out) /\ ~t'.in.stalled
        /\ ~t'.persistent /\ ~t'.odd /\ ~t'.usb /\ t'.in.what = "none" /\ t'.cbw = t.cbw
        /\ t'.residue = t.cbw.len /\ t' \in Transport
    BY <1>11 DEF Begun
  <2>2. Shape(t')
    BY <1>1, <1>11, <2>1 DEF Shape, PendingShape
  <2>3. ~Fin(t'.in) /\ ~Fin(t'.out)
    BY <2>1 DEF Fin, Off
  <2>4. QED
    BY <1>6, <1>11, <2>1, <2>2, <2>3, BeginStep
<1>12. CASE t.cbw.intent # "out" /\ o = "pending"
  <2>1. t' = [c EXCEPT !.rw_pending = c.cbw.rw]
    BY <1>10, <1>12 DEF Issue
  <2>2. /\ Begun(t') /\ t'.sata = c.sata /\ t'.actual = c.actual /\ t'.case = c.case
        /\ t'.rw_pending = t.cbw.rw
    BY <1>4, <2>1, BegunPending
  <2>3. CASE t.cbw.intent = "none"
    BY <1>1, <1>4, <1>11, <2>2, <2>3
  <2>4. CASE t.cbw.intent = "in"
    <3>1. /\ t'.state = "DATA_IN" /\ Off(t'.in) /\ Off(t'.out) /\ ~t'.in.stalled
          /\ ~t'.persistent /\ ~t'.odd /\ ~t'.usb /\ t'.in.what = "none" /\ t'.cbw = t.cbw
          /\ t'.residue = t.cbw.len /\ t' \in Transport /\ t'.case = 0 /\ ~t'.sata
          /\ t'.actual = t.cbw.len
      BY <1>4, <2>2, <2>4 DEF Begun
    <3>2. t.cbw.len >= 1 /\ t.cbw.len > 0 /\ t.cbw.dir = "in" /\ t.cbw.len # 0
      BY <1>1, <2>4, UnitsType
    <3>3. InShape(t')
      BY <2>4, <3>1, <3>2 DEF InShape, Off
    <3>4. Shape(t')
      BY <3>1, <3>3 DEF Shape
    <3>5. ~Fin(t'.in) /\ ~Fin(t'.out) /\ ~t'.in.active
      BY <3>1 DEF Fin, Off
    <3>6. QED
      BY <1>6, <2>2, <3>1, <3>2, <3>4, <3>5, BeginStep
  <2>5. QED
    BY <1>1, <1>12, <2>3, <2>4
<1>13. CASE t.cbw.intent # "out" /\ o = "ready"
  <2> DEFINE l == SetLength(c, k)
             r == MarkShort(l)
             d == [r EXCEPT !.sata = TRUE]
  <2>1. t.cbw.intent = "in"
    BY <1>10, <1>13, Answers
  <2>2. t' = Tx(d, "data", r.actual)
    BY <1>10, <1>13 DEF Issue
  <2>3. /\ Begun(l)
        /\ IF k <= t.cbw.len THEN l.case = 0 /\ l.actual = k
           ELSE l.case = 7 /\ l.actual = t.cbw.len
    BY <1>4, <2>1, LengthSet
  <2> HIDE DEF l
  <2>4. Begun(r) /\ r.actual = l.actual /\ r.case = IF l.actual < t.cbw.len THEN 5 ELSE l.case
    BY <2>1, <2>3, ShortMarked
  <2> HIDE DEF r
  <2>5. Begun(d) /\ d.sata = TRUE /\ d.actual = r.actual /\ d.case = r.case
    BY <2>4, BegunReady
  <2> HIDE DEF d
  <2>6. /\ d.actual \in 0 .. Units /\ d.case \in {0, 5, 7}
        /\ IF d.case = 5 THEN d.actual < t.cbw.len ELSE d.actual = t.cbw.len
        /\ d.actual = 0 => d.case = 5
    BY <1>1, <2>1, <2>3, <2>4, <2>5, UnitsType
  <2>7. CASE d.actual = 0
    <3>1. t' = CaseHandler(d, 4)
      BY <2>2, <2>5, <2>7 DEF Tx
    <3>2. t' = SendCSW(Stall(d, "in"), "passed")
      BY <3>1 DEF CaseHandler
    <3>3. QED
      BY <1>1, <1>6, <1>13, <2>1, <2>5, <2>6, <2>7, <3>2, PassedShort
  <2>8. CASE d.actual # 0
    <3>1. t' = Tx(d, "data", d.actual) /\ d.actual \in 1 .. Units /\ "data" \in {"data", "window"}
      BY <2>2, <2>5, <2>6, <2>8, UnitsType
    <3>2. QED
      BY <1>6, <1>7, <1>13, <2>1, <2>5, <2>6, <3>1, OfferStep
  <2>9. QED
    BY <2>7, <2>8
<1>14. CASE t.cbw.intent # "out" /\ o = "ok"
  <2>1. t' = SendCSW(c, "passed")
    BY <1>10, <1>14 DEF Issue
  <2>2. t.cbw.intent = "none"
    BY <1>1, <1>10, <1>14, Answers
  <2>3. c \in Transport /\ c.cbw = t.cbw /\ ~c.in.active /\ Off(c.out) /\ ~c.persistent /\ ~c.odd
        /\ c.state = "CSW_PENDING" /\ "passed" \in Statuses
    BY <1>4, <2>2 DEF Begun, Off, Statuses
  <2>4. Residue(c) \in 0 .. Units
    BY <1>4, <2>3, ResidueValue
  <2>5. SentCsw(c, t', "passed")
    BY <2>1, <2>3, <2>4, CswSent
  <2>6. t' \in Transport /\ t'.cbw = t.cbw
    BY <2>3, <2>5 DEF SentCsw
  <2>7. h.phase # "data_in" /\ ~(t.cbw.len > 0)
    BY <1>1, <2>2, ArrivedFacts
  <2>8. QED
    BY <1>6, <1>7, <1>14, <2>3, <2>5, <2>6, <2>7, EndedAtOnce
<1>15. CASE t.cbw.intent # "out" /\ o = "error"
  <2>1. t' = SendCSW(Cleanup(c, TRUE), "failed")
    BY <1>10, <1>15 DEF Issue
  <2>5. c.case \notin {5, 11}
    BY <1>4
  <2>2. FailedCsw(c, t')
    BY <1>4, <2>1, <2>5, BegunFails
  <2>3. t' \in Transport
    BY <2>2 DEF FailedCsw
  <2>4. QED
    BY <1>4, <1>6, <1>15, <2>2, <2>3, RefusedStep
<1>16. CASE t.cbw.intent # "out" /\ o = "ata_error"
  <2>1. t' = Cleanup(c, TRUE)
    BY <1>10, <1>16 DEF Issue
  <2>2. t.cbw.intent = "none"
    BY <1>10, <1>16, Answers
  <2>3. c \in Transport /\ CleanedUp(c, t', TRUE)
    BY <1>2, <2>1, Cleaned
  <2>4. t' \in Transport /\ SameBut(c, t') /\ Off(t'.out) /\ Off(t'.in) /\ t'.in.what = "none"
        /\ ~t'.in.stalled
    BY <1>4, <2>2, <2>3 DEF CleanedUp, Begun, Off
  <2>5. Begun(t') /\ ~t'.sata /\ t'.actual = t.cbw.len
    BY <1>4, <2>4 DEF Begun, SameBut
  <2>6. QED
    BY <1>1, <1>6, <1>11, <1>16, <2>2, <2>5
<1>17. QED
  BY <1>9, <1>10, <1>12, <1>13, <1>14, <1>15, <1>16, Answers

(* A write.                                                                *)
LEMMA WriteStep ==
  ASSUME Arrived, NEW s, Begun(s), s.case = 0, ~s.sata,
         CaseOf(t.cbw) = 0, t.cbw.rw, t.cbw.intent = "out",
         NEW o \in IF IssuedAtOnce(t.cbw) THEN Outcomes(t.cbw) ELSE {"none"},
         AfterOutcome(o), t' = ProcessWrite(s, o)
  PROVE  IInv'
<1> DEFINE n == SetLength(s, t.cbw.want)
           c == IF t.cbw.want = 0 THEN CaseHandler(n, 9)
                ELSE IF n.actual < t.cbw.len THEN CaseHandler(n, 11) ELSE n
           i == Issue(c, o, 0)
<1>1. /\ t.cbw \in CBWs /\ t.cbw.len \in 1 .. Units /\ t.cbw.want \in 0 .. Units
      /\ s \in Transport /\ s.cbw = t.cbw /\ t.cbw.dir = "out"
  BY ArrivedFacts, Parts, CBWType, CaseKinds, UnitsType DEF Begun
<1>2. o \in Outcomes(t.cbw)
  BY DEF IssuedAtOnce
<1>3. o \in {"pending", "error"} /\ (o = "pending" => t.cbw.want > 0)
  BY <1>2, Answers
<1>4. /\ Begun(n) /\ n.sata = s.sata
      /\ IF t.cbw.want <= t.cbw.len THEN n.case = 0 /\ n.actual = t.cbw.want
         ELSE n.case = 13 /\ n.actual = t.cbw.len
  BY <1>1, LengthSet
<1>5. n.cbw = t.cbw
  BY <1>4 DEF Begun
<1>6. t' = IF o = "pending" THEN Rx(i, "window", i.actual) ELSE Stall(i, "out")
  BY <1>1, <1>5 DEF ProcessWrite
<1> HIDE DEF n
<1>7. /\ AnswerInv' /\ (t' \in Transport => Types')
      /\ o # "pending" => ~Owed' /\ Unasked' /\ ata' # "mine" /\ done' = "none"
  BY <1>2, <1>3, ArrivedHeard
<1>8. ASSUME t.cbw.want # 0
      PROVE  /\ Begun(c) /\ ~c.sata /\ c.actual \in 1 .. Units /\ c.actual <= t.cbw.len
             /\ c.case \in {0, 11, 13}
             /\ c.case = 0 => c.actual = t.cbw.len /\ t.cbw.want = t.cbw.len
             /\ c.case = 11 => c.actual = t.cbw.want /\ t.cbw.want < t.cbw.len
  <2>1. c = IF n.actual < t.cbw.len THEN [n EXCEPT !.case = 11] ELSE n
    BY <1>8 DEF CaseHandler
  <2> HIDE DEF c
  <2>2. CASE n.actual < t.cbw.len
    <3>1. Begun(c) /\ c.sata = n.sata /\ c.case = 11 /\ c.actual = n.actual
      BY <1>4, <2>1, <2>2, CaseSet
    <3>2. n.actual = t.cbw.want /\ t.cbw.want < t.cbw.len /\ t.cbw.want \in 1 .. Units
      BY <1>1, <1>4, <1>8, <2>2, UnitsType
    <3>3. QED
      BY <1>1, <1>4, <3>1, <3>2, UnitsType
  <2>3. CASE ~(n.actual < t.cbw.len)
    <3>1. c = n
      BY <2>1, <2>3
    <3>2. QED
      BY <1>1, <1>4, <1>8, <2>3, <3>1, UnitsType
  <2>4. QED
    BY <2>2, <2>3
<1>9. ASSUME t.cbw.want = 0
      PROVE  /\ c \in Transport /\ c.state = "DATA_OUT" /\ c.case = 9 /\ c.out.active
             /\ c.cbw = t.cbw /\ ~c.persistent /\ ~c.odd
  <2> DEFINE e == [n EXCEPT !.case = 9, !.state = "DATA_OUT", !.actual = n.cbw.len]
  <2>1. c = Rx(e, "discard", 1)
    BY <1>9 DEF CaseHandler
  <2>2. e \in Transport /\ e.state = "DATA_OUT" /\ e.case = 9 /\ e.cbw = t.cbw /\ ~e.out.active
        /\ ~e.persistent /\ ~e.odd
    <3>1. n \in Transport /\ n.cbw.len \in 0 .. Units /\ ~n.out.active /\ ~n.persistent /\ ~n.odd
      BY <1>4, <1>5, <1>1, UnitsType DEF Begun, Off
    <3>2. QED
      BY <1>5, <3>1 DEF Transport
  <2> HIDE DEF e, c
  <2>3. 1 \in 1 .. Units /\ "discard" \in Whats
    BY UnitsType DEF Whats
  <2>4. c \in Transport /\ SameBut(e, c) /\ Runs(c.out)
    BY <2>1, <2>2, <2>3, Received
  <2>5. QED
    BY <2>2, <2>4 DEF SameBut, Runs
<1> HIDE DEF c
<1>10. CASE o = "pending"
  <2>1. t.cbw.want # 0
    BY <1>1, <1>3, <1>10, UnitsType
  <2>2. i = [c EXCEPT !.rw_pending = c.cbw.rw]
    BY <1>10 DEF Issue
  <2> HIDE DEF i
  <2>3. /\ Begun(i) /\ i.sata = c.sata /\ i.actual = c.actual /\ i.case = c.case
        /\ i.rw_pending = t.cbw.rw
    BY <1>8, <2>1, <2>2, BegunPending
  <2>4. t' = Rx(i, "window", i.actual) /\ "window" \in {"data", "window"}
    BY <1>6, <1>10 DEF i
  <2>5. /\ ~i.sata /\ i.actual \in 1 .. Units /\ i.actual <= t.cbw.len
        /\ i.case \in {0, 11, 13}
        /\ i.case = 0 => i.actual = t.cbw.len /\ t.cbw.want = t.cbw.len
        /\ i.case = 11 => i.actual = t.cbw.want /\ t.cbw.want < t.cbw.len
    BY <1>8, <2>1, <2>3
  <2>6. QED
    BY <1>7, <2>3, <2>4, <2>5, AskStep
<1>11. CASE o = "error"
  <2>1. i = SendCSW(Cleanup(c, TRUE), "failed")
    BY <1>11 DEF Issue
  <2>2. t' = Stall(i, "out")
    BY <1>6, <1>11
  <2> HIDE DEF i
  <2>3. FailedCsw(c, i) /\ c.cbw = t.cbw /\ ~c.persistent /\ ~c.odd
    <3>1. CASE t.cbw.want # 0
      <4>1. FailedCsw(c, i)
        BY <1>8, <2>1, <3>1, BegunFails
      <4>2. QED
        BY <1>8, <3>1, <4>1 DEF Begun
    <3>2. CASE t.cbw.want = 0
      <4>1. /\ c \in Transport /\ c.state \in {"DATA_IN", "DATA_OUT", "CSW_PENDING"}
            /\ c.case \notin {5, 11} /\ c.out.active /\ c.state = "DATA_OUT"
        BY <1>9, <3>2
      <4>2. FailedCsw(c, SendCSW(Cleanup(c, TRUE), "failed"))
        BY <4>1, Failed
      <4>3. QED
        BY <1>9, <2>1, <3>2, <4>2
    <3>3. QED
      BY <3>1, <3>2
  <2>4. i \in Transport /\ ~i.out.active
    BY <2>3 DEF FailedCsw, Off
  <2>5. t' \in Transport /\ SameBut(i, t') /\ t'.in = i.in /\ ~t'.out.active
        /\ t'.out.hw = i.out.hw
    BY <2>2, <2>4, OutStalled
  <2>6. /\ t'.state = "SEND_CSW" /\ Off(t'.out) /\ Runs(t'.in)
        /\ t'.in.what = "csw" /\ ~t'.persistent /\ ~t'.odd
        /\ t'.cbw = t.cbw /\ t'.status # "passed"
    BY <2>3, <2>5 DEF FailedCsw, SameBut, Off
  <2>7. h.phase # "data_in" /\ events' = <<>> /\ ~Only(events', "in")
    BY <1>1, ArrivedFacts, Kinds
  <2>8. QED
    BY <1>7, <1>11, <2>5, <2>6, <2>7, ArrivedFacts, EndStep
<1>12. QED
  BY <1>3, <1>10, <1>11

(* A read.                                                                 *)
LEMMA ReadStep ==
  ASSUME Arrived, NEW s, Begun(s), s.case = 0, ~s.sata,
         CaseOf(t.cbw) = 0, t.cbw.rw, t.cbw.intent = "in",
         NEW o \in IF IssuedAtOnce(t.cbw) THEN Outcomes(t.cbw) ELSE {"none"},
         AfterOutcome(o), t' = ProcessRead(s, o)
  PROVE  IInv'
<1> DEFINE n == SetLength(s, t.cbw.want)
           m == MarkShort(n)
           i == Issue(m, o, 0)
<1>1. /\ t.cbw \in CBWs /\ t.cbw.len \in 1 .. Units /\ t.cbw.want \in 0 .. Units
      /\ s \in Transport /\ s.cbw = t.cbw /\ t.cbw.dir = "in"
  BY ArrivedFacts, Parts, CBWType, CaseKinds, UnitsType DEF Begun
<1>2. IssuedAtOnce(t.cbw) <=> t.cbw.want > 0
  BY DEF IssuedAtOnce
<1>3. /\ Begun(n) /\ n.sata = s.sata
      /\ IF t.cbw.want <= t.cbw.len THEN n.case = 0 /\ n.actual = t.cbw.want
         ELSE n.case = 7 /\ n.actual = t.cbw.len
  BY <1>1, LengthSet
<1>4. t' = IF n.actual = 0 THEN CaseHandler(n, 4)
           ELSE IF o = "pending" THEN Tx(i, "window", i.actual) ELSE i
  BY <1>1 DEF ProcessRead
<1> HIDE DEF n
<1>5. o \in Outcomes(t.cbw) \cup {"none"} /\ o # "ata_error"
  BY Answers
<1>6. /\ AnswerInv' /\ (t' \in Transport => Types')
      /\ o # "pending" => ~Owed' /\ Unasked' /\ ata' # "mine" /\ done' = "none"
  BY <1>5, ArrivedHeard
<1>7. CASE t.cbw.want = 0
  <2>1. o = "none" /\ n.actual = 0 /\ n.case = 0 /\ t.cbw.want < t.cbw.len
    BY <1>1, <1>2, <1>3, <1>7, UnitsType
  <2>2. t' = SendCSW(Stall(n, "in"), "passed")
    BY <1>4, <2>1 DEF CaseHandler
  <2>3. IsShort(t)
    BY <2>1 DEF IsShort
  <2>4. QED
    BY <1>1, <1>3, <1>6, <2>1, <2>2, <2>3, PassedShort
<1>8. CASE t.cbw.want # 0
  <2>1. o \in Outcomes(t.cbw)
    BY <1>1, <1>2, <1>8, UnitsType
  <2>2. o \in {"pending", "error"}
    BY <2>1, Answers
  <2>3. n.actual \in 1 .. Units
    BY <1>1, <1>3, <1>8, UnitsType
  <2>4. Begun(m) /\ m.sata = n.sata /\ m.actual = n.actual
        /\ m.case = IF n.actual < t.cbw.len THEN 5 ELSE n.case
    BY <1>3, ShortMarked
  <2> HIDE DEF m
  <2>5. /\ m.case \in {0, 5, 7}
        /\ IF m.case = 5 THEN m.actual < t.cbw.len ELSE m.actual = t.cbw.len
        /\ m.case = 5 <=> t.cbw.want < t.cbw.len
    <3>1. CASE t.cbw.want < t.cbw.len
      BY <1>1, <1>3, <2>4, <3>1, UnitsType
    <3>2. CASE ~(t.cbw.want < t.cbw.len)
      BY <1>1, <1>3, <2>4, <3>2, UnitsType
    <3>3. QED
      BY <3>1, <3>2
  <2>6. t' = IF o = "pending" THEN Tx(i, "window", i.actual) ELSE i
    BY <1>4, <2>3, UnitsType
  <2>7. CASE o = "pending"
    <3>1. i = [m EXCEPT !.rw_pending = m.cbw.rw]
      BY <2>7 DEF Issue
    <3> HIDE DEF i
    <3>2. /\ Begun(i) /\ i.sata = m.sata /\ i.actual = m.actual /\ i.case = m.case
          /\ i.rw_pending = t.cbw.rw
      BY <2>4, <3>1, BegunPending
    <3>3. t' = Tx(i, "window", i.actual) /\ "window" \in {"data", "window"} /\ ~i.sata
      BY <1>3, <2>4, <2>6, <2>7, <3>2
    <3>4. QED
      BY <1>6, <2>3, <2>4, <2>5, <3>2, <3>3, OfferStep
  <2>8. CASE o = "error"
    <3>1. t' = SendCSW(Cleanup(m, TRUE), "failed")
      BY <2>6, <2>8 DEF Issue
    <3>2. m.case \in {5, 11} => m.actual <= t.cbw.len
      BY <1>1, <2>3, <2>4, <2>5, UnitsType
    <3>3. FailedCsw(m, t')
      BY <2>4, <3>1, <3>2, BegunFails
    <3>4. t' \in Transport
      BY <3>3 DEF FailedCsw
    <3>5. QED
      BY <1>6, <2>4, <2>8, <3>3, <3>4, RefusedStep
  <2>9. QED
    BY <2>2, <2>7, <2>8
<1>9. QED
  BY <1>7, <1>8

(* One that is valid is processed.                                         *)
LEMMA ValidCbwStep ==
  ASSUME Arrived, NEW k \in 0 .. Units,
         NEW o \in IF IssuedAtOnce(t.cbw) THEN Outcomes(t.cbw) ELSE {"none"},
         AfterOutcome(o), t' = ProcessCBW([t EXCEPT !.out.active = FALSE], o, k)
  PROVE  IInv'
<1> DEFINE q == [t EXCEPT !.out.active = FALSE]
           d == DetermineState([q EXCEPT !.residue = q.cbw.len])
           v == [d EXCEPT !.actual = d.cbw.len]
<1>1. /\ Begun(d) /\ d.case = 0 /\ ~d.sata /\ ~d.check
      /\ Begun(v) /\ v.case = 0 /\ ~v.sata /\ v.actual = t.cbw.len
  BY Opened
<1>2. t' = CASE CaseOf(d.cbw) # 0 -> CaseHandler(d, CaseOf(d.cbw))
             [] CaseOf(d.cbw) = 0 /\ ~d.cbw.rw -> ProcessOther(v, o, k)
             [] CaseOf(d.cbw) = 0 /\ d.cbw.rw  ->
                  IF d.state = "DATA_OUT" THEN ProcessWrite(v, o) ELSE ProcessRead(v, o)
  BY DEF ProcessCBW
<1> HIDE DEF v, d, q
<1>3. d.cbw = t.cbw /\ t.cbw \in CBWs /\ t.cbw.rw \in BOOLEAN
      /\ t.cbw.intent \in {"in", "out", "none"} /\ (t.cbw.rw => t.cbw.intent # "none")
  BY <1>1, ArrivedFacts, Parts, CBWType DEF Begun
<1>4. CASE CaseOf(t.cbw) # 0
  <2>1. t' = CaseHandler(d, CaseOf(t.cbw))
    BY <1>2, <1>3, <1>4
  <2>2. o = "none"
    BY <1>4 DEF IssuedAtOnce
  <2>3. QED
    BY <1>1, <1>4, <2>1, <2>2, MismatchStep
<1>5. CASE CaseOf(t.cbw) = 0 /\ ~t.cbw.rw
  <2>1. t' = ProcessOther(v, o, k)
    BY <1>2, <1>3, <1>5
  <2>2. QED
    BY <1>1, <1>5, <2>1, OtherStep
<1>6. CASE CaseOf(t.cbw) = 0 /\ t.cbw.rw /\ t.cbw.intent = "out"
  <2>1. d.state = "DATA_OUT"
    BY <1>1, <1>6 DEF Begun
  <2>2. t' = ProcessWrite(v, o)
    BY <1>2, <1>3, <1>6, <2>1
  <2>3. QED
    BY <1>1, <1>6, <2>2, WriteStep
<1>7. CASE CaseOf(t.cbw) = 0 /\ t.cbw.rw /\ t.cbw.intent = "in"
  <2>1. d.state # "DATA_OUT"
    BY <1>1, <1>7 DEF Begun
  <2>2. t' = ProcessRead(v, o)
    BY <1>2, <1>3, <1>7, <2>1
  <2>3. QED
    BY <1>1, <1>7, <2>2, ReadStep
<1>8. QED
  BY <1>3, <1>4, <1>5, <1>6, <1>7

(* An event of the wire is handled.                                        *)
LEMMA HandleEventStep == IInv /\ HandleEvent => IInv'
<1> SUFFICES ASSUME IInv, HandleEvent PROVE IInv'
  OBVIOUS
<1> DEFINE e == Head(events)
<1>1. Taken
  BY DEF HandleEvent, Taken
<1>2. Types /\ Shape(t) /\ Wire(t, events) /\ IInv
  BY DEF IInv
<1>3. t \in Transport /\ events \in Seq(Events) /\ events # <<>>
  BY <1>1, <1>2 DEF Types, Taken
<1>4. e \in Events /\ e.ep \in {"in", "out"}
  <2>1. e \in Events
    BY <1>3
  <2>2. QED
    BY <2>1 DEF Events
<1>5. CASE ~t[e.ep].active
  <2>1. t' = t /\ ata' = ata /\ cb' = cb /\ ready' = ready /\ done' = done
    BY <1>5 DEF HandleEvent, EventIsCurrent
  <2>2. QED
    BY <1>1, <1>5, <2>1, StaleEventStep
<1>6. CASE t[e.ep].active /\ e.ep = "in"
  <2>1. /\ t' = InCallback([t EXCEPT !.in.active = FALSE], e.n)
        /\ ata' = ata /\ cb' = cb /\ ready' = ready /\ done' = done
    BY <1>6 DEF HandleEvent, EventIsCurrent
  <2>2. t.in.active
    BY <1>6
  <2>3. t.state \in {"DATA_IN", "SEND_CSW", "ERROR"}
    BY <1>2, <1>3, <2>2
       DEF Transport, Shape, IdleShape, OutShape, PendingShape, Off
  <2>4. Only(events, "in")
    <3>1. ~Only(events, "out") /\ ~Both(events, "out", "in")
      BY <1>3, <1>6, LastEvent, NextEvent
    <3>2. QED
      BY <1>2, <1>3, <2>3, <3>1 DEF Wire
  <2>5. CASE t.state = "DATA_IN"
    BY <1>1, <2>1, <2>2, <2>4, <2>5, DataInEndStep
  <2>6. CASE t.state \in {"SEND_CSW", "ERROR"}
    <3> DEFINE q == [t EXCEPT !.in.active = FALSE]
    <3>1. q.state = t.state
      BY <1>3, InFlag DEF SameBut
    <3>2. t' = Idle(q)
      BY <2>1, <2>6, <3>1 DEF InCallback
    <3>3. QED
      BY <1>1, <2>1, <2>4, <2>6, <3>2, CswEndStep
  <2>7. QED
    BY <2>3, <2>5, <2>6
<1>7. CASE t[e.ep].active /\ e.ep = "out"
  <2> DEFINE q == [t EXCEPT !.out.active = FALSE]
             issues == IF t.state = "IDLE" THEN t.valid /\ IssuedAtOnce(t.cbw)
                       ELSE IssuedWithData(q, e.n)
  <2>a. PICK o \in IF issues THEN Outcomes(t.cbw) ELSE {"none"} :
          \E j \in IF o = "ready" THEN 0 .. Units ELSE {0} :
            t' = OutCallback(q, e.n, o, j) /\ AfterOutcome(o)
    BY <1>7 DEF HandleEvent, EventIsCurrent
  <2>1. PICK k \in 0 .. Units : t' = OutCallback(q, e.n, o, k) /\ AfterOutcome(o)
    BY <2>a, UnitsType
  <2>3. t.out.active
    BY <1>7
  <2>4. t.state \in {"IDLE", "DATA_OUT"}
    BY <1>2, <1>3, <2>3 DEF Transport, Shape, InShape, PendingShape, CswShape, Off
  <2>5. Only(events, "out")
    <3>1. ~Only(events, "in") /\ ~Both(events, "in", "out")
      BY <1>3, <1>7, LastEvent, NextEvent
    <3>2. QED
      BY <1>2, <1>3, <2>4, <3>1 DEF Wire
  <2>6. CASE t.state = "DATA_OUT"
    <3>1. o \in IF IssuedWithData(q, e.n) THEN Outcomes(t.cbw) ELSE {"none"}
      BY <2>a, <2>6
    <3>2. QED
      BY <1>1, <2>1, <2>3, <2>5, <2>6, <3>1, DataOutEndStep
  <2>7. CASE t.state = "IDLE"
    <3>1. Arrived
      BY <1>1, <2>3, <2>5, <2>7 DEF Arrived
    <3>2. q.state = "IDLE" /\ q.valid = t.valid
      BY <1>3, <2>7, OutFlag DEF SameBut
    <3>3. CASE ~t.valid
      <4>1. t' = [Stall(Stall(q, "in"), "out") EXCEPT !.persistent = TRUE]
        BY <2>1, <3>2, <3>3 DEF OutCallback
      <4>2. o = "none"
        BY <2>a, <2>7, <3>3
      <4>3. ata' = ata /\ cb' = cb /\ ready' = ready /\ done' = done
        BY <2>1, <4>2 DEF AfterOutcome
      <4>4. QED
        BY <3>1, <3>3, <4>1, <4>3, InvalidCbwStep
    <3>4. CASE t.valid
      <4>1. t' = ProcessCBW(q, o, k)
        BY <2>1, <3>2, <3>4 DEF OutCallback
      <4>2. o \in IF IssuedAtOnce(t.cbw) THEN Outcomes(t.cbw) ELSE {"none"}
        BY <2>a, <2>7, <3>4
      <4>3. QED
        BY <2>1, <3>1, <4>1, <4>2, ValidCbwStep
    <3>5. QED
      BY <3>3, <3>4
  <2>8. QED
    BY <2>4, <2>6, <2>7
<1>8. QED
  BY <1>4, <1>5, <1>6, <1>7

-----------------------------------------------------------------------------
(* The theorems.                                                           *)

(* Every step keeps the invariant, unless something of a command acts      *)
(* after its end in it.                                                    *)
LEMMA InvStep == IInv /\ [Next]_vars /\ ~stale' => IInv'
<1> SUFFICES ASSUME IInv, [Next]_vars, ~stale' PROVE IInv'
  OBVIOUS
<1>1. CASE HandleEvent
  BY <1>1, HandleEventStep
<1>2. CASE ServeCallback
  BY <1>2, ServeCallbackStep
<1>3. CASE AtaAnswers
  BY <1>3, AtaAnswersStep
<1>4. CASE LinkChange
  BY <1>4, LinkChangeStep
<1>5. CASE Rediscover
  BY <1>5, RediscoverStep
<1>6. CASE HostSendsCBW
  BY <1>6, HostSendsCBWStep
<1>7. CASE HostSendsData
  BY <1>7, HostSendsDataStep
<1>8. CASE HostReadsData
  BY <1>8, HostReadsDataStep
<1>9. CASE HostReadsStatus
  BY <1>9, HostReadsStatusStep
<1>10. CASE HostClearsOut
  BY <1>10, HostClearsOutStep
<1>11. CASE HostClearsIn
  BY <1>11, HostClearsInStep
<1>12. CASE HostTimeout
  BY <1>12, HostTimeoutStep
<1>13. CASE MassStorageReset
  BY <1>13, MassStorageResetStep
<1>14. CASE ClearHalts
  BY <1>14, ClearHaltsStep
<1>15. CASE SetInterface
  BY <1>15, SetInterfaceStep
<1>16. CASE UNCHANGED vars
  BY <1>16 DEF vars, IInv, Types, DiskInv, AnswerInv, Answered, Unasked, Owed, IsDone,
               IsShort, ResidueInv
<1>17. QED
  BY <1>1, <1>2, <1>3, <1>4, <1>5, <1>6, <1>7, <1>8, <1>9, <1>10, <1>11, <1>12,
     <1>13, <1>14, <1>15, <1>16 DEF Next

(* What has acted after its end stays known.                               *)
LEMMA StaleStays ==
  stale \in BOOLEAN /\ [Next]_vars => stale' \in BOOLEAN /\ (stale => stale')
  BY DEF Next, vars, HandleEvent, ServeCallback, AtaAnswers, LinkChange, Rediscover,
         HostSendsCBW, HostSendsData, HostReadsData, HostReadsStatus, HostClearsOut,
         HostClearsIn, HostTimeout, MassStorageReset, ClearHalts, SetInterface, Quiet

(* The inductive invariant, of every behaviour of the code, up to the step *)
(* in which the answer to a command that has its status is taken for the   *)
(* next command's, or a CSW that the host has not read stays behind.       *)
THEOREM Invariant == Spec => [](stale \in BOOLEAN /\ (stale \/ IInv))
<1> DEFINE Inv == stale \in BOOLEAN /\ (stale \/ IInv)
<1>1. Init => Inv
  BY InvInit DEF Init
<1>2. Inv /\ [Next]_vars => Inv'
  <2> SUFFICES ASSUME Inv, [Next]_vars PROVE Inv'
    OBVIOUS
  <2>1. stale' \in BOOLEAN /\ (stale => stale')
    BY StaleStays
  <2>2. ~stale /\ ~stale' => IInv'
    BY InvStep
  <2>3. QED
    BY <2>1, <2>2
<1>3. QED
  BY <1>1, <1>2, PTL DEF Spec

(* Counters, lengths and queues stay in range: no residue is negative and  *)
(* at most two events wait.                                                *)
THEOREM TypeCorrect == Spec => [](stale \/ TypeOK)
<1>1. stale \in BOOLEAN /\ (stale \/ IInv) => stale \/ TypeOK
  <2> SUFFICES ASSUME stale \in BOOLEAN, IInv PROVE TypeOK
    OBVIOUS
  <2>1. Types /\ Shape(t) /\ Wire(t, events)
    BY DEF IInv
  <2>2. /\ t \in Transport /\ t.in \in Endpoint /\ t.out \in Endpoint
    BY <2>1, Parts DEF Types
  <2>3. Len(events) <= 3
    <3>1. events = <<>> \/ Len(events) = 1 \/ Len(events) = 2
      BY <2>1, <2>2 DEF Wire, Only, Both, Transport
    <3>2. CASE events = <<>>
      <4>1. Len(events) = 0
        BY <3>2
      <4>2. QED
        BY <4>1
    <3>3. Len(events) \in {0, 1, 2}
      BY <3>1, <3>2
    <3> DEFINE l == Len(events)
    <3>4. l \in {0, 1, 2} => l <= 3
      <4> HIDE DEF l
      <4>1. QED
        OBVIOUS
    <3>5. QED
      BY <3>3, <3>4
  <2>5. QED
    BY <2>1, <2>2, <2>3 DEF TypeOK, Types, Callbacks, Transport, Endpoint
<1>2. QED
  BY <1>1, Invariant, PTL

(* Host and device agree on the phase, for data phases of any length.      *)
THEOREM PhasesAlwaysAgree == Spec => []PhasesAgree
<1>1. stale \/ IInv => PhasesAgree
  BY DEF IInv, Types, Host, PhasesAgree
<1>2. QED
  BY <1>1, Invariant, PTL

(* A transfer ends in a state that has started none, the one that "should  *)
(* never happen" of ums_bot.c, only after something of a command has acted *)
(* after its end.                                                          *)
THEOREM SurprisedOnlyWhenStale == Spec => []SurpriseIsStale
<1>1. stale \/ IInv => SurpriseIsStale
  BY DEF IInv, Shape, SurpriseIsStale
<1>2. QED
  BY <1>1, Invariant, PTL

(* A command reported as passed has been done by the disk.                 *)
THEOREM PassedIsDone == Spec => []PassedMeansDone
<1>1. stale \/ IInv => PassedMeansDone
  BY DEF IInv, DiskInv, IsDone, IsShort, PassedMeansDone, ShortRead
<1>2. QED
  BY <1>1, Invariant, PTL

(* The residue of a command that has passed is what was not transferred.   *)
THEOREM ResidueIsTrue == Spec => []ResidueTrue
<1>1. stale \/ IInv => ResidueTrue
  BY DEF IInv, ResidueInv, Left, ResidueTrue
<1>2. QED
  BY <1>1, Invariant, PTL
=============================================================================
