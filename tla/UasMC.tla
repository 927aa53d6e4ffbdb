-------------------------------- MODULE UasMC --------------------------------
(* READ and WRITE, and commands of every other shape.                       *)
EXTENDS UasTransport

Command(t, rw, dir, does) ==
  [Nothing EXCEPT !.what = "command", !.tag = t, !.target = t, !.rw = rw,
                  !.dir = dir, !.does = does]

Sized(size, c) == [c EXCEPT !.size = size]

MCOffers ==
  { Command(1, TRUE, "in", "pending"), Command(2, TRUE, "out", "pending"),
    Command(2, FALSE, "none", "pending"), Command(2, FALSE, "in", "ready"),
    Command(2, FALSE, "out", "ok"), Command(2, FALSE, "out", "error"),
    Sized("none", Command(2, FALSE, "in", "ready")),
    Sized("none", Command(2, TRUE, "in", "error")),
    Sized("excess", Command(2, TRUE, "out", "error")) }

(* A command other than WRITE that is refused once its data are there.     *)
DataOutOffers == { Command(t, FALSE, "out", "error") : t \in Tags }

(* A write that the SCSI layer refuses (a protected medium, a bad address). *)
RefusedOffers == { Command(t, TRUE, "out", "error") : t \in Tags }

MCMedia == { [ncq |-> TRUE, ready |-> TRUE], [ncq |-> FALSE, ready |-> TRUE] }
PlainMedia == { [ncq |-> FALSE, ready |-> TRUE] }

(* Two states that differ by a rotation of the rings, or in what an idle    *)
(* buffer or an invalid cell holds, behave alike.                           *)
Turned(l) ==
  IF l.index >= Slots THEN l
  ELSE [buf |-> [i \in 0 .. Slots - 1 |-> LET k == (i + l.proc) % Slots
                                         IN  IF l.ok[k] THEN l.buf[k] ELSE 0],
        ok |-> [i \in 0 .. Slots - 1 |-> l.ok[(i + l.proc) % Slots]],
        index |-> (l.index + Slots - l.proc) % Slots, proc |-> 0]

TurnedOrder ==
  [buf |-> [i \in 0 .. Slots - 1 |-> u.order.buf[(i + u.order.proc) % Slots]],
   index |-> (u.order.index + Slots - u.order.proc) % Slots]

InUse == {b \in Buffers : u.st[b] \notin NotInUse}

MCView ==
  <<[u EXCEPT
       !.free = Turned(@), !.pend = Turned(@), !.resp = Turned(@),
       !.order = TurnedOrder,
       !.list = [k \in 0 .. ListSize - 1 |-> Entry(u, k)],
       !.cmd_in = (@ + ListSize - u.cmd_proc) % ListSize, !.cmd_proc = 0,
       !.cmd = [b \in Buffers |-> IF b \in InUse THEN @[b] ELSE Nothing],
       !.iu = [b \in Buffers |-> IF u.st[b] \in {"SENSE_PENDING", "RESPONSE_PENDING"}
                                THEN @[b] ELSE NoIU],
       !.moved = @ \cap InUse, !.failed = @ \cap InUse,
       !.refused = @ \cap InUse],
    host, odd, hs, medium, build>>
=============================================================================
