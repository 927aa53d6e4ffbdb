-------------------------------- MODULE UsbMC --------------------------------
(* A request of every shape: without data, with an answer that is shorter   *)
(* than asked for, that fills its packets, or that takes several, with data *)
(* to the device, and refused.                                              *)
EXTENDS UsbDevice

Standard(dir, recip, req, val, idx, len) ==
  [kind |-> "standard", dir |-> dir, recip |-> recip, req |-> req,
   val |-> val, idx |-> idx, len |-> len]

MCRequests ==
  { Standard("in", "device", "GET_DESCRIPTOR", DT_CONFIG, 0, 6),
    Standard("in", "device", "GET_DESCRIPTOR", DT_QUALIFIER, 0, 3),
    Standard("out", "device", "SET_ADDRESS", 1, 0, 0),
    Standard("out", "device", "SET_CONFIGURATION", 1, 0, 0),
    Standard("out", "device", "SET_SEL", 0, 0, 3),
    [Standard("out", "interface", "BOT_RESET", 0, 0, 0) EXCEPT !.kind = "class"] }

(* The configuration fills two packets, the qualifier one and a half.       *)
MCLength(what, speed) ==
  IF what = <<DT_CONFIG, 0>> THEN 4
  ELSE IF what = <<DT_QUALIFIER, 0>> THEN 3 ELSE 0
=============================================================================
