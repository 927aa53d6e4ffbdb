-------------------------------- MODULE ScsiMC --------------------------------
(* Generic disks of 28 and of 48 address bits, with and without queueing and *)
(* trim, and an RDX cartridge whose user area starts behind a block of its   *)
(* own.                                                                      *)
EXTENDS ScsiCommands

Disk(kind, lba48, ncq, trim, open) ==
  [kind |-> kind, lba48 |-> lba48, ncq |-> ncq, trim |-> trim, open |-> open,
   offset |-> IF kind = "rdx" THEN 1 ELSE 0, blocks |-> 5]

MCMedia ==
  { Disk("generic", TRUE, FALSE, TRUE, TRUE),
    Disk("generic", FALSE, TRUE, FALSE, FALSE),
    Disk("generic", FALSE, FALSE, TRUE, FALSE),
    Disk("rdx", TRUE, TRUE, FALSE, TRUE) }
===============================================================================
