------------------------------ MODULE DiscoveryMC ------------------------------
(* An RDX cartridge, one that refuses the password, a plain disk, and three *)
(* that are admitted never or only sometimes.                               *)
EXTENDS MediaDiscovery, TLC

CONSTANTS rdx, bad, plain, packet, flaky, broken

MCAnswer == (rdx :> "locked") @@ (bad :> "refuses") @@ (plain :> "plain")
              @@ (packet :> "packet") @@ (flaky :> "flaky")
              @@ (broken :> "broken")
=============================================================================
