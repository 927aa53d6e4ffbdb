-------------------------------- MODULE BotMC --------------------------------
EXTENDS BotTransport

(* States in which a late answer has acted are checked but not explored:   *)
(* every property of the run is about the behaviours up to there.          *)
UntilStale == ~stale
=============================================================================
