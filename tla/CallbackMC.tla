----------------------------- MODULE CallbackMC -----------------------------
EXTENDS CallbackQueue
=============================================================================
