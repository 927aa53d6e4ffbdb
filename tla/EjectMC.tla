------------------------------ MODULE EjectMC ------------------------------
EXTENDS EjectCoordinator
=============================================================================
