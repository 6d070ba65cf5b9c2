-------------------------- MODULE MC_ControlServer --------------------------
EXTENDS ControlServer, TLC
=============================================================================
