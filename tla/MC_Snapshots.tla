---------------------------- MODULE MC_Snapshots ----------------------------
EXTENDS Snapshots, TLC
=============================================================================
