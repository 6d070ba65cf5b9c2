--------------------------- MODULE MC_GuestServer ---------------------------
EXTENDS GuestServer, TLC
=============================================================================
