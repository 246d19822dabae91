------------------------- MODULE MCSingleFlightCache -------------------------
(* SingleFlightCache for TLC.                                              *)
EXTENDS SingleFlightCache
=============================================================================
