----------------------------- MODULE MCCounters -----------------------------
(***************************************************************************)
(* An instance of Counters.  Three bytes one way are enough for a counter  *)
(* that is lower than before and not zero after it started again.          *)
(***************************************************************************)
EXTENDS Counters

MCMaxTraffic == [received |-> 3, sent |-> 0]
=============================================================================
