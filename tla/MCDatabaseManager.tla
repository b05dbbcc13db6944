------------------------- MODULE MCDatabaseManager --------------------------
(***************************************************************************)
(* A small instance of DatabaseManager.  Two times are enough for a clock  *)
(* that is set back and for a prune that removes some rows and keeps       *)
(* others.                                                                 *)
(***************************************************************************)
EXTENDS DatabaseManager

CONSTANTS eth, wlan

Both == {eth, wlan}
TwoTimes == {1, 2}
============================================================================
