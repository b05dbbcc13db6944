--------------------------- MODULE MCMainWindow ---------------------------
(***************************************************************************)
(* Small instances of MainWindow.  The window is two time units, so a step *)
(* of the clock may leave a snapshot in the window or outside of it, and a *)
(* longer step is a gap in the data.                                       *)
(***************************************************************************)
EXTENDS MainWindow

CONSTANTS eth, wlan, none, never

BothInterfaces == {eth, wlan}
OneInterface == {eth}

\* An earlier session left no row, or rows up to three units ago.
NoHistory == {}
OldRow == {3, 7}

Regular == {2}
WithGap == {2, 5}

ShiftBack == {-4}
===========================================================================
