----------------------------- MODULE BatchLoad -----------------------------
(***************************************************************************)
(* What load_data_for_display promises, without its queues and its ids: a  *)
(* load asks for the data of every interface on the chart, each answer is  *)
(* taken in and counted once, a newer load replaces the one in progress,   *)
(* and a load that is not replaced is answered in full.                    *)
(***************************************************************************)
EXTENDS Integers, FiniteSets

CONSTANT Interfaces

VARIABLES
  known,     \* the interfaces on the chart
  load,      \* how many loads were started
  awaiting,  \* the interfaces the newest load still waits for
  pending,   \* the number of answers that are still to come
  running    \* FALSE once the program has quit

blVars == <<known, load, awaiting, pending, running>>

Init ==
  /\ known = {}
  /\ load = 0
  /\ awaiting = {}
  /\ pending = 0
  /\ running = TRUE

\* A load covers the interfaces already on the chart and those just added.
Start(S) ==
  /\ running
  /\ S # {} /\ known \subseteq S
  /\ known' = S
  /\ load' = load + 1
  /\ awaiting' = S
  /\ pending' = Cardinality(S)
  /\ UNCHANGED running

Arrive(i) ==
  /\ running
  /\ i \in awaiting
  /\ awaiting' = awaiting \ {i}
  /\ pending' = pending - 1
  /\ UNCHANGED <<known, load, running>>

Quit ==
  /\ running' = FALSE
  /\ UNCHANGED <<known, load, awaiting, pending>>

SomeArrival == \E i \in Interfaces : Arrive(i)

Next == (\E S \in SUBSET Interfaces : Start(S)) \/ SomeArrival \/ Quit

Spec == Init /\ [][Next]_blVars

FairSpec == Spec /\ WF_blVars(SomeArrival)
=============================================================================
