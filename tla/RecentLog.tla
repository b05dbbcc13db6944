----------------------------- MODULE RecentLog ------------------------------
(***************************************************************************)
(* What a set of rotated log files promises when it is read from the       *)
(* oldest file to the newest: messages are added at the end in the order   *)
(* they were logged, the oldest go first, and only a fault, a crash or a   *)
(* failed system call, may take the newest or cut a message short.  What   *)
(* is between them stays.                                                  *)
(***************************************************************************)
EXTENDS Naturals, Sequences, SequencesExt

VARIABLES
  log,     \* the messages that can be read, if in part, by their numbers
  faults   \* how many crashes and failures there were

Init == log = <<>> /\ faults = 0

\* A message whose writing fails may be there in part.
Append1 ==
  /\ Len(log') = Len(log) + 1
  /\ IsPrefix(log, log')
  /\ \A j \in DOMAIN log : log[j] < Last(log')
  /\ faults' \in {faults, faults + 1}

DropOldest ==
  /\ IsSuffix(log', log)
  /\ UNCHANGED faults

LoseNewest ==
  /\ IsPrefix(log', log)
  /\ faults' = faults + 1

Next == Append1 \/ DropOldest \/ LoseNewest

Spec == Init /\ [][Next]_<<log, faults>>
============================================================================
