---------------------------- MODULE DurableStore ----------------------------
(***************************************************************************)
(* What the database file promises its callers: a sample is in it as a     *)
(* whole or not at all, later samples overwrite the rows of earlier ones,  *)
(* never the reverse, a dns record is added once, and nothing else leaves  *)
(* the file than what is older than a cutoff.  Statements, transactions,   *)
(* failures and crashes do not appear.                                     *)
(***************************************************************************)
EXTENDS Naturals, Sequences, Functions

CONSTANT Times

VARIABLES
  given,  \* the samples handed to add_snapshots, as [ts, ifs]
  rows,   \* by <<timestamp, interface>>, the number of the sample it is from
  dns     \* the dns records, as [id, ts]

dsVars == <<given, rows, dns>>

KeysOf(n) == {given[n].ts} \X given[n].ifs

Init ==
  /\ given = <<>>
  /\ rows = <<>>
  /\ dns = {}

Give ==
  /\ Len(given') = Len(given) + 1
  /\ given = SubSeq(given', 1, Len(given))
  /\ UNCHANGED <<rows, dns>>

Store(n) ==
  /\ \A k \in DOMAIN rows : rows[k] < n
  /\ rows' = [k \in KeysOf(n) \union DOMAIN rows |->
                IF k \in KeysOf(n) THEN n ELSE rows[k]]
  /\ UNCHANGED <<given, dns>>

Record ==
  /\ \E r \in dns' \ dns : dns' = dns \union {r}
  /\ UNCHANGED <<given, rows>>

PruneRows(cutoff) ==
  /\ rows' = Restrict(rows, {k \in DOMAIN rows : k[1] >= cutoff})
  /\ UNCHANGED <<given, dns>>

PruneDns(cutoff) ==
  /\ dns' = {r \in dns : r.ts >= cutoff}
  /\ UNCHANGED <<given, rows>>

Next ==
  \/ Give
  \/ \E n \in DOMAIN given : Store(n)
  \/ Record
  \/ \E cutoff \in Times : PruneRows(cutoff) \/ PruneDns(cutoff)

Spec == Init /\ [][Next]_dsVars
============================================================================
