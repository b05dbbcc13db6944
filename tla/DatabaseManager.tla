-------------------------- MODULE DatabaseManager ---------------------------
(***************************************************************************)
(* database_manager, statement by statement, over a file that outlives the *)
(* process.  The thread runs one handler at a time; every SQL statement is *)
(* a step, each may fail, and the process may be killed between any two.   *)
(*                                                                         *)
(* SQLite and the Qt driver are external and modelled from their use: a    *)
(* statement outside a transaction is committed by itself; one inside      *)
(* reaches only the connection's own view; BEGIN fails while a transaction *)
(* is open; a failing statement leaves the transaction open or rolls it    *)
(* back itself; a failed COMMIT likewise; ROLLBACK fails only when nothing *)
(* is open any more.                                                       *)
(***************************************************************************)
EXTENDS Naturals, Sequences, Functions

CONSTANTS
  Interfaces,   \* the interfaces a sample may report
  Times,        \* the times the wall clock may show, in any order
  MaxSamples,   \* bound: calls of add_snapshots with something to store
  MaxRecords,   \* bound: calls of add_dns_log
  MaxCrashes    \* bound: times the process is killed

ASSUME DatabaseManagerAssumption ==
  /\ Times \subseteq Nat
  /\ MaxSamples \in Nat /\ MaxRecords \in Nat /\ MaxCrashes \in Nat

VARIABLES
  file,     \* what is committed: [rows, dns]
  view,     \* what the connection reads
  db_open,  \* db_.isOpen()
  tx,       \* the connection has a transaction open
  op,       \* the handler in progress and where it stands
  given,    \* every sample handed to add_snapshots
  records,  \* how many records were handed to add_dns_log
  crashes

vars == <<file, view, db_open, tx, op, given, records, crashes>>
ghostVars == <<given, records, crashes>>

Idle == [at |-> "idle"]
Empty == [rows |-> <<>>, dns |-> {}]

TypeOK ==
  /\ \A s \in {file, view} :
       /\ DOMAIN s.rows \subseteq Times \X Interfaces
       /\ \A k \in DOMAIN s.rows : s.rows[k] \in DOMAIN given
       /\ s.dns \subseteq [id : 1..records, ts : Times]
  /\ db_open \in BOOLEAN /\ tx \in BOOLEAN
  /\ op.at \in {"off", "open", "create", "prune_traffic", "prune_dns", "idle",
                "insert", "rollback", "commit"}
  /\ given \in Seq([ts : Times, ifs : SUBSET Interfaces])
  /\ crashes \in 0..MaxCrashes

Init ==
  /\ file = Empty /\ view = Empty
  /\ db_open = FALSE /\ tx = FALSE
  /\ op = [at |-> "open"]
  /\ given = <<>> /\ records = 0 /\ crashes = 0

-----------------------------------------------------------------------------
(* SQLite *)

\* A statement that succeeds leaves s: to everyone, or inside the transaction.
Write(s) ==
  /\ view' = s
  /\ file' = IF tx THEN file ELSE s
  /\ tx' = tx

\* SQLite rolls the transaction back, by itself or because it is told to.
Undo ==
  /\ view' = file
  /\ tx' = FALSE
  /\ UNCHANGED file

\* A statement that fails has no effect of its own.
Fail ==
  \/ UNCHANGED <<file, view, tx>>
  \/ tx /\ Undo

-----------------------------------------------------------------------------
(* initialize: when a step fails it only emits initialization_failed, and   *)
(* until main_window has quit the other handlers run as the state allows.  *)

OpenDatabase ==
  /\ op.at = "open"
  /\ \/ db_open' = TRUE /\ view' = file /\ op' = [at |-> "create"]
     \/ op' = Idle /\ UNCHANGED <<db_open, view>>
  /\ UNCHANGED <<file, tx, ghostVars>>

CreateTables ==
  /\ op.at = "create"
  /\ op' \in {[at |-> "prune_traffic"], Idle}
  /\ UNCHANGED <<file, view, db_open, tx, ghostVars>>

\* prune_old_data: the cutoff is read from the clock once, a failed DELETE
\* is logged and the other is still executed.
PruneTraffic(cutoff) ==
  /\ op.at = "prune_traffic"
  /\ \/ Write([view EXCEPT !.rows =
                 Restrict(@, {k \in DOMAIN @ : k[1] >= cutoff})])
     \/ Fail
  /\ op' = [at |-> "prune_dns", cutoff |-> cutoff]
  /\ UNCHANGED <<db_open, ghostVars>>

PruneDns ==
  /\ op.at = "prune_dns"
  /\ \/ Write([view EXCEPT !.dns = {r \in @ : r.ts >= op.cutoff}])
     \/ Fail
  /\ op' = Idle
  /\ UNCHANGED <<db_open, ghostVars>>

-----------------------------------------------------------------------------
(* add_snapshots *)

\* Mutant of AddSnapshots: the rows are inserted without a transaction around them.
AddSnapshotsUnprotected(ts, ifs) ==
  /\ op = Idle
  /\ Len(given) < MaxSamples
  /\ given' = Append(given, [ts |-> ts, ifs |-> ifs])
  /\ op' = IF ifs = {} \/ ~db_open THEN op
           ELSE [at |-> "insert", n |-> Len(given'), left |-> ifs]
  /\ UNCHANGED <<file, view, db_open, tx, records, crashes>>

\* Mutant of AddSnapshots: a failed db_.transaction() does not end the call.
AddSnapshotsRegardless(ts, ifs) ==
  /\ op = Idle
  /\ Len(given) < MaxSamples
  /\ given' = Append(given, [ts |-> ts, ifs |-> ifs])
  /\ \/ /\ ifs # {} /\ db_open
        /\ tx' = TRUE
        /\ op' = [at |-> "insert", n |-> Len(given'), left |-> ifs]
     \/ UNCHANGED <<tx, op>>
  /\ UNCHANGED <<file, view, db_open, records, crashes>>

\* db_.transaction() succeeds or fails; an empty list ends the call before it.
AddSnapshots(ts, ifs) ==
  /\ op = Idle
  /\ Len(given) < MaxSamples
  /\ given' = Append(given, [ts |-> ts, ifs |-> ifs])
  /\ \/ /\ ifs # {} /\ db_open /\ ~tx
        /\ tx' = TRUE
        /\ op' = [at |-> "insert", n |-> Len(given'), left |-> ifs]
     \/ UNCHANGED <<tx, op>>
  /\ UNCHANGED <<file, view, db_open, records, crashes>>

\* INSERT OR REPLACE of a row from sample n under the primary key k
Replace(rows, k, n) ==
  [j \in {k} \union DOMAIN rows |-> IF j = k THEN n ELSE rows[j]]

\* execBatch: one INSERT OR REPLACE per row, up to the first that fails.
InsertRow(i) ==
  /\ op.at = "insert" /\ i \in op.left
  /\ \/ /\ Write([view EXCEPT !.rows = Replace(@, <<given[op.n].ts, i>>, op.n)])
        /\ op' = IF op.left = {i} THEN [at |-> "commit"]
                                  ELSE [op EXCEPT !.left = @ \ {i}]
     \/ /\ Fail
        /\ op' = [at |-> "rollback"]
  /\ UNCHANGED <<db_open, ghostVars>>

\* Mutant of Rollback: the call returns after the failed batch without a rollback.
NoRollback ==
  /\ op.at = "rollback"
  /\ op' = Idle
  /\ UNCHANGED <<file, view, tx, db_open, ghostVars>>

\* db_.rollback(); that it fails is only logged.
Rollback ==
  /\ op.at = "rollback"
  /\ Undo
  /\ op' = Idle
  /\ UNCHANGED <<db_open, ghostVars>>

\* db_.commit(); that it fails is only logged, nothing is rolled back.
Commit ==
  /\ op.at = "commit"
  /\ \/ file' = view /\ tx' = FALSE /\ UNCHANGED view
     \/ Fail
  /\ op' = Idle
  /\ UNCHANGED <<db_open, ghostVars>>

-----------------------------------------------------------------------------
(* add_dns_log *)

AddDnsLog(ts) ==
  LET r == [id |-> records + 1, ts |-> ts] IN
  /\ op = Idle
  /\ records < MaxRecords
  /\ records' = records + 1
  /\ \/ /\ db_open
        /\ Write([view EXCEPT !.dns = @ \union {r}])
     \/ Fail
  /\ UNCHANGED <<db_open, op, given, crashes>>

-----------------------------------------------------------------------------
(* The process *)

\* ~database_manager closes the connection between two handlers.
Close ==
  /\ op = Idle
  /\ Undo
  /\ db_open' = FALSE
  /\ op' = [at |-> "off"]
  /\ UNCHANGED ghostVars

Crash ==
  /\ op.at # "off"
  /\ crashes < MaxCrashes
  /\ crashes' = crashes + 1
  /\ Undo
  /\ db_open' = FALSE
  /\ op' = [at |-> "off"]
  /\ UNCHANGED <<given, records>>

\* The program is started again: a new database_manager over the same file.
Restart ==
  /\ op.at = "off"
  /\ op' = [at |-> "open"]
  /\ UNCHANGED <<file, view, db_open, tx, ghostVars>>

Next ==
  \/ OpenDatabase
  \/ CreateTables
  \/ \E cutoff \in Times : PruneTraffic(cutoff)
  \/ PruneDns
  \/ \E ts \in Times, ifs \in SUBSET Interfaces : AddSnapshots(ts, ifs)
  \/ \E i \in Interfaces : InsertRow(i)
  \/ Rollback
  \/ Commit
  \/ \E ts \in Times : AddDnsLog(ts)
  \/ Close
  \/ Crash
  \/ Restart

Spec == Init /\ [][Next]_vars

-----------------------------------------------------------------------------
(* Properties *)

\* No crash, failed statement or failed commit lets the file hold part of a
\* sample, an older row in place of a newer one, or lose a row that no prune
\* removed: the file behaves as a DurableStore (add_snapshots' transaction).
DurableFile == INSTANCE DurableStore WITH rows <- file.rows, dns <- file.dns
ImplementsDurableStore == DurableFile!Spec

\* Between two handlers the queries see no part of a sample either: each
\* sample some of whose rows the view holds has all of them there, but for
\* those that a later sample replaced or that a prune removed.  The window
\* therefore never draws some interfaces of a sample and not the others.
WholeSamplesShown ==
  op = Idle =>
    \A k \in DOMAIN view.rows :
      LET n == view.rows[k]
      IN \A i \in given[n].ifs :
           /\ <<k[1], i>> \in DOMAIN view.rows
           /\ view.rows[<<k[1], i>>] >= n

\* While a transaction that a failed commit left open is not ended by SQLite
\* itself, nothing that the handlers are given reaches the file: every later
\* db_.transaction() fails, and every dns record goes to the transaction.
OpenTransactionBlocks ==
  [][tx /\ op = Idle => file' = file /\ op'.at \in {"idle", "off"}]_vars
============================================================================
