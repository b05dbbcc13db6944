----------------------- MODULE DatabaseManagerProofs ------------------------
(***************************************************************************)
(* Theorems about DatabaseManager, for any interfaces, times and numbers   *)
(* of calls and crashes: the file behaves as a DurableStore, and between   *)
(* two handlers no query sees a part of a sample.                          *)
(*                                                                         *)
(* The inductive invariant says what the connection has written so far in  *)
(* the transaction it has open, and that the rows already stored are       *)
(* older.  Where it speaks of rows, g is the sequence of samples given.    *)
(***************************************************************************)
EXTENDS DatabaseManager, TLAPS

Samples == [ts : Times, ifs : SUBSET Interfaces]

\* Rows, each from a sample that reported it.
IsRows(r, g) ==
  /\ r = [k \in DOMAIN r |-> r[k]]
  /\ \A k \in DOMAIN r :
       /\ k \in Times \X Interfaces
       /\ r[k] \in 1..Len(g)
       /\ g[r[k]].ts = k[1] /\ k[2] \in g[r[k]].ifs

\* Each sample some of whose rows are in r has all of them there, but for
\* those that a later sample replaced.
Whole(r, g) ==
  \A k \in DOMAIN r : \A i \in g[r[k]].ifs :
     <<k[1], i>> \in DOMAIN r /\ r[<<k[1], i>>] >= r[k]

\* Over the rows f of the file, r has those of sample n whose keys are done.
Over(r, f, done, n) ==
  /\ DOMAIN r = done \union DOMAIN f
  /\ \A k \in DOMAIN r : r[k] = IF k \in done THEN n ELSE f[k]
  /\ \A k \in DOMAIN f : f[k] < n

KeysOf(sample) == {sample.ts} \X sample.ifs

IsStore(s, g, n) ==
  /\ s = [rows |-> s.rows, dns |-> s.dns]
  /\ IsRows(s.rows, g)
  /\ s.dns \subseteq [id : 1..n, ts : Times]

Typed ==
  /\ IsStore(file, given, records) /\ IsStore(view, given, records)
  /\ db_open \in BOOLEAN /\ tx \in BOOLEAN
  /\ given \in Seq(Samples) /\ records \in Nat /\ crashes \in 0..MaxCrashes

\* What is still to come of the handler in progress; initialize runs before
\* any transaction.
OpTyped ==
  \/ op.at \in {"off", "open", "create", "prune_traffic"} /\ op = [at |-> op.at] /\ ~tx
  \/ /\ op.at = "prune_dns" /\ ~tx
     /\ op = [at |-> "prune_dns", cutoff |-> op.cutoff] /\ op.cutoff \in Times
  \/ op.at \in {"idle", "rollback", "commit"} /\ op = [at |-> op.at]
  \/ op.at = "insert" /\ op = [at |-> "insert", n |-> op.n, left |-> op.left]

\* The transaction of a call of add_snapshots holds what the call has inserted.
Written(done) ==
  /\ tx /\ view.dns = file.dns /\ Len(given) > 0
  /\ Over(view.rows, file.rows, done, Len(given))

Transaction ==
  /\ ~tx => view = file
  /\ op.at = "insert" =>
       /\ op.n = Len(given) /\ op.left # {} /\ op.left \subseteq given[op.n].ifs
       /\ Written({given[op.n].ts} \X (given[op.n].ifs \ op.left))
  /\ op.at = "commit" => Written(KeysOf(given[Len(given)]))

WholeStored ==
  /\ Whole(file.rows, given)
  /\ op.at \notin {"insert", "rollback"} => Whole(view.rows, given)

DBInv == Typed /\ OpTyped /\ Transaction /\ WholeStored

USE DatabaseManagerAssumption

-----------------------------------------------------------------------------
\* Rows.

\* A prune removes the rows of a time together.
LEMMA Pruned ==
  ASSUME NEW g \in Seq(Samples), NEW r, IsRows(r, g), Whole(r, g), NEW cutoff \in Times
  PROVE  LET s == Restrict(r, {k \in DOMAIN r : k[1] >= cutoff}) IN
         IsRows(s, g) /\ Whole(s, g)
<1> DEFINE S == {k \in DOMAIN r : k[1] >= cutoff}
           s == Restrict(r, S)
<1>1. /\ DOMAIN s = S /\ s = [k \in DOMAIN s |-> s[k]]
      /\ \A k \in S : s[k] = r[k]
  BY DEF Restrict
<1>2. \A k \in S : k \in DOMAIN r /\ k[1] >= cutoff
  OBVIOUS
<1>3. \A k \in DOMAIN r : k[1] >= cutoff => k \in S
  OBVIOUS
<1> HIDE DEF S, s
<1>4. IsRows(s, g)
  BY <1>1, <1>2 DEF IsRows
<1>5. ASSUME NEW k \in S, NEW i \in g[r[k]].ifs
      PROVE  <<k[1], i>> \in S /\ r[<<k[1], i>>] >= r[k]
  <2>1. <<k[1], i>> \in DOMAIN r /\ r[<<k[1], i>>] >= r[k]
    BY <1>2 DEF Whole
  <2> QED  BY <2>1, <1>2, <1>3
<1>6. Whole(s, g)
  BY <1>1, <1>5 DEF Whole
<1> QED  BY <1>4, <1>6 DEF s, S

\* What is stored stays what it is when another sample is given, and is older.
LEMMA GivenMore ==
  ASSUME NEW g \in Seq(Samples), NEW x \in Samples, NEW r, IsRows(r, g)
  PROVE  /\ IsRows(r, Append(g, x))
         /\ Whole(r, g) => Whole(r, Append(g, x))
         /\ \A k \in DOMAIN r : r[k] < Len(Append(g, x))
<1> DEFINE h == Append(g, x)
<1>1. /\ Len(h) = Len(g) + 1 /\ Len(g) \in Nat
      /\ \A n \in 1..Len(g) : h[n] = g[n] /\ n \in 1..Len(h) /\ n < Len(h)
  OBVIOUS
<1> HIDE DEF h
<1>2. \A k \in DOMAIN r : r[k] \in 1..Len(g) /\ h[r[k]] = g[r[k]]
  BY <1>1 DEF IsRows
<1>3. IsRows(r, h)
  BY <1>1, <1>2 DEF IsRows
<1>4. Whole(r, g) => Whole(r, h)
  BY <1>2 DEF Whole
<1> QED  BY <1>1, <1>2, <1>3, <1>4 DEF h

\* A row of sample n comes in place of one with the same key.
LEMMA Replaced ==
  ASSUME NEW g \in Seq(Samples), NEW r, IsRows(r, g),
         NEW n \in 1..Len(g), NEW i \in g[n].ifs
  PROVE  IsRows(Replace(r, <<g[n].ts, i>>, n), g)
<1> DEFINE k == <<g[n].ts, i>>
           s == Replace(r, k, n)
<1>1. /\ DOMAIN s = {k} \union DOMAIN r /\ s = [j \in DOMAIN s |-> s[j]]
      /\ s[k] = n /\ \A j \in DOMAIN r : j # k => s[j] = r[j]
  BY DEF Replace
<1>2. k \in Times \X Interfaces /\ k[1] = g[n].ts /\ k[2] = i
  <2>1. g[n] \in Samples
    OBVIOUS
  <2>2. g[n].ts \in Times /\ i \in Interfaces
    BY <2>1 DEF Samples
  <2> QED  BY <2>2
<1> HIDE DEF k, s
<1>3. ASSUME NEW j \in DOMAIN s
      PROVE  /\ j \in Times \X Interfaces /\ s[j] \in 1..Len(g)
             /\ g[s[j]].ts = j[1] /\ j[2] \in g[s[j]].ifs
  BY <1>1, <1>2 DEF IsRows
<1> QED  BY <1>1, <1>3 DEF IsRows, k, s

LEMMA ReplacedOver ==
  ASSUME NEW r, NEW f, NEW done, NEW n, NEW k,
         Over(r, f, done, n)
  PROVE  Over(Replace(r, k, n), f, {k} \union done, n)
BY DEF Over, Replace

\* With all the rows of a newer sample, what was whole is whole.
LEMMA WholeOver ==
  ASSUME NEW g \in Seq(Samples), NEW r, NEW f, IsRows(f, g), Whole(f, g),
         NEW n \in 1..Len(g), Over(r, f, KeysOf(g[n]), n)
  PROVE  Whole(r, g)
<1> DEFINE K == KeysOf(g[n])
<1>1. \A k \in K : k[1] = g[n].ts /\ k[2] \in g[n].ifs
  BY DEF KeysOf
<1>2. \A i \in g[n].ifs : <<g[n].ts, i>> \in K
  BY DEF KeysOf
<1>3. /\ DOMAIN r = K \union DOMAIN f
      /\ \A k \in DOMAIN r : r[k] = IF k \in K THEN n ELSE f[k]
      /\ \A k \in DOMAIN f : f[k] < n /\ f[k] \in Nat /\ n \in Nat
  BY DEF Over, IsRows
<1> HIDE DEF K
<1>4. ASSUME NEW k \in DOMAIN r, NEW i \in g[r[k]].ifs
      PROVE  <<k[1], i>> \in DOMAIN r /\ r[<<k[1], i>>] >= r[k]
  <2>1. CASE k \in K
    BY <2>1, <1>1, <1>2, <1>3
  <2>2. CASE k \notin K
    <3>1. k \in DOMAIN f /\ r[k] = f[k]
      BY <2>2, <1>3
    <3>2. <<k[1], i>> \in DOMAIN f /\ f[<<k[1], i>>] >= f[k]
      BY <3>1 DEF Whole
    <3> QED  BY <3>1, <3>2, <1>3
  <2> QED  BY <2>1, <2>2
<1> QED  BY <1>4 DEF Whole

-----------------------------------------------------------------------------
\* The steps.

\* A step that changes only what the handler is to do next.
LEMMA StoreKept ==
  ASSUME DBInv, UNCHANGED <<file, view, tx, given, records>>,
         db_open' \in BOOLEAN, crashes' \in 0..MaxCrashes, OpTyped',
         op'.at \notin {"insert", "commit"}, op.at # "insert", op.at # "rollback"
  PROVE  DBInv'
BY DEF DBInv, Typed, Transaction, WholeStored

\* SQLite ends the transaction without it: the connection reads the file.
LEMMA UndoStep ==
  ASSUME DBInv, Undo, UNCHANGED <<given, records>>,
         db_open' \in BOOLEAN, crashes' \in 0..MaxCrashes, OpTyped',
         op'.at \notin {"insert", "commit"}
  PROVE  DBInv'
<1>1. view' = file /\ file' = file /\ tx' = FALSE
  BY DEF Undo
<1>2. Typed' /\ WholeStored'
  BY <1>1 DEF DBInv, Typed, WholeStored
<1>3. Transaction'
  BY <1>1 DEF DBInv, Transaction
<1> QED  BY <1>2, <1>3 DEF DBInv

LEMMA OpenStep ==
  ASSUME DBInv, OpenDatabase \/ CreateTables \/ Restart
  PROVE  DBInv'
<1>1. /\ UNCHANGED <<file, tx, given, records, crashes>> /\ view' = view
      /\ op.at \in {"open", "create", "off"} /\ db_open' \in BOOLEAN
      /\ ~tx
  BY DEF OpenDatabase, CreateTables, Restart, ghostVars, DBInv, OpTyped, Transaction, Typed
<1>2. OpTyped' /\ op'.at \notin {"insert", "commit"}
  BY <1>1 DEF OpenDatabase, CreateTables, Restart, OpTyped, Idle
<1> QED  BY <1>1, <1>2, StoreKept DEF DBInv, Typed

\* A statement outside of a transaction that leaves rows or records out.
LEMMA PruneStep ==
  ASSUME DBInv, (\E cutoff \in Times : PruneTraffic(cutoff)) \/ PruneDns
  PROVE  DBInv'
<1>1. /\ ~tx /\ view = file /\ UNCHANGED <<db_open, given, records, crashes>>
      /\ op.at \in {"prune_traffic", "prune_dns"}
  BY DEF PruneTraffic, PruneDns, ghostVars, DBInv, OpTyped, Transaction
<1>2. OpTyped' /\ op'.at \notin {"insert", "commit", "rollback"}
  <2>1. tx' = FALSE /\ op' \in {Idle} \union {[at |-> "prune_dns", cutoff |-> c] : c \in Times}
    BY <1>1 DEF PruneTraffic, PruneDns, Fail, Write, DBInv, Typed
  <2> QED  BY <2>1 DEF OpTyped, Idle
<1>3. ASSUME Fail PROVE DBInv'
  <2>1. UNCHANGED <<file, view, tx>>
    BY <1>1, <1>3 DEF Fail
  <2> QED  BY <1>1, <1>2, <2>1, StoreKept DEF DBInv, Typed
<1>4. ASSUME NEW s, Write(s), IsStore(s, given, records), Whole(s.rows, given)
      PROVE  DBInv'
  <2>1. view' = s /\ file' = s /\ tx' = FALSE
    BY <1>1, <1>4 DEF Write, DBInv, Typed
  <2>2. Typed' /\ WholeStored'
    BY <1>1, <1>4, <2>1 DEF DBInv, Typed, WholeStored
  <2>3. Transaction'
    BY <1>2, <2>1 DEF Transaction
  <2> QED  BY <1>2, <2>2, <2>3 DEF DBInv
<1>5. /\ view = [rows |-> view.rows, dns |-> view.dns]
      /\ IsRows(view.rows, given) /\ Whole(view.rows, given)
      /\ view.dns \subseteq [id : 1..records, ts : Times]
      /\ given \in Seq(Samples)
  BY <1>1 DEF DBInv, Typed, IsStore, WholeStored
<1>6. ASSUME NEW cutoff \in Times, PruneTraffic(cutoff) PROVE DBInv'
  <2> DEFINE S == {k \in DOMAIN view.rows : k[1] >= cutoff}
             s == [view EXCEPT !.rows = Restrict(view.rows, S)]
  <2>1. s = [rows |-> Restrict(view.rows, S), dns |-> view.dns]
    BY <1>5
  <2>2. IsRows(Restrict(view.rows, S), given) /\ Whole(Restrict(view.rows, S), given)
    BY <1>5, Pruned
  <2>3. Write(s) \/ Fail
    BY <1>6 DEF PruneTraffic
  <2> HIDE DEF S
  <2>4. s = [rows |-> s.rows, dns |-> s.dns] /\ s.rows = Restrict(view.rows, S)
        /\ s.dns = view.dns
    BY <2>1
  <2>5. IsStore(s, given, records) /\ Whole(s.rows, given)
    BY <1>5, <2>2, <2>4 DEF IsStore
  <2> QED  BY <1>3, <1>4, <2>3, <2>5
<1>7. ASSUME PruneDns PROVE DBInv'
  <2> DEFINE D == {r \in view.dns : r.ts >= op.cutoff}
             s == [view EXCEPT !.dns = D]
  <2>1. Write(s) \/ Fail
    BY <1>7 DEF PruneDns
  <2>2. D \subseteq view.dns
    OBVIOUS
  <2> HIDE DEF D
  <2>3. s = [rows |-> s.rows, dns |-> s.dns] /\ s.rows = view.rows /\ s.dns = D
    BY <1>5
  <2> HIDE DEF s
  <2>4. IsStore(s, given, records) /\ Whole(s.rows, given)
    BY <1>5, <2>2, <2>3 DEF IsStore
  <2> QED  BY <1>3, <1>4, <2>1, <2>4
<1> QED  BY <1>6, <1>7

\* Where a call of add_snapshots has its transaction, and nothing in it yet.
LEMMA AddSnapshotsStep ==
  ASSUME DBInv, NEW ts \in Times, NEW ifs \in SUBSET Interfaces, AddSnapshots(ts, ifs)
  PROVE  DBInv'
<1> DEFINE x == [ts |-> ts, ifs |-> ifs]
           h == Append(given, x)
<1>1. /\ op = Idle /\ given' = h
      /\ UNCHANGED <<file, view, db_open, records, crashes>>
      /\ \/ /\ ifs # {} /\ ~tx /\ tx' = TRUE
            /\ op' = [at |-> "insert", n |-> Len(h), left |-> ifs]
         \/ UNCHANGED <<tx, op>>
  BY DEF AddSnapshots
<1>2. /\ x \in Samples /\ given \in Seq(Samples) /\ h \in Seq(Samples)
      /\ Len(h) = Len(given) + 1 /\ Len(h) > 0 /\ h[Len(h)] = x
  BY DEF Samples, DBInv, Typed
<1>3. ASSUME NEW s, IsStore(s, given, records)
      PROVE  /\ IsStore(s, h, records)
             /\ Whole(s.rows, given) => Whole(s.rows, h)
             /\ \A k \in DOMAIN s.rows : s.rows[k] < Len(h)
  BY <1>2, <1>3, GivenMore DEF IsStore
<1>4. x.ts = ts /\ x.ifs = ifs
  OBVIOUS
<1> HIDE DEF h, x
<1>5. Typed'
  BY <1>1, <1>2, <1>3 DEF DBInv, Typed
<1>6. Whole(file.rows, h) /\ Whole(view.rows, h)
  BY <1>1, <1>3 DEF DBInv, Typed, WholeStored, Idle
<1>7. OpTyped' /\ WholeStored'
  BY <1>1, <1>6 DEF DBInv, OpTyped, WholeStored, Idle
<1>8. Transaction'
  <2>1. CASE UNCHANGED <<tx, op>>
    BY <1>1, <2>1 DEF DBInv, Transaction, Idle
  <2>2. CASE /\ ifs # {} /\ ~tx /\ tx' = TRUE
             /\ op' = [at |-> "insert", n |-> Len(h), left |-> ifs]
    <3>1. view = file /\ \A k \in DOMAIN file.rows : file.rows[k] < Len(h)
      BY <1>3, <2>2 DEF DBInv, Transaction, Typed
    <3>2. op'.at = "insert" /\ op'.n = Len(h) /\ op'.left = ifs
      BY <2>2
    <3>3. given'[op'.n] = x
      BY <1>1, <1>2, <3>2
    <3>4. {given'[op'.n].ts} \X (given'[op'.n].ifs \ op'.left) = {}
      BY <3>2, <3>3, <1>4
    <3>5. Over(view.rows, file.rows, {}, Len(h))
      BY <3>1 DEF Over
    <3>6. Written({given[op.n].ts} \X (given[op.n].ifs \ op.left))'
      BY <1>1, <1>2, <2>2, <3>1, <3>4, <3>5 DEF Written
    <3> QED  BY <1>1, <2>2, <3>2, <3>3, <3>6, <1>4 DEF Transaction
  <2> QED  BY <1>1, <2>1, <2>2
<1> QED  BY <1>5, <1>7, <1>8 DEF DBInv

\* Another row of the sample, or the batch fails and the call is to roll back.
LEMMA InsertStep ==
  ASSUME DBInv, NEW i \in Interfaces, InsertRow(i)
  PROVE  DBInv'
<1> DEFINE n == Len(given)
           k == <<given[n].ts, i>>
           s == [view EXCEPT !.rows = Replace(view.rows, k, n)]
           left == op.left
           done == {given[n].ts} \X (given[n].ifs \ left)
<1>1. /\ op.at = "insert" /\ i \in left /\ op.n = n
      /\ op = [at |-> "insert", n |-> n, left |-> left]
      /\ left \subseteq given[n].ifs
      /\ tx /\ view.dns = file.dns /\ n \in 1..Len(given)
      /\ Over(view.rows, file.rows, done, n)
      /\ UNCHANGED <<db_open, given, records, crashes>>
  <2>1. op.at = "insert" /\ i \in left /\ UNCHANGED <<db_open, given, records, crashes>>
    BY DEF InsertRow, ghostVars
  <2>2. op = [at |-> "insert", n |-> op.n, left |-> left]
    BY <2>1 DEF DBInv, OpTyped
  <2>3. op.n = n /\ left \subseteq given[n].ifs /\ Written(done)
    BY <2>1 DEF DBInv, Transaction
  <2>4. Len(given) \in Nat
    BY DEF DBInv, Typed
  <2> QED  BY <2>1, <2>2, <2>3, <2>4 DEF Written
<1>2. CASE Fail /\ op' = [at |-> "rollback"]
  <2>1. OpTyped'
    BY <1>2 DEF OpTyped
  <2>2. CASE Undo
    BY <1>1, <1>2, <2>1, <2>2, UndoStep DEF DBInv, Typed
  <2>3. CASE UNCHANGED <<file, view, tx>>
    <3>1. Typed' /\ WholeStored' /\ Transaction'
      BY <1>1, <1>2, <2>3 DEF DBInv, Typed, WholeStored, Transaction
    <3> QED  BY <2>1, <3>1 DEF DBInv
  <2> QED  BY <1>2, <2>2, <2>3 DEF Fail
<1>3. CASE /\ Write(s)
           /\ op' = IF left = {i} THEN [at |-> "commit"]
                                  ELSE [op EXCEPT !.left = @ \ {i}]
  <2>1. view' = s /\ file' = file /\ tx' = TRUE
    BY <1>1, <1>3 DEF Write
  <2>2. /\ view = [rows |-> view.rows, dns |-> view.dns]
        /\ IsRows(view.rows, given) /\ given \in Seq(Samples)
        /\ view.dns \subseteq [id : 1..records, ts : Times]
        /\ IsStore(file, given, records)
    BY DEF DBInv, Typed, IsStore
  <2>3. s.rows = Replace(view.rows, k, n) /\ s.dns = view.dns
        /\ s = [rows |-> s.rows, dns |-> s.dns]
    BY <2>2
  <2>4. IsRows(s.rows, given)
    BY <1>1, <2>2, <2>3, Replaced
  <2>5. Over(s.rows, file.rows, {k} \union done, n)
    BY <1>1, <2>3, ReplacedOver
  <2>6. {k} \union done = {given[n].ts} \X (given[n].ifs \ (left \ {i}))
    BY <1>1
  <2> HIDE DEF s
  <2>7. Typed'
    BY <1>1, <2>1, <2>2, <2>3, <2>4 DEF DBInv, Typed, IsStore
  <2>8. Whole(file.rows, given)
    BY DEF DBInv, WholeStored
  <2>9. CASE left = {i}
    <3>1. op' = [at |-> "commit"] /\ op'.at = "commit"
      BY <1>3, <2>9
    <3>2. {k} \union done = KeysOf(given[n])
      BY <2>6, <2>9 DEF KeysOf
    <3>3. Over(s.rows, file.rows, KeysOf(given[n]), n)
      BY <2>5, <3>2
    <3>4. Whole(s.rows, given)
      BY <1>1, <2>2, <2>8, <3>3, WholeOver DEF IsStore
    <3>5. WholeStored' /\ OpTyped'
      BY <1>1, <2>1, <2>8, <3>1, <3>4 DEF WholeStored, OpTyped
    <3>6. Transaction'
      BY <1>1, <2>1, <2>3, <3>1, <3>3 DEF Transaction, Written
    <3> QED  BY <2>7, <3>5, <3>6 DEF DBInv
  <2>10. CASE left # {i}
    <3>1. op' = [at |-> "insert", n |-> n, left |-> left \ {i}]
      BY <1>1, <1>3, <2>10
    <3>2. op'.at = "insert" /\ op'.n = n /\ op'.left = left \ {i} /\ op'.left # {}
          /\ op' = [at |-> "insert", n |-> op'.n, left |-> op'.left]
      BY <1>1, <2>10, <3>1
    <3>3. WholeStored' /\ OpTyped'
      BY <1>1, <2>1, <2>8, <3>2 DEF WholeStored, OpTyped
    <3>4. Over(s.rows, file.rows, {given[n].ts} \X (given[n].ifs \ op'.left), n)
      BY <2>5, <2>6, <3>2
    <3>5. Transaction'
      BY <1>1, <2>1, <2>3, <3>2, <3>4 DEF Transaction, Written
    <3> QED  BY <2>7, <3>3, <3>5 DEF DBInv
  <2> QED  BY <2>9, <2>10
<1>4. \/ /\ Write(s)
         /\ op' = IF left = {i} THEN [at |-> "commit"]
                                ELSE [op EXCEPT !.left = @ \ {i}]
      \/ Fail /\ op' = [at |-> "rollback"]
  BY <1>1 DEF InsertRow
<1> QED  BY <1>2, <1>3, <1>4

\* The commit makes the view the file, or fails and leaves the transaction open
\* or not; in no case has the view a part of the sample.
LEMMA CommitStep ==
  ASSUME DBInv, Commit
  PROVE  DBInv'
<1>1. /\ op.at = "commit" /\ op' = Idle
      /\ UNCHANGED <<db_open, given, records, crashes>>
      /\ (file' = view /\ tx' = FALSE /\ view' = view) \/ Fail
  BY DEF Commit, ghostVars
<1>2. OpTyped' /\ op'.at = "idle"
  BY <1>1 DEF OpTyped, Idle
<1>3. CASE Undo
  BY <1>1, <1>2, <1>3, UndoStep DEF DBInv, Typed
<1>4. CASE UNCHANGED <<file, view, tx>>
  BY <1>1, <1>2, <1>4, StoreKept DEF DBInv, Typed
<1>5. CASE file' = view /\ tx' = FALSE /\ view' = view
  <2>1. Typed' /\ WholeStored'
    BY <1>1, <1>2, <1>5 DEF DBInv, Typed, WholeStored
  <2>2. Transaction'
    BY <1>2, <1>5 DEF Transaction
  <2> QED  BY <1>2, <2>1, <2>2 DEF DBInv
<1> QED  BY <1>1, <1>3, <1>4, <1>5 DEF Fail

\* A record goes to the file, or to a transaction that was left open.
LEMMA RecordStep ==
  ASSUME DBInv, NEW ts \in Times, AddDnsLog(ts)
  PROVE  DBInv'
<1> DEFINE r == [id |-> records + 1, ts |-> ts]
           s == [view EXCEPT !.dns = view.dns \union {r}]
<1>1. /\ op = Idle /\ UNCHANGED <<db_open, op, given, crashes>>
      /\ records' = records + 1
      /\ Write(s) \/ Fail
  BY DEF AddDnsLog
<1>2. records \in Nat /\ records' \in Nat
      /\ \A d : d \subseteq [id : 1..records, ts : Times]
                => d \subseteq [id : 1..records', ts : Times]
  BY <1>1 DEF DBInv, Typed
<1>3. /\ op.at = "idle" /\ op'.at = "idle" /\ OpTyped'
  BY <1>1 DEF Idle, OpTyped
<1>4. ASSUME NEW v, IsStore(v, given, records)
      PROVE  IsStore(v, given, records')
  BY <1>2, <1>4 DEF IsStore
<1>5. CASE Write(s)
  <2>1. /\ view = [rows |-> view.rows, dns |-> view.dns]
        /\ IsStore(view, given, records')
    BY <1>4 DEF DBInv, Typed, IsStore
  <2>2. s.rows = view.rows /\ s.dns = view.dns \union {r}
        /\ s = [rows |-> s.rows, dns |-> s.dns]
    BY <2>1
  <2>3. r \in [id : 1..records', ts : Times]
    BY <1>1, <1>2
  <2> HIDE DEF s, r
  <2>4. IsStore(s, given, records')
    BY <2>1, <2>2, <2>3 DEF IsStore
  <2>5. view' = s /\ tx' = tx /\ (file' = file \/ file' = s) /\ (~tx => file' = s)
    BY <1>5 DEF Write
  <2>6. Typed'
    BY <1>1, <1>2, <1>4, <2>4, <2>5 DEF DBInv, Typed
  <2>7. WholeStored'
    BY <1>1, <1>3, <2>2, <2>5 DEF DBInv, WholeStored
  <2>8. Transaction'
    BY <1>3, <2>5 DEF Transaction
  <2> QED  BY <1>3, <2>6, <2>7, <2>8 DEF DBInv
<1>6. CASE Fail
  <2>1. /\ file' = file /\ (view' = view \/ view' = file)
        /\ tx' \in BOOLEAN /\ (~tx' => view' = file)
    BY <1>6 DEF Fail, Undo, DBInv, Typed, Transaction
  <2>2. Typed'
    BY <1>1, <1>2, <1>4, <2>1 DEF DBInv, Typed
  <2>3. WholeStored'
    BY <1>1, <1>3, <2>1 DEF DBInv, WholeStored
  <2>4. Transaction'
    BY <1>3, <2>1 DEF Transaction
  <2> QED  BY <1>3, <2>2, <2>3, <2>4 DEF DBInv
<1> QED  BY <1>1, <1>5, <1>6

\* The end of a handler that failed, of the connection and of the process.
LEMMA EndStep ==
  ASSUME DBInv, Rollback \/ Close \/ Crash
  PROVE  DBInv'
<1>1. /\ Undo /\ UNCHANGED <<given, records>>
      /\ db_open' \in BOOLEAN /\ crashes' \in 0..MaxCrashes
      /\ op' = Idle \/ op' = [at |-> "off"]
  <2>1. CASE Rollback \/ Close
    BY <2>1 DEF Rollback, Close, ghostVars, DBInv, Typed
  <2>2. CASE Crash
    <3>1. crashes \in 0..MaxCrashes /\ crashes < MaxCrashes /\ crashes' = crashes + 1
      BY <2>2 DEF Crash, DBInv, Typed
    <3>2. crashes' \in 0..MaxCrashes
      BY <3>1
    <3> QED  BY <2>2, <3>2 DEF Crash
  <2> QED  BY <2>1, <2>2
<1>2. OpTyped' /\ op'.at \notin {"insert", "commit"}
  BY <1>1 DEF OpTyped, Idle, Undo
<1> QED  BY <1>1, <1>2, UndoStep

LEMMA InitDBInv == Init => DBInv
<1> SUFFICES ASSUME Init PROVE DBInv
  OBVIOUS
<1>1. /\ file = Empty /\ view = Empty /\ tx = FALSE /\ db_open = FALSE
      /\ op = [at |-> "open"] /\ given = <<>> /\ records = 0 /\ crashes = 0
  BY DEF Init
<1>2. IsRows(<<>>, given) /\ Whole(<<>>, given)
  BY DEF IsRows, Whole
<1>3. Typed
  <2>1. IsStore(Empty, given, records)
    BY <1>2 DEF IsStore, Empty
  <2>2. given \in Seq(Samples)
    BY <1>1
  <2>3. crashes \in 0..MaxCrashes
    BY <1>1
  <2> QED  BY <1>1, <2>1, <2>2, <2>3 DEF Typed
<1>4. OpTyped /\ Transaction /\ WholeStored
  BY <1>1, <1>2 DEF OpTyped, Transaction, WholeStored, Empty
<1> QED  BY <1>3, <1>4 DEF DBInv

LEMMA NextDBInv == DBInv /\ [Next]_vars => DBInv'
<1> SUFFICES ASSUME DBInv, [Next]_vars PROVE DBInv'
  OBVIOUS
<1>1. CASE OpenDatabase \/ CreateTables \/ Restart
  BY <1>1, OpenStep
<1>2. CASE (\E cutoff \in Times : PruneTraffic(cutoff)) \/ PruneDns
  BY <1>2, PruneStep
<1>3. CASE \E ts \in Times, ifs \in SUBSET Interfaces : AddSnapshots(ts, ifs)
  BY <1>3, AddSnapshotsStep
<1>4. CASE \E i \in Interfaces : InsertRow(i)
  BY <1>4, InsertStep
<1>5. CASE Commit
  BY <1>5, CommitStep
<1>6. CASE \E ts \in Times : AddDnsLog(ts)
  BY <1>6, RecordStep
<1>7. CASE Rollback \/ Close \/ Crash
  BY <1>7, EndStep
<1>8. CASE UNCHANGED vars
  BY <1>8 DEF vars, DBInv, Typed, OpTyped, Transaction, Written, WholeStored
<1> QED  BY <1>1, <1>2, <1>3, <1>4, <1>5, <1>6, <1>7, <1>8 DEF Next

\* The inductive invariant, at any time.
THEOREM DatabaseInvariant == Spec => []DBInv
BY InitDBInv, NextDBInv, PTL DEF Spec

\* The file, what the connection reads and the handler in progress are of their
\* type: every row comes from a sample that was given, at its time.
THEOREM DatabaseTypeCorrect == Spec => []TypeOK
<1>1. DBInv => TypeOK
  <2> SUFFICES ASSUME DBInv PROVE TypeOK
    OBVIOUS
  <2>1. given \in Seq(Samples) /\ DOMAIN given = 1..Len(given)
    BY DEF DBInv, Typed
  <2>2. ASSUME NEW s \in {file, view}
        PROVE  /\ DOMAIN s.rows \subseteq Times \X Interfaces
               /\ \A k \in DOMAIN s.rows : s.rows[k] \in DOMAIN given
               /\ s.dns \subseteq [id : 1..records, ts : Times]
    BY <2>1 DEF DBInv, Typed, IsStore, IsRows
  <2> QED  BY <2>1, <2>2 DEF TypeOK, DBInv, Typed, OpTyped, Samples
<1> QED  BY <1>1, DatabaseInvariant, PTL

\* Between two handlers a query sees of each sample all rows or none, but for
\* those that were replaced or pruned, a failed commit included: the commit of
\* add_snapshots fails only after the last row is inserted.
THEOREM OnlyWholeSamples == Spec => []WholeSamplesShown
<1>1. DBInv => WholeSamplesShown
  <2> SUFFICES ASSUME DBInv, op = Idle, NEW k \in DOMAIN view.rows,
                      NEW i \in given[view.rows[k]].ifs
               PROVE  <<k[1], i>> \in DOMAIN view.rows
                      /\ view.rows[<<k[1], i>>] >= view.rows[k]
    BY DEF WholeSamplesShown
  <2>1. Whole(view.rows, given)
    BY DEF DBInv, WholeStored, Idle
  <2> QED  BY <2>1 DEF Whole
<1> QED  BY <1>1, DatabaseInvariant, PTL

\* Nothing given to the handlers reaches the file while the transaction of a
\* failed commit is open, whatever they are given.
THEOREM TransactionBlocks == Spec => OpenTransactionBlocks
<1>1. DBInv /\ [Next]_vars => [tx /\ op = Idle => file' = file /\ op'.at \in {"idle", "off"}]_vars
  <2> SUFFICES ASSUME DBInv, Next, tx, op = Idle
               PROVE  file' = file /\ op'.at \in {"idle", "off"}
    OBVIOUS
  <2>1. op.at = "idle"
    BY DEF Idle
  <2>2. ASSUME NEW ts \in Times, NEW ifs \in SUBSET Interfaces, AddSnapshots(ts, ifs)
        PROVE  file' = file /\ op' = op
    BY <2>2 DEF AddSnapshots
  <2>3. ASSUME NEW ts \in Times, AddDnsLog(ts)
        PROVE  file' = file /\ op' = op
    BY <2>3 DEF AddDnsLog, Write, Fail, Undo
  <2>4. ASSUME Close \/ Crash
        PROVE  file' = file /\ op'.at = "off"
    BY <2>4 DEF Close, Crash, Undo
  <2>5. \/ \E ts \in Times, ifs \in SUBSET Interfaces : AddSnapshots(ts, ifs)
        \/ \E ts \in Times : AddDnsLog(ts)
        \/ Close \/ Crash
    BY <2>1 DEF Next, OpenDatabase, CreateTables, PruneTraffic, PruneDns,
                InsertRow, Rollback, Commit, Restart
  <2> QED  BY <2>1, <2>2, <2>3, <2>4, <2>5
<1> QED  BY <1>1, DatabaseInvariant, PTL DEF Spec, OpenTransactionBlocks

-----------------------------------------------------------------------------
\* The file is a DurableStore.

\* A step that leaves the file alone is none of the store, or gives it a sample.
LEMMA FileKept ==
  ASSUME file' = file,
         \/ given' = given
         \/ given \in Seq(Samples) /\ \E x \in Samples : given' = Append(given, x)
  PROVE  DurableFile!Next \/ UNCHANGED DurableFile!dsVars
<1>1. CASE given' = given
  BY <1>1 DEF DurableFile!dsVars
<1>2. ASSUME given \in Seq(Samples), NEW x \in Samples, given' = Append(given, x)
      PROVE  DurableFile!Give
  <2>1. /\ Len(given) \in Nat /\ Len(given') = Len(given) + 1
        /\ SubSeq(given', 1, Len(given)) = given
    BY <1>2
  <2> QED  BY <2>1 DEF DurableFile!Give
<1> QED  BY <1>1, <1>2 DEF DurableFile!Next

LEMMA SameRestrict == \A f, S : DurableFile!Restrict(f, S) = Restrict(f, S)
BY DEF Restrict, DurableFile!Restrict

\* Outside of a transaction every statement of prune_old_data is a prune.
LEMMA PruneImplements ==
  ASSUME DBInv, (\E cutoff \in Times : PruneTraffic(cutoff)) \/ PruneDns
  PROVE  DurableFile!Next \/ UNCHANGED DurableFile!dsVars
<1>1. /\ ~tx /\ view = file /\ given' = given
      /\ file = [rows |-> file.rows, dns |-> file.dns]
  BY DEF PruneTraffic, PruneDns, ghostVars, DBInv, OpTyped, Transaction, Typed, IsStore
<1>2. ASSUME Fail PROVE file' = file
  BY <1>2 DEF Fail, Undo
<1>3. ASSUME NEW cutoff \in Times, PruneTraffic(cutoff)
      PROVE  DurableFile!PruneRows(cutoff) \/ file' = file
  <2> DEFINE R == Restrict(view.rows, {k \in DOMAIN view.rows : k[1] >= cutoff})
  <2>1. Write([view EXCEPT !.rows = R]) \/ Fail
    BY <1>3 DEF PruneTraffic
  <2>2. ASSUME Write([view EXCEPT !.rows = R]) PROVE DurableFile!PruneRows(cutoff)
    <3>1. R = DurableFile!Restrict(file.rows, {k \in DOMAIN file.rows : k[1] >= cutoff})
      BY <1>1, SameRestrict
    <3> HIDE DEF R
    <3>2. file'.rows = R /\ file'.dns = file.dns
      BY <1>1, <2>2 DEF Write
    <3> QED  BY <1>1, <3>1, <3>2 DEF DurableFile!PruneRows
  <2> QED  BY <1>2, <2>1, <2>2
<1>4. ASSUME PruneDns PROVE DurableFile!PruneDns(op.cutoff) \/ file' = file
  <2> DEFINE D == {r \in view.dns : r.ts >= op.cutoff}
  <2>1. Write([view EXCEPT !.dns = D]) \/ Fail
    BY <1>4 DEF PruneDns
  <2>2. ASSUME Write([view EXCEPT !.dns = D]) PROVE DurableFile!PruneDns(op.cutoff)
    <3>1. D = {r \in file.dns : r.ts >= op.cutoff}
      BY <1>1
    <3> HIDE DEF D
    <3>2. file'.dns = D /\ file'.rows = file.rows
      BY <1>1, <2>2 DEF Write
    <3> QED  BY <1>1, <3>1, <3>2 DEF DurableFile!PruneDns
  <2> QED  BY <1>2, <2>1, <2>2
<1>5. PruneDns => op.cutoff \in Times
  BY DEF PruneDns, DBInv, OpTyped
<1> QED  BY <1>1, <1>3, <1>4, <1>5, FileKept DEF DurableFile!Next

\* The commit stores the sample of the call, over rows that are all older.
LEMMA CommitImplements ==
  ASSUME DBInv, Commit
  PROVE  DurableFile!Next \/ UNCHANGED DurableFile!dsVars
<1> DEFINE n == Len(given)
           K == KeysOf(given[n])
<1>1. /\ given' = given
      /\ (file' = view /\ tx' = FALSE /\ view' = view) \/ Fail
      /\ op.at = "commit"
  BY DEF Commit, ghostVars
<1>2. CASE Fail
  BY <1>1, <1>2, FileKept DEF Fail, Undo
<1>3. CASE file' = view
  <2>1. /\ Over(view.rows, file.rows, K, n) /\ view.dns = file.dns
        /\ n \in DOMAIN given
        /\ view.rows = [k \in DOMAIN view.rows |-> view.rows[k]]
    BY <1>1 DEF DBInv, Transaction, Written, Typed, IsStore, IsRows
  <2>2. K = DurableFile!KeysOf(n)
    BY DEF KeysOf, DurableFile!KeysOf
  <2> HIDE DEF K, n
  <2>3. view.rows = [k \in K \union DOMAIN file.rows |->
                       IF k \in K THEN n ELSE file.rows[k]]
    BY <2>1 DEF Over
  <2>4. \A k \in DOMAIN file.rows : file.rows[k] < n
    BY <2>1 DEF Over
  <2>5. DurableFile!Store(n)
    BY <1>1, <1>3, <2>1, <2>2, <2>3, <2>4 DEF DurableFile!Store
  <2> QED  BY <2>1, <2>5 DEF DurableFile!Next
<1> QED  BY <1>1, <1>2, <1>3

\* A record that is written outside of a transaction is a new one.
LEMMA RecordImplements ==
  ASSUME DBInv, NEW ts \in Times, AddDnsLog(ts)
  PROVE  DurableFile!Next \/ UNCHANGED DurableFile!dsVars
<1> DEFINE r == [id |-> records + 1, ts |-> ts]
           s == [view EXCEPT !.dns = view.dns \union {r}]
<1>1. given' = given /\ (Write(s) \/ Fail)
  BY DEF AddDnsLog
<1>2. CASE Fail \/ tx
  BY <1>1, <1>2, FileKept DEF Fail, Undo, Write
<1>3. CASE Write(s) /\ ~tx
  <2>1. view = file /\ file = [rows |-> file.rows, dns |-> file.dns]
        /\ file.dns \subseteq [id : 1..records, ts : Times] /\ records \in Nat
    BY <1>3 DEF DBInv, Transaction, Typed, IsStore
  <2>2. r \notin file.dns
    BY <2>1
  <2> HIDE DEF r
  <2>3. file' = s /\ file'.rows = file.rows /\ file'.dns = file.dns \union {r}
    BY <1>3, <2>1 DEF Write
  <2>4. DurableFile!Record
    BY <1>1, <2>2, <2>3 DEF DurableFile!Record
  <2> QED  BY <2>4 DEF DurableFile!Next
<1> QED  BY <1>1, <1>2, <1>3

LEMMA NextImplements ==
  DBInv /\ [Next]_vars => DurableFile!Next \/ UNCHANGED DurableFile!dsVars
<1> SUFFICES ASSUME DBInv, [Next]_vars
             PROVE  DurableFile!Next \/ UNCHANGED DurableFile!dsVars
  OBVIOUS
<1>1. CASE OpenDatabase \/ CreateTables \/ Restart \/ Rollback \/ Close \/ Crash
           \/ UNCHANGED vars
  <2>1. file' = file /\ given' = given
    BY <1>1 DEF OpenDatabase, CreateTables, Restart, Rollback, Close, Crash, Undo,
                ghostVars, vars
  <2> QED  BY <2>1, FileKept
<1>2. CASE (\E cutoff \in Times : PruneTraffic(cutoff)) \/ PruneDns
  BY <1>2, PruneImplements
<1>3. ASSUME NEW ts \in Times, NEW ifs \in SUBSET Interfaces, AddSnapshots(ts, ifs)
      PROVE  DurableFile!Next \/ UNCHANGED DurableFile!dsVars
  <2>1. /\ file' = file /\ given' = Append(given, [ts |-> ts, ifs |-> ifs])
        /\ [ts |-> ts, ifs |-> ifs] \in Samples /\ given \in Seq(Samples)
    BY <1>3 DEF AddSnapshots, Samples, DBInv, Typed
  <2> QED  BY <2>1, FileKept
<1>4. ASSUME NEW i \in Interfaces, InsertRow(i)
      PROVE  file' = file /\ given' = given
  BY <1>4 DEF InsertRow, Write, Fail, Undo, ghostVars, DBInv, Transaction, Written
<1>5. CASE Commit
  BY <1>5, CommitImplements
<1>6. CASE \E ts \in Times : AddDnsLog(ts)
  BY <1>6, RecordImplements
<1> QED  BY <1>1, <1>2, <1>3, <1>4, <1>5, <1>6, FileKept DEF Next

\* Whatever statements fail and wherever the process is killed, the file holds
\* whole samples only, later ones over earlier ones, and loses nothing that no
\* prune removed.
THEOREM FileIsDurable == Spec => ImplementsDurableStore
<1>1. Init => DurableFile!Init
  BY DEF Init, Empty, DurableFile!Init
<1>2. DBInv /\ [Next]_vars => [DurableFile!Next]_DurableFile!dsVars
  BY NextImplements
<1> QED  BY <1>1, <1>2, DatabaseInvariant, PTL DEF Spec, ImplementsDurableStore, DurableFile!Spec
=============================================================================
