---------------------------- MODULE RotatingFile ----------------------------
(***************************************************************************)
(* rotating_file_sink and the file_helper under it, as log.cpp sets them   *)
(* up: a file that is renamed to log.1, log.2, ... when it would grow over *)
(* max_size_.  The mutex of base_sink makes the calls atomic to each other *)
(* but not to the disk: every system call of a rotation is a step, writes, *)
(* renames and opens may fail and the process may be killed in between.    *)
(***************************************************************************)
EXTENDS Integers, Sequences, SequencesExt, Functions

CONSTANTS
  MaxSize,      \* max_size_, from LOG_FILE_SIZE
  MaxFiles,     \* max_files_, from LOG_FILE_COUNT
  Sizes,        \* the sizes a formatted message may have
  MaxMessages,  \* bound: messages logged
  MaxFaults     \* bound: crashes and failed system calls

\* The constructor throws for a max_size of zero.
ASSUME RotatingFileAssumption ==
  /\ MaxSize \in Nat \ {0} /\ MaxFiles \in Nat
  /\ Sizes \subseteq Nat \ {0}
  /\ MaxMessages \in Nat /\ MaxFaults \in Nat

VARIABLES
  disk,           \* the files by index, each a sequence of messages
  buffer,         \* what fwrite has put into the buffer of fd_
  fd_,            \* whether file 0 is open
  current_size_,
  op,             \* the call in progress and where it stands
  next,           \* the number of the next message
  faults

vars == <<disk, buffer, fd_, current_size_, op, next, faults>>

\* A message, or the piece of one that a failed write has left: its size is
\* what is there of it, and it is counted once current_size_ includes it.
Message == [n : 1..MaxMessages, size : Nat \ {0}, counted : BOOLEAN]
Idle == [at |-> "idle"]
Off == [at |-> "off"]

File(i) == IF i \in DOMAIN disk THEN disk[i] ELSE <<>>

With(files, i, s) ==
  [j \in DOMAIN files \union {i} |-> IF j = i THEN s ELSE files[j]]
Without(files, S) == Restrict(files, DOMAIN files \ S)

Total(w) ==
  LET sum[k \in 0..Len(w)] == IF k = 0 THEN 0 ELSE sum[k - 1] + w[k]
  IN sum[Len(w)]
SizeOf(s) == Total([k \in DOMAIN s |-> s[k].size])
CountedSize(s) ==
  Total([k \in DOMAIN s |-> IF s[k].counted THEN s[k].size ELSE 0])

TypeOK ==
  /\ DOMAIN disk \subseteq 0..MaxFiles
  /\ \A i \in DOMAIN disk : disk[i] \in Seq(Message)
  /\ buffer \in Seq(Message)
  /\ fd_ \in BOOLEAN
  /\ current_size_ \in Nat
  /\ op \in {Off, Idle}
           \union [at : {"write"}, msg : Message, new_size : Nat]
           \union [at : {"remove", "rename"}, i : 0..MaxFiles, msg : Message]
  /\ next \in 1..(MaxMessages + 1)
  /\ faults \in 0..MaxFaults

Init ==
  /\ disk = <<>> /\ buffer = <<>>
  /\ fd_ = FALSE /\ current_size_ = 0
  /\ op = Off
  /\ next = 1 /\ faults = 0

Fault == faults < MaxFaults /\ faults' = faults + 1
NoFault == UNCHANGED faults

\* Mutant of OpenSink: the size of an existing file is not taken over.
OpenSinkUncounted ==
  /\ op = Off
  /\ disk' = With(disk, 0, File(0))
  /\ fd_' = TRUE
  /\ current_size_' = 0
  /\ op' = Idle
  /\ UNCHANGED <<buffer, next>> /\ NoFault

\* Mutant of OpenSink: the file is opened as after a rotation.
OpenSinkTruncating ==
  /\ op = Off
  /\ disk' = With(disk, 0, <<>>)
  /\ fd_' = TRUE
  /\ current_size_' = 0
  /\ op' = Idle
  /\ UNCHANGED <<buffer, next>> /\ NoFault

\* The constructor: the file is appended to, its size is where counting starts.
OpenSink ==
  /\ op = Off
  /\ disk' = With(disk, 0, File(0))
  /\ fd_' = TRUE
  /\ current_size_' = SizeOf(File(0))
  /\ op' = Idle
  /\ UNCHANGED <<buffer, next>> /\ NoFault

Flushed == IF fd_ THEN With(disk, 0, File(0) \o buffer) ELSE disk

\* The first k messages of s, of the last one only the first b bytes.
Cut(s, k, b) == Append(SubSeq(s, 1, k - 1), [s[k] EXCEPT !.size = b])

\* How much of s is on the disk when writing it fails on the way.
Torn(s) ==
  {<<>>} \union
    (UNION {{Cut(s, k, b) : b \in 1..s[k].size} : k \in 1..Len(s)} \ {s})

\* The write system call fails, on a full disk: the bytes written before stay,
\* the C library drops the others together with its buffer.
LeaveTorn(s) ==
  /\ \E part \in Torn(s) : disk' = With(disk, 0, File(0) \o part)
  /\ buffer' = <<>>

-----------------------------------------------------------------------------
(* sink_it_ *)

NewMessage(size) == [n |-> next, size |-> size, counted |-> FALSE]

\* The message fits: it goes on to file_helper::write.
FitsInFile(size) ==
  /\ current_size_ + size <= MaxSize
  /\ op' = [at |-> "write", msg |-> NewMessage(size),
            new_size |-> current_size_ + size]
  /\ UNCHANGED <<disk, buffer, fd_>>

\* It does not, but nothing has reached the file yet: it is not rotated.
FileStillEmpty(size) ==
  /\ current_size_ + size > MaxSize
  /\ fd_ /\ File(0) \o buffer = <<>>
  /\ op' = [at |-> "write", msg |-> NewMessage(size),
            new_size |-> current_size_ + size]
  /\ UNCHANGED <<disk, buffer, fd_>>

\* It does not: the file is flushed and closed, and rotate_ begins.
StartRotation(size) ==
  /\ current_size_ + size > MaxSize
  /\ fd_ /\ File(0) \o buffer # <<>>
  /\ disk' = Flushed /\ buffer' = <<>>
  /\ fd_' = FALSE
  /\ op' = [at |-> "remove", i |-> MaxFiles, msg |-> NewMessage(size)]

\* Or it cannot be flushed, which drops the message with what was buffered.
CannotFlush(size) ==
  /\ current_size_ + size > MaxSize
  /\ fd_ /\ buffer # <<>>
  /\ LeaveTorn(buffer)
  /\ op' = Idle
  /\ UNCHANGED fd_

\* file_helper_.size() throws when an earlier rotation left no file open.
NoFileToMeasure(size) ==
  /\ current_size_ + size > MaxSize
  /\ ~fd_
  /\ op' = Idle
  /\ UNCHANGED <<disk, buffer, fd_>>

SinkIt(size) ==
  /\ op = Idle
  /\ next <= MaxMessages
  /\ next' = next + 1
  /\ \/ /\ \/ FitsInFile(size)
           \/ FileStillEmpty(size)
           \/ StartRotation(size)
           \/ NoFileToMeasure(size)
        /\ NoFault
     \/ CannotFlush(size) /\ Fault
  /\ UNCHANGED current_size_

\* Mutant of Write: a closed file is opened again.
WriteReopening ==
  /\ op.at = "write"
  /\ disk' = With(disk, 0, File(0))
  /\ fd_' = TRUE
  /\ buffer' = Append(buffer, [op.msg EXCEPT !.counted = TRUE])
  /\ current_size_' = op.new_size
  /\ op' = Idle
  /\ UNCHANGED next /\ NoFault

\* file_helper::write drops the message silently when no file is open.
Write ==
  /\ op.at = "write"
  /\ buffer' = IF fd_ THEN Append(buffer, [op.msg EXCEPT !.counted = TRUE])
               ELSE buffer
  /\ current_size_' = op.new_size
  /\ op' = Idle
  /\ UNCHANGED <<disk, fd_, next>> /\ NoFault

\* fwrite fails: the exception leaves current_size_ as it was, also when a
\* piece of the message is in the file.
WriteFails ==
  /\ op.at = "write" /\ fd_
  /\ LeaveTorn(Append(buffer, op.msg))
  /\ op' = Idle
  /\ UNCHANGED <<fd_, current_size_, next>> /\ Fault

-----------------------------------------------------------------------------
(* rotate_: from the oldest file down, file i - 1 becomes file i *)

\* rename_file_ removes the target first.
RemoveTarget ==
  /\ op.at = "remove" /\ op.i > 0
  /\ \/ /\ op.i - 1 \notin DOMAIN disk
        /\ op' = [op EXCEPT !.i = @ - 1]
        /\ UNCHANGED disk
     \/ /\ op.i - 1 \in DOMAIN disk
        /\ op' = [op EXCEPT !.at = "rename"]
        /\ disk' = Without(disk, {op.i})
  /\ UNCHANGED <<buffer, fd_, current_size_, next>> /\ NoFault

Rename ==
  /\ op.at = "rename"
  /\ disk' = With(Without(disk, {op.i - 1}), op.i, disk[op.i - 1])
  /\ op' = [op EXCEPT !.at = "remove", !.i = @ - 1]
  /\ UNCHANGED <<buffer, fd_, current_size_, next>> /\ NoFault

\* It fails twice: the file is truncated anyway and the message is dropped.
RenameFails ==
  /\ op.at = "rename"
  /\ disk' = With(disk, 0, <<>>)
  /\ fd_' = TRUE
  /\ current_size_' = 0
  /\ op' = Idle
  /\ UNCHANGED <<buffer, next>> /\ Fault

\* reopen(true) fails five times, after the rename failed or after all are
\* renamed; the exception leaves current_size_ as it was.
ReopenFails ==
  /\ op.at = "rename" \/ (op.at = "remove" /\ op.i = 0)
  /\ fd_' = FALSE
  /\ disk' \in {disk, With(disk, 0, <<>>)}
  /\ op' = Idle
  /\ UNCHANGED <<buffer, current_size_, next>> /\ Fault

Reopen ==
  /\ op.at = "remove" /\ op.i = 0
  /\ disk' = With(disk, 0, <<>>)
  /\ fd_' = TRUE
  /\ op' = [at |-> "write", msg |-> op.msg, new_size |-> op.msg.size]
  /\ UNCHANGED <<buffer, current_size_, next>> /\ NoFault

-----------------------------------------------------------------------------
(* flush, the end of the process and its next start *)

\* flush_, called by flush_every and at shutdown; the C library also writes
\* the buffer out by itself when it is full.
Flush ==
  /\ op = Idle /\ fd_ /\ buffer # <<>>
  /\ \E k \in 1..Len(buffer) :
       /\ disk' = With(disk, 0, File(0) \o SubSeq(buffer, 1, k))
       /\ buffer' = SubSeq(buffer, k + 1, Len(buffer))
  /\ UNCHANGED <<fd_, current_size_, op, next>> /\ NoFault

FlushFails ==
  /\ op = Idle /\ fd_ /\ buffer # <<>>
  /\ LeaveTorn(buffer)
  /\ UNCHANGED <<fd_, current_size_, op, next>> /\ Fault

\* ~file_helper
CloseSink ==
  /\ op = Idle
  /\ disk' = Flushed /\ buffer' = <<>>
  /\ fd_' = FALSE
  /\ op' = Off
  /\ UNCHANGED <<current_size_, next>> /\ NoFault

\* It ignores that fclose may fail to write what is buffered.
CloseFails ==
  /\ op = Idle /\ fd_ /\ buffer # <<>>
  /\ LeaveTorn(buffer)
  /\ fd_' = FALSE
  /\ op' = Off
  /\ UNCHANGED <<current_size_, next>> /\ Fault

\* The process may be killed while it writes.
Crash ==
  /\ op # Off
  /\ IF fd_ THEN LeaveTorn(IF op.at = "write" THEN Append(buffer, op.msg)
                           ELSE buffer)
     ELSE UNCHANGED <<disk, buffer>>
  /\ fd_' = FALSE
  /\ op' = Off
  /\ UNCHANGED <<current_size_, next>> /\ Fault

Next ==
  \/ OpenSink
  \/ \E size \in Sizes : SinkIt(size)
  \/ Write \/ WriteFails
  \/ RemoveTarget \/ Rename \/ RenameFails \/ ReopenFails \/ Reopen
  \/ Flush \/ FlushFails
  \/ CloseSink \/ CloseFails
  \/ Crash

Spec == Init /\ [][Next]_vars

-----------------------------------------------------------------------------
(* Properties *)

\* Read from the oldest file to the newest, the files are a RecentLog through
\* every rename of a rotation, every crash inside of it, the holes that a
\* failed rename leaves in the chain, the writes that end half-way, and the
\* rotations after a restart.
Joined(s) ==
  LET joined[k \in 0..Len(s)] == IF k = 0 THEN <<>> ELSE joined[k - 1] \o s[k]
  IN joined[Len(s)]
Oldest2Newest ==
  Joined([j \in 1..(MaxFiles + 1) |-> File(MaxFiles + 1 - j)]) \o buffer
Files ==
  INSTANCE RecentLog WITH
    log <- [j \in DOMAIN Oldest2Newest |-> Oldest2Newest[j].n]
ImplementsRecentLog == Files!Spec

\* Whatever fails and however often the program restarts, what current_size_
\* has counted of the messages in a file does not exceed max_size_, unless it
\* is a single one.  Only the pieces that failed calls of fwrite have left, which
\* are never counted, come on top.
SizeBounded ==
  \A i \in 0..MaxFiles :
    LET s == IF i = 0 THEN File(0) \o buffer ELSE File(i)
    IN CountedSize(s) > MaxSize =>
         \A j, k \in DOMAIN s : s[j].counted /\ s[k].counted => j = k

\* A rotation that cannot open the file anew is never retried: until the
\* process ends, all further messages are dropped, some without an error.
NeverReopened ==
  [][op.at \in {"idle", "write"} /\ ~fd_ => ~fd_' /\ disk' = disk]_vars
============================================================================
