------------------------------ MODULE Workers -------------------------------
(***************************************************************************)
(* The threads of the program from its start to its end: the UI thread,    *)
(* which runs main and the destructor of main_window, the event loops of   *)
(* the three workers, the capture thread that PcapPlusPlus starts for      *)
(* dns_collector, and the thread of spdlog that flushes the log.  What the *)
(* handlers compute is in MainWindow, DnsPage and DatabaseManager, what    *)
(* the log does to its files in RotatingFile; here a sample or a packet is *)
(* only a number, and of the log only whether all of it is flushed.        *)
(*                                                                         *)
(* External, from its use: QThread::quit makes the loop return once the    *)
(* events it is serving are served, what is queued later is dropped with   *)
(* the worker; a QThread that is destroyed while it runs aborts the        *)
(* process; stopCapture returns when the capture thread has ended.         *)
(***************************************************************************)
EXTENDS Naturals, Sequences, SequencesExt

CONSTANTS
  NoOne,           \* the owner of a free mutex
  MaxSamples,      \* bound: samples collected
  MaxPackets       \* bound: packets captured

ASSUME WorkersAssumption ==
  /\ MaxSamples \in Nat /\ MaxPackets \in Nat
  /\ NoOne \notin {"main", "flusher"}

VARIABLES
  main,            \* where the UI thread is: its event loop, the thread it
                   \* waits for in ~main_window, or what comes after
  loop,            \* the state of each worker's thread
  quit,            \* QThread::quit was called
  inbox,           \* the events posted to each worker
  uiq,             \* the events posted to main_window
  timer,           \* collection_timer_ is active
  device_,         \* dns_collector::device_ is not null
  capture,         \* the capture thread: "off", "listening", "packet"
  stopping,        \* stopCapture was called
  collected,       \* by kind, how many samples and packets there were
  stored,          \* by kind, those that the database was given, in order
  logger,          \* the default logger exists
  buffered,        \* the buffer of the log file is not empty
  flusher,         \* where the thread of periodic_worker is
  active_,         \* periodic_worker::active_
  mutex_,          \* the owner of periodic_worker::mutex_
  logger_map_mutex_

vars == <<main, loop, quit, inbox, uiq, timer, device_, capture, stopping,
          collected, stored, logger, buffered, flusher, active_, mutex_,
          logger_map_mutex_>>
workerVars == <<loop, quit, inbox, uiq, timer, device_, capture, stopping,
                collected, stored>>
flusherVars == <<flusher, active_, mutex_, logger_map_mutex_>>
logVars == <<logger, buffered, flusherVars>>
captureVars == <<device_, capture, stopping>>
dataVars == <<collected, stored>>

Threads == {"dns", "data", "db"}
Kinds == {"sample", "packet"}
Limit == [sample |-> MaxSamples, packet |-> MaxPackets]

Start == <<"start", 0>>

\* The order in which ~main_window ends the threads.
After == [exec |-> "dns", dns |-> "data", data |-> "db", db |-> "cleaned"]

TypeOK ==
  /\ main \in {"exec", "dns", "data", "db", "cleaned", "window_gone",
               "flushed", "joining", "dropping", "exited", "aborted"}
  /\ loop \in [Threads -> {"starting", "running", "leaving", "finished"}]
  /\ quit \in [Threads -> BOOLEAN]
  /\ inbox \in [Threads -> Seq(({"start"} \union Kinds) \X Nat)]
  /\ uiq \in Seq(Kinds \X Nat)
  /\ timer \in BOOLEAN /\ device_ \in BOOLEAN
  /\ capture \in {"off", "listening", "packet"}
  /\ stopping \in BOOLEAN
  /\ \A k \in Kinds : collected[k] \in 0..Limit[k]
  /\ stored \in [Kinds -> Seq(Nat)]
  /\ logger \in BOOLEAN /\ buffered \in BOOLEAN /\ active_ \in BOOLEAN
  /\ flusher \in {"lock", "check", "wait", "woken", "callback", "flush", "ended"}
  /\ {mutex_, logger_map_mutex_} \subseteq {NoOne, "main", "flusher"}

\* The end of setup_workers: the threads run, and the collectors are told to
\* start; database_manager::initialize is called before its loop begins.
Init ==
  /\ main = "exec"
  /\ loop = [t \in Threads |-> IF t = "db" THEN "starting" ELSE "running"]
  /\ quit = [t \in Threads |-> FALSE]
  /\ inbox = [t \in Threads |-> IF t = "db" THEN <<>> ELSE <<Start>>]
  /\ uiq = <<>>
  /\ timer = FALSE
  /\ device_ = FALSE /\ capture = "off" /\ stopping = FALSE
  /\ collected = [k \in Kinds |-> 0]
  /\ stored = [k \in Kinds |-> <<>>]
  /\ logger = TRUE /\ buffered = FALSE
  /\ flusher = "lock" /\ active_ = TRUE
  /\ mutex_ = NoOne /\ logger_map_mutex_ = NoOne

-----------------------------------------------------------------------------
(* The workers *)

Alive == main # "aborted"

\* The collectors emit; the queued connection appends to the queue of the UI.
Emit(kind) ==
  /\ collected' = [collected EXCEPT ![kind] = @ + 1]
  /\ uiq' = Append(uiq, <<kind, collected'[kind]>>)
  /\ UNCHANGED stored

NextEvent(t) ==
  /\ Alive /\ loop[t] = "running"
  /\ inbox[t] # <<>>
  /\ inbox' = [inbox EXCEPT ![t] = Tail(@)]
  /\ UNCHANGED <<main, loop, quit, logVars>>

StartCollection ==
  /\ NextEvent("data")
  /\ timer' = TRUE
  /\ UNCHANGED <<uiq, captureVars, dataVars>>

CollectStats ==
  /\ Alive /\ loop["data"] = "running" /\ timer
  /\ collected["sample"] < MaxSamples
  /\ Emit("sample")
  /\ UNCHANGED <<main, loop, quit, inbox, timer, captureVars, logVars>>

\* The device may be missing, not open, refuse the filter, or not start:
\* in all but the last case device_ is null again.
StartCapture ==
  /\ NextEvent("dns")
  /\ \/ device_' = TRUE /\ capture' \in {"off", "listening"}
     \/ UNCHANGED <<device_, capture>>
  /\ UNCHANGED <<uiq, timer, stopping, dataVars>>

\* Packets that are buffered already are still delivered after stopCapture has
\* told the capture thread to end.
PacketArrived ==
  /\ Alive
  /\ capture = "listening"
  /\ collected["packet"] < MaxPackets
  /\ capture' = "packet"
  /\ UNCHANGED <<main, loop, quit, inbox, uiq, timer, device_, stopping,
                 dataVars, logVars>>

\* Mutant of ProcessPacket: the signal waits for its slot to be executed.
ProcessPacketBlocking ==
  /\ main = "exec" /\ capture = "packet"
  /\ capture' = "listening"
  /\ Emit("packet")
  /\ UNCHANGED <<main, loop, quit, inbox, timer, device_, stopping, logVars>>

\* A packet without a dns layer or a query emits nothing.
ProcessPacket ==
  /\ Alive
  /\ capture = "packet"
  /\ capture' = "listening"
  /\ Emit("packet") \/ UNCHANGED <<uiq, dataVars>>
  /\ UNCHANGED <<main, loop, quit, inbox, timer, device_, stopping, logVars>>

Initialize ==
  /\ Alive /\ loop["db"] = "starting"
  /\ loop' = [loop EXCEPT !["db"] = "running"]
  /\ UNCHANGED <<main, quit, inbox, uiq, timer, captureVars, dataVars, logVars>>

\* add_snapshots or add_dns_log
StoreEvent ==
  /\ NextEvent("db")
  /\ LET e == Head(inbox["db"])
     IN stored' = [stored EXCEPT ![e[1]] = Append(@, e[2])]
  /\ UNCHANGED <<uiq, timer, captureVars, collected>>

\* exec() of the thread returns and finished() is emitted, upon which the
\* worker is deleted in its own thread and what it was posted is dropped.
LeaveLoop(t) ==
  /\ Alive
  /\ loop[t] = "running" /\ quit[t]
  /\ loop' = [loop EXCEPT ![t] = "leaving"]
  /\ inbox' = [inbox EXCEPT ![t] = <<>>]
  /\ timer' = (timer /\ t # "data")
  /\ UNCHANGED <<main, quit, uiq, captureVars, dataVars, logVars>>

\* ~dns_collector calls stop_capture ...
StopCapture ==
  /\ Alive
  /\ loop["dns"] = "leaving" /\ device_ /\ ~stopping
  /\ stopping' = TRUE
  /\ UNCHANGED <<main, loop, quit, inbox, uiq, timer, device_, capture,
                 dataVars, logVars>>

\* ... which waits for the capture thread and closes the device.
CaptureStopped ==
  /\ Alive
  /\ stopping /\ capture # "packet"
  /\ capture' = "off"
  /\ device_' = FALSE
  /\ stopping' = FALSE
  /\ UNCHANGED <<main, loop, quit, inbox, uiq, timer, dataVars, logVars>>

\* Mutant of FinishThread: ~dns_collector leaves the capture as it is.
FinishThreadAnyway(t) ==
  /\ Alive /\ loop[t] = "leaving"
  /\ loop' = [loop EXCEPT ![t] = "finished"]
  /\ UNCHANGED <<main, quit, inbox, uiq, timer, captureVars, dataVars, logVars>>

FinishThread(t) ==
  /\ Alive
  /\ loop[t] = "leaving"
  /\ t = "dns" => ~device_
  /\ loop' = [loop EXCEPT ![t] = "finished"]
  /\ UNCHANGED <<main, quit, inbox, uiq, timer, captureVars, dataVars, logVars>>

-----------------------------------------------------------------------------
(* The UI thread *)

\* Mutant of ForwardEvent: the newest event is taken first.
ForwardLatest ==
  /\ main = "exec" /\ uiq # <<>>
  /\ uiq' = Front(uiq)
  /\ inbox' = [inbox EXCEPT !["db"] = Append(@, Last(uiq))]
  /\ UNCHANGED <<main, loop, quit, timer, captureVars, dataVars, logVars>>

\* Mutant of ForwardEvent: packets are not passed on to the database.
ForwardSamplesOnly ==
  /\ main = "exec" /\ uiq # <<>>
  /\ uiq' = Tail(uiq)
  /\ inbox' = [inbox EXCEPT !["db"] =
       IF Head(uiq)[1] = "sample" THEN Append(@, Head(uiq)) ELSE @]
  /\ UNCHANGED <<main, loop, quit, timer, captureVars, dataVars, logVars>>

\* handle_stats_collected and handle_dns_packet_collected
ForwardEvent ==
  /\ main = "exec" /\ uiq # <<>>
  /\ uiq' = Tail(uiq)
  /\ inbox' = [inbox EXCEPT !["db"] = Append(@, Head(uiq))]
  /\ UNCHANGED <<main, loop, quit, timer, captureVars, dataVars, logVars>>

\* ~main_window goes on to the next thread and tells it to quit.
GoOn ==
  /\ main' = After[main]
  /\ quit' = [t \in Threads |-> quit[t] \/ t = main']
  /\ UNCHANGED <<loop, inbox, uiq, timer, captureVars, dataVars, logVars>>

\* The event loop ends (the tray menu, or a failed initialization), main
\* returns from exec() and destroys its main_window.
QuitApplication ==
  /\ main = "exec"
  /\ GoOn

\* wait(1000) returns because the thread has finished ...
ThreadJoined ==
  /\ main \in Threads
  /\ loop[main] = "finished"
  /\ GoOn

\* ... or because a second has passed, which the destructor takes for the same.
WaitTimesOut ==
  /\ main \in Threads
  /\ loop[main] # "finished"
  /\ GoOn

\* Mutant of DeleteChildren: the threads are not children of the window.
DeleteNothing ==
  /\ main = "cleaned"
  /\ main' = "window_gone"
  /\ UNCHANGED <<loop, quit, inbox, uiq, timer, captureVars, dataVars, logVars>>

\* The QThreads are children of main_window and are destroyed with it.
DeleteChildren ==
  /\ main = "cleaned"
  /\ main' = IF \A t \in Threads : loop[t] = "finished" THEN "window_gone"
                                                        ELSE "aborted"
  /\ UNCHANGED <<loop, quit, inbox, uiq, timer, captureVars, dataVars, logVars>>

-----------------------------------------------------------------------------
(* The log *)

Logging ==
  main \in {"exec", "dns", "data", "db", "cleaned"} \/ capture = "packet"
    \/ \E t \in Threads : loop[t] # "finished"

\* Any thread logs at any point of what it does.
LogMessage ==
  /\ Alive /\ logger /\ Logging
  /\ buffered' = TRUE
  /\ UNCHANGED <<main, workerVars, logger, flusherVars>>

Flusher(from, to) ==
  /\ Alive
  /\ flusher = from
  /\ flusher' = to
  /\ UNCHANGED <<main, workerVars, logger, active_>>

\* periodic_worker: each turn of the loop takes mutex_ anew, and its thread holds
\* it but for the time it waits.
TakeMutex ==
  /\ Flusher("lock", "check")
  /\ mutex_ = NoOne
  /\ mutex_' = "flusher"
  /\ UNCHANGED <<buffered, logger_map_mutex_>>

\* wait_for does not wait when active_ has been reset by then.
StartWaiting ==
  /\ Flusher("check", IF active_ THEN "wait" ELSE "ended")
  /\ mutex_' = NoOne
  /\ UNCHANGED <<buffered, logger_map_mutex_>>

\* The interval has passed, or cv_ was notified: wait_for takes the lock.
Wake ==
  /\ Flusher("wait", "woken")
  /\ mutex_ = NoOne
  /\ mutex_' = "flusher"
  /\ UNCHANGED <<buffered, logger_map_mutex_>>

AfterWait ==
  /\ Flusher("woken", IF active_ THEN "callback" ELSE "ended")
  /\ mutex_' = IF active_ THEN mutex_ ELSE NoOne
  /\ UNCHANGED <<buffered, logger_map_mutex_>>

\* registry::flush_all, under the lock of the map
BeginFlushAll ==
  /\ Flusher("callback", "flush")
  /\ logger_map_mutex_ = NoOne
  /\ logger_map_mutex_' = "flusher"
  /\ UNCHANGED <<buffered, mutex_>>

\* Mutant of FlushAll: the loggers are not flushed.
FlushNothing ==
  /\ Flusher("flush", "lock")
  /\ logger_map_mutex_' = NoOne
  /\ mutex_' = NoOne
  /\ UNCHANGED buffered

\* The end of flush_all, of the callback and of the turn of the loop.
FlushAll ==
  /\ Flusher("flush", "lock")
  /\ buffered' = FALSE
  /\ logger_map_mutex_' = NoOne
  /\ mutex_' = NoOne

-----------------------------------------------------------------------------
(* shutdown_log, which main defers to the time when the window is gone *)

\* default_logger()->flush()
FlushDefaultLogger ==
  /\ main = "window_gone" /\ main' = "flushed"
  /\ logger_map_mutex_ = NoOne
  /\ buffered' = FALSE
  /\ UNCHANGED <<workerVars, logger, flusherVars>>

\* ~periodic_worker, called under flusher_mutex_, which no other thread takes
StopFlusher ==
  /\ main = "flushed" /\ main' = "joining"
  /\ mutex_ = NoOne
  /\ active_' = FALSE
  /\ UNCHANGED <<workerVars, logger, buffered, flusher, mutex_, logger_map_mutex_>>

JoinFlusher ==
  /\ main = "joining" /\ main' = "dropping"
  /\ flusher = "ended"
  /\ UNCHANGED <<workerVars, logVars>>

\* drop_all: the logger goes and its sinks with it, the file is closed.
DropAll ==
  /\ main = "dropping" /\ main' = "exited"
  /\ logger_map_mutex_ = NoOne
  /\ logger' = FALSE
  /\ buffered' = FALSE
  /\ UNCHANGED <<workerVars, flusherVars>>

FlusherStep ==
  TakeMutex \/ StartWaiting \/ Wake \/ AfterWait \/ BeginFlushAll \/ FlushAll

Next ==
  \/ StartCollection \/ CollectStats
  \/ StartCapture \/ PacketArrived \/ ProcessPacket
  \/ Initialize \/ StoreEvent
  \/ \E t \in Threads : LeaveLoop(t) \/ FinishThread(t)
  \/ StopCapture \/ CaptureStopped
  \/ ForwardEvent \/ QuitApplication
  \/ ThreadJoined \/ WaitTimesOut \/ DeleteChildren
  \/ LogMessage \/ FlusherStep
  \/ FlushDefaultLogger \/ StopFlusher \/ JoinFlusher \/ DropAll

Spec == Init /\ [][Next]_vars

\* Every thread goes on with what it has begun; no one has to quit, no packet
\* has to come, and no wait has to time out.  Only so many packets are buffered
\* when the capture is told to stop, so that it does end.  The flusher leaves its mutexes
\* free while it waits for its interval, long enough for main to get them.
FairSpec ==
  /\ Spec
  /\ WF_vars(StartCollection) /\ WF_vars(CollectStats)
  /\ WF_vars(StartCapture) /\ WF_vars(ProcessPacket)
  /\ WF_vars(Initialize) /\ WF_vars(StoreEvent)
  /\ \A t \in Threads : WF_vars(LeaveLoop(t)) /\ WF_vars(FinishThread(t))
  /\ WF_vars(StopCapture) /\ SF_vars(CaptureStopped)
  /\ WF_vars(ForwardEvent)
  /\ WF_vars(ThreadJoined) /\ WF_vars(DeleteChildren)
  /\ WF_vars(FlusherStep)
  /\ SF_vars(FlushDefaultLogger \/ StopFlusher)
  /\ WF_vars(JoinFlusher \/ DropAll)

-----------------------------------------------------------------------------
(* Properties *)

\* The capture thread calls process_packet on a dns_collector through a raw
\* pointer: the collector is never gone while that thread exists.
CollectorOutlivesCapture == capture # "off" => loop["dns"] # "finished"

\* Every thread logs through default_logger_raw(), a plain pointer that no lock
\* protects: when drop_all deletes the logger no other thread is left, the
\* flusher included, whatever the waits in the destructor did.
LoggerOutlivesThreads ==
  ~logger => /\ capture = "off" /\ flusher = "ended"
             /\ \A t \in Threads : loop[t] = "finished"

NumbersOf(q, kind) == {q[j][2] : j \in {i \in DOMAIN q : q[i][1] = kind}}

InOrder(q) ==
  \A i, j \in DOMAIN q : i < j /\ q[i][1] = q[j][1] => q[i][2] < q[j][2]

\* What will still be stored; the window that ends forwards nothing any more.
OnTheWay == inbox["db"] \o (IF main = "exec" THEN uiq ELSE <<>>)

\* Until the program ends, every sample and packet is stored or on its way,
\* in order and once; afterwards only a tail of them is missing.
OnlyTailLost ==
  /\ InOrder(OnTheWay)
  /\ \A k \in Kinds :
       /\ stored[k] = [j \in DOMAIN stored[k] |-> j]
       /\ \E last \in Len(stored[k])..collected[k] :
            /\ NumbersOf(OnTheWay, k) = (Len(stored[k]) + 1)..last
            /\ main = "exec" => last = collected[k]

\* Once it is to quit the program ends, or is aborted after a wait that timed
\* out: no threads wait for each other in a ring, although the window waits for
\* the thread that waits for the thread that posts to the window, and
\* shutdown_log joins the flusher, which may be in a flush, under two mutexes.
QuitEnds == main # "exec" ~> main \in {"exited", "aborted"}

\* As long as the program runs, what was collected reaches the database.
CollectedIsStored ==
  \A k \in Kinds : \A n \in 1..Limit[k] :
    collected[k] >= n ~> (Len(stored[k]) >= n \/ main # "exec")

\* What is logged does not stay in the buffer of the file: flush_every writes it
\* while the program runs, shutdown_log when it ends.
LoggedReachesDisk == buffered ~> ~buffered \/ main = "aborted"
============================================================================
