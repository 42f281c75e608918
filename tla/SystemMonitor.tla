--------------------------- MODULE SystemMonitor ---------------------------
(***************************************************************************)
(* src/scripts/system_monitor.py: the daemon thread that samples the CPU   *)
(* of the host while run_benchmark_matrix.py runs the engine of a cell,    *)
(* with the orchestrator (start, stop, join) and the engine's STEADY       *)
(* window around it.  Cells of a series append to one .system.ndjson file. *)
(*                                                                         *)
(* Time is counted in ticks from the boot of the host (tick 0).  A reading *)
(* of /proc/stat is the tick it is made at, because the jiffies counted    *)
(* there grow with time; the CPU percentage of a sample is therefore a     *)
(* function of the ticks it covers, and the model keeps those ticks: a     *)
(* sample covers from+1..to.  A thread acts at most Delay ticks after it   *)
(* could.  Memory readings are None once the engine's processes are gone   *)
(* and are otherwise left out.                                             *)
(***************************************************************************)
EXTENDS Integers, Sequences, FiniteSets

CONSTANTS
  None,
  Cells,          \* number of cells the orchestrator runs
  Interval,       \* sampling interval
  Delay,          \* latest start of a step of a thread that can go on
  JoinTimeout,    \* stop() waits this long for the thread
  MaxTime,        \* bound: cells are not started and engines not prolonged after it
  MaxFaults       \* bound: faults in a behaviour

ASSUME MonitorAssumption ==
  /\ {Cells, Interval, JoinTimeout, MaxTime} \subseteq Nat \ {0}
  /\ {Delay, MaxFaults} \subseteq Nat
ASSUME NoneAssumption == None \notin Nat \X Nat

Charts == INSTANCE ChartData

VARIABLES
  time,
  orchestrator,   \* "idle", "running" the cell, or "joining" its monitor
  cell,           \* the latest cell started, 0 before the first
  joinBy,         \* when join() gives up
  engine,         \* "off", "warmup", "steady" or "drained"
  launched,       \* when the engine of the cell was started
  windows,        \* the STEADY windows finished: [cell, start, finish]
  start,          \* start of the current STEADY window
  threads,        \* cell -> its monitor's thread
  file,           \* the samples in .system.ndjson
  faults          \* cell -> the faults its monitor met

vars == <<time, orchestrator, cell, joinBy, engine, launched, windows, start,
          threads, file, faults>>
cellVars == <<orchestrator, cell, joinBy, engine, launched, windows, start>>

\* A thread: where it is, when its wait is over, when it acts at the latest,
\* its baseline reading, the sample it is taking, and what it wrote without
\* the flush having succeeded.
NoThread == [pc |-> "none", due |-> 0, by |-> 0, stop |-> FALSE, base |-> 0, prev |-> 0,
             new |-> 0, stamp |-> 0, cover |-> None, pending |-> <<>>, hung |-> FALSE]
Gone(c) == [NoThread EXCEPT !.pc = "gone", !.base = threads[c].base]
Alive(c) == threads[c].pc \notin {"none", "gone"}

Init ==
  /\ time = 2 /\ cell = 0 /\ orchestrator = "idle" /\ joinBy = 0
  /\ engine = "off" /\ launched = 0 /\ windows = <<>> /\ start = 0
  /\ threads = [c \in 1..Cells |-> NoThread]
  /\ file = <<>>
  /\ faults = [c \in 1..Cells |-> {}]

FaultsLeft == Cardinality(UNION {{<<c, f>> : f \in faults[c]} : c \in 1..Cells}) < MaxFaults
Fault(c, f) == FaultsLeft /\ faults' = [faults EXCEPT ![c] = @ \cup {f}]
Thread(c, t) == threads' = [threads EXCEPT ![c] = t]

-----------------------------------------------------------------------------
(* The orchestrator and the engine.                                        *)

\* Popen, then start(): the thread exists and has done nothing yet.
StartMonitor ==
  /\ orchestrator = "idle" /\ cell < Cells /\ time < MaxTime
  /\ cell' = cell + 1
  /\ orchestrator' = "running"
  /\ engine' = "warmup" /\ launched' = time
  /\ Thread(cell + 1, [NoThread EXCEPT !.pc = "start", !.by = time + Delay])
  /\ UNCHANGED <<time, joinBy, windows, start, file, faults>>

EnterSteady ==
  /\ engine = "warmup" /\ time > launched
  /\ engine' = "steady" /\ start' = time
  /\ UNCHANGED <<time, orchestrator, cell, joinBy, launched, windows, threads, file, faults>>

LeaveSteady ==
  /\ engine = "steady" /\ time > start
  /\ engine' = "drained" /\ start' = 0
  /\ windows' = Append(windows, [cell |-> cell, start |-> start, finish |-> time])
  /\ UNCHANGED <<time, orchestrator, cell, joinBy, launched, threads, file, faults>>

\* The engine exits (or dies, in any phase); wait() returns and the with block
\* ends: stop() sets the event, which ends the thread's wait, and joins.
StopMonitor ==
  /\ orchestrator = "running" /\ time > launched
  /\ engine' = "off" /\ launched' = 0 /\ start' = 0
  /\ orchestrator' = "joining" /\ joinBy' = time + JoinTimeout
  /\ Thread(cell, [threads[cell] EXCEPT !.stop = TRUE,
                     !.by = IF @ > time + Delay THEN time + Delay ELSE @])
  /\ UNCHANGED <<time, cell, windows, file, faults>>

Join ==
  /\ orchestrator = "joining"
  /\ ~Alive(cell) \/ time >= joinBy
  /\ orchestrator' = "idle" /\ joinBy' = 0
  /\ UNCHANGED <<time, cell, engine, launched, windows, start, threads, file, faults>>

-----------------------------------------------------------------------------
(* The thread.                                                             *)

\* When a wait that begins now ends, and the plausible bug of waiting both at
\* the head and at the end of the loop.
WaitTwice == time + 2 * Interval
WaitEnds == time + Interval

\* The baseline; a reading that fails counts as the boot of the host.
ReadBaseline(c) ==
  /\ threads[c].pc = "start"
  /\ \E read \in {time, 0} :
       /\ IF read = time THEN UNCHANGED faults ELSE Fault(c, "baseline")
       /\ Thread(c, [threads[c] EXCEPT !.pc = "first", !.base = read, !.prev = read,
                       !.due = WaitEnds,
                       !.by = (IF threads[c].stop THEN time ELSE WaitEnds) + Delay])
  /\ UNCHANGED <<time, cellVars, file>>

\* The reading that a failed one leaves behind, and the plausible bug of
\* taking the present as the next baseline.
BaselineOfPresent(c) == time
BaselineAfterFailure(c) == threads[c].prev

\* A sample: its time stamp, then the CPU of the time since the baseline; 0 %
\* when there is none, or when the reading fails, and then the baseline stays.
Collect(c) ==
  \/ /\ Thread(c, [threads[c] EXCEPT !.pc = "write", !.stamp = time, !.new = time,
                     !.due = 0, !.by = time + Delay,
                     !.cover = IF time > threads[c].prev THEN <<threads[c].prev, time>>
                               ELSE None])
     /\ UNCHANGED faults
  \/ /\ Thread(c, [threads[c] EXCEPT !.pc = "write", !.stamp = time,
                     !.new = BaselineAfterFailure(c), !.due = 0, !.by = time + Delay])
     /\ Fault(c, "read")

Awake(c) == threads[c].pc \in {"first", "wait"} /\ (time >= threads[c].due \/ threads[c].stop)

\* Plausible bug: a thread that does not look at its event again.
WakeIgnoringStop(c) == Awake(c) /\ Collect(c) /\ UNCHANGED <<time, cellVars, file>>

\* The wait is over, by time or by the event: the loop ends if the event is
\* set, and closing the file writes what is left in the buffer.
Wake(c) ==
  /\ Awake(c)
  /\ IF threads[c].stop
     THEN /\ Thread(c, Gone(c))
          /\ file' = file \o threads[c].pending
          /\ UNCHANGED faults
     ELSE Collect(c) /\ UNCHANGED file
  /\ UNCHANGED <<time, cellVars>>

\* The file cannot be opened: the thread ends without a word.
OpenFails(c) ==
  /\ Awake(c) /\ threads[c].pc = "first"
  /\ Fault(c, "open")
  /\ Thread(c, Gone(c))
  /\ UNCHANGED <<time, cellVars, file>>

\* The record goes to the buffer, the buffer to the file.  When that fails the
\* record stays in the buffer, the baseline where it was, and the loop goes on.
Write(c) ==
  /\ threads[c].pc = "write" /\ ~threads[c].hung
  /\ LET t == threads[c]
         sample == [cell |-> c, stamp |-> t.stamp, cover |-> t.cover,
                    rss |-> c = cell /\ engine # "off"]
         next == [t EXCEPT !.pc = "wait", !.stamp = 0, !.new = 0, !.cover = None, !.due = WaitEnds,
                    !.by = (IF t.stop THEN time ELSE WaitEnds) + Delay]
     IN  \/ /\ file' = file \o Append(t.pending, sample)
            /\ Thread(c, [next EXCEPT !.prev = t.new, !.pending = <<>>])
            /\ UNCHANGED faults
         \/ /\ Thread(c, [next EXCEPT !.pending = Append(t.pending, sample)])
            /\ Fault(c, "flush")
            /\ UNCHANGED file
  /\ UNCHANGED <<time, cellVars>>

\* The write blocks, for as long as the disk takes.
Hang(c) ==
  /\ threads[c].pc = "write" /\ ~threads[c].hung
  /\ Fault(c, "hang")
  /\ Thread(c, [threads[c] EXCEPT !.hung = TRUE])
  /\ UNCHANGED <<time, cellVars, file>>

Unblock(c) ==
  /\ threads[c].hung
  /\ Thread(c, [threads[c] EXCEPT !.hung = FALSE, !.by = time + Delay])
  /\ UNCHANGED <<time, cellVars, file, faults>>

\* No thread that can act is more than Delay late, the main thread included.
Tick ==
  /\ IF orchestrator = "joining" THEN time < joinBy + Delay ELSE time < MaxTime
  /\ \A c \in 1..Cells : Alive(c) => threads[c].hung \/ time < threads[c].by
  /\ time' = time + 1
  /\ UNCHANGED <<cellVars, threads, file, faults>>

ThreadStep(c) ==
  ReadBaseline(c) \/ Wake(c) \/ OpenFails(c) \/ Write(c) \/ Hang(c) \/ Unblock(c)

Next ==
  \/ StartMonitor \/ EnterSteady \/ LeaveSteady \/ StopMonitor \/ Join \/ Tick
  \/ \E c \in 1..Cells : ThreadStep(c)

Spec == Init /\ [][Next]_vars

-----------------------------------------------------------------------------
(* Properties.                                                             *)

Of(c) == {k \in DOMAIN file : file[k].cell = c}
Covers(k, t) == file[k].cover # None /\ file[k].cover[1] < t /\ t <= file[k].cover[2]

\* The samples of a cell account for every tick from the baseline to the last
\* reading in the file: none is left out, whatever failed, and none counts
\* twice unless a flush failed (its record is written later all the same).
TilesTime ==
  \A c \in 1..Cells :
    LET read == {file[k].cover[2] : k \in {j \in Of(c) : file[j].cover # None}}
    IN  \A t \in threads[c].base + 1..time :
          (\E last \in read : t <= last) =>
             LET n == Cardinality({k \in Of(c) : Covers(k, t)})
             IN  n = 1 \/ (n > 1 /\ "flush" \in faults[c])

\* The samples the charts average for a finished STEADY window are those of
\* its own cell, and without a fault they count no time before the window but
\* that of the sample under way when it began, and none after it: another cell
\* that appends to the same file, even one whose monitor outlived its join, adds
\* nothing.
MaxGap == Interval + 2 * Delay
ChartedIn(w) == {k \in DOMAIN file : Charts!Inside(file[k].stamp, w)}

CpuOfWindow ==
  \A i \in DOMAIN windows : \A k \in ChartedIn(windows[i]) :
    /\ file[k].cell = windows[i].cell
    /\ (faults[file[k].cell] = {} /\ file[k].cover # None) =>
         /\ file[k].cover[1] >= windows[i].start - MaxGap
         /\ file[k].cover[2] <= windows[i].finish

\* When a cell is over, a STEADY window that lasted longer than the sampling
\* interval and the delays has a sample, unless its monitor met a fault.  A
\* shorter window may have none: its run then has no CPU value.
WindowSampled ==
  \A i \in DOMAIN windows :
    LET w == windows[i]
    IN  (/\ cell > w.cell \/ orchestrator = "idle"
         /\ w.finish - w.start >= MaxGap
         /\ faults[w.cell] = {})
          => ChartedIn(w) # {}
=============================================================================
