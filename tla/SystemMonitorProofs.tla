------------------------ MODULE SystemMonitorProofs ------------------------
(***************************************************************************)
(* Proofs about SystemMonitor for every number of cells and faults, every  *)
(* interval and delay: the safety properties its run checks.               *)
(*                                                                         *)
(* The samples of a cell tile time because a thread's baseline moves only  *)
(* with a record that reached the file, and everything it holds back       *)
(* begins at that baseline.  A sample is stamped while its cell runs, so   *)
(* it falls into no window of another cell; and while a thread meets no    *)
(* fault its latest reading is never older than MaxGap, so a window that   *)
(* long has a sample.                                                      *)
(***************************************************************************)
EXTENDS SystemMonitor, SequenceTheorems, FiniteSetTheorems, TLAPS

-----------------------------------------------------------------------------
(* The inductive invariant.                                               *)

CellIds == 1..Cells

Spans == (Nat \X Nat) \cup {None}

Samples == [cell : CellIds, stamp : Nat, cover : Spans, rss : BOOLEAN]

Threads ==
  [pc : {"none", "start", "first", "wait", "write", "gone"},
   due : Nat, by : Nat, stop : BOOLEAN, base : Nat, prev : Nat, new : Nat,
   stamp : Nat, cover : Spans, pending : Seq(Samples), hung : BOOLEAN]

Windows == [cell : CellIds, start : Nat, finish : Nat]

Faults == {"baseline", "read", "open", "flush", "hang"}

\* The types of the variables.
TypeInv ==
  /\ time \in Nat /\ cell \in 0..Cells /\ joinBy \in Nat
  /\ orchestrator \in {"idle", "running", "joining"}
  /\ engine \in {"off", "warmup", "steady", "drained"}
  /\ launched \in Nat /\ start \in Nat
  /\ windows \in Seq(Windows) /\ file \in Seq(Samples)
  /\ threads \in [CellIds -> Threads]
  /\ faults \in [CellIds -> SUBSET Faults]

\* A cell has a thread once it was started, and a thread that is not told to
\* stop is that of the cell that runs.
CellInv ==
  /\ orchestrator # "idle" => cell >= 1
  /\ (engine # "off") <=> (orchestrator = "running")
  /\ orchestrator = "running" => launched <= time
  /\ engine = "steady" => launched < start /\ start <= time
  /\ \A c \in CellIds :
       /\ threads[c].pc = "none" <=> c > cell
       /\ (Alive(c) /\ ~ threads[c].stop) => c = cell /\ orchestrator = "running"
       /\ (c = cell /\ orchestrator = "running") =>
            ~ threads[c].stop /\ (threads[c].pc = "gone" => "open" \in faults[c])

\* Only a thread that has collected a sample holds one back, its own and after
\* a failed flush.
HeldInv ==
  \A c \in CellIds :
    /\ \A j \in DOMAIN threads[c].pending : threads[c].pending[j].cell = c
    /\ threads[c].pc \notin {"wait", "write"} => threads[c].pending = <<>>
    /\ "flush" \notin faults[c] => threads[c].pending = <<>>

\* Nor has any other a sample in the file.
OwnerInv ==
  \A k \in DOMAIN file : threads[file[k].cell].pc \in {"wait", "write", "gone"}

\* What a thread holds back begins at its baseline and reaches to a reading
\* made since.
BaselineOf(c) ==
  /\ threads[c].pc \in {"first", "wait", "write"} =>
       threads[c].base <= threads[c].prev /\ threads[c].prev <= time
  /\ threads[c].pc # "write" => threads[c].cover = None
  /\ \A j \in DOMAIN threads[c].pending :
       threads[c].pending[j].cover # None =>
         /\ threads[c].pending[j].cover[1] = threads[c].prev
         /\ threads[c].prev < threads[c].pending[j].cover[2]
  /\ threads[c].pc = "write" =>
       /\ threads[c].prev <= threads[c].new /\ threads[c].new <= time
       /\ threads[c].cover = None => threads[c].new = threads[c].prev
       /\ threads[c].cover # None =>
            threads[c].cover = <<threads[c].prev, threads[c].new>> /\ threads[c].prev < threads[c].new

BaselineInv == \A c \in CellIds : BaselineOf(c)

\* The thread of c has a baseline and goes on.
Active(c) == threads[c].pc \in {"first", "wait", "write"}

\* The samples of c in the file cover every tick after `from', up to `to'.
Spanned(c, from, to) == \A t \in from + 1..to : \E j \in Of(c) : Covers(j, t)

\* Two samples of the file count no tick in common.
Apart(j, k) ==
  \/ file[j].cover = None \/ file[k].cover = None
  \/ file[j].cover[2] <= file[k].cover[1]
  \/ file[k].cover[2] <= file[j].cover[1]

\* The file covers the time of a cell up to every reading in it and up to the
\* thread's baseline; twice only after a failed flush.
TileOf(c) ==
  /\ \A k \in Of(c) : file[k].cover # None => Spanned(c, threads[c].base, file[k].cover[2])
  /\ Active(c) => Spanned(c, threads[c].base, threads[c].prev)
  /\ "flush" \notin faults[c] =>
       /\ \A j, k \in Of(c) : j # k => Apart(j, k)
       /\ Active(c) =>
            \A k \in Of(c) : file[k].cover # None => file[k].cover[2] <= threads[c].prev

TileInv == \A c \in CellIds : TileOf(c)

\* The samples taken, in the file, held back or being written: their cell, stamp
\* and cover.
Written(samples) ==
  {<<samples[k].cell, samples[k].stamp, samples[k].cover>> : k \in DOMAIN samples}
HeldBack(held) ==
  UNION {{<<c, held[c].pending[j].stamp, held[c].pending[j].cover>>
            : j \in DOMAIN held[c].pending} : c \in CellIds}
BeingWritten(held) ==
  {<<c, held[c].stamp, held[c].cover>> : c \in {d \in CellIds : held[d].pc = "write"}}

TakenIn(samples, held) == Written(samples) \cup HeldBack(held) \cup BeingWritten(held)

Taken == TakenIn(file, threads)

\* A sample is taken while its cell runs, and windows lie in their cells.
WindowIn(w) ==
  /\ w.cell <= cell /\ w.start <= w.finish /\ w.finish <= time
  /\ (orchestrator = "running" /\ w.cell < cell) => w.finish <= launched

SampleIn(x) ==
  /\ x[1] <= cell /\ x[2] <= time
  /\ (orchestrator = "running" /\ x[1] < cell) => x[2] <= launched

Ordered(w, x) ==
  /\ x[1] < w.cell => x[2] < w.start
  /\ x[1] > w.cell => x[2] > w.finish

OrderInv ==
  /\ \A i \in DOMAIN windows : WindowIn(windows[i])
  /\ \A x \in Taken : SampleIn(x)
  /\ \A i \in DOMAIN windows : \A x \in Taken : Ordered(windows[i], x)

\* The thread of the cell that runs does not read before the cell has lasted.
DueInv ==
  \A c \in CellIds :
    (orchestrator = "running" /\ c = cell /\ threads[c].pc \in {"first", "wait"}) =>
       threads[c].due > launched

\* A thread that meets no fault keeps its deadlines, and its baseline is not
\* older than MaxGap when it takes a sample.
TimingOf(c) ==
  (faults[c] = {} /\ Alive(c)) =>
     /\ time <= threads[c].by /\ ~ threads[c].hung
     /\ threads[c].pc \in {"first", "wait"} =>
          /\ threads[c].by <= threads[c].due + Delay
          /\ threads[c].due <= threads[c].prev + Delay + Interval
     /\ threads[c].pc = "write" =>
          /\ threads[c].by <= threads[c].stamp + Delay
          /\ threads[c].new = threads[c].stamp /\ threads[c].stamp <= time

TimingInv == \A c \in CellIds : TimingOf(c)

\* And a sample it takes counts the time up to its stamp, MaxGap at most.
GapInv ==
  \A x \in Taken :
    (faults[x[1]] = {} /\ x[3] # None) =>
      x[3][2] = x[2] /\ x[3][1] >= x[2] - MaxGap

\* The latest reading of a thread that meets no fault is in the file, and the
\* first two steps of the thread are soon over.
LatestOf(c) ==
  faults[c] = {} =>
    /\ threads[c].pc = "wait" => \E k \in DOMAIN file : file[k].stamp = threads[c].prev
    /\ (threads[c].pc = "start" /\ ~ threads[c].stop) => threads[c].by <= launched + Delay
    /\ (threads[c].pc = "first" /\ ~ threads[c].stop) => threads[c].by <= launched + MaxGap

LatestInv == \A c \in CellIds : LatestOf(c)

\* If the join outlasts a delay, a thread that meets no fault has written what
\* it had read when its cell ended.
PromptOf(c) ==
  (faults[c] = {} /\ threads[c].pc = "write") =>
    /\ c = cell /\ orchestrator # "idle"
    /\ orchestrator = "joining" => threads[c].by + JoinTimeout <= joinBy + Delay

PromptInv == Delay < JoinTimeout => \A c \in CellIds : PromptOf(c)

\* A window that lasted MaxGap has a sample, at least one being written.
SampledOf(w) ==
  (w.finish - w.start >= MaxGap /\ faults[w.cell] = {}) =>
     \/ \E k \in DOMAIN file : Charts!Inside(file[k].stamp, w)
     \/ threads[w.cell].pc = "write" /\ Charts!Inside(threads[w.cell].stamp, w)

SampledInv == \A i \in DOMAIN windows : SampledOf(windows[i])

IInv ==
  /\ TypeInv /\ CellInv /\ HeldInv /\ OwnerInv /\ BaselineInv /\ TileInv /\ OrderInv /\ DueInv
  /\ TimingInv /\ GapInv /\ LatestInv /\ PromptInv /\ SampledInv

-----------------------------------------------------------------------------
(* The steps of a thread, one for each of their outcomes. *)

Ends(c) ==
  /\ Awake(c) /\ threads[c].stop
  /\ Thread(c, Gone(c))
  /\ file' = file \o threads[c].pending
  /\ UNCHANGED <<time, cellVars, faults>>

Reads(c) ==
  /\ Awake(c) /\ ~ threads[c].stop
  /\ Thread(c, [threads[c] EXCEPT !.pc = "write", !.stamp = time, !.new = time,
                  !.due = 0, !.by = time + Delay,
                  !.cover = IF time > threads[c].prev THEN <<threads[c].prev, time>>
                            ELSE None])
  /\ UNCHANGED <<time, cellVars, file, faults>>

ReadFails(c) ==
  /\ Awake(c) /\ ~ threads[c].stop
  /\ Thread(c, [threads[c] EXCEPT !.pc = "write", !.stamp = time,
                  !.new = threads[c].prev, !.due = 0, !.by = time + Delay])
  /\ Fault(c, "read")
  /\ UNCHANGED <<time, cellVars, file>>

Sample(c) ==
  [cell |-> c, stamp |-> threads[c].stamp, cover |-> threads[c].cover,
   rss |-> c = cell /\ engine # "off"]

Waits(c) ==
  [threads[c] EXCEPT !.pc = "wait", !.stamp = 0, !.new = 0, !.cover = None, !.due = WaitEnds,
     !.by = (IF threads[c].stop THEN time ELSE WaitEnds) + Delay]

Writes(c) ==
  /\ threads[c].pc = "write" /\ ~ threads[c].hung
  /\ file' = file \o Append(threads[c].pending, Sample(c))
  /\ Thread(c, [Waits(c) EXCEPT !.prev = threads[c].new, !.pending = <<>>])
  /\ UNCHANGED <<time, cellVars, faults>>

FlushFails(c) ==
  /\ threads[c].pc = "write" /\ ~ threads[c].hung
  /\ Thread(c, [Waits(c) EXCEPT !.pending = Append(threads[c].pending, Sample(c))])
  /\ Fault(c, "flush")
  /\ UNCHANGED <<time, cellVars, file>>

\* Every step of the monitor is one of these.
LEMMA Kinds ==
  ASSUME [Next]_vars
  PROVE  \/ StartMonitor \/ EnterSteady \/ LeaveSteady \/ StopMonitor \/ Join \/ Tick
         \/ \E c \in CellIds : \/ ReadBaseline(c) \/ Ends(c) \/ Reads(c) \/ ReadFails(c)
                               \/ OpenFails(c) \/ Writes(c) \/ FlushFails(c)
                               \/ Hang(c) \/ Unblock(c)
         \/ UNCHANGED vars
<1>1. ASSUME NEW c \in CellIds, Wake(c)
      PROVE  Ends(c) \/ Reads(c) \/ ReadFails(c)
  BY <1>1 DEF Wake, Collect, Ends, Reads, ReadFails, BaselineAfterFailure
<1>2. ASSUME NEW c \in CellIds, Write(c)
      PROVE  Writes(c) \/ FlushFails(c)
  BY <1>2 DEF Write, Writes, FlushFails, Waits, Sample
<1> QED
  BY <1>1, <1>2 DEF Next, ThreadStep, CellIds

-----------------------------------------------------------------------------
(* Types. *)

\* Samples put together stay samples.
LEMMA SampleSeq ==
  ASSUME TypeInv, NEW c \in CellIds
  PROVE  /\ threads[c] \in Threads
         /\ threads[c].pending \in Seq(Samples)
         /\ file \o threads[c].pending \in Seq(Samples)
         /\ Sample(c) \in Samples
         /\ Append(threads[c].pending, Sample(c)) \in Seq(Samples)
         /\ file \o Append(threads[c].pending, Sample(c)) \in Seq(Samples)
<1>1. threads[c] \in Threads /\ threads[c].pending \in Seq(Samples)
  BY DEF TypeInv, Threads
<1>2. (c = cell /\ engine # "off") \in BOOLEAN
  OBVIOUS
<1>3. threads[c].stamp \in Nat /\ threads[c].cover \in Spans
  BY <1>1 DEF Threads
<1>4. Sample(c) \in Samples
  BY <1>2, <1>3 DEF Sample, Samples
<1> QED
  BY <1>1, <1>4 DEF TypeInv

\* A thread that goes back to its wait, with any baseline and anything held back.
LEMMA WaitsType ==
  ASSUME TypeInv, NEW c \in CellIds
  PROVE  /\ Waits(c) \in Threads
         /\ \A prev \in Nat, pending \in Seq(Samples) :
              [Waits(c) EXCEPT !.prev = prev, !.pending = pending] \in Threads
         /\ \A pending \in Seq(Samples) : [Waits(c) EXCEPT !.pending = pending] \in Threads
<1> DEFINE late == (IF threads[c].stop THEN time ELSE WaitEnds) + Delay
<1>1. threads[c] \in Threads
  BY DEF TypeInv
<1>2. WaitEnds \in Nat /\ late \in Nat
  <2>1. time \in Nat /\ Interval \in Nat /\ Delay \in Nat
    BY MonitorAssumption DEF TypeInv
  <2>2. WaitEnds \in Nat
    BY <2>1 DEF WaitEnds
  <2> QED
    BY <2>1, <2>2
<1>3. Waits(c) = [threads[c] EXCEPT !.pc = "wait", !.stamp = 0, !.new = 0, !.cover = None,
                                    !.due = WaitEnds, !.by = late]
  BY DEF Waits
<1> HIDE DEF late
<1>4. Waits(c) \in Threads
  <2>1. 0 \in Nat /\ None \in Spans
    BY DEF Spans
  <2>2. [threads[c] EXCEPT !.pc = "wait", !.stamp = 0, !.new = 0, !.cover = None] \in Threads
    BY <1>1, <2>1 DEF Threads
  <2>3. \A t \in Threads : [t EXCEPT !.due = WaitEnds, !.by = late] \in Threads
    BY <1>2 DEF Threads
  <2> QED
    BY <1>3, <2>2, <2>3
<1>5. QED
  BY <1>4 DEF Threads

\* Variables keep their types.
LEMMA TypePreserved ==
  ASSUME TypeInv, CellInv, [Next]_vars
  PROVE  TypeInv'
<1> USE DEF vars, cellVars
<1>a. 0 \in Nat /\ <<>> \in Seq(Samples) /\ None \in Spans
  BY DEF Spans
<1>b. ASSUME NEW c \in CellIds
      PROVE  /\ threads[c] \in Threads
             /\ time \in Nat /\ time + Delay \in Nat /\ WaitEnds \in Nat
             /\ threads[c].prev \in Nat /\ threads[c].new \in Nat
  <2>1. threads[c] \in Threads
    BY <1>b DEF TypeInv
  <2>2. time \in Nat /\ time + Delay \in Nat /\ WaitEnds \in Nat
    <3>1. time \in Nat /\ Interval \in Nat /\ Delay \in Nat
      BY MonitorAssumption DEF TypeInv
    <3> QED
      BY <3>1 DEF WaitEnds
  <2>3. threads[c].prev \in Nat /\ threads[c].new \in Nat
    BY <2>1 DEF Threads
  <2> QED
    BY <2>1, <2>2, <2>3
<1>s. ASSUME NEW c \in CellIds
      PROVE  Append(threads[c].pending, Sample(c)) \in Seq(Samples)
  BY SampleSeq DEF CellIds
<1>1. CASE StartMonitor
  <2>1. cell + 1 \in CellIds /\ time + Delay \in Nat
    <3>1. cell \in 0..Cells /\ time \in Nat /\ Delay \in Nat /\ Cells \in Nat
      BY MonitorAssumption DEF TypeInv
    <3>2. cell < Cells
      BY <1>1 DEF StartMonitor
    <3> QED
      BY <3>1, <3>2 DEF CellIds
  <2>2. [NoThread EXCEPT !.pc = "start", !.by = time + Delay] \in Threads
    BY <2>1, <1>a DEF NoThread, Threads, Spans
  <2>3. threads' \in [CellIds -> Threads]
    BY <1>1, <2>1, <2>2 DEF StartMonitor, Thread, TypeInv
  <2> QED
    BY <1>1, <2>1, <2>3 DEF StartMonitor, TypeInv, CellIds
<1>2. CASE EnterSteady
  BY <1>2 DEF EnterSteady, TypeInv
<1>3. CASE LeaveSteady
  <2>1. cell \in CellIds
    BY <1>3 DEF LeaveSteady, TypeInv, CellInv, CellIds
  <2>2. [cell |-> cell, start |-> start, finish |-> time] \in Windows
    BY <2>1 DEF TypeInv, Windows
  <2> QED
    BY <1>3, <2>2 DEF LeaveSteady, TypeInv
<1>4. CASE StopMonitor
  <2>1. cell \in CellIds
    BY <1>4 DEF StopMonitor, TypeInv, CellInv, CellIds
  <2>2. threads'[cell] =
          [threads[cell] EXCEPT !.stop = TRUE,
             !.by = IF @ > time + Delay THEN time + Delay ELSE @]
    BY <1>4, <2>1 DEF StopMonitor, Thread, TypeInv
  <2> DEFINE late == IF threads[cell].by > time + Delay THEN time + Delay ELSE threads[cell].by
  <2>a. late \in Nat /\ threads[cell] \in Threads
    BY <1>b, <2>1 DEF Threads
  <2>b. threads'[cell] = [threads[cell] EXCEPT !.stop = TRUE, !.by = late]
    BY <2>2
  <2> HIDE DEF late
  <2>3. threads'[cell] \in Threads
    BY <2>a, <2>b DEF Threads
  <2>4. threads' \in [CellIds -> Threads]
    BY <1>4, <2>3 DEF StopMonitor, Thread, TypeInv
  <2> QED
    BY <1>4, <2>4, MonitorAssumption DEF StopMonitor, TypeInv
<1>5. CASE Join
  BY <1>5 DEF Join, TypeInv
<1>6. CASE Tick
  BY <1>6 DEF Tick, TypeInv
<1>7. CASE UNCHANGED vars
  BY <1>7 DEF TypeInv
<1>8. ASSUME NEW c \in CellIds, ReadBaseline(c)
      PROVE  TypeInv'
  <2>1. threads'[c] \in Threads
    <3>1. PICK read \in {time, 0} :
            threads' = [threads EXCEPT ![c] =
              [threads[c] EXCEPT !.pc = "first", !.base = read, !.prev = read,
                 !.due = WaitEnds, !.by = (IF threads[c].stop THEN time ELSE WaitEnds) + Delay]]
      BY <1>8 DEF ReadBaseline, Thread
    <3>2. threads'[c] =
            [threads[c] EXCEPT !.pc = "first", !.base = read, !.prev = read,
               !.due = WaitEnds, !.by = (IF threads[c].stop THEN time ELSE WaitEnds) + Delay]
      BY <3>1 DEF TypeInv
    <3>3. (IF threads[c].stop THEN time ELSE WaitEnds) + Delay \in Nat /\ read \in Nat
      BY <1>b, <3>1, MonitorAssumption
    <3> QED
      BY <1>b, <3>2, <3>3 DEF Threads
  <2>2. faults' \in [CellIds -> SUBSET Faults]
    BY <1>8 DEF ReadBaseline, Fault, TypeInv, Faults
  <2>3. threads' \in [CellIds -> Threads]
    BY <1>8, <2>1 DEF ReadBaseline, Thread, TypeInv
  <2> QED
    BY <1>8, <2>2, <2>3 DEF ReadBaseline, TypeInv
<1>9. ASSUME NEW c \in CellIds, Ends(c)
      PROVE  TypeInv'
  <2>1. threads'[c] \in Threads
    <3>1. threads'[c] = Gone(c)
      BY <1>9 DEF TypeInv, CellIds, Ends, Thread
    <3>2. threads[c].base \in Nat
      BY DEF TypeInv, Threads, CellIds
    <3> QED
      BY <3>1, <3>2, <1>a DEF Gone, NoThread, Threads, Spans
  <2>2. faults' \in [CellIds -> SUBSET Faults]
    BY <1>9 DEF Ends, Fault, TypeInv, Faults
  <2>3. threads' \in [CellIds -> Threads]
    BY <1>9, <2>1 DEF Ends, Thread, TypeInv
  <2> QED
    BY <1>9, <2>2, <2>3, SampleSeq DEF Ends, CellIds, TypeInv
<1>10. ASSUME NEW c \in CellIds, Reads(c)
       PROVE  TypeInv'
  <2>1. threads'[c] \in Threads
    <3> DEFINE read == IF time > threads[c].prev THEN <<threads[c].prev, time>> ELSE None
    <3>1. read \in Spans
      BY <1>b DEF Spans, Threads
    <3>2. threads'[c] = [threads[c] EXCEPT !.pc = "write", !.stamp = time, !.new = time,
                           !.due = 0, !.by = time + Delay, !.cover = read]
      BY <1>10 DEF Reads, Thread, TypeInv
    <3>3. threads[c] \in Threads /\ time \in Nat /\ time + Delay \in Nat
      BY <1>b
    <3> HIDE DEF read
    <3> QED
      BY <1>a, <3>1, <3>2, <3>3 DEF Threads
  <2>2. faults' \in [CellIds -> SUBSET Faults]
    BY <1>10 DEF Reads, Fault, TypeInv, Faults
  <2>3. threads' \in [CellIds -> Threads]
    BY <1>10, <2>1 DEF Reads, Thread, TypeInv
  <2> QED
    BY <1>10, <2>2, <2>3 DEF Reads, TypeInv
<1>11. ASSUME NEW c \in CellIds, ReadFails(c)
       PROVE  TypeInv'
  <2>1. threads'[c] \in Threads
    <3>2. threads'[c] = [threads[c] EXCEPT !.pc = "write", !.stamp = time,
                           !.new = threads[c].prev, !.due = 0, !.by = time + Delay]
      BY <1>11 DEF ReadFails, Thread, TypeInv
    <3>3. threads[c] \in Threads /\ time \in Nat /\ time + Delay \in Nat /\ WaitEnds \in Nat
      BY <1>b
    <3>4. threads[c].prev \in Nat /\ threads[c].new \in Nat /\ 0 \in Nat
      BY <1>b
    <3> QED
      BY <3>3, <3>4, <3>2 DEF Threads
  <2>2. faults' \in [CellIds -> SUBSET Faults]
    BY <1>11 DEF ReadFails, Fault, TypeInv, Faults
  <2>3. threads' \in [CellIds -> Threads]
    BY <1>11, <2>1 DEF ReadFails, Thread, TypeInv
  <2> QED
    BY <1>11, <2>2, <2>3 DEF ReadFails, TypeInv
<1>12. ASSUME NEW c \in CellIds, OpenFails(c)
       PROVE  TypeInv'
  <2>1. threads'[c] \in Threads
    <3>1. threads'[c] = Gone(c)
      BY <1>12 DEF TypeInv, CellIds, OpenFails, Thread
    <3>2. threads[c].base \in Nat
      BY DEF TypeInv, Threads, CellIds
    <3> QED
      BY <3>1, <3>2, <1>a DEF Gone, NoThread, Threads, Spans
  <2>2. faults' \in [CellIds -> SUBSET Faults]
    BY <1>12 DEF OpenFails, Fault, TypeInv, Faults
  <2>3. threads' \in [CellIds -> Threads]
    BY <1>12, <2>1 DEF OpenFails, Thread, TypeInv
  <2> QED
    BY <1>12, <2>2, <2>3 DEF OpenFails, TypeInv
<1>13. ASSUME NEW c \in CellIds, Writes(c)
       PROVE  TypeInv'
  <2>1. threads'[c] \in Threads
    <3>1. threads'[c] = [Waits(c) EXCEPT !.prev = threads[c].new, !.pending = <<>>]
      BY <1>13 DEF Writes, Thread, TypeInv
    <3>2. threads[c].new \in Nat /\ <<>> \in Seq(Samples)
      BY <1>a, <1>b
    <3>3. [Waits(c) EXCEPT !.prev = threads[c].new, !.pending = <<>>] \in Threads
      BY <3>2, WaitsType, Zenon
    <3> QED
      BY <3>1, <3>3
  <2>2. faults' \in [CellIds -> SUBSET Faults]
    BY <1>13 DEF Writes, Fault, TypeInv, Faults
  <2>3. threads' \in [CellIds -> Threads]
    BY <1>13, <2>1 DEF Writes, Waits, Thread, TypeInv
  <2> QED
    BY <1>13, <2>2, <2>3, SampleSeq DEF Writes, TypeInv, CellIds
<1>14. ASSUME NEW c \in CellIds, FlushFails(c)
       PROVE  TypeInv'
  <2>1. threads'[c] \in Threads
    <3>1. threads'[c] = [Waits(c) EXCEPT !.pending = Append(threads[c].pending, Sample(c))]
      BY <1>14 DEF FlushFails, Thread, TypeInv
    <3> QED
      BY <1>s, <3>1, WaitsType
  <2>2. faults' \in [CellIds -> SUBSET Faults]
    BY <1>14 DEF FlushFails, Fault, TypeInv, Faults
  <2>3. threads' \in [CellIds -> Threads]
    BY <1>14, <2>1 DEF FlushFails, Waits, Thread, TypeInv
  <2> QED
    BY <1>14, <2>2, <2>3 DEF FlushFails, TypeInv
<1>15. ASSUME NEW c \in CellIds, Hang(c)
       PROVE  TypeInv'
  <2>1. threads'[c] \in Threads
    <3>2. threads'[c] = [threads[c] EXCEPT !.hung = TRUE]
      BY <1>15 DEF Hang, Thread, TypeInv
    <3>3. threads[c] \in Threads /\ time \in Nat /\ time + Delay \in Nat /\ WaitEnds \in Nat
      BY <1>b
    <3>4. threads[c].prev \in Nat /\ threads[c].new \in Nat /\ 0 \in Nat
      BY <1>b
    <3> QED
      BY <3>3, <3>4, <3>2 DEF Threads
  <2>2. faults' \in [CellIds -> SUBSET Faults]
    BY <1>15 DEF Hang, Fault, TypeInv, Faults
  <2>3. threads' \in [CellIds -> Threads]
    BY <1>15, <2>1 DEF Hang, Thread, TypeInv
  <2> QED
    BY <1>15, <2>2, <2>3 DEF Hang, TypeInv
<1>16. ASSUME NEW c \in CellIds, Unblock(c)
       PROVE  TypeInv'
  <2>1. threads'[c] \in Threads
    <3>2. threads'[c] = [threads[c] EXCEPT !.hung = FALSE, !.by = time + Delay]
      BY <1>16 DEF Unblock, Thread, TypeInv
    <3>3. threads[c] \in Threads /\ time \in Nat /\ time + Delay \in Nat /\ WaitEnds \in Nat
      BY <1>b
    <3>4. threads[c].prev \in Nat /\ threads[c].new \in Nat /\ 0 \in Nat
      BY <1>b
    <3> QED
      BY <3>3, <3>4, <3>2 DEF Threads
  <2>2. faults' \in [CellIds -> SUBSET Faults]
    BY <1>16 DEF Unblock, Fault, TypeInv, Faults
  <2>3. threads' \in [CellIds -> Threads]
    BY <1>16, <2>1 DEF Unblock, Thread, TypeInv
  <2> QED
    BY <1>16, <2>2, <2>3 DEF Unblock, TypeInv
<1> QED
  BY <1>1, <1>2, <1>3, <1>4, <1>5, <1>6, <1>7, <1>8, <1>9, <1>10,
     <1>11, <1>12, <1>13, <1>14, <1>15, <1>16, Kinds

-----------------------------------------------------------------------------
(* What a step does to the file.                                           *)

\* Two sequences put together hold the elements of both.
LEMMA Joined ==
  ASSUME NEW S, NEW s \in Seq(S), NEW t \in Seq(S)
  PROVE  /\ \A k \in DOMAIN s : k \in DOMAIN (s \o t) /\ (s \o t)[k] = s[k]
         /\ \A k \in DOMAIN (s \o t) :
              k \in DOMAIN s \/ \E j \in DOMAIN t : k = Len(s) + j /\ (s \o t)[k] = t[j]
         /\ \A j \in DOMAIN t :
              /\ Len(s) + j \in DOMAIN (s \o t) /\ Len(s) + j \notin DOMAIN s
              /\ (s \o t)[Len(s) + j] = t[j]
<1>1. s \o t \in Seq(S) /\ Len(s \o t) = Len(s) + Len(t)
  OBVIOUS
<1>2. DOMAIN s = 1..Len(s) /\ DOMAIN t = 1..Len(t) /\ DOMAIN (s \o t) = 1..Len(s) + Len(t)
  BY <1>1
<1>3. Len(s) \in Nat /\ Len(t) \in Nat
  OBVIOUS
<1>4. \A k \in 1..Len(s) + Len(t) :
        (s \o t)[k] = IF k <= Len(s) THEN s[k] ELSE t[k - Len(s)]
  OBVIOUS
<1>5. ASSUME NEW k \in DOMAIN (s \o t), k \notin DOMAIN s
      PROVE  k - Len(s) \in DOMAIN t /\ k = Len(s) + (k - Len(s))
                /\ (s \o t)[k] = t[k - Len(s)]
  BY <1>2, <1>3, <1>4, <1>5
<1>6. ASSUME NEW j \in DOMAIN t
      PROVE  /\ Len(s) + j \in DOMAIN (s \o t) /\ Len(s) + j \notin DOMAIN s
             /\ (s \o t)[Len(s) + j] = t[j]
  BY <1>2, <1>3, <1>4
<1>7. ASSUME NEW k \in DOMAIN s
      PROVE  k \in DOMAIN (s \o t) /\ (s \o t)[k] = s[k]
  BY <1>2, <1>3, <1>4
<1> QED
  BY <1>5, <1>6, <1>7

\* A sequence with an element appended holds its elements and that one.
LEMMA Appended ==
  ASSUME NEW S, NEW s \in Seq(S), NEW x \in S
  PROVE  /\ \A j \in DOMAIN s : j \in DOMAIN Append(s, x) /\ Append(s, x)[j] = s[j]
         /\ \A j \in DOMAIN Append(s, x) :
              (j \in DOMAIN s /\ Append(s, x)[j] = s[j]) \/ Append(s, x)[j] = x
         /\ \E j \in DOMAIN Append(s, x) : Append(s, x)[j] = x
         /\ s = <<>> => \A j \in DOMAIN Append(s, x) : j = 1 /\ Append(s, x)[j] = x
<1>1. Len(s) \in Nat /\ DOMAIN s = 1..Len(s) /\ DOMAIN Append(s, x) = 1..Len(s) + 1
  OBVIOUS
<1>2. Append(s, x)[Len(s) + 1] = x /\ \A j \in 1..Len(s) : Append(s, x)[j] = s[j]
  OBVIOUS
<1>3. s = <<>> => Len(s) = 0
  OBVIOUS
<1> QED
  BY <1>1, <1>2, <1>3

\* A sample in the file stays where it is.
LEMMA OldSamples ==
  ASSUME TypeInv, [Next]_vars, NEW k \in DOMAIN file
  PROVE  k \in DOMAIN file' /\ file'[k] = file[k]
<1> USE DEF vars, cellVars
<1>1. file' = file \/ \E c \in CellIds : Ends(c) \/ Writes(c)
  BY Kinds DEF StartMonitor, EnterSteady, LeaveSteady, StopMonitor, Join, Tick, ReadBaseline,
     Reads, ReadFails, OpenFails, FlushFails, Hang, Unblock
<1>2. ASSUME NEW c \in CellIds, Ends(c)
      PROVE  k \in DOMAIN file' /\ file'[k] = file[k]
  <2>1. file \in Seq(Samples) /\ threads[c].pending \in Seq(Samples)
    BY SampleSeq DEF TypeInv
  <2>2. k \in DOMAIN (file \o threads[c].pending) /\ (file \o threads[c].pending)[k] = file[k]
    BY <2>1, Joined
  <2> QED
    BY <1>2, <2>2 DEF Ends
<1>3. ASSUME NEW c \in CellIds, Writes(c)
      PROVE  k \in DOMAIN file' /\ file'[k] = file[k]
  <2> DEFINE s == Append(threads[c].pending, Sample(c))
  <2>1. file \in Seq(Samples) /\ s \in Seq(Samples)
    BY SampleSeq DEF TypeInv
  <2>2. k \in DOMAIN (file \o s) /\ (file \o s)[k] = file[k]
    <3> HIDE DEF s
    <3> QED
      BY <2>1, Joined
  <2> QED
    BY <1>3, <2>2 DEF Writes
<1> QED
  BY <1>1, <1>2, <1>3

\* Held(c, x): a thread that ends or writes puts x into the file.
Held(c, x) ==
  \/ (Ends(c) \/ Writes(c)) /\ \E j \in DOMAIN threads[c].pending : x = threads[c].pending[j]
  \/ Writes(c) /\ x = Sample(c)

\* What comes into the file is what a thread held back or was writing.
LEMMA NewSamples ==
  ASSUME TypeInv, [Next]_vars, NEW k \in DOMAIN file', k \notin DOMAIN file
  PROVE  \E c \in CellIds : Held(c, file'[k])
<1> USE DEF vars, cellVars
<1>1. \E c \in CellIds : Ends(c) \/ Writes(c)
  BY Kinds DEF StartMonitor, EnterSteady, LeaveSteady, StopMonitor, Join, Tick, ReadBaseline,
     Reads, ReadFails, OpenFails, FlushFails, Hang, Unblock
<1>2. ASSUME NEW c \in CellIds, Ends(c)
      PROVE  Held(c, file'[k])
  <2>1. file \in Seq(Samples) /\ threads[c].pending \in Seq(Samples)
    BY SampleSeq DEF TypeInv
  <2>2. file' = file \o threads[c].pending
    BY <1>2 DEF Ends
  <2>3. \E j \in DOMAIN threads[c].pending :
           (file \o threads[c].pending)[k] = threads[c].pending[j]
    BY <2>1, <2>2, Joined
  <2> QED
    BY <1>2, <2>2, <2>3 DEF Held
<1>3. ASSUME NEW c \in CellIds, Writes(c)
      PROVE  Held(c, file'[k])
  <2> DEFINE s == Append(threads[c].pending, Sample(c))
  <2>1. file \in Seq(Samples) /\ s \in Seq(Samples)
    BY SampleSeq DEF TypeInv
  <2>2. file' = file \o s
    BY <1>3 DEF Writes
  <2>3. \E j \in DOMAIN s : file'[k] = s[j]
    <3> HIDE DEF s
    <3> QED
      BY <2>1, <2>2, Joined
  <2>4. \A j \in DOMAIN s :
          (j \in DOMAIN threads[c].pending /\ s[j] = threads[c].pending[j]) \/ s[j] = Sample(c)
    BY SampleSeq, Appended
  <2> HIDE DEF s
  <2> QED
    BY <1>3, <2>3, <2>4 DEF Held
<1> QED
  BY <1>1, <1>2, <1>3

\* And all of it comes into the file.
LEMMA HeldSamples ==
  ASSUME TypeInv, NEW c \in CellIds, NEW x, Held(c, x)
  PROVE  \E k \in DOMAIN file' : k \notin DOMAIN file /\ file'[k] = x
<1>1. ASSUME Ends(c)
      PROVE  \E k \in DOMAIN file' : k \notin DOMAIN file /\ file'[k] = x
  <2>1. file \in Seq(Samples) /\ threads[c].pending \in Seq(Samples)
    BY SampleSeq DEF TypeInv
  <2>2. file' = file \o threads[c].pending
    BY <1>1 DEF Ends
  <2>3. PICK j \in DOMAIN threads[c].pending : x = threads[c].pending[j]
    BY <1>1 DEF Held, Ends, Writes, Awake
  <2>4. /\ Len(file) + j \in DOMAIN (file \o threads[c].pending)
        /\ Len(file) + j \notin DOMAIN file
        /\ (file \o threads[c].pending)[Len(file) + j] = threads[c].pending[j]
    <3>1. \A s, t \in Seq(Samples) : \A i \in DOMAIN t :
            /\ Len(s) + i \in DOMAIN (s \o t) /\ Len(s) + i \notin DOMAIN s
            /\ (s \o t)[Len(s) + i] = t[i]
      BY Joined
    <3> QED
      BY <2>1, <2>3, <3>1
  <2> QED
    BY <2>2, <2>3, <2>4
<1>2. ASSUME Writes(c)
      PROVE  \E k \in DOMAIN file' : k \notin DOMAIN file /\ file'[k] = x
  <2> DEFINE s == Append(threads[c].pending, Sample(c))
  <2>1. file \in Seq(Samples) /\ s \in Seq(Samples)
    BY SampleSeq DEF TypeInv
  <2>2. file' = file \o s
    BY <1>2 DEF Writes
  <2>3. /\ \A j \in DOMAIN threads[c].pending : j \in DOMAIN s /\ s[j] = threads[c].pending[j]
        /\ \E j \in DOMAIN s : s[j] = Sample(c)
    <3>1. threads[c].pending \in Seq(Samples) /\ Sample(c) \in Samples
      BY SampleSeq
    <3>2. \A j \in DOMAIN threads[c].pending : j \in DOMAIN s /\ s[j] = threads[c].pending[j]
      BY <3>1, Appended
    <3>3. \E j \in DOMAIN s : s[j] = Sample(c)
      BY <3>1, Appended
    <3> QED
      BY <3>2, <3>3
  <2> HIDE DEF s
  <2>4. PICK j \in DOMAIN s : x = s[j]
    BY <2>3 DEF Held
  <2>5. Len(file) + j \in DOMAIN (file \o s) /\ Len(file) + j \notin DOMAIN file
           /\ (file \o s)[Len(file) + j] = s[j]
    BY <2>1, <2>4, Joined
  <2> QED
    BY <2>2, <2>4, <2>5
<1> QED
  BY <1>1, <1>2 DEF Held

-----------------------------------------------------------------------------
(* What each step of a thread does, field by field.                        *)

\* The first reading becomes the baseline.
LEMMA ReadBaselineDoes ==
  ASSUME TypeInv, NEW c \in CellIds, ReadBaseline(c)
  PROVE  /\ threads[c].pc = "start" /\ threads'[c].pc = "first"
         /\ threads'[c].base = threads'[c].prev /\ threads'[c].prev \in {time, 0}
         /\ threads'[c].prev # time => faults'[c] # {}
         /\ threads'[c].due = time + Interval
         /\ threads'[c].by = (IF threads[c].stop THEN time ELSE time + Interval) + Delay
         /\ threads'[c].stop = threads[c].stop /\ threads'[c].new = threads[c].new
         /\ threads'[c].stamp = threads[c].stamp /\ threads'[c].cover = threads[c].cover
         /\ threads'[c].pending = threads[c].pending /\ threads'[c].hung = threads[c].hung
         /\ \A d \in CellIds : d # c => threads'[d] = threads[d] /\ faults'[d] = faults[d]
         /\ faults[c] \subseteq faults'[c] /\ file' = file
         /\ time' = time /\ UNCHANGED cellVars
<1>1. PICK read \in {time, 0} :
        /\ IF read = time THEN UNCHANGED faults ELSE Fault(c, "baseline")
        /\ Thread(c, [threads[c] EXCEPT !.pc = "first", !.base = read, !.prev = read,
                       !.due = WaitEnds,
                       !.by = (IF threads[c].stop THEN time ELSE WaitEnds) + Delay])
  BY DEF ReadBaseline
<1>2. threads'[c] = [threads[c] EXCEPT !.pc = "first", !.base = read, !.prev = read,
                       !.due = WaitEnds,
                       !.by = (IF threads[c].stop THEN time ELSE WaitEnds) + Delay]
  BY <1>1 DEF Thread, TypeInv
<1>3. threads[c] \in Threads
  BY DEF TypeInv
<1>4. /\ \A d \in CellIds : d # c => threads'[d] = threads[d] /\ faults'[d] = faults[d]
      /\ faults[c] \subseteq faults'[c]
      /\ read # time => faults'[c] # {}
  BY <1>1 DEF Thread, Fault, TypeInv
<1> QED
  BY <1>1, <1>2, <1>3, <1>4 DEF ReadBaseline, WaitEnds, Threads

\* A thread that ends.
LEMMA EndsDoes ==
  ASSUME TypeInv, NEW c \in CellIds, Ends(c)
  PROVE  /\ threads[c].pc \in {"first", "wait"} /\ threads[c].stop
         /\ threads'[c].pc = "gone" /\ threads'[c].due = 0
         /\ threads'[c].by = 0 /\ threads'[c].stop = FALSE
         /\ threads'[c].base = threads[c].base /\ threads'[c].prev = 0
         /\ threads'[c].new = 0 /\ threads'[c].stamp = 0
         /\ threads'[c].cover = None /\ threads'[c].pending = <<>>
         /\ threads'[c].hung = FALSE
         /\ \A d \in CellIds : d # c => threads'[d] = threads[d] /\ faults'[d] = faults[d]
         /\ faults' = faults /\ file' = file \o threads[c].pending
         /\ time' = time /\ UNCHANGED cellVars
<1>1. threads[c] \in Threads
  BY DEF TypeInv
<1>2. threads'[c] = Gone(c)
  BY DEF Ends, Thread, TypeInv
<1>3. \A d \in CellIds : d # c => threads'[d] = threads[d] /\ faults'[d] = faults[d]
  BY DEF Ends, Thread, TypeInv
<1> QED
  BY <1>1, <1>2, <1>3 DEF Ends, Awake, Gone, NoThread, Threads

\* A thread that reads.
LEMMA ReadsDoes ==
  ASSUME TypeInv, NEW c \in CellIds, Reads(c)
  PROVE  /\ threads[c].pc \in {"first", "wait"} /\ ~ threads[c].stop /\ time >= threads[c].due
         /\ threads'[c].pc = "write" /\ threads'[c].due = 0
         /\ threads'[c].by = time + Delay /\ threads'[c].stop = threads[c].stop
         /\ threads'[c].base = threads[c].base /\ threads'[c].prev = threads[c].prev
         /\ threads'[c].new = time /\ threads'[c].stamp = time
         /\ threads'[c].cover = IF time > threads[c].prev THEN <<threads[c].prev, time>> ELSE None
         /\ threads'[c].pending = threads[c].pending
         /\ threads'[c].hung = threads[c].hung
         /\ \A d \in CellIds : d # c => threads'[d] = threads[d] /\ faults'[d] = faults[d]
         /\ faults' = faults /\ file' = file
         /\ time' = time /\ UNCHANGED cellVars
<1>1. threads[c] \in Threads
  BY DEF TypeInv
<1>2. threads'[c] = [threads[c] EXCEPT !.pc = "write", !.stamp = time, !.new = time,
                       !.due = 0, !.by = time + Delay,
                       !.cover = IF time > threads[c].prev THEN <<threads[c].prev, time>>
                                 ELSE None]
  BY DEF Reads, Thread, TypeInv
<1>3. \A d \in CellIds : d # c => threads'[d] = threads[d] /\ faults'[d] = faults[d]
  BY DEF Reads, Thread, TypeInv
<1> QED
  BY <1>1, <1>2, <1>3 DEF Reads, Awake, Threads

\* A thread whose reading fails.
LEMMA ReadFailsDoes ==
  ASSUME TypeInv, NEW c \in CellIds, ReadFails(c)
  PROVE  /\ threads[c].pc \in {"first", "wait"} /\ ~ threads[c].stop /\ time >= threads[c].due
         /\ threads'[c].pc = "write" /\ threads'[c].due = 0
         /\ threads'[c].by = time + Delay /\ threads'[c].stop = threads[c].stop
         /\ threads'[c].base = threads[c].base /\ threads'[c].prev = threads[c].prev
         /\ threads'[c].new = threads[c].prev /\ threads'[c].stamp = time
         /\ threads'[c].cover = threads[c].cover
         /\ threads'[c].pending = threads[c].pending
         /\ threads'[c].hung = threads[c].hung
         /\ \A d \in CellIds : d # c => threads'[d] = threads[d] /\ faults'[d] = faults[d]
         /\ faults[c] \subseteq faults'[c] /\ "read" \in faults'[c] /\ file' = file
         /\ time' = time /\ UNCHANGED cellVars
<1>1. threads[c] \in Threads
  BY DEF TypeInv
<1>2. threads'[c] = [threads[c] EXCEPT !.pc = "write", !.stamp = time,
                       !.new = threads[c].prev, !.due = 0, !.by = time + Delay]
  BY DEF ReadFails, Thread, TypeInv
<1>3. \A d \in CellIds : d # c => threads'[d] = threads[d] /\ faults'[d] = faults[d]
  BY DEF ReadFails, Thread, Fault, TypeInv
<1>4. faults[c] \subseteq faults'[c] /\ "read" \in faults'[c]
  BY DEF ReadFails, Fault, TypeInv
<1> QED
  BY <1>1, <1>2, <1>3, <1>4 DEF ReadFails, Awake, Threads

\* A thread that cannot open the file.
LEMMA OpenFailsDoes ==
  ASSUME TypeInv, NEW c \in CellIds, OpenFails(c)
  PROVE  /\ threads[c].pc = "first" /\ threads'[c].pc = "gone"
         /\ threads'[c].due = 0 /\ threads'[c].by = 0
         /\ threads'[c].stop = FALSE /\ threads'[c].base = threads[c].base
         /\ threads'[c].prev = 0 /\ threads'[c].new = 0
         /\ threads'[c].stamp = 0 /\ threads'[c].cover = None
         /\ threads'[c].pending = <<>> /\ threads'[c].hung = FALSE
         /\ \A d \in CellIds : d # c => threads'[d] = threads[d] /\ faults'[d] = faults[d]
         /\ faults[c] \subseteq faults'[c] /\ "open" \in faults'[c] /\ file' = file
         /\ time' = time /\ UNCHANGED cellVars
<1>1. threads[c] \in Threads
  BY DEF TypeInv
<1>2. threads'[c] = Gone(c)
  BY DEF OpenFails, Thread, TypeInv
<1>3. \A d \in CellIds : d # c => threads'[d] = threads[d] /\ faults'[d] = faults[d]
  BY DEF OpenFails, Thread, Fault, TypeInv
<1>4. faults[c] \subseteq faults'[c] /\ "open" \in faults'[c]
  BY DEF OpenFails, Fault, TypeInv
<1> QED
  BY <1>1, <1>2, <1>3, <1>4 DEF OpenFails, Awake, Gone, NoThread, Threads

\* A thread that writes.
LEMMA WritesDoes ==
  ASSUME TypeInv, NEW c \in CellIds, Writes(c)
  PROVE  /\ threads[c].pc = "write" /\ threads'[c].pc = "wait"
         /\ threads'[c].due = time + Interval
         /\ threads'[c].by = (IF threads[c].stop THEN time ELSE time + Interval) + Delay
         /\ threads'[c].stop = threads[c].stop /\ threads'[c].base = threads[c].base
         /\ threads'[c].prev = threads[c].new /\ threads'[c].new = 0
         /\ threads'[c].stamp = 0 /\ threads'[c].cover = None
         /\ threads'[c].pending = <<>> /\ threads'[c].hung = threads[c].hung
         /\ \A d \in CellIds : d # c => threads'[d] = threads[d] /\ faults'[d] = faults[d]
         /\ file' = file \o Append(threads[c].pending, Sample(c)) /\ faults' = faults
         /\ time' = time /\ UNCHANGED cellVars
<1>1. threads[c] \in Threads
  BY DEF TypeInv
<1>2. threads'[c] = [Waits(c) EXCEPT !.prev = threads[c].new, !.pending = <<>>]
  BY DEF Writes, Thread, TypeInv
<1>3. \A d \in CellIds : d # c => threads'[d] = threads[d] /\ faults'[d] = faults[d]
  BY DEF Writes, Thread, TypeInv
<1> QED
  BY <1>1, <1>2, <1>3 DEF Writes, Waits, WaitEnds, Threads

\* A thread whose flush fails.
LEMMA FlushFailsDoes ==
  ASSUME TypeInv, NEW c \in CellIds, FlushFails(c)
  PROVE  /\ threads[c].pc = "write" /\ threads'[c].pc = "wait"
         /\ threads'[c].due = time + Interval
         /\ threads'[c].by = (IF threads[c].stop THEN time ELSE time + Interval) + Delay
         /\ threads'[c].stop = threads[c].stop /\ threads'[c].base = threads[c].base
         /\ threads'[c].prev = threads[c].prev /\ threads'[c].new = 0
         /\ threads'[c].stamp = 0 /\ threads'[c].cover = None
         /\ threads'[c].pending = Append(threads[c].pending, Sample(c))
         /\ threads'[c].hung = threads[c].hung
         /\ \A d \in CellIds : d # c => threads'[d] = threads[d] /\ faults'[d] = faults[d]
         /\ faults[c] \subseteq faults'[c] /\ "flush" \in faults'[c] /\ file' = file
         /\ time' = time /\ UNCHANGED cellVars
<1>1. threads[c] \in Threads
  BY DEF TypeInv
<1>2. threads'[c] = [Waits(c) EXCEPT !.pending = Append(threads[c].pending, Sample(c))]
  BY DEF FlushFails, Thread, TypeInv
<1>3. \A d \in CellIds : d # c => threads'[d] = threads[d] /\ faults'[d] = faults[d]
  BY DEF FlushFails, Thread, Fault, TypeInv
<1>4. faults[c] \subseteq faults'[c] /\ "flush" \in faults'[c]
  BY DEF FlushFails, Fault, TypeInv
<1> QED
  BY <1>1, <1>2, <1>3, <1>4 DEF FlushFails, Waits, WaitEnds, Threads

\* A thread that hangs.
LEMMA HangDoes ==
  ASSUME TypeInv, NEW c \in CellIds, Hang(c)
  PROVE  /\ threads[c].pc = "write" /\ threads'[c].pc = threads[c].pc
         /\ threads'[c].due = threads[c].due /\ threads'[c].by = threads[c].by
         /\ threads'[c].stop = threads[c].stop /\ threads'[c].base = threads[c].base
         /\ threads'[c].prev = threads[c].prev /\ threads'[c].new = threads[c].new
         /\ threads'[c].stamp = threads[c].stamp
         /\ threads'[c].cover = threads[c].cover
         /\ threads'[c].pending = threads[c].pending /\ threads'[c].hung = TRUE
         /\ \A d \in CellIds : d # c => threads'[d] = threads[d] /\ faults'[d] = faults[d]
         /\ faults[c] \subseteq faults'[c] /\ "hang" \in faults'[c] /\ file' = file
         /\ time' = time /\ UNCHANGED cellVars
<1>1. threads[c] \in Threads
  BY DEF TypeInv
<1>2. threads'[c] = [threads[c] EXCEPT !.hung = TRUE]
  BY DEF Hang, Thread, TypeInv
<1>3. \A d \in CellIds : d # c => threads'[d] = threads[d] /\ faults'[d] = faults[d]
  BY DEF Hang, Thread, Fault, TypeInv
<1>4. faults[c] \subseteq faults'[c] /\ "hang" \in faults'[c]
  BY DEF Hang, Fault, TypeInv
<1> QED
  BY <1>1, <1>2, <1>3, <1>4 DEF Hang, Threads

\* A thread that goes on.
LEMMA UnblockDoes ==
  ASSUME TypeInv, NEW c \in CellIds, Unblock(c)
  PROVE  /\ threads[c].hung /\ threads'[c].pc = threads[c].pc
         /\ threads'[c].due = threads[c].due /\ threads'[c].by = time + Delay
         /\ threads'[c].stop = threads[c].stop /\ threads'[c].base = threads[c].base
         /\ threads'[c].prev = threads[c].prev /\ threads'[c].new = threads[c].new
         /\ threads'[c].stamp = threads[c].stamp
         /\ threads'[c].cover = threads[c].cover
         /\ threads'[c].pending = threads[c].pending /\ threads'[c].hung = FALSE
         /\ \A d \in CellIds : d # c => threads'[d] = threads[d] /\ faults'[d] = faults[d]
         /\ faults' = faults /\ file' = file
         /\ time' = time /\ UNCHANGED cellVars
<1>1. threads[c] \in Threads
  BY DEF TypeInv
<1>2. threads'[c] = [threads[c] EXCEPT !.hung = FALSE, !.by = time + Delay]
  BY DEF Unblock, Thread, TypeInv
<1>3. \A d \in CellIds : d # c => threads'[d] = threads[d] /\ faults'[d] = faults[d]
  BY DEF Unblock, Thread, TypeInv
<1> QED
  BY <1>1, <1>2, <1>3 DEF Unblock, Threads

\* The monitor of a cell that starts.
LEMMA StartMonitorDoes ==
  ASSUME TypeInv, StartMonitor
  PROVE  /\ cell \in Nat /\ cell + 1 \in CellIds /\ cell' = cell + 1 /\ time \in Nat
         /\ orchestrator = "idle" /\ orchestrator' = "running"
         /\ engine' = "warmup" /\ launched' = time
         /\ UNCHANGED <<time, joinBy, windows, start, file, faults>>
         /\ threads'[cell + 1].pc = "start" /\ threads'[cell + 1].by = time + Delay
         /\ threads'[cell + 1].due = 0 /\ threads'[cell + 1].stop = FALSE
         /\ threads'[cell + 1].base = 0 /\ threads'[cell + 1].prev = 0
         /\ threads'[cell + 1].new = 0 /\ threads'[cell + 1].stamp = 0
         /\ threads'[cell + 1].cover = None /\ threads'[cell + 1].pending = <<>>
         /\ threads'[cell + 1].hung = FALSE
         /\ \A d \in CellIds : d # cell + 1 => threads'[d] = threads[d]
<1>1. cell \in Nat /\ cell + 1 \in CellIds
  BY MonitorAssumption DEF StartMonitor, TypeInv, CellIds
<1>2. threads'[cell + 1] = [NoThread EXCEPT !.pc = "start", !.by = time + Delay]
  BY <1>1 DEF StartMonitor, Thread, TypeInv
<1>3. \A d \in CellIds : d # cell + 1 => threads'[d] = threads[d]
  BY <1>1 DEF StartMonitor, Thread, TypeInv
<1> QED
  BY <1>1, <1>2, <1>3 DEF StartMonitor, TypeInv, NoThread

\* The end of a cell: its thread is told, and looks at its event soon.
LEMMA StopMonitorDoes ==
  ASSUME TypeInv, CellInv, StopMonitor
  PROVE  /\ cell \in CellIds /\ orchestrator = "running" /\ orchestrator' = "joining"
         /\ joinBy' = time + JoinTimeout /\ engine' = "off"
         /\ UNCHANGED <<time, cell, windows, file, faults>>
         /\ threads'[cell].pc = threads[cell].pc /\ threads'[cell].due = threads[cell].due
         /\ threads'[cell].stop = TRUE
         /\ threads'[cell].base = threads[cell].base /\ threads'[cell].prev = threads[cell].prev
         /\ threads'[cell].new = threads[cell].new /\ threads'[cell].stamp = threads[cell].stamp
         /\ threads'[cell].cover = threads[cell].cover
         /\ threads'[cell].pending = threads[cell].pending
         /\ threads'[cell].hung = threads[cell].hung
         /\ threads'[cell].by = IF threads[cell].by > time + Delay THEN time + Delay
                                ELSE threads[cell].by
         /\ \A d \in CellIds : d # cell => threads'[d] = threads[d]
<1>1. cell \in CellIds
  BY DEF StopMonitor, TypeInv, CellInv, CellIds
<1>2. threads'[cell] = [threads[cell] EXCEPT !.stop = TRUE,
                          !.by = IF @ > time + Delay THEN time + Delay ELSE @]
  BY <1>1 DEF StopMonitor, Thread, TypeInv
<1>3. \A d \in CellIds : d # cell => threads'[d] = threads[d]
  BY <1>1 DEF StopMonitor, Thread, TypeInv
<1>4. threads[cell] \in Threads
  BY <1>1 DEF TypeInv
<1> QED
  BY <1>1, <1>2, <1>3, <1>4 DEF StopMonitor, Threads
-----------------------------------------------------------------------------
(* Cells, threads and what threads hold back.                              *)

\* A thread that is not told to stop is that of the cell that runs.
LEMMA CellPreserved ==
  ASSUME TypeInv, CellInv, [Next]_vars
  PROVE  CellInv'
<1> USE DEF vars, cellVars
<1> USE MonitorAssumption
<1>1. CASE StartMonitor
  <2>1. cell + 1 \in CellIds /\ cell \in Nat /\ cell' = cell + 1
    BY <1>1 DEF StartMonitor, TypeInv, CellIds
  <2>2. /\ threads'[cell + 1].pc = "start" /\ threads'[cell + 1].stop = FALSE
        /\ \A d \in CellIds : d # cell + 1 => threads'[d] = threads[d]
    BY <1>1, <2>1 DEF StartMonitor, NoThread, Thread, TypeInv
  <2>3. ASSUME NEW d \in CellIds
        PROVE  /\ threads'[d].pc = "none" <=> d > cell'
               /\ (threads'[d].pc \notin {"none", "gone"} /\ ~ threads'[d].stop) => d = cell'
    <3>1. CASE d = cell + 1
      BY <2>1, <2>2, <3>1
    <3>2. CASE d # cell + 1
      <4>1. threads'[d] = threads[d]
        BY <2>2, <3>2
      <4>2. threads[d].pc = "none" <=> d > cell
        BY DEF CellInv
      <4>3. threads[d].pc \notin {"none", "gone"} => threads[d].stop
        BY <1>1 DEF StartMonitor, CellInv, Alive
      <4> QED
        BY <2>1, <3>2, <4>1, <4>2, <4>3 DEF CellIds
    <3> QED
      BY <3>1, <3>2
  <2>4. time \in Nat /\ launched' = time /\ time' = time /\ orchestrator' = "running" /\ engine' = "warmup"
    BY <1>1 DEF StartMonitor, TypeInv
  <2> QED
    BY <2>1, <2>2, <2>3, <2>4 DEF CellInv, Alive
<1>2. CASE EnterSteady
  BY <1>2 DEF EnterSteady, CellInv, TypeInv, Threads, CellIds, Alive
<1>3. CASE LeaveSteady
  BY <1>3 DEF LeaveSteady, CellInv, TypeInv, Threads, CellIds, Alive
<1>4. CASE StopMonitor
  BY <1>4 DEF StopMonitor, Thread, CellInv, TypeInv, Threads, CellIds, Alive
<1>5. CASE Join
  BY <1>5 DEF Join, CellInv, TypeInv, Threads, CellIds, Alive
<1>6. CASE Tick
  BY <1>6 DEF Tick, CellInv, TypeInv, Threads, CellIds, Alive
<1>7. CASE UNCHANGED vars
  BY <1>7 DEF CellInv, TypeInv, Threads, CellIds, Alive
<1>8. ASSUME NEW c \in CellIds, ReadBaseline(c)
      PROVE  CellInv'
  <2>1. /\ threads'[c].pc = "first" /\ threads'[c].stop = threads[c].stop
        /\ \A d \in CellIds : d # c => threads'[d] = threads[d]
    BY <1>8 DEF ReadBaseline, Thread, TypeInv, Threads
  <2>2. threads[c].pc = "start" /\ UNCHANGED <<time, cellVars>>
    BY <1>8 DEF ReadBaseline
  <2>3. \A d \in CellIds : faults[d] \subseteq faults'[d]
    BY <1>8 DEF ReadBaseline, Fault, TypeInv
  <2> QED
    BY <2>1, <2>2, <2>3 DEF CellInv, TypeInv, CellIds, Alive
<1>9. ASSUME NEW c \in CellIds, Ends(c)
      PROVE  CellInv'
  BY <1>9 DEF Ends, Awake, Gone, Thread, NoThread, CellInv, TypeInv, Threads, CellIds, Alive
<1>10. ASSUME NEW c \in CellIds, Reads(c)
       PROVE  CellInv'
  <2>1. /\ threads[c].pc \in {"first", "wait"} /\ threads'[c].pc = "write"
        /\ threads'[c].stop = threads[c].stop
        /\ \A d \in CellIds : d # c => threads'[d] = threads[d]
        /\ UNCHANGED <<time, cellVars>> /\ faults' = faults
    BY <1>10, ReadsDoes
  <2> QED
    BY <2>1 DEF CellInv, TypeInv, CellIds, Alive
<1>11. ASSUME NEW c \in CellIds, ReadFails(c)
       PROVE  CellInv'
  <2>1. /\ threads[c].pc \in {"first", "wait"} /\ threads'[c].pc = "write"
        /\ threads'[c].stop = threads[c].stop
        /\ \A d \in CellIds : d # c => threads'[d] = threads[d]
        /\ UNCHANGED <<time, cellVars>>
    BY <1>11, ReadFailsDoes
  <2>2. \A d \in CellIds : faults[d] \subseteq faults'[d]
    BY <1>11, ReadFailsDoes
  <2> QED
    BY <2>1, <2>2 DEF CellInv, TypeInv, CellIds, Alive
<1>12. ASSUME NEW c \in CellIds, OpenFails(c)
       PROVE  CellInv'
  BY <1>12 DEF OpenFails, Awake, Gone, Thread, NoThread, Fault, CellInv, TypeInv, Threads, CellIds, Alive
<1>13. ASSUME NEW c \in CellIds, Writes(c)
       PROVE  CellInv'
  <2>1. /\ threads[c].pc = "write" /\ threads'[c].pc = "wait"
        /\ threads'[c].stop = threads[c].stop
        /\ \A d \in CellIds : d # c => threads'[d] = threads[d]
        /\ UNCHANGED <<time, cellVars>>
    BY <1>13, WritesDoes
  <2>2. \A d \in CellIds : faults[d] \subseteq faults'[d]
    BY <1>13, WritesDoes
  <2> QED
    BY <2>1, <2>2 DEF CellInv, TypeInv, CellIds, Alive
<1>14. ASSUME NEW c \in CellIds, FlushFails(c)
       PROVE  CellInv'
  <2>1. /\ threads[c].pc = "write" /\ threads'[c].pc = "wait"
        /\ threads'[c].stop = threads[c].stop
        /\ \A d \in CellIds : d # c => threads'[d] = threads[d]
        /\ UNCHANGED <<time, cellVars>>
    BY <1>14, FlushFailsDoes
  <2>2. \A d \in CellIds : faults[d] \subseteq faults'[d]
    BY <1>14, FlushFailsDoes
  <2> QED
    BY <2>1, <2>2 DEF CellInv, TypeInv, CellIds, Alive
<1>15. ASSUME NEW c \in CellIds, Hang(c)
       PROVE  CellInv'
  BY <1>15 DEF Hang, Thread, Fault, CellInv, TypeInv, Threads, CellIds, Alive
<1>16. ASSUME NEW c \in CellIds, Unblock(c)
       PROVE  CellInv'
  BY <1>16 DEF Unblock, Thread, CellInv, TypeInv, Threads, CellIds, Alive
<1> QED
  BY <1>1, <1>2, <1>3, <1>4, <1>5, <1>6, <1>7, <1>8, <1>9, <1>10,
     <1>11, <1>12, <1>13, <1>14, <1>15, <1>16, Kinds


\* A step of one thread that holds back what it held, or nothing.
LEMMA HeldByOne ==
  ASSUME HeldInv, NEW c \in CellIds,
         \A d \in CellIds \ {c} : threads'[d] = threads[d],
         \A d \in CellIds : faults[d] \subseteq faults'[d],
         \/ threads'[c].pending = <<>>
         \/ /\ threads'[c].pending = threads[c].pending
            /\ threads[c].pc \in {"wait", "write"} => threads'[c].pc \in {"wait", "write"}
  PROVE  HeldInv'
<1>1. \A d \in CellIds \ {c} :
        /\ threads'[d].pending = threads[d].pending /\ threads'[d].pc = threads[d].pc
        /\ "flush" \notin faults'[d] => "flush" \notin faults[d]
  OBVIOUS
<1>2. CASE threads'[c].pending = <<>>
  <2>1. DOMAIN threads'[c].pending = {}
    BY <1>2
  <2> QED
    BY <1>1, <1>2, <2>1 DEF HeldInv
<1>3. CASE /\ threads'[c].pending = threads[c].pending
           /\ threads[c].pc \in {"wait", "write"} => threads'[c].pc \in {"wait", "write"}
  BY <1>1, <1>3 DEF HeldInv
<1> QED
  BY <1>2, <1>3


\* Threads hold back samples of their own, after a failed flush.
LEMMA HeldPreserved ==
  ASSUME TypeInv, CellInv, HeldInv, [Next]_vars
  PROVE  HeldInv'
<1> USE DEF vars, cellVars
<1>1. CASE StartMonitor
  BY <1>1 DEF StartMonitor, NoThread, Thread, HeldInv, TypeInv, Threads
<1>2. CASE EnterSteady
  BY <1>2 DEF EnterSteady, HeldInv, TypeInv, Threads
<1>3. CASE LeaveSteady
  BY <1>3 DEF LeaveSteady, HeldInv, TypeInv, Threads
<1>4. CASE StopMonitor
  BY <1>4 DEF StopMonitor, Thread, HeldInv, TypeInv, Threads
<1>5. CASE Join
  BY <1>5 DEF Join, HeldInv, TypeInv, Threads
<1>6. CASE Tick
  BY <1>6 DEF Tick, HeldInv, TypeInv, Threads
<1>7. CASE UNCHANGED vars
  BY <1>7 DEF HeldInv, TypeInv, Threads
<1>8. ASSUME NEW c \in CellIds, ReadBaseline(c)
      PROVE  HeldInv'
  <2>1. \A d \in CellIds \ {c} : threads'[d] = threads[d]
    BY <1>8 DEF ReadBaseline, Thread, TypeInv
  <2>2. UNCHANGED faults \/ Fault(c, "baseline")
    BY <1>8 DEF ReadBaseline
  <2>3. \A d \in CellIds : faults[d] \subseteq faults'[d]
    BY <2>2 DEF Fault, TypeInv
  <2>4. threads'[c].pending = threads[c].pending /\ threads[c].pc = "start"
    BY <1>8 DEF ReadBaseline, Thread, TypeInv, Threads
  <2> QED
    BY <2>1, <2>3, <2>4, HeldByOne
<1>9. ASSUME NEW c \in CellIds, Ends(c)
      PROVE  HeldInv'
  <2>1. /\ \A d \in CellIds \ {c} : threads'[d] = threads[d]
        /\ \A d \in CellIds : faults[d] \subseteq faults'[d]
    BY <1>9 DEF Ends, Thread, TypeInv
  <2>2. threads'[c].pending = <<>>
    BY <1>9 DEF Ends, Awake, Gone, Thread, NoThread, TypeInv, Threads
  <2> QED
    BY <2>1, <2>2, HeldByOne
<1>10. ASSUME NEW c \in CellIds, Reads(c)
       PROVE  HeldInv'
  <2>1. /\ \A d \in CellIds \ {c} : threads'[d] = threads[d]
        /\ \A d \in CellIds : faults[d] \subseteq faults'[d]
    BY <1>10 DEF Reads, Thread, TypeInv
  <2>2. threads'[c].pending = threads[c].pending /\ threads'[c].pc = "write"
    BY <1>10 DEF Reads, Awake, Thread, TypeInv, Threads
  <2> QED
    BY <2>1, <2>2, HeldByOne
<1>11. ASSUME NEW c \in CellIds, ReadFails(c)
       PROVE  HeldInv'
  <2>1. /\ \A d \in CellIds \ {c} : threads'[d] = threads[d]
        /\ \A d \in CellIds : faults[d] \subseteq faults'[d]
    BY <1>11 DEF ReadFails, Thread, Fault, TypeInv
  <2>2. threads'[c].pending = threads[c].pending /\ threads'[c].pc = "write"
    BY <1>11 DEF ReadFails, Awake, Thread, Fault, TypeInv, Threads
  <2> QED
    BY <2>1, <2>2, HeldByOne
<1>12. ASSUME NEW c \in CellIds, OpenFails(c)
       PROVE  HeldInv'
  <2>1. /\ \A d \in CellIds \ {c} : threads'[d] = threads[d]
        /\ \A d \in CellIds : faults[d] \subseteq faults'[d]
    BY <1>12 DEF OpenFails, Thread, Fault, TypeInv
  <2>2. threads'[c].pending = <<>>
    BY <1>12 DEF OpenFails, Awake, Gone, Thread, NoThread, Fault, TypeInv, Threads
  <2> QED
    BY <2>1, <2>2, HeldByOne
<1>13. ASSUME NEW c \in CellIds, Writes(c)
       PROVE  HeldInv'
  <2>1. /\ \A d \in CellIds \ {c} : threads'[d] = threads[d]
        /\ \A d \in CellIds : faults[d] \subseteq faults'[d]
    BY <1>13 DEF Writes, Thread, TypeInv
  <2>2. threads'[c].pending = <<>>
    BY <1>13 DEF Writes, Waits, Sample, Thread, WaitEnds, TypeInv, Threads
  <2> QED
    BY <2>1, <2>2, HeldByOne
<1>14. ASSUME NEW c \in CellIds, FlushFails(c)
       PROVE  HeldInv'
  <2>1. /\ \A j \in DOMAIN threads'[c].pending :
               (j \in DOMAIN threads[c].pending /\ threads'[c].pending[j] = threads[c].pending[j])
                 \/ threads'[c].pending[j] = Sample(c)
    <3>1. threads[c].pending \in Seq(Samples) /\ Sample(c) \in Samples
      BY SampleSeq
    <3>2. threads'[c].pending = Append(threads[c].pending, Sample(c))
      BY <1>14 DEF FlushFails, Waits, Thread, TypeInv, Threads
    <3> QED
      BY <3>1, <3>2, Appended
  <2>2. /\ threads'[c].pc = "wait" /\ "flush" \in faults'[c]
        /\ \A d \in CellIds \ {c} : threads'[d] = threads[d] /\ faults'[d] = faults[d]
    BY <1>14 DEF FlushFails, Waits, Thread, Fault, TypeInv, Threads
  <2>3. Sample(c).cell = c
    BY DEF Sample
  <2>4. \A j \in DOMAIN threads'[c].pending : threads'[c].pending[j].cell = c
    BY <2>1, <2>3 DEF HeldInv
  <2> QED
    BY <2>2, <2>4 DEF HeldInv
<1>15. ASSUME NEW c \in CellIds, Hang(c)
       PROVE  HeldInv'
  <2>1. /\ \A d \in CellIds \ {c} : threads'[d] = threads[d]
        /\ \A d \in CellIds : faults[d] \subseteq faults'[d]
    BY <1>15 DEF Hang, Thread, Fault, TypeInv
  <2>2. threads'[c].pending = threads[c].pending /\ threads'[c].pc = threads[c].pc
    BY <1>15 DEF Hang, Thread, Fault, TypeInv, Threads
  <2> QED
    BY <2>1, <2>2, HeldByOne
<1>16. ASSUME NEW c \in CellIds, Unblock(c)
       PROVE  HeldInv'
  <2>1. /\ \A d \in CellIds \ {c} : threads'[d] = threads[d]
        /\ \A d \in CellIds : faults[d] \subseteq faults'[d]
    BY <1>16 DEF Unblock, Thread, TypeInv
  <2>2. threads'[c].pending = threads[c].pending /\ threads'[c].pc = threads[c].pc
    BY <1>16 DEF Unblock, Thread, TypeInv, Threads
  <2> QED
    BY <2>1, <2>2, HeldByOne
<1> QED
  BY <1>1, <1>2, <1>3, <1>4, <1>5, <1>6, <1>7, <1>8, <1>9, <1>10,
     <1>11, <1>12, <1>13, <1>14, <1>15, <1>16, Kinds


\* What comes into the file is of the cell whose thread puts it there.
LEMMA HeldIsOwn ==
  ASSUME TypeInv, HeldInv, NEW c \in CellIds, NEW x, Held(c, x)
  PROVE  x.cell = c /\ threads'[c].pc \in {"wait", "gone"}
<1>1. \A j \in DOMAIN threads[c].pending : threads[c].pending[j].cell = c
  BY DEF HeldInv
<1>2. Sample(c).cell = c
  BY DEF Sample
<1>3. Ends(c) => threads'[c].pc = "gone"
  BY EndsDoes
<1>4. Writes(c) => threads'[c].pc = "wait"
  BY WritesDoes
<1> QED
  BY <1>1, <1>2, <1>3, <1>4 DEF Held

\* A thread that has collected a sample never goes back before that.
LEMMA Onward ==
  ASSUME TypeInv, CellInv, [Next]_vars, NEW d \in CellIds,
         threads[d].pc \in {"wait", "write", "gone"}
  PROVE  threads'[d].pc \in {"wait", "write", "gone"}
<1>1. CASE StartMonitor
  BY <1>1, StartMonitorDoes DEF CellInv, CellIds
<1>2. CASE EnterSteady \/ LeaveSteady \/ Join \/ Tick \/ UNCHANGED vars
  BY <1>2 DEF EnterSteady, LeaveSteady, Join, Tick, vars, cellVars
<1>3. CASE StopMonitor
  BY <1>3, StopMonitorDoes
<1>4. ASSUME NEW c \in CellIds,
             Ends(c) \/ Reads(c) \/ ReadFails(c) \/ OpenFails(c) \/ Writes(c) \/ FlushFails(c)
      PROVE  threads'[d].pc \in {"wait", "write", "gone"}
  BY <1>4, EndsDoes, ReadsDoes, ReadFailsDoes, OpenFailsDoes, WritesDoes, FlushFailsDoes
<1>5. ASSUME NEW c \in CellIds, ReadBaseline(c) \/ Hang(c) \/ Unblock(c)
      PROVE  threads'[d].pc \in {"wait", "write", "gone"}
  BY <1>5, ReadBaselineDoes, HangDoes, UnblockDoes
<1> QED
  BY <1>1, <1>2, <1>3, <1>4, <1>5, Kinds

\* A sample in the file is of a cell whose thread got that far.
LEMMA OwnerPreserved ==
  ASSUME TypeInv, CellInv, HeldInv, OwnerInv, [Next]_vars
  PROVE  OwnerInv'
<1>1. ASSUME NEW k \in DOMAIN file', k \in DOMAIN file
      PROVE  threads'[file'[k].cell].pc \in {"wait", "write", "gone"}
  <2>1. file'[k] = file[k] /\ file[k] \in Samples
    BY <1>1, OldSamples DEF TypeInv
  <2>2. file[k].cell \in CellIds
    BY <2>1 DEF Samples
  <2> QED
    BY <1>1, <2>1, <2>2, Onward DEF OwnerInv
<1>2. ASSUME NEW k \in DOMAIN file', k \notin DOMAIN file
      PROVE  threads'[file'[k].cell].pc \in {"wait", "write", "gone"}
  BY <1>2, NewSamples, HeldIsOwn
<1> QED
  BY <1>1, <1>2 DEF OwnerInv

-----------------------------------------------------------------------------
(* Readings.                                                               *)

\* What a thread holds back after a failed flush: what it did, and its sample.
LEMMA HeldAfterFlush ==
  ASSUME TypeInv, NEW c \in CellIds, FlushFails(c)
  PROVE  /\ \A j \in DOMAIN threads'[c].pending :
              \/ j \in DOMAIN threads[c].pending
                 /\ threads'[c].pending[j] = threads[c].pending[j]
              \/ threads'[c].pending[j] = Sample(c)
         /\ Sample(c).cell = c /\ Sample(c).stamp = threads[c].stamp
         /\ Sample(c).cover = threads[c].cover
<1>1. threads[c].pending \in Seq(Samples) /\ Sample(c) \in Samples
  BY SampleSeq
<1>2. threads'[c].pending = Append(threads[c].pending, Sample(c))
  BY FlushFailsDoes
<1>3. \A j \in DOMAIN threads'[c].pending :
         \/ j \in DOMAIN threads[c].pending
            /\ threads'[c].pending[j] = threads[c].pending[j]
         \/ threads'[c].pending[j] = Sample(c)
  BY <1>1, <1>2, Appended
<1> QED
  BY <1>3 DEF Sample

\* Readings that stay as they were.
LEMMA SameReadings ==
  ASSUME NEW c, BaselineOf(c), time' = time,
         threads'[c].pc = threads[c].pc, threads'[c].base = threads[c].base,
         threads'[c].prev = threads[c].prev, threads'[c].new = threads[c].new,
         threads'[c].cover = threads[c].cover, threads'[c].pending = threads[c].pending
  PROVE  BaselineOf(c)'
BY DEF BaselineOf

\* What a thread holds back begins at its baseline.
LEMMA BaselinePreserved ==
  ASSUME TypeInv, CellInv, HeldInv, BaselineInv, [Next]_vars
  PROVE  BaselineInv'
<1> USE DEF cellVars
<1>1. CASE StartMonitor
  BY <1>1, StartMonitorDoes DEF BaselineInv, BaselineOf
<1>2. CASE EnterSteady
  BY <1>2 DEF EnterSteady, BaselineInv, BaselineOf
<1>3. CASE LeaveSteady
  BY <1>3 DEF LeaveSteady, BaselineInv, BaselineOf
<1>4. CASE StopMonitor
  BY <1>4, StopMonitorDoes DEF BaselineInv, BaselineOf
<1>5. CASE Join
  BY <1>5 DEF Join, BaselineInv, BaselineOf
<1>6. CASE Tick
  <2>1. \A c \in CellIds : threads[c] \in Threads
    BY DEF TypeInv
  <2> QED
    BY <1>6, <2>1 DEF Tick, BaselineInv, BaselineOf, TypeInv, Threads
<1>7. CASE UNCHANGED vars
  BY <1>7 DEF vars, BaselineInv, BaselineOf
<1>8. ASSUME NEW c \in CellIds, ReadBaseline(c)
      PROVE  BaselineInv'
  <2>0. ReadBaseline(c) /\ threads[c].prev \in Nat /\ threads[c].base \in Nat /\ time \in Nat
             /\ threads[c].new \in Nat /\ BaselineOf(c)
    BY <1>8 DEF TypeInv, Threads, BaselineInv
  <2>1. \A d \in CellIds \ {c} : BaselineOf(d)'
    <3>1. ASSUME NEW d \in CellIds \ {c}
          PROVE  threads'[d] = threads[d] /\ time' = time /\ BaselineOf(d)
      BY <1>8, ReadBaselineDoes DEF BaselineInv
    <3> QED
      BY <3>1, SameReadings
  <2>a. threads[c].pending = <<>> /\ threads[c].cover = None
    BY <2>0, ReadBaselineDoes DEF HeldInv, BaselineOf
  <2>2. BaselineOf(c)'
    BY <2>0, <2>a, ReadBaselineDoes DEF BaselineOf
  <2> QED
    BY <2>1, <2>2 DEF BaselineInv
<1>9. ASSUME NEW c \in CellIds, Ends(c)
      PROVE  BaselineInv'
  <2>0. Ends(c) /\ threads[c].prev \in Nat /\ threads[c].base \in Nat /\ time \in Nat
             /\ threads[c].new \in Nat /\ BaselineOf(c)
    BY <1>9 DEF TypeInv, Threads, BaselineInv
  <2>1. \A d \in CellIds \ {c} : BaselineOf(d)'
    <3>1. ASSUME NEW d \in CellIds \ {c}
          PROVE  threads'[d] = threads[d] /\ time' = time /\ BaselineOf(d)
      BY <1>9, EndsDoes DEF BaselineInv
    <3> QED
      BY <3>1, SameReadings
  <2>2. BaselineOf(c)'
    <3>1. threads'[c].pc = "gone" /\ threads'[c].cover = None /\ threads'[c].pending = <<>>
      BY <2>0, EndsDoes
    <3> QED
      BY <2>0, <3>1 DEF BaselineOf
  <2> QED
    BY <2>1, <2>2 DEF BaselineInv
<1>10. ASSUME NEW c \in CellIds, Reads(c)
       PROVE  BaselineInv'
  <2>0. Reads(c) /\ threads[c].prev \in Nat /\ threads[c].base \in Nat /\ time \in Nat
             /\ threads[c].new \in Nat /\ BaselineOf(c)
    BY <1>10 DEF TypeInv, Threads, BaselineInv
  <2>1. \A d \in CellIds \ {c} : BaselineOf(d)'
    <3>1. ASSUME NEW d \in CellIds \ {c}
          PROVE  threads'[d] = threads[d] /\ time' = time /\ BaselineOf(d)
      BY <1>10, ReadsDoes DEF BaselineInv
    <3> QED
      BY <3>1, SameReadings
  <2>a. threads[c].base <= threads[c].prev /\ threads[c].prev <= time
    BY <2>0, ReadsDoes DEF BaselineOf
  <2>b. <<threads[c].prev, time>> # None
    BY <2>0, NoneAssumption
  <2>c. \/ time > threads[c].prev /\ threads'[c].cover = <<threads[c].prev, time>>
        \/ time = threads[c].prev /\ threads'[c].cover = None
    <3>1. threads'[c].cover = IF time > threads[c].prev THEN <<threads[c].prev, time>> ELSE None
      BY <2>0, ReadsDoes
    <3> QED
      BY <2>0, <2>a, <3>1
  <2>2. BaselineOf(c)'
    <3>1. /\ threads'[c].pc = "write" /\ threads'[c].new = time
          /\ threads'[c].prev = threads[c].prev /\ threads'[c].base = threads[c].base
          /\ threads'[c].pending = threads[c].pending /\ time' = time
      BY <2>0, ReadsDoes
    <3>2. \A j \in DOMAIN threads'[c].pending :
            threads'[c].pending[j].cover # None =>
              /\ threads'[c].pending[j].cover[1] = threads'[c].prev
              /\ threads'[c].prev < threads'[c].pending[j].cover[2]
      BY <2>0, <3>1 DEF BaselineOf
    <3>3. /\ threads'[c].cover = None => threads'[c].new = threads'[c].prev
          /\ threads'[c].cover # None => /\ threads'[c].cover = <<threads'[c].prev, threads'[c].new>>
                                         /\ threads'[c].prev < threads'[c].new
      BY <2>0, <2>b, <2>c, <3>1
    <3> QED
      BY <2>0, <2>a, <3>1, <3>2, <3>3 DEF BaselineOf
  <2> QED
    BY <2>1, <2>2 DEF BaselineInv
<1>11. ASSUME NEW c \in CellIds, ReadFails(c)
       PROVE  BaselineInv'
  <2>0. ReadFails(c) /\ threads[c].prev \in Nat /\ threads[c].base \in Nat /\ time \in Nat
             /\ threads[c].new \in Nat /\ BaselineOf(c)
    BY <1>11 DEF TypeInv, Threads, BaselineInv
  <2>1. \A d \in CellIds \ {c} : BaselineOf(d)'
    <3>1. ASSUME NEW d \in CellIds \ {c}
          PROVE  threads'[d] = threads[d] /\ time' = time /\ BaselineOf(d)
      BY <1>11, ReadFailsDoes DEF BaselineInv
    <3> QED
      BY <3>1, SameReadings
  <2>2. BaselineOf(c)'
    <3>1. /\ threads'[c].pc = "write" /\ threads'[c].new = threads[c].prev
          /\ threads'[c].prev = threads[c].prev /\ threads'[c].base = threads[c].base
          /\ threads'[c].cover = threads[c].cover /\ threads[c].pc \in {"first", "wait"}
          /\ threads'[c].pending = threads[c].pending /\ time' = time
      BY <2>0, ReadFailsDoes
    <3> QED
      BY <2>0, <3>1 DEF BaselineOf
  <2> QED
    BY <2>1, <2>2 DEF BaselineInv
<1>12. ASSUME NEW c \in CellIds, OpenFails(c)
       PROVE  BaselineInv'
  <2>0. OpenFails(c) /\ threads[c].prev \in Nat /\ threads[c].base \in Nat /\ time \in Nat
             /\ threads[c].new \in Nat /\ BaselineOf(c)
    BY <1>12 DEF TypeInv, Threads, BaselineInv
  <2>1. \A d \in CellIds \ {c} : BaselineOf(d)'
    <3>1. ASSUME NEW d \in CellIds \ {c}
          PROVE  threads'[d] = threads[d] /\ time' = time /\ BaselineOf(d)
      BY <1>12, OpenFailsDoes DEF BaselineInv
    <3> QED
      BY <3>1, SameReadings
  <2>2. BaselineOf(c)'
    <3>1. threads'[c].pc = "gone" /\ threads'[c].cover = None /\ threads'[c].pending = <<>>
      BY <2>0, OpenFailsDoes
    <3> QED
      BY <2>0, <3>1 DEF BaselineOf
  <2> QED
    BY <2>1, <2>2 DEF BaselineInv
<1>13. ASSUME NEW c \in CellIds, Writes(c)
       PROVE  BaselineInv'
  <2>0. Writes(c) /\ threads[c].prev \in Nat /\ threads[c].base \in Nat /\ time \in Nat
             /\ threads[c].new \in Nat /\ BaselineOf(c)
    BY <1>13 DEF TypeInv, Threads, BaselineInv
  <2>1. \A d \in CellIds \ {c} : BaselineOf(d)'
    <3>1. ASSUME NEW d \in CellIds \ {c}
          PROVE  threads'[d] = threads[d] /\ time' = time /\ BaselineOf(d)
      BY <1>13, WritesDoes DEF BaselineInv
    <3> QED
      BY <3>1, SameReadings
  <2>2. BaselineOf(c)'
    BY <2>0, WritesDoes DEF BaselineOf
  <2> QED
    BY <2>1, <2>2 DEF BaselineInv
<1>14. ASSUME NEW c \in CellIds, FlushFails(c)
       PROVE  BaselineInv'
  <2>0. FlushFails(c) /\ threads[c].prev \in Nat /\ threads[c].base \in Nat /\ time \in Nat
             /\ threads[c].new \in Nat /\ BaselineOf(c)
    BY <1>14 DEF TypeInv, Threads, BaselineInv
  <2>1. \A d \in CellIds \ {c} : BaselineOf(d)'
    <3>1. ASSUME NEW d \in CellIds \ {c}
          PROVE  threads'[d] = threads[d] /\ time' = time /\ BaselineOf(d)
      BY <1>14, FlushFailsDoes DEF BaselineInv
    <3> QED
      BY <3>1, SameReadings
  <2>a. threads[c].cover # None =>
           threads[c].cover[1] = threads[c].prev /\ threads[c].prev < threads[c].cover[2]
    BY <2>0, FlushFailsDoes DEF BaselineOf
  <2>2. BaselineOf(c)'
    BY <2>0, <2>a, HeldAfterFlush, FlushFailsDoes DEF BaselineOf
  <2> QED
    BY <2>1, <2>2 DEF BaselineInv
<1>15. ASSUME NEW c \in CellIds, Hang(c)
       PROVE  BaselineInv'
  <2>0. Hang(c) /\ threads[c].prev \in Nat /\ threads[c].base \in Nat /\ time \in Nat
             /\ threads[c].new \in Nat /\ BaselineOf(c)
    BY <1>15 DEF TypeInv, Threads, BaselineInv
  <2>1. \A d \in CellIds \ {c} : BaselineOf(d)'
    <3>1. ASSUME NEW d \in CellIds \ {c}
          PROVE  threads'[d] = threads[d] /\ time' = time /\ BaselineOf(d)
      BY <1>15, HangDoes DEF BaselineInv
    <3> QED
      BY <3>1, SameReadings
  <2>2. BaselineOf(c)'
    <3>1. /\ threads'[c].pc = threads[c].pc /\ threads'[c].base = threads[c].base
          /\ threads'[c].prev = threads[c].prev /\ threads'[c].new = threads[c].new
          /\ threads'[c].cover = threads[c].cover /\ threads'[c].pending = threads[c].pending
          /\ time' = time
      BY <2>0, HangDoes
    <3> QED
      BY <2>0, <3>1, SameReadings
  <2> QED
    BY <2>1, <2>2 DEF BaselineInv
<1>16. ASSUME NEW c \in CellIds, Unblock(c)
       PROVE  BaselineInv'
  <2>0. Unblock(c) /\ threads[c].prev \in Nat /\ threads[c].base \in Nat /\ time \in Nat
             /\ threads[c].new \in Nat /\ BaselineOf(c)
    BY <1>16 DEF TypeInv, Threads, BaselineInv
  <2>1. \A d \in CellIds \ {c} : BaselineOf(d)'
    <3>1. ASSUME NEW d \in CellIds \ {c}
          PROVE  threads'[d] = threads[d] /\ time' = time /\ BaselineOf(d)
      BY <1>16, UnblockDoes DEF BaselineInv
    <3> QED
      BY <3>1, SameReadings
  <2>2. BaselineOf(c)'
    <3>1. /\ threads'[c].pc = threads[c].pc /\ threads'[c].base = threads[c].base
          /\ threads'[c].prev = threads[c].prev /\ threads'[c].new = threads[c].new
          /\ threads'[c].cover = threads[c].cover /\ threads'[c].pending = threads[c].pending
          /\ time' = time
      BY <2>0, UnblockDoes
    <3> QED
      BY <2>0, <3>1, SameReadings
  <2> QED
    BY <2>1, <2>2 DEF BaselineInv
<1> QED
  BY <1>1, <1>2, <1>3, <1>4, <1>5, <1>6, <1>7, <1>8, <1>9, <1>10,
     <1>11, <1>12, <1>13, <1>14, <1>15, <1>16, Kinds

-----------------------------------------------------------------------------
(* The samples of a cell tile time.                                        *)

\* What a step does to the baseline of a thread.
LEMMA Moves ==
  ASSUME TypeInv, CellInv, [Next]_vars, NEW c \in CellIds
  PROVE  /\ faults[c] \subseteq faults'[c]
         /\ \/ /\ threads'[c].base = threads[c].base
               /\ threads'[c].pc \in {"first", "wait", "write"} =>
                    Active(c) /\ threads'[c].prev = threads[c].prev
            \/ /\ threads[c].pc \in {"none", "start"}
               /\ threads'[c].base = threads'[c].prev
            \/ Ends(c) \/ Writes(c)
<1> USE DEF Active
<1>1. CASE StartMonitor
  <2>1. threads[cell + 1].pc = "none"
    BY <1>1, StartMonitorDoes DEF CellInv
  <2> QED
    BY <1>1, <2>1, StartMonitorDoes
<1>2. CASE EnterSteady \/ LeaveSteady \/ Join \/ Tick \/ UNCHANGED vars
  BY <1>2 DEF EnterSteady, LeaveSteady, Join, Tick, vars, cellVars
<1>3. CASE StopMonitor
  BY <1>3, StopMonitorDoes
<1>4. ASSUME NEW d \in CellIds,
             Reads(d) \/ ReadFails(d) \/ OpenFails(d) \/ FlushFails(d) \/ Hang(d) \/ Unblock(d)
      PROVE  /\ faults[c] \subseteq faults'[c]
             /\ threads'[c].base = threads[c].base
             /\ threads'[c].pc \in {"first", "wait", "write"} =>
                  Active(c) /\ threads'[c].prev = threads[c].prev
  <2>1. CASE Reads(d)
    BY <2>1, ReadsDoes
  <2>2. CASE ReadFails(d)
    BY <2>2, ReadFailsDoes
  <2>3. CASE OpenFails(d)
    BY <2>3, OpenFailsDoes
  <2>4. CASE FlushFails(d)
    BY <2>4, FlushFailsDoes
  <2>5. CASE Hang(d)
    BY <2>5, HangDoes
  <2>6. CASE Unblock(d)
    BY <2>6, UnblockDoes
  <2> QED
    BY <1>4, <2>1, <2>2, <2>3, <2>4, <2>5, <2>6
<1>5. ASSUME NEW d \in CellIds, ReadBaseline(d)
      PROVE  /\ faults[c] \subseteq faults'[c]
             /\ \/ threads'[c] = threads[c]
                \/ threads[c].pc = "start" /\ threads'[c].base = threads'[c].prev
  BY <1>5, ReadBaselineDoes
<1>6. ASSUME NEW d \in CellIds, Ends(d) \/ Writes(d)
      PROVE  faults[c] \subseteq faults'[c] /\ (d = c \/ threads'[c] = threads[c])
  BY <1>6, EndsDoes, WritesDoes
<1> QED
  BY <1>1, <1>2, <1>3, <1>4, <1>5, <1>6, Kinds

\* When the baseline of a cell is read, it has no sample yet.
LEMMA NoneYet ==
  ASSUME TypeInv, CellInv, HeldInv, OwnerInv, [Next]_vars, NEW c \in CellIds,
         threads[c].pc \in {"none", "start"}
  PROVE  Of(c)' = {}
<1>1. SUFFICES ASSUME NEW k \in DOMAIN file', file'[k].cell = c
               PROVE  FALSE
  BY DEF Of
<1>2. CASE k \in DOMAIN file
  BY <1>1, <1>2, OldSamples DEF OwnerInv
<1>3. CASE k \notin DOMAIN file
  <2>1. Held(c, file'[k])
    BY <1>1, <1>3, NewSamples, HeldIsOwn
  <2> QED
    BY <2>1, EndsDoes, WritesDoes DEF Held
<1> QED
  BY <1>2, <1>3

\* What the file covers it covers for good.
LEMMA StaysSpanned ==
  ASSUME TypeInv, [Next]_vars, NEW c \in CellIds, NEW from, NEW to, Spanned(c, from, to)
  PROVE  Spanned(c, from, to)'
BY OldSamples DEF Spanned, Of, Covers

\* A new sample of a cell begins at the thread's baseline.
LEMMA NewFromBaseline ==
  ASSUME TypeInv, HeldInv, BaselineInv, [Next]_vars, NEW c \in CellIds,
         NEW k \in DOMAIN file', k \notin DOMAIN file, file'[k].cell = c
  PROVE  /\ Ends(c) \/ Writes(c)
         /\ Active(c) /\ Held(c, file'[k])
         /\ file'[k].cover # None =>
              file'[k].cover[1] = threads[c].prev /\ threads[c].prev < file'[k].cover[2]
<1>1. Held(c, file'[k])
  BY NewSamples, HeldIsOwn
<1>2. (Ends(c) \/ Writes(c)) /\ Active(c)
  BY <1>1, EndsDoes, WritesDoes DEF Held, Active
<1>3. ASSUME NEW j \in DOMAIN threads[c].pending, file'[k] = threads[c].pending[j]
      PROVE  file'[k].cover # None =>
               file'[k].cover[1] = threads[c].prev /\ threads[c].prev < file'[k].cover[2]
  BY <1>3 DEF BaselineInv, BaselineOf
<1>4. ASSUME Writes(c), file'[k] = Sample(c)
      PROVE  file'[k].cover # None =>
               file'[k].cover[1] = threads[c].prev /\ threads[c].prev < file'[k].cover[2]
  <2>1. file'[k].cover = threads[c].cover /\ threads[c].pc = "write"
    BY <1>4, WritesDoes DEF Sample
  <2> QED
    BY <2>1 DEF BaselineInv, BaselineOf
<1> QED
  BY <1>1, <1>2, <1>3, <1>4 DEF Held

\* Times are numbers.
LEMMA Times ==
  ASSUME TypeInv, NEW c \in CellIds
  PROVE  /\ time \in Nat /\ threads[c].base \in Nat /\ threads[c].prev \in Nat
         /\ threads[c].new \in Nat /\ threads[c].stamp \in Nat /\ threads[c].due \in Nat
         /\ threads[c].by \in Nat /\ threads[c].stop \in BOOLEAN /\ threads[c].hung \in BOOLEAN
         /\ threads[c].cover # None => threads[c].cover[1] \in Nat /\ threads[c].cover[2] \in Nat
         /\ \A k \in DOMAIN file :
              /\ file[k].stamp \in Nat /\ file[k].cell \in CellIds
              /\ file[k].cover # None => file[k].cover[1] \in Nat /\ file[k].cover[2] \in Nat
<1>1. threads[c] \in Threads /\ time \in Nat
  BY DEF TypeInv
<1>2. \A k \in DOMAIN file : file[k] \in Samples
  BY DEF TypeInv
<1>3. threads[c].cover # None => threads[c].cover \in Nat \X Nat
  BY <1>1 DEF Threads, Spans
<1>4. ASSUME NEW k \in DOMAIN file
      PROVE  /\ file[k].stamp \in Nat /\ file[k].cell \in CellIds
             /\ file[k].cover # None => file[k].cover[1] \in Nat /\ file[k].cover[2] \in Nat
  BY <1>2 DEF Samples, Spans
<1>5. threads[c].cover # None => threads[c].cover[1] \in Nat /\ threads[c].cover[2] \in Nat
  BY <1>3
<1> QED
  BY <1>1, <1>4, <1>5 DEF Threads

\* A span and a sample that begins where it ends cover time up to the sample's end.
LEMMA SpanGrows ==
  ASSUME TypeInv, TypeInv', [Next]_vars, NEW c \in CellIds, NEW from \in Nat, NEW mid \in Nat,
         Spanned(c, from, mid), NEW k \in DOMAIN file', file'[k].cell = c,
         file'[k].cover # None, file'[k].cover[1] = mid
  PROVE  Spanned(c, from, file[k].cover[2])'
<1>1. Spanned(c, from, mid)'
  BY StaysSpanned
<1>2. file'[k].cover[2] \in Nat
  <2>1. file'[k] \in Samples
    BY DEF TypeInv
  <2> QED
    BY <2>1 DEF Samples, Spans
<1>3. ASSUME NEW t \in from + 1..file'[k].cover[2]
      PROVE  \E j \in Of(c)' : Covers(j, t)'
  <2>1. CASE t <= mid
    BY <1>1, <1>2, <2>1 DEF Spanned
  <2>2. CASE t > mid
    BY <1>2, <2>2 DEF Covers, Of
  <2> QED
    BY <1>2, <2>1, <2>2
<1> QED
  BY <1>3 DEF Spanned

\* The samples of a cell cover its time from the baseline to each reading.
LEMMA TileReadings ==
  ASSUME TypeInv, TypeInv', CellInv, HeldInv, OwnerInv, BaselineInv, TileInv, [Next]_vars,
         NEW c \in CellIds, NEW k \in Of(c)', file'[k].cover # None
  PROVE  Spanned(c, threads[c].base, file[k].cover[2])'
<1>1. CASE threads[c].pc \in {"none", "start"}
  BY <1>1, NoneYet
<1>2. CASE threads[c].pc \notin {"none", "start"}
  <2>1. threads'[c].base = threads[c].base
    BY <1>2, Moves, EndsDoes, WritesDoes
  <2>2. CASE k \in DOMAIN file
    <3>1. file'[k] = file[k] /\ k \in Of(c)
      BY <2>2, OldSamples DEF Of
    <3>2. Spanned(c, threads[c].base, file[k].cover[2])
      BY <3>1 DEF TileInv, TileOf
    <3> QED
      BY <2>1, <3>1, <3>2, StaysSpanned
  <2>3. CASE k \notin DOMAIN file
    <3>1. k \in DOMAIN file' /\ file'[k].cell = c
      BY DEF Of
    <3>2. Active(c) /\ file'[k].cover[1] = threads[c].prev
      BY <2>3, <3>1, NewFromBaseline
    <3>3. Spanned(c, threads[c].base, threads[c].prev)
      BY <3>2 DEF TileInv, TileOf
    <3> QED
      BY <2>1, <3>1, <3>2, <3>3, SpanGrows, Times
  <2> QED
    BY <2>2, <2>3
<1> QED
  BY <1>1, <1>2

\* And up to the thread's next baseline.
LEMMA TileBaseline ==
  ASSUME TypeInv, TypeInv', CellInv, HeldInv, OwnerInv, BaselineInv, TileInv, [Next]_vars,
         NEW c \in CellIds, Active(c)'
  PROVE  Spanned(c, threads[c].base, threads[c].prev)'
<1> USE DEF Active
<1>1. CASE threads'[c].base = threads'[c].prev
  <2>1. threads'[c].prev \in Nat
    BY DEF TypeInv, Threads
  <2> QED
    BY <1>1, <2>1 DEF Spanned
<1>2. CASE Active(c) /\ threads'[c].base = threads[c].base /\ threads'[c].prev = threads[c].prev
  BY <1>2, StaysSpanned DEF TileInv, TileOf
<1>3. CASE Writes(c)
  <2>1. /\ threads'[c].base = threads[c].base /\ threads'[c].prev = threads[c].new
        /\ threads[c].pc = "write"
    BY <1>3, WritesDoes
  <2>2. Spanned(c, threads[c].base, threads[c].prev)
    BY <2>1 DEF TileInv, TileOf
  <2>3. CASE threads[c].cover = None
    BY <2>1, <2>2, <2>3, StaysSpanned DEF BaselineInv, BaselineOf
  <2>4. CASE threads[c].cover # None
    <3>1. threads[c].cover = <<threads[c].prev, threads[c].new>>
      BY <2>1, <2>4 DEF BaselineInv, BaselineOf
    <3>2. PICK k \in DOMAIN file' : file'[k] = Sample(c)
      BY <1>3, HeldSamples DEF Held
    <3>3. file'[k].cell = c /\ file'[k].cover = threads[c].cover
      BY <3>2 DEF Sample
    <3>4. file'[k].cover[1] = threads[c].prev /\ file'[k].cover[2] = threads[c].new
      BY <3>1, <3>3
    <3>5. threads[c].base \in Nat /\ threads[c].prev \in Nat
      BY Times
    <3>6. Spanned(c, threads[c].base, file[k].cover[2])'
      BY <2>1, <2>2, <2>4, <3>2, <3>3, <3>4, <3>5, SpanGrows
    <3> QED
      BY <2>1, <3>4, <3>6 DEF Spanned
  <2> QED
    BY <2>3, <2>4
<1> QED
  BY <1>1, <1>2, <1>3, Moves, EndsDoes
\* A write by a thread that held nothing back puts one sample into the file.
LEMMA OneSample ==
  ASSUME TypeInv, NEW c \in CellIds, Writes(c), threads[c].pending = <<>>,
         NEW k \in DOMAIN file', k \notin DOMAIN file
  PROVE  k = Len(file) + 1 /\ file'[k] = Sample(c)
<1>1. threads[c].pending \in Seq(Samples) /\ Sample(c) \in Samples /\ file \in Seq(Samples)
  BY SampleSeq DEF TypeInv
<1>2. \A j \in DOMAIN Append(threads[c].pending, Sample(c)) :
         j = 1 /\ Append(threads[c].pending, Sample(c))[j] = Sample(c)
  BY <1>1, Appended
<1>3. Append(threads[c].pending, Sample(c)) \in Seq(Samples)
  BY SampleSeq
<1>4. file' = file \o Append(threads[c].pending, Sample(c))
  BY WritesDoes
<1>5. PICK j \in DOMAIN Append(threads[c].pending, Sample(c)) :
         k = Len(file) + j /\ file'[k] = Append(threads[c].pending, Sample(c))[j]
  BY <1>1, <1>3, <1>4, Joined
<1> QED
  BY <1>2, <1>5

\* Unless a flush failed, a thread writes one sample at a time, from its baseline on.
LEMMA NewWithoutFlush ==
  ASSUME TypeInv, CellInv, HeldInv, BaselineInv, [Next]_vars, NEW c \in CellIds,
         "flush" \notin faults[c],
         NEW k \in DOMAIN file', k \notin DOMAIN file, file'[k].cell = c
  PROVE  /\ Writes(c) /\ k = Len(file) + 1
         /\ file'[k].cover # None =>
              file'[k].cover[1] = threads[c].prev /\ file'[k].cover[2] = threads'[c].prev
<1>1. threads[c].pending = <<>>
  BY DEF HeldInv
<1>2. Writes(c)
  <2>1. \A j \in DOMAIN threads[c].pending : FALSE
    BY <1>1
  <2> QED
    BY <2>1, NewFromBaseline DEF Held
<1>3. k = Len(file) + 1 /\ file'[k] = Sample(c)
  BY <1>1, <1>2, OneSample
<1>4. file'[k].cover = threads[c].cover /\ threads[c].pc = "write"
        /\ threads'[c].prev = threads[c].new
  BY <1>2, <1>3, WritesDoes DEF Sample
<1>5. threads[c].cover # None => threads[c].cover = <<threads[c].prev, threads[c].new>>
  BY <1>4 DEF BaselineInv, BaselineOf
<1> QED
  BY <1>2, <1>3, <1>4, <1>5

\* Without a failed flush nothing in the file reaches beyond the baseline.
LEMMA TileBounded ==
  ASSUME TypeInv, TypeInv', CellInv, HeldInv, OwnerInv, BaselineInv, TileInv, [Next]_vars,
         NEW c \in CellIds, "flush" \notin faults'[c], Active(c)',
         NEW k \in Of(c)', file'[k].cover # None
  PROVE  file'[k].cover[2] <= threads'[c].prev
<1>1. "flush" \notin faults[c]
  BY Moves
<1>2. k \in DOMAIN file' /\ file'[k].cell = c
  BY DEF Of
<1>3. threads'[c].prev \in Nat
  BY DEF TypeInv, Threads
<1>4. CASE k \notin DOMAIN file
  BY <1>1, <1>2, <1>3, <1>4, NewWithoutFlush
<1>5. CASE k \in DOMAIN file
  <2>1. file'[k] = file[k] /\ k \in Of(c)
    BY <1>2, <1>5, OldSamples DEF Of
  <2>2. ~ Ends(c) /\ threads[c].pc \notin {"none", "start"}
    BY <1>2, NoneYet, EndsDoes DEF Active
  <2>3. Active(c) /\ threads[c].prev <= threads'[c].prev
    <3>1. Writes(c) => /\ threads[c].pc = "write" /\ threads'[c].prev = threads[c].new
                       /\ threads[c].prev <= threads[c].new
      BY WritesDoes DEF BaselineInv, BaselineOf
    <3>2. Writes(c) \/ (Active(c) /\ threads'[c].prev = threads[c].prev)
      BY <2>2, Moves DEF Active
    <3> QED
      BY <1>3, <3>1, <3>2 DEF Active
  <2>4. file[k].cover[2] <= threads[c].prev
    BY <1>1, <2>1, <2>3 DEF TileInv, TileOf
  <2>5. file[k].cover[2] \in Nat /\ threads[c].prev \in Nat
    BY <1>5, <2>1, Times
  <2> QED
    BY <1>3, <2>1, <2>3, <2>4, <2>5
<1> QED
  BY <1>4, <1>5

\* And no two samples cover the same time.
LEMMA TileApart ==
  ASSUME TypeInv, TypeInv', CellInv, HeldInv, OwnerInv, BaselineInv, TileInv, [Next]_vars,
         NEW c \in CellIds, "flush" \notin faults'[c], NEW j \in Of(c)', NEW k \in Of(c)', j # k
  PROVE  Apart(j, k)'
<1>1. "flush" \notin faults[c]
  BY Moves
<1>2. \A i \in Of(c)' : i \in DOMAIN file' /\ file'[i].cell = c
  BY DEF Of
<1>3. \A i \in Of(c)' : i \in DOMAIN file => i \in Of(c) /\ file'[i] = file[i]
  BY <1>2, OldSamples DEF Of
<1>4. ASSUME NEW i \in Of(c)', i \in DOMAIN file, NEW n \in Of(c)', n \notin DOMAIN file
      PROVE  Apart(i, n)' /\ Apart(n, i)'
  <2>1. Writes(c) /\ (file'[n].cover # None => file'[n].cover[1] = threads[c].prev)
    BY <1>1, <1>2, <1>4, NewWithoutFlush
  <2>2. Active(c)
    BY <2>1, WritesDoes DEF Active
  <2>3. file[i].cover # None => file[i].cover[2] <= threads[c].prev
    BY <1>1, <1>3, <1>4, <2>2 DEF TileInv, TileOf
  <2> QED
    BY <1>3, <1>4, <2>1, <2>3 DEF Apart
<1>5. ASSUME j \in DOMAIN file, k \in DOMAIN file
      PROVE  Apart(j, k)'
  <2>1. Apart(j, k)
    BY <1>1, <1>3, <1>5 DEF TileInv, TileOf
  <2> QED
    BY <1>3, <1>5, <2>1 DEF Apart
<1>6. j \in DOMAIN file \/ k \in DOMAIN file
  BY <1>1, <1>2, NewWithoutFlush
<1> QED
  BY <1>4, <1>5, <1>6

\* The samples of a cell tile its time.
LEMMA TilePreserved ==
  ASSUME TypeInv, TypeInv', CellInv, HeldInv, OwnerInv, BaselineInv, TileInv, [Next]_vars
  PROVE  TileInv'
BY TileReadings, TileBaseline, TileBounded, TileApart DEF TileInv, TileOf

-----------------------------------------------------------------------------
(* The samples taken, and when.                                            *)

\* A sample taken is in the file, held back, or being written.
LEMMA TakenWhere ==
  ASSUME NEW samples, NEW held, NEW x
  PROVE  x \in TakenIn(samples, held) <=>
           \/ \E k \in DOMAIN samples :
                x = <<samples[k].cell, samples[k].stamp, samples[k].cover>>
           \/ \E c \in CellIds : \E j \in DOMAIN held[c].pending :
                x = <<c, held[c].pending[j].stamp, held[c].pending[j].cover>>
           \/ \E c \in CellIds :
                held[c].pc = "write" /\ x = <<c, held[c].stamp, held[c].cover>>
<1>1. x \in Written(samples) <=>
        \E k \in DOMAIN samples : x = <<samples[k].cell, samples[k].stamp, samples[k].cover>>
  BY DEF Written
<1>2. x \in HeldBack(held) <=>
        \E c \in CellIds : \E j \in DOMAIN held[c].pending :
          x = <<c, held[c].pending[j].stamp, held[c].pending[j].cover>>
  BY DEF HeldBack
<1>3. x \in BeingWritten(held) <=>
        \E c \in CellIds : held[c].pc = "write" /\ x = <<c, held[c].stamp, held[c].cover>>
  BY DEF BeingWritten
<1>4. x \in TakenIn(samples, held) <=>
        x \in Written(samples) \/ x \in HeldBack(held) \/ x \in BeingWritten(held)
  BY DEF TakenIn
<1> QED
  BY <1>1, <1>2, <1>3, <1>4

\* What a step does to a thread that writes or holds something back.
LEMMA Carries ==
  ASSUME TypeInv, CellInv, [Next]_vars, NEW c \in CellIds
  PROVE  /\ \/ threads'[c].pending = threads[c].pending
            \/ threads'[c].pending = <<>>
            \/ FlushFails(c)
         /\ threads'[c].pc = "write" =>
              \/ Reads(c) \/ ReadFails(c)
              \/ /\ threads[c].pc = "write" /\ threads'[c].stamp = threads[c].stamp
                 /\ threads'[c].cover = threads[c].cover
<1>1. CASE StartMonitor
  BY <1>1, StartMonitorDoes
<1>2. CASE EnterSteady \/ LeaveSteady \/ Join \/ Tick \/ UNCHANGED vars
  BY <1>2 DEF EnterSteady, LeaveSteady, Join, Tick, vars, cellVars
<1>3. CASE StopMonitor
  BY <1>3, StopMonitorDoes
<1>4. ASSUME NEW d \in CellIds, ReadBaseline(d)
      PROVE  /\ \/ threads'[c].pending = threads[c].pending
                \/ threads'[c].pending = <<>>
                \/ FlushFails(c)
             /\ threads'[c].pc = "write" =>
                  \/ Reads(c) \/ ReadFails(c)
                  \/ /\ threads[c].pc = "write" /\ threads'[c].stamp = threads[c].stamp
                     /\ threads'[c].cover = threads[c].cover
  BY <1>4, ReadBaselineDoes
<1>5. ASSUME NEW d \in CellIds, Ends(d)
      PROVE  /\ \/ threads'[c].pending = threads[c].pending
                \/ threads'[c].pending = <<>>
                \/ FlushFails(c)
             /\ threads'[c].pc = "write" =>
                  \/ Reads(c) \/ ReadFails(c)
                  \/ /\ threads[c].pc = "write" /\ threads'[c].stamp = threads[c].stamp
                     /\ threads'[c].cover = threads[c].cover
  BY <1>5, EndsDoes
<1>6. ASSUME NEW d \in CellIds, Reads(d)
      PROVE  /\ \/ threads'[c].pending = threads[c].pending
                \/ threads'[c].pending = <<>>
                \/ FlushFails(c)
             /\ threads'[c].pc = "write" =>
                  \/ Reads(c) \/ ReadFails(c)
                  \/ /\ threads[c].pc = "write" /\ threads'[c].stamp = threads[c].stamp
                     /\ threads'[c].cover = threads[c].cover
  BY <1>6, ReadsDoes
<1>7. ASSUME NEW d \in CellIds, ReadFails(d)
      PROVE  /\ \/ threads'[c].pending = threads[c].pending
                \/ threads'[c].pending = <<>>
                \/ FlushFails(c)
             /\ threads'[c].pc = "write" =>
                  \/ Reads(c) \/ ReadFails(c)
                  \/ /\ threads[c].pc = "write" /\ threads'[c].stamp = threads[c].stamp
                     /\ threads'[c].cover = threads[c].cover
  BY <1>7, ReadFailsDoes
<1>8. ASSUME NEW d \in CellIds, OpenFails(d)
      PROVE  /\ \/ threads'[c].pending = threads[c].pending
                \/ threads'[c].pending = <<>>
                \/ FlushFails(c)
             /\ threads'[c].pc = "write" =>
                  \/ Reads(c) \/ ReadFails(c)
                  \/ /\ threads[c].pc = "write" /\ threads'[c].stamp = threads[c].stamp
                     /\ threads'[c].cover = threads[c].cover
  BY <1>8, OpenFailsDoes
<1>9. ASSUME NEW d \in CellIds, Writes(d)
      PROVE  /\ \/ threads'[c].pending = threads[c].pending
                \/ threads'[c].pending = <<>>
                \/ FlushFails(c)
             /\ threads'[c].pc = "write" =>
                  \/ Reads(c) \/ ReadFails(c)
                  \/ /\ threads[c].pc = "write" /\ threads'[c].stamp = threads[c].stamp
                     /\ threads'[c].cover = threads[c].cover
  BY <1>9, WritesDoes
<1>10. ASSUME NEW d \in CellIds, FlushFails(d)
       PROVE  /\ \/ threads'[c].pending = threads[c].pending
                 \/ threads'[c].pending = <<>>
                 \/ FlushFails(c)
              /\ threads'[c].pc = "write" =>
                   \/ Reads(c) \/ ReadFails(c)
                   \/ /\ threads[c].pc = "write" /\ threads'[c].stamp = threads[c].stamp
                      /\ threads'[c].cover = threads[c].cover
  BY <1>10, FlushFailsDoes
<1>11. ASSUME NEW d \in CellIds, Hang(d)
       PROVE  /\ \/ threads'[c].pending = threads[c].pending
                 \/ threads'[c].pending = <<>>
                 \/ FlushFails(c)
              /\ threads'[c].pc = "write" =>
                   \/ Reads(c) \/ ReadFails(c)
                   \/ /\ threads[c].pc = "write" /\ threads'[c].stamp = threads[c].stamp
                      /\ threads'[c].cover = threads[c].cover
  BY <1>11, HangDoes
<1>12. ASSUME NEW d \in CellIds, Unblock(d)
       PROVE  /\ \/ threads'[c].pending = threads[c].pending
                 \/ threads'[c].pending = <<>>
                 \/ FlushFails(c)
              /\ threads'[c].pc = "write" =>
                   \/ Reads(c) \/ ReadFails(c)
                   \/ /\ threads[c].pc = "write" /\ threads'[c].stamp = threads[c].stamp
                      /\ threads'[c].cover = threads[c].cover
  BY <1>12, UnblockDoes
<1> QED
  BY <1>1, <1>2, <1>3, <1>4, <1>5, <1>6, <1>7, <1>8, <1>9, <1>10, <1>11, <1>12, Kinds

\* A step takes no sample but that of a thread that reads.
LEMMA TakenStep ==
  ASSUME TypeInv, CellInv, HeldInv, [Next]_vars, NEW x \in Taken'
  PROVE  \/ x \in Taken
         \/ \E c \in CellIds : /\ Reads(c) \/ ReadFails(c)
                               /\ x = <<c, time, threads'[c].cover>>
<1>1. ASSUME NEW c \in CellIds, threads[c].pc = "write"
      PROVE  <<c, Sample(c).stamp, Sample(c).cover>> \in Taken
  BY <1>1, TakenWhere DEF Sample, Taken
<1>2. ASSUME NEW c \in CellIds, NEW j \in DOMAIN threads[c].pending
      PROVE  <<c, threads[c].pending[j].stamp, threads[c].pending[j].cover>> \in Taken
  BY TakenWhere DEF Taken
<1>3. ASSUME NEW k \in DOMAIN file', x = <<file'[k].cell, file'[k].stamp, file'[k].cover>>
      PROVE  x \in Taken
  <2>1. CASE k \in DOMAIN file
    BY <1>3, <2>1, OldSamples, TakenWhere DEF Taken
  <2>2. CASE k \notin DOMAIN file
    <3>1. PICK c \in CellIds : Held(c, file'[k])
      BY <2>2, NewSamples
    <3>2. file'[k].cell = c
      BY <3>1, HeldIsOwn
    <3>3. CASE \E j \in DOMAIN threads[c].pending : file'[k] = threads[c].pending[j]
      BY <1>2, <1>3, <3>2, <3>3
    <3>4. CASE Writes(c) /\ file'[k] = Sample(c)
      <4>1. threads[c].pc = "write"
        BY <3>4, WritesDoes
      <4> QED
        BY <1>1, <1>3, <3>2, <3>4, <4>1
    <3> QED
      BY <3>1, <3>3, <3>4 DEF Held
  <2> QED
    BY <2>1, <2>2
<1>4. ASSUME NEW c \in CellIds, NEW j \in DOMAIN threads'[c].pending,
             x = <<c, threads'[c].pending[j].stamp, threads'[c].pending[j].cover>>
      PROVE  x \in Taken
  <2>1. CASE threads'[c].pending = threads[c].pending
    BY <1>2, <1>4, <2>1
  <2>2. CASE threads'[c].pending = <<>>
    BY <1>4, <2>2
  <2>3. CASE FlushFails(c)
    <3>1. threads[c].pc = "write"
      BY <2>3, FlushFailsDoes
    <3> QED
      BY <1>1, <1>2, <1>4, <2>3, <3>1, HeldAfterFlush
  <2> QED
    BY <2>1, <2>2, <2>3, Carries
<1>5. ASSUME NEW c \in CellIds, threads'[c].pc = "write",
             x = <<c, threads'[c].stamp, threads'[c].cover>>
      PROVE  \/ x \in Taken
             \/ /\ Reads(c) \/ ReadFails(c)
                /\ x = <<c, time, threads'[c].cover>>
  <2>1. CASE threads[c].pc = "write" /\ threads'[c].stamp = threads[c].stamp
               /\ threads'[c].cover = threads[c].cover
    BY <1>5, <2>1, TakenWhere DEF Taken
  <2>2. CASE Reads(c)
    BY <1>5, <2>2, ReadsDoes
  <2>3. CASE ReadFails(c)
    BY <1>5, <2>3, ReadFailsDoes
  <2> QED
    BY <1>5, <2>1, <2>2, <2>3, Carries
<1>6. \/ \E k \in DOMAIN file' : x = <<file'[k].cell, file'[k].stamp, file'[k].cover>>
      \/ \E c \in CellIds : \E j \in DOMAIN threads'[c].pending :
           x = <<c, threads'[c].pending[j].stamp, threads'[c].pending[j].cover>>
      \/ \E c \in CellIds :
           threads'[c].pc = "write" /\ x = <<c, threads'[c].stamp, threads'[c].cover>>
  <2>1. x \in TakenIn(file', threads')
    BY DEF Taken, TakenIn, Written, HeldBack, BeingWritten
  <2> QED
    BY <2>1, TakenWhere
<1> QED
  BY <1>3, <1>4, <1>5, <1>6

\* A sample taken has a cell, a stamp and a cover.
LEMMA TakenType ==
  ASSUME TypeInv, NEW x \in Taken
  PROVE  x[1] \in CellIds /\ x[2] \in Nat /\ x = <<x[1], x[2], x[3]>>
<1>1. ASSUME NEW c \in CellIds, NEW j \in DOMAIN threads[c].pending
      PROVE  threads[c].pending[j].stamp \in Nat
  <2>1. threads[c].pending \in Seq(Samples)
    BY SampleSeq
  <2>2. threads[c].pending[j] \in Samples
    BY <2>1
  <2> QED
    BY <2>2 DEF Samples
<1>2. \/ \E k \in DOMAIN file : x = <<file[k].cell, file[k].stamp, file[k].cover>>
      \/ \E c \in CellIds : \E j \in DOMAIN threads[c].pending :
           x = <<c, threads[c].pending[j].stamp, threads[c].pending[j].cover>>
      \/ \E c \in CellIds :
           threads[c].pc = "write" /\ x = <<c, threads[c].stamp, threads[c].cover>>
  BY TakenWhere DEF Taken
<1>3. ASSUME NEW k \in DOMAIN file
      PROVE  file[k].cell \in CellIds /\ file[k].stamp \in Nat
  <2>1. file[k] \in Samples
    BY DEF TypeInv
  <2> QED
    BY <2>1 DEF Samples
<1>4. \A c \in CellIds : threads[c].stamp \in Nat
  BY Times
<1> QED
  BY <1>1, <1>2, <1>3, <1>4

-----------------------------------------------------------------------------
(* Cells follow one another.                                               *)

\* Time, and the cell that runs.
LEMMA SceneStep ==
  ASSUME TypeInv, [Next]_vars
  PROVE  /\ time' \in Nat /\ time <= time'
         /\ \/ cell' = cell /\ (orchestrator' = "running" =>
                                  orchestrator = "running" /\ launched' = launched)
            \/ cell' = cell + 1 /\ launched' = time /\ time' = time /\ orchestrator = "idle"
         /\ windows' = windows \/ LeaveSteady
<1> USE Kinds DEF cellVars
<1>1. CASE StartMonitor
  BY <1>1, StartMonitorDoes
<1>2. CASE StopMonitor
  BY <1>2 DEF StopMonitor, TypeInv
<1>3. CASE EnterSteady \/ LeaveSteady \/ Join \/ Tick \/ UNCHANGED vars
  BY <1>3 DEF EnterSteady, LeaveSteady, Join, Tick, vars, TypeInv
<1>4. ASSUME NEW c \in CellIds, ReadBaseline(c) \/ Ends(c) \/ Reads(c) \/ ReadFails(c) \/ OpenFails(c)
      PROVE  UNCHANGED <<time, cellVars>>
  BY <1>4 DEF ReadBaseline, Ends, Reads, ReadFails, OpenFails
<1>5. ASSUME NEW c \in CellIds, Writes(c) \/ FlushFails(c) \/ Hang(c) \/ Unblock(c)
      PROVE  UNCHANGED <<time, cellVars>>
  BY <1>5 DEF Writes, FlushFails, Hang, Unblock
<1> QED
  BY <1>1, <1>2, <1>3, <1>4, <1>5 DEF TypeInv

\* A window finished stays one, and the one a step adds is that of its cell.
LEMMA WindowStep ==
  ASSUME TypeInv, [Next]_vars, NEW i \in DOMAIN windows'
  PROVE  \/ i \in DOMAIN windows /\ windows'[i] = windows[i]
         \/ LeaveSteady /\ windows'[i] = [cell |-> cell, start |-> start, finish |-> time]
<1>1. CASE windows' = windows
  BY <1>1
<1>2. CASE LeaveSteady
  <2>1. windows' = Append(windows, [cell |-> cell, start |-> start, finish |-> time])
    BY <1>2 DEF LeaveSteady
  <2>2. windows \in Seq(Windows)
    BY DEF TypeInv
  <2> DEFINE w == [cell |-> cell, start |-> start, finish |-> time]
  <2>3. windows' = Append(windows, w)
    BY <2>1
  <2> HIDE DEF w
  <2>4. i \in 1..Len(windows) + 1 /\ Len(windows) \in Nat /\ DOMAIN windows = 1..Len(windows)
    BY <2>2, <2>3
  <2>5. \/ i \in 1..Len(windows) /\ windows'[i] = windows[i]
        \/ i = Len(windows) + 1 /\ windows'[i] = w
    BY <2>2, <2>3, <2>4
  <2> QED
    BY <1>2, <2>4, <2>5 DEF w
<1> QED
  BY <1>1, <1>2, SceneStep

\* A thread that takes a sample is that of the cell that runs.
LEMMA ReadsRunning ==
  ASSUME TypeInv, CellInv, NEW c \in CellIds, Reads(c) \/ ReadFails(c)
  PROVE  /\ c = cell /\ orchestrator = "running" /\ time >= threads[c].due
         /\ threads[c].pc \in {"first", "wait"}
         /\ cell' = cell /\ time' = time /\ launched' = launched /\ windows' = windows
         /\ orchestrator' = orchestrator /\ engine' = engine
<1>1. CASE Reads(c)
  BY <1>1, ReadsDoes DEF CellInv, Alive, cellVars
<1>2. CASE ReadFails(c)
  BY <1>2, ReadFailsDoes DEF CellInv, Alive, cellVars
<1> QED
  BY <1>1, <1>2

\* A window in its cell stays in it.
LEMMA WindowInStays ==
  ASSUME TypeInv, [Next]_vars, NEW w \in Windows, WindowIn(w)
  PROVE  WindowIn(w)'
<1>1. /\ w.cell \in Nat /\ w.start \in Nat /\ w.finish \in Nat
      /\ cell \in Nat /\ time \in Nat /\ launched \in Nat
  BY DEF Windows, CellIds, TypeInv
<1>2. CASE cell' = cell
  BY <1>1, <1>2, SceneStep DEF WindowIn
<1>3. CASE cell' # cell
  BY <1>1, <1>3, SceneStep DEF WindowIn
<1> QED
  BY <1>2, <1>3

\* So does a sample.
LEMMA SampleInStays ==
  ASSUME TypeInv, [Next]_vars, NEW x \in Taken, SampleIn(x)
  PROVE  SampleIn(x)'
<1>1. x[1] \in Nat /\ x[2] \in Nat /\ cell \in Nat /\ time \in Nat /\ launched \in Nat
  BY TakenType DEF CellIds, TypeInv
<1>2. CASE cell' = cell
  BY <1>1, <1>2, SceneStep DEF SampleIn
<1>3. CASE cell' # cell
  BY <1>1, <1>3, SceneStep DEF SampleIn
<1> QED
  BY <1>2, <1>3

\* A thread waits for a time after its cell was started.
LEMMA DuePreserved ==
  ASSUME TypeInv, CellInv, DueInv, [Next]_vars
  PROVE  DueInv'
<1> USE DEF cellVars
<1>1. CASE StartMonitor
  BY <1>1, StartMonitorDoes DEF DueInv
<1>2. CASE EnterSteady
  BY <1>2 DEF EnterSteady, DueInv
<1>3. CASE LeaveSteady
  BY <1>3 DEF LeaveSteady, DueInv
<1>4. CASE StopMonitor
  BY <1>4, StopMonitorDoes DEF DueInv
<1>5. CASE Join
  BY <1>5 DEF Join, DueInv
<1>6. CASE Tick
  BY <1>6 DEF Tick, DueInv
<1>7. CASE UNCHANGED vars
  BY <1>7 DEF vars, DueInv
<1>8. ASSUME NEW c \in CellIds, ReadBaseline(c)
      PROVE  DueInv'
  <2>0. /\ time \in Nat /\ launched \in Nat /\ Interval \in Nat \ {0}
        /\ orchestrator = "running" => launched <= time
    BY MonitorAssumption DEF TypeInv, CellInv
  <2>1. /\ threads'[c].due = time + Interval
        /\ \A d \in CellIds : d # c => threads'[d] = threads[d]
        /\ UNCHANGED <<orchestrator, cell, launched>>
    BY <1>8, ReadBaselineDoes
  <2>2. orchestrator = "running" => time + Interval > launched
    BY <2>0
  <2> QED
    BY <2>1, <2>2 DEF DueInv
<1>9. ASSUME NEW c \in CellIds, Ends(c)
      PROVE  DueInv'
  BY <1>9, EndsDoes DEF DueInv
<1>10. ASSUME NEW c \in CellIds, Reads(c)
       PROVE  DueInv'
  <2>1. /\ threads'[c].pc = "write"
        /\ \A d \in CellIds : d # c => threads'[d] = threads[d]
        /\ UNCHANGED <<orchestrator, cell, launched>>
    BY <1>10, ReadsDoes
  <2> QED
    BY <2>1 DEF DueInv
<1>11. ASSUME NEW c \in CellIds, ReadFails(c)
       PROVE  DueInv'
  BY <1>11, ReadFailsDoes DEF DueInv
<1>12. ASSUME NEW c \in CellIds, OpenFails(c)
       PROVE  DueInv'
  BY <1>12, OpenFailsDoes DEF DueInv
<1>13. ASSUME NEW c \in CellIds, Writes(c)
       PROVE  DueInv'
  <2>0. /\ time \in Nat /\ launched \in Nat /\ Interval \in Nat \ {0}
        /\ orchestrator = "running" => launched <= time
    BY MonitorAssumption DEF TypeInv, CellInv
  <2>1. /\ threads'[c].due = time + Interval
        /\ \A d \in CellIds : d # c => threads'[d] = threads[d]
        /\ UNCHANGED <<orchestrator, cell, launched>>
    BY <1>13, WritesDoes
  <2>2. orchestrator = "running" => time + Interval > launched
    BY <2>0
  <2> QED
    BY <2>1, <2>2 DEF DueInv
<1>14. ASSUME NEW c \in CellIds, FlushFails(c)
       PROVE  DueInv'
  <2>0. /\ time \in Nat /\ launched \in Nat /\ Interval \in Nat \ {0}
        /\ orchestrator = "running" => launched <= time
    BY MonitorAssumption DEF TypeInv, CellInv
  <2>1. /\ threads'[c].due = time + Interval
        /\ \A d \in CellIds : d # c => threads'[d] = threads[d]
        /\ UNCHANGED <<orchestrator, cell, launched>>
    BY <1>14, FlushFailsDoes
  <2>2. orchestrator = "running" => time + Interval > launched
    BY <2>0
  <2> QED
    BY <2>1, <2>2 DEF DueInv
<1>15. ASSUME NEW c \in CellIds, Hang(c)
       PROVE  DueInv'
  <2>1. /\ threads'[c].pc = threads[c].pc /\ threads'[c].due = threads[c].due
        /\ \A d \in CellIds : d # c => threads'[d] = threads[d]
        /\ UNCHANGED <<orchestrator, cell, launched>>
    BY <1>15, HangDoes
  <2> QED
    BY <2>1 DEF DueInv
<1>16. ASSUME NEW c \in CellIds, Unblock(c)
       PROVE  DueInv'
  <2>1. /\ threads'[c].pc = threads[c].pc /\ threads'[c].due = threads[c].due
        /\ \A d \in CellIds : d # c => threads'[d] = threads[d]
        /\ UNCHANGED <<orchestrator, cell, launched>>
    BY <1>16, UnblockDoes
  <2> QED
    BY <2>1 DEF DueInv
<1> QED
  BY <1>1, <1>2, <1>3, <1>4, <1>5, <1>6, <1>7, <1>8, <1>9, <1>10,
     <1>11, <1>12, <1>13, <1>14, <1>15, <1>16, Kinds


\* Samples and windows keep to their cells.
LEMMA OrderPreserved ==
  ASSUME TypeInv, TypeInv', CellInv, HeldInv, OrderInv, DueInv, [Next]_vars
  PROVE  OrderInv'
<1>0. cell \in Nat /\ time \in Nat /\ launched \in Nat /\ start \in Nat
        /\ \A i \in DOMAIN windows : windows[i] \in Windows
  BY DEF TypeInv, CellIds
<1>1. ASSUME NEW i \in DOMAIN windows'
      PROVE  WindowIn(windows[i])'
  <2>1. CASE i \in DOMAIN windows /\ windows'[i] = windows[i]
    BY <1>0, <2>1, WindowInStays DEF OrderInv, WindowIn
  <2>2. CASE LeaveSteady /\ windows'[i] = [cell |-> cell, start |-> start, finish |-> time]
    BY <1>0, <2>2 DEF LeaveSteady, WindowIn, CellInv
  <2> QED
    BY <2>1, <2>2, WindowStep
<1>2. ASSUME NEW x \in Taken'
      PROVE  SampleIn(x)'
  <2>1. CASE x \in Taken
    BY <2>1, SampleInStays DEF OrderInv
  <2>2. ASSUME NEW c \in CellIds, Reads(c) \/ ReadFails(c), x = <<c, time, threads'[c].cover>>
        PROVE  SampleIn(x)'
    <3>1. x[1] = cell /\ x[2] = time
      BY <2>2, ReadsRunning
    <3> QED
      BY <1>0, <2>2, <3>1, ReadsRunning DEF SampleIn
  <2> QED
    BY <2>1, <2>2, TakenStep
<1>3. ASSUME NEW i \in DOMAIN windows', NEW x \in Taken'
      PROVE  Ordered(windows[i], x)'
  <2>1. CASE i \in DOMAIN windows /\ windows'[i] = windows[i] /\ x \in Taken
    BY <2>1 DEF OrderInv, Ordered
  <2>2. ASSUME NEW c \in CellIds, Reads(c) \/ ReadFails(c), x = <<c, time, threads'[c].cover>>
        PROVE  Ordered(windows[i], x)'
    <3>1. /\ x[1] = cell /\ x[2] = time /\ windows' = windows /\ orchestrator = "running"
          /\ time >= threads[c].due /\ threads[c].due > launched
      BY <2>2, ReadsRunning DEF DueInv
    <3>2. WindowIn(windows[i]) /\ windows[i] \in Windows
      BY <1>0, <3>1 DEF OrderInv
    <3>3. windows[i].cell \in Nat /\ windows[i].finish \in Nat /\ threads[c].due \in Nat
      BY <3>2, Times DEF Windows, CellIds
    <3> QED
      BY <1>0, <3>1, <3>2, <3>3 DEF WindowIn, Ordered
  <2>3. CASE LeaveSteady /\ windows'[i] = [cell |-> cell, start |-> start, finish |-> time]
               /\ x \in Taken
    <3>1. engine = "steady" /\ orchestrator = "running" /\ launched < start
      BY <2>3 DEF LeaveSteady, CellInv
    <3>2. SampleIn(x) /\ x[1] \in Nat /\ x[2] \in Nat
      BY <2>3, TakenType DEF OrderInv, CellIds
    <3> QED
      BY <1>0, <2>3, <3>1, <3>2 DEF SampleIn, Ordered
  <2> QED
    BY <2>1, <2>2, <2>3, WindowStep, TakenStep
<1> QED
  BY <1>1, <1>2, <1>3 DEF OrderInv

-----------------------------------------------------------------------------
(* Deadlines.                                                              *)

\* A thread that meets a fault has met it for good.
LEMMA FaultsStay ==
  ASSUME TypeInv, CellInv, [Next]_vars, NEW c \in CellIds
  PROVE  faults'[c] = {} => faults[c] = {}
BY Moves

\* A thread that does not move keeps its deadlines.
LEMMA SameTiming ==
  ASSUME NEW c, TimingOf(c), time' = time, threads'[c] = threads[c], faults'[c] = faults[c]
  PROVE  TimingOf(c)'
BY DEF TimingOf, Alive

\* A thread that meets no fault keeps its deadlines.
LEMMA TimingPreserved ==
  ASSUME TypeInv, CellInv, TimingInv, [Next]_vars
  PROVE  TimingInv'
<1> USE DEF cellVars
<1>1. CASE StartMonitor
  <2>1. threads'[cell + 1].pc = "start" /\ threads'[cell + 1].by = time + Delay /\ time' = time
           /\ threads'[cell + 1].hung = FALSE /\ time \in Nat /\ Delay \in Nat
    BY <1>1, StartMonitorDoes, MonitorAssumption
  <2>2. TimingOf(cell)'
    <3>1. cell' = cell + 1
      BY <1>1, StartMonitorDoes
    <3> QED
      BY <2>1, <3>1 DEF TimingOf
  <2>3. ASSUME NEW d \in CellIds, d # cell + 1
        PROVE  TimingOf(d)'
    BY <1>1, <2>3, StartMonitorDoes, SameTiming DEF TimingInv
  <2> QED
    BY <1>1, <2>2, <2>3, StartMonitorDoes DEF TimingInv
<1>2. CASE EnterSteady
  BY <1>2 DEF EnterSteady, TimingInv, TimingOf, Alive
<1>3. CASE LeaveSteady
  BY <1>3 DEF LeaveSteady, TimingInv, TimingOf, Alive
<1>4. CASE StopMonitor
  <2>0. /\ cell \in CellIds /\ TimingOf(cell) /\ time \in Nat /\ Delay \in Nat /\ Interval \in Nat
        /\ threads[cell].by \in Nat /\ threads[cell].due \in Nat /\ threads[cell].stamp \in Nat
        /\ threads[cell].prev \in Nat
    BY <1>4, StopMonitorDoes, MonitorAssumption, Times DEF TimingInv
  <2>1. /\ threads'[cell].pc = threads[cell].pc /\ threads'[cell].due = threads[cell].due
        /\ threads'[cell].prev = threads[cell].prev /\ threads'[cell].new = threads[cell].new
        /\ threads'[cell].stamp = threads[cell].stamp /\ threads'[cell].hung = threads[cell].hung
        /\ threads'[cell].by = IF threads[cell].by > time + Delay THEN time + Delay
                                ELSE threads[cell].by
        /\ time' = time /\ faults' = faults /\ cell' = cell
    BY <1>4, StopMonitorDoes
  <2>2. TimingOf(cell)'
    <3>1. threads'[cell].by <= threads[cell].by /\ threads'[cell].by \in Nat
            /\ (time <= threads[cell].by => time <= threads'[cell].by)
      BY <2>0, <2>1
    <3> QED
      BY <2>0, <2>1, <3>1 DEF TimingOf, Alive
  <2>3. ASSUME NEW d \in CellIds, d # cell
        PROVE  TimingOf(d)'
    BY <1>4, <2>3, StopMonitorDoes, SameTiming DEF TimingInv
  <2> QED
    BY <2>1, <2>2, <2>3 DEF TimingInv
<1>5. CASE Join
  BY <1>5 DEF Join, TimingInv, TimingOf, Alive
<1>6. CASE Tick
  <2>1. ASSUME NEW c \in CellIds
        PROVE  TimingOf(c)'
    <3>1. /\ time' = time + 1 /\ threads'[c] = threads[c] /\ faults'[c] = faults[c]
          /\ Alive(c) => threads[c].hung \/ time < threads[c].by
      BY <1>6 DEF Tick, CellIds
    <3>2. time \in Nat /\ threads[c].by \in Nat /\ threads[c].stamp \in Nat /\ TimingOf(c)
      BY Times DEF TimingInv
    <3> QED
      BY <3>1, <3>2 DEF TimingOf, Alive
  <2> QED
    BY <2>1 DEF TimingInv
<1>7. CASE UNCHANGED vars
  BY <1>7 DEF vars, TimingInv, TimingOf, Alive
<1>8. ASSUME NEW c \in CellIds, ReadBaseline(c)
      PROVE  TimingInv'
  <2>0. /\ ReadBaseline(c) /\ TimingOf(c) /\ time \in Nat /\ Delay \in Nat /\ Interval \in Nat
        /\ threads[c].by \in Nat /\ threads[c].due \in Nat /\ threads[c].prev \in Nat
        /\ threads[c].stamp \in Nat
    BY <1>8, MonitorAssumption DEF TypeInv, Threads, TimingInv
  <2>1. ASSUME NEW d \in CellIds \ {c}
        PROVE  TimingOf(d)'
    <3>1. threads'[d] = threads[d] /\ time' = time /\ TimingOf(d) /\ faults'[d] = faults[d]
      BY <1>8, ReadBaselineDoes DEF TimingInv
    <3> QED
      BY <3>1, SameTiming
  <2>2. TimingOf(c)'
    <3>1. /\ threads'[c].pc = "first" /\ threads'[c].due = time + Interval
          /\ threads'[c].by = (IF threads[c].stop THEN time ELSE time + Interval) + Delay
          /\ threads'[c].hung = threads[c].hung /\ time' = time
          /\ threads'[c].prev # time => faults'[c] # {}
          /\ faults[c] \subseteq faults'[c] /\ threads[c].pc = "start"
      BY <2>0, ReadBaselineDoes
    <3>2. time <= threads'[c].by /\ threads'[c].by <= threads'[c].due + Delay
      BY <2>0, <3>1
    <3>3. faults'[c] = {} => faults[c] = {} /\ threads'[c].prev = time
      BY <3>1
    <3> QED
      BY <2>0, <3>1, <3>2, <3>3 DEF TimingOf, Alive
  <2> QED
    BY <2>1, <2>2 DEF TimingInv
<1>9. ASSUME NEW c \in CellIds, Ends(c)
      PROVE  TimingInv'
  <2>0. /\ Ends(c) /\ TimingOf(c) /\ time \in Nat /\ Delay \in Nat /\ Interval \in Nat
        /\ threads[c].by \in Nat /\ threads[c].due \in Nat /\ threads[c].prev \in Nat
        /\ threads[c].stamp \in Nat
    BY <1>9, MonitorAssumption DEF TypeInv, Threads, TimingInv
  <2>1. ASSUME NEW d \in CellIds \ {c}
        PROVE  TimingOf(d)'
    <3>1. threads'[d] = threads[d] /\ time' = time /\ TimingOf(d) /\ faults'[d] = faults[d]
      BY <1>9, EndsDoes DEF TimingInv
    <3> QED
      BY <3>1, SameTiming
  <2>2. TimingOf(c)'
    <3>1. threads'[c].pc = "gone"
      BY <2>0, EndsDoes
    <3> QED
      BY <3>1 DEF TimingOf, Alive
  <2> QED
    BY <2>1, <2>2 DEF TimingInv
<1>10. ASSUME NEW c \in CellIds, Reads(c)
       PROVE  TimingInv'
  <2>0. /\ Reads(c) /\ TimingOf(c) /\ time \in Nat /\ Delay \in Nat /\ Interval \in Nat
        /\ threads[c].by \in Nat /\ threads[c].due \in Nat /\ threads[c].prev \in Nat
        /\ threads[c].stamp \in Nat
    BY <1>10, MonitorAssumption DEF TypeInv, Threads, TimingInv
  <2>1. ASSUME NEW d \in CellIds \ {c}
        PROVE  TimingOf(d)'
    <3>1. threads'[d] = threads[d] /\ time' = time /\ TimingOf(d) /\ faults'[d] = faults[d]
      BY <1>10, ReadsDoes DEF TimingInv
    <3> QED
      BY <3>1, SameTiming
  <2>2. TimingOf(c)'
    <3>1. /\ threads'[c].pc = "write" /\ threads'[c].by = time + Delay /\ threads'[c].stamp = time
          /\ threads'[c].new = time /\ threads'[c].hung = threads[c].hung /\ time' = time
          /\ faults'[c] = faults[c] /\ threads[c].pc \in {"first", "wait"}
      BY <2>0, ReadsDoes
    <3> QED
      BY <2>0, <3>1 DEF TimingOf, Alive
  <2> QED
    BY <2>1, <2>2 DEF TimingInv
<1>11. ASSUME NEW c \in CellIds, ReadFails(c)
       PROVE  TimingInv'
  <2>0. /\ ReadFails(c) /\ TimingOf(c) /\ time \in Nat /\ Delay \in Nat /\ Interval \in Nat
        /\ threads[c].by \in Nat /\ threads[c].due \in Nat /\ threads[c].prev \in Nat
        /\ threads[c].stamp \in Nat
    BY <1>11, MonitorAssumption DEF TypeInv, Threads, TimingInv
  <2>1. ASSUME NEW d \in CellIds \ {c}
        PROVE  TimingOf(d)'
    <3>1. threads'[d] = threads[d] /\ time' = time /\ TimingOf(d) /\ faults'[d] = faults[d]
      BY <1>11, ReadFailsDoes DEF TimingInv
    <3> QED
      BY <3>1, SameTiming
  <2>2. TimingOf(c)'
    <3>1. faults'[c] # {}
      BY <2>0, ReadFailsDoes
    <3> QED
      BY <3>1 DEF TimingOf
  <2> QED
    BY <2>1, <2>2 DEF TimingInv
<1>12. ASSUME NEW c \in CellIds, OpenFails(c)
       PROVE  TimingInv'
  <2>0. /\ OpenFails(c) /\ TimingOf(c) /\ time \in Nat /\ Delay \in Nat /\ Interval \in Nat
        /\ threads[c].by \in Nat /\ threads[c].due \in Nat /\ threads[c].prev \in Nat
        /\ threads[c].stamp \in Nat
    BY <1>12, MonitorAssumption DEF TypeInv, Threads, TimingInv
  <2>1. ASSUME NEW d \in CellIds \ {c}
        PROVE  TimingOf(d)'
    <3>1. threads'[d] = threads[d] /\ time' = time /\ TimingOf(d) /\ faults'[d] = faults[d]
      BY <1>12, OpenFailsDoes DEF TimingInv
    <3> QED
      BY <3>1, SameTiming
  <2>2. TimingOf(c)'
    <3>1. threads'[c].pc = "gone"
      BY <2>0, OpenFailsDoes
    <3> QED
      BY <3>1 DEF TimingOf, Alive
  <2> QED
    BY <2>1, <2>2 DEF TimingInv
<1>13. ASSUME NEW c \in CellIds, Writes(c)
       PROVE  TimingInv'
  <2>0. /\ Writes(c) /\ TimingOf(c) /\ time \in Nat /\ Delay \in Nat /\ Interval \in Nat
        /\ threads[c].by \in Nat /\ threads[c].due \in Nat /\ threads[c].prev \in Nat
        /\ threads[c].stamp \in Nat
    BY <1>13, MonitorAssumption DEF TypeInv, Threads, TimingInv
  <2>1. ASSUME NEW d \in CellIds \ {c}
        PROVE  TimingOf(d)'
    <3>1. threads'[d] = threads[d] /\ time' = time /\ TimingOf(d) /\ faults'[d] = faults[d]
      BY <1>13, WritesDoes DEF TimingInv
    <3> QED
      BY <3>1, SameTiming
  <2>2. TimingOf(c)'
    <3>1. /\ threads'[c].pc = "wait" /\ threads'[c].due = time + Interval
          /\ threads'[c].by = (IF threads[c].stop THEN time ELSE time + Interval) + Delay
          /\ threads'[c].prev = threads[c].new /\ threads'[c].hung = threads[c].hung /\ time' = time
          /\ faults'[c] = faults[c] /\ threads[c].pc = "write"
      BY <2>0, WritesDoes
    <3>2. time <= threads'[c].by /\ threads'[c].by <= threads'[c].due + Delay
      BY <2>0, <3>1
    <3> QED
      BY <2>0, <3>1, <3>2 DEF TimingOf, Alive
  <2> QED
    BY <2>1, <2>2 DEF TimingInv
<1>14. ASSUME NEW c \in CellIds, FlushFails(c)
       PROVE  TimingInv'
  <2>0. /\ FlushFails(c) /\ TimingOf(c) /\ time \in Nat /\ Delay \in Nat /\ Interval \in Nat
        /\ threads[c].by \in Nat /\ threads[c].due \in Nat /\ threads[c].prev \in Nat
        /\ threads[c].stamp \in Nat
    BY <1>14, MonitorAssumption DEF TypeInv, Threads, TimingInv
  <2>1. ASSUME NEW d \in CellIds \ {c}
        PROVE  TimingOf(d)'
    <3>1. threads'[d] = threads[d] /\ time' = time /\ TimingOf(d) /\ faults'[d] = faults[d]
      BY <1>14, FlushFailsDoes DEF TimingInv
    <3> QED
      BY <3>1, SameTiming
  <2>2. TimingOf(c)'
    <3>1. faults'[c] # {}
      BY <2>0, FlushFailsDoes
    <3> QED
      BY <3>1 DEF TimingOf
  <2> QED
    BY <2>1, <2>2 DEF TimingInv
<1>15. ASSUME NEW c \in CellIds, Hang(c)
       PROVE  TimingInv'
  <2>0. /\ Hang(c) /\ TimingOf(c) /\ time \in Nat /\ Delay \in Nat /\ Interval \in Nat
        /\ threads[c].by \in Nat /\ threads[c].due \in Nat /\ threads[c].prev \in Nat
        /\ threads[c].stamp \in Nat
    BY <1>15, MonitorAssumption DEF TypeInv, Threads, TimingInv
  <2>1. ASSUME NEW d \in CellIds \ {c}
        PROVE  TimingOf(d)'
    <3>1. threads'[d] = threads[d] /\ time' = time /\ TimingOf(d) /\ faults'[d] = faults[d]
      BY <1>15, HangDoes DEF TimingInv
    <3> QED
      BY <3>1, SameTiming
  <2>2. TimingOf(c)'
    <3>1. faults'[c] # {}
      BY <2>0, HangDoes
    <3> QED
      BY <3>1 DEF TimingOf
  <2> QED
    BY <2>1, <2>2 DEF TimingInv
<1>16. ASSUME NEW c \in CellIds, Unblock(c)
       PROVE  TimingInv'
  <2>0. /\ Unblock(c) /\ TimingOf(c) /\ time \in Nat /\ Delay \in Nat /\ Interval \in Nat
        /\ threads[c].by \in Nat /\ threads[c].due \in Nat /\ threads[c].prev \in Nat
        /\ threads[c].stamp \in Nat
    BY <1>16, MonitorAssumption DEF TypeInv, Threads, TimingInv
  <2>1. ASSUME NEW d \in CellIds \ {c}
        PROVE  TimingOf(d)'
    <3>1. threads'[d] = threads[d] /\ time' = time /\ TimingOf(d) /\ faults'[d] = faults[d]
      BY <1>16, UnblockDoes DEF TimingInv
    <3> QED
      BY <3>1, SameTiming
  <2>2. TimingOf(c)'
    <3>1. threads[c].hung /\ threads'[c].pc = threads[c].pc /\ faults'[c] = faults[c]
      BY <2>0, UnblockDoes
    <3> QED
      BY <2>0, <3>1 DEF TimingOf, Alive
  <2> QED
    BY <2>1, <2>2 DEF TimingInv
<1> QED
  BY <1>1, <1>2, <1>3, <1>4, <1>5, <1>6, <1>7, <1>8, <1>9, <1>10,
     <1>11, <1>12, <1>13, <1>14, <1>15, <1>16, Kinds

\* The time a sample counts is that since the reading before it, MaxGap at most.
LEMMA GapPreserved ==
  ASSUME TypeInv, CellInv, HeldInv, TimingInv, GapInv, [Next]_vars
  PROVE  GapInv'
<1>1. SUFFICES ASSUME NEW x \in Taken', faults'[x[1]] = {}, x[3] # None
               PROVE  x[3][2] = x[2] /\ x[3][1] >= x[2] - MaxGap
  BY DEF GapInv
<1>2. CASE x \in Taken
  BY <1>1, <1>2, TakenType, FaultsStay DEF GapInv
<1>3. ASSUME NEW c \in CellIds, Reads(c) \/ ReadFails(c), x = <<c, time, threads'[c].cover>>
      PROVE  x[3][2] = x[2] /\ x[3][1] >= x[2] - MaxGap
  <2>1. x[1] = c /\ x[2] = time /\ x[3] = threads'[c].cover
    BY <1>3
  <2>2. Reads(c) /\ faults[c] = {}
    <3>1. ReadFails(c) => faults'[c] # {}
      BY ReadFailsDoes
    <3>2. Reads(c) => faults' = faults
      BY ReadsDoes
    <3> QED
      BY <1>1, <1>3, <2>1, <3>1, <3>2
  <2>3. threads[c].pc \in {"first", "wait"} /\ threads'[c].cover = <<threads[c].prev, time>>
    <3>1. /\ threads[c].pc \in {"first", "wait"}
          /\ threads'[c].cover = IF time > threads[c].prev THEN <<threads[c].prev, time>> ELSE None
      BY <2>2, ReadsDoes
    <3> QED
      BY <1>1, <2>1, <3>1
  <2>4. /\ time <= threads[c].by /\ threads[c].by <= threads[c].due + Delay
        /\ threads[c].due <= threads[c].prev + Delay + Interval
    BY <2>2, <2>3 DEF TimingInv, TimingOf, Alive
  <2>5. time \in Nat /\ threads[c].by \in Nat /\ threads[c].due \in Nat /\ threads[c].prev \in Nat
    BY Times
  <2>6. threads[c].prev >= time - MaxGap
    BY <2>4, <2>5, MonitorAssumption DEF MaxGap
  <2> QED
    BY <2>1, <2>3, <2>6
<1> QED
  BY <1>1, <1>2, <1>3, TakenStep

\* A thread that does not move has its latest reading in the file still.
LEMMA SameLatest ==
  ASSUME TypeInv, [Next]_vars, NEW c, LatestOf(c), launched' = launched,
         threads'[c] = threads[c], faults'[c] = faults[c]
  PROVE  LatestOf(c)'
BY OldSamples DEF LatestOf

\* The latest reading of a thread that meets no fault is in the file.
LEMMA LatestPreserved ==
  ASSUME TypeInv, CellInv, TimingInv, LatestInv, [Next]_vars
  PROVE  LatestInv'
<1> USE DEF cellVars
<1>1. CASE StartMonitor
  <2>1. /\ threads'[cell + 1].pc = "start" /\ threads'[cell + 1].by = time + Delay
        /\ launched' = time /\ time \in Nat /\ Delay \in Nat /\ cell' = cell + 1
        /\ orchestrator = "idle" /\ file' = file /\ faults' = faults
    BY <1>1, StartMonitorDoes, MonitorAssumption
  <2>2. LatestOf(cell)'
    BY <2>1 DEF LatestOf
  <2>3. ASSUME NEW d \in CellIds, d # cell + 1
        PROVE  LatestOf(d)'
    <3>1. threads'[d] = threads[d] /\ LatestOf(d)
      BY <1>1, <2>3, StartMonitorDoes DEF LatestInv
    <3>2. threads[d].pc \in {"start", "first"} => threads[d].stop
      BY <2>1 DEF CellInv, Alive
    <3> QED
      BY <2>1, <3>1, <3>2 DEF LatestOf
  <2> QED
    BY <1>1, <2>1, <2>2, <2>3 DEF LatestInv
<1>2. CASE EnterSteady
  BY <1>2, SameLatest DEF EnterSteady, LatestInv
<1>3. CASE LeaveSteady
  BY <1>3, SameLatest DEF LeaveSteady, LatestInv
<1>4. CASE StopMonitor
  <2>1. /\ threads'[cell].pc = threads[cell].pc /\ threads'[cell].prev = threads[cell].prev
        /\ threads'[cell].stop /\ file' = file /\ faults' = faults /\ cell' = cell
        /\ cell \in CellIds
    BY <1>4, StopMonitorDoes
  <2>2. LatestOf(cell)'
    <3>1. LatestOf(cell)
      BY <2>1 DEF LatestInv
    <3> QED
      BY <2>1, <3>1 DEF LatestOf
  <2>3. ASSUME NEW d \in CellIds, d # cell
        PROVE  LatestOf(d)'
    <3>1. threads'[d] = threads[d] /\ LatestOf(d)
      BY <1>4, <2>3, StopMonitorDoes DEF LatestInv
    <3>2. threads[d].pc \in {"start", "first"} => threads[d].stop
      BY <2>3 DEF CellInv, Alive
    <3> QED
      BY <2>1, <3>1, <3>2 DEF LatestOf
  <2> QED
    BY <2>1, <2>2, <2>3 DEF LatestInv
<1>5. CASE Join
  BY <1>5, SameLatest DEF Join, LatestInv
<1>6. CASE Tick
  BY <1>6, SameLatest DEF Tick, LatestInv
<1>7. CASE UNCHANGED vars
  BY <1>7, SameLatest DEF vars, LatestInv
<1>8. ASSUME NEW c \in CellIds, ReadBaseline(c)
      PROVE  LatestInv'
  <2>0. /\ ReadBaseline(c) /\ LatestOf(c) /\ time \in Nat /\ Delay \in Nat /\ Interval \in Nat
        /\ threads[c].by \in Nat /\ launched \in Nat /\ joinBy \in Nat
    BY <1>8, MonitorAssumption DEF TypeInv, Threads, LatestInv
  <2>1. ASSUME NEW d \in CellIds \ {c}
        PROVE  LatestOf(d)'
    <3>1. threads'[d] = threads[d] /\ faults'[d] = faults[d] /\ UNCHANGED cellVars /\ LatestOf(d)
      BY <1>8, ReadBaselineDoes DEF LatestInv
    <3> QED
      BY <3>1, SameLatest
  <2>2. LatestOf(c)'
    <3>1. /\ threads'[c].pc = "first" /\ threads'[c].stop = threads[c].stop
          /\ threads'[c].by = (IF threads[c].stop THEN time ELSE time + Interval) + Delay
          /\ faults[c] \subseteq faults'[c] /\ threads[c].pc = "start" /\ launched' = launched
      BY <2>0, ReadBaselineDoes
    <3>2. faults'[c] = {} => faults[c] = {} /\ time <= threads[c].by
      BY <3>1 DEF TimingInv, TimingOf, Alive
    <3> QED
      BY <2>0, <3>1, <3>2 DEF LatestOf, MaxGap
  <2> QED
    BY <2>1, <2>2 DEF LatestInv
<1>9. ASSUME NEW c \in CellIds, Ends(c)
      PROVE  LatestInv'
  <2>0. /\ Ends(c) /\ LatestOf(c) /\ time \in Nat /\ Delay \in Nat /\ Interval \in Nat
        /\ threads[c].by \in Nat /\ launched \in Nat /\ joinBy \in Nat
    BY <1>9, MonitorAssumption DEF TypeInv, Threads, LatestInv
  <2>1. ASSUME NEW d \in CellIds \ {c}
        PROVE  LatestOf(d)'
    <3>1. threads'[d] = threads[d] /\ faults'[d] = faults[d] /\ UNCHANGED cellVars /\ LatestOf(d)
      BY <1>9, EndsDoes DEF LatestInv
    <3> QED
      BY <3>1, SameLatest
  <2>2. LatestOf(c)'
    <3>1. threads'[c].pc = "gone"
      BY <2>0, EndsDoes
    <3> QED
      BY <3>1 DEF LatestOf
  <2> QED
    BY <2>1, <2>2 DEF LatestInv
<1>10. ASSUME NEW c \in CellIds, Reads(c)
       PROVE  LatestInv'
  <2>0. /\ Reads(c) /\ LatestOf(c) /\ time \in Nat /\ Delay \in Nat /\ Interval \in Nat
        /\ threads[c].by \in Nat /\ launched \in Nat /\ joinBy \in Nat
    BY <1>10, MonitorAssumption DEF TypeInv, Threads, LatestInv
  <2>1. ASSUME NEW d \in CellIds \ {c}
        PROVE  LatestOf(d)'
    <3>1. threads'[d] = threads[d] /\ faults'[d] = faults[d] /\ UNCHANGED cellVars /\ LatestOf(d)
      BY <1>10, ReadsDoes DEF LatestInv
    <3> QED
      BY <3>1, SameLatest
  <2>2. LatestOf(c)'
    <3>1. threads'[c].pc = "write"
      BY <2>0, ReadsDoes
    <3> QED
      BY <3>1 DEF LatestOf
  <2> QED
    BY <2>1, <2>2 DEF LatestInv
<1>11. ASSUME NEW c \in CellIds, ReadFails(c)
       PROVE  LatestInv'
  <2>0. /\ ReadFails(c) /\ LatestOf(c) /\ time \in Nat /\ Delay \in Nat /\ Interval \in Nat
        /\ threads[c].by \in Nat /\ launched \in Nat /\ joinBy \in Nat
    BY <1>11, MonitorAssumption DEF TypeInv, Threads, LatestInv
  <2>1. ASSUME NEW d \in CellIds \ {c}
        PROVE  LatestOf(d)'
    <3>1. threads'[d] = threads[d] /\ faults'[d] = faults[d] /\ UNCHANGED cellVars /\ LatestOf(d)
      BY <1>11, ReadFailsDoes DEF LatestInv
    <3> QED
      BY <3>1, SameLatest
  <2>2. LatestOf(c)'
    <3>1. faults'[c] # {}
      BY <2>0, ReadFailsDoes
    <3> QED
      BY <3>1 DEF LatestOf
  <2> QED
    BY <2>1, <2>2 DEF LatestInv
<1>12. ASSUME NEW c \in CellIds, OpenFails(c)
       PROVE  LatestInv'
  <2>0. /\ OpenFails(c) /\ LatestOf(c) /\ time \in Nat /\ Delay \in Nat /\ Interval \in Nat
        /\ threads[c].by \in Nat /\ launched \in Nat /\ joinBy \in Nat
    BY <1>12, MonitorAssumption DEF TypeInv, Threads, LatestInv
  <2>1. ASSUME NEW d \in CellIds \ {c}
        PROVE  LatestOf(d)'
    <3>1. threads'[d] = threads[d] /\ faults'[d] = faults[d] /\ UNCHANGED cellVars /\ LatestOf(d)
      BY <1>12, OpenFailsDoes DEF LatestInv
    <3> QED
      BY <3>1, SameLatest
  <2>2. LatestOf(c)'
    <3>1. threads'[c].pc = "gone"
      BY <2>0, OpenFailsDoes
    <3> QED
      BY <3>1 DEF LatestOf
  <2> QED
    BY <2>1, <2>2 DEF LatestInv
<1>13. ASSUME NEW c \in CellIds, Writes(c)
       PROVE  LatestInv'
  <2>0. /\ Writes(c) /\ LatestOf(c) /\ time \in Nat /\ Delay \in Nat /\ Interval \in Nat
        /\ threads[c].by \in Nat /\ launched \in Nat /\ joinBy \in Nat
    BY <1>13, MonitorAssumption DEF TypeInv, Threads, LatestInv
  <2>1. ASSUME NEW d \in CellIds \ {c}
        PROVE  LatestOf(d)'
    <3>1. threads'[d] = threads[d] /\ faults'[d] = faults[d] /\ UNCHANGED cellVars /\ LatestOf(d)
      BY <1>13, WritesDoes DEF LatestInv
    <3> QED
      BY <3>1, SameLatest
  <2>2. LatestOf(c)'
    <3>1. /\ threads'[c].pc = "wait" /\ threads'[c].prev = threads[c].new /\ faults' = faults
          /\ threads[c].pc = "write"
      BY <2>0, WritesDoes
    <3>2. faults[c] = {} => threads[c].new = threads[c].stamp
      BY <3>1 DEF TimingInv, TimingOf, Alive
    <3>3. \E k \in DOMAIN file' : file'[k] = Sample(c)
      BY <2>0, HeldSamples DEF Held
    <3>4. Sample(c).stamp = threads[c].stamp
      BY DEF Sample
    <3> QED
      BY <3>1, <3>2, <3>3, <3>4 DEF LatestOf
  <2> QED
    BY <2>1, <2>2 DEF LatestInv
<1>14. ASSUME NEW c \in CellIds, FlushFails(c)
       PROVE  LatestInv'
  <2>0. /\ FlushFails(c) /\ LatestOf(c) /\ time \in Nat /\ Delay \in Nat /\ Interval \in Nat
        /\ threads[c].by \in Nat /\ launched \in Nat /\ joinBy \in Nat
    BY <1>14, MonitorAssumption DEF TypeInv, Threads, LatestInv
  <2>1. ASSUME NEW d \in CellIds \ {c}
        PROVE  LatestOf(d)'
    <3>1. threads'[d] = threads[d] /\ faults'[d] = faults[d] /\ UNCHANGED cellVars /\ LatestOf(d)
      BY <1>14, FlushFailsDoes DEF LatestInv
    <3> QED
      BY <3>1, SameLatest
  <2>2. LatestOf(c)'
    <3>1. faults'[c] # {}
      BY <2>0, FlushFailsDoes
    <3> QED
      BY <3>1 DEF LatestOf
  <2> QED
    BY <2>1, <2>2 DEF LatestInv
<1>15. ASSUME NEW c \in CellIds, Hang(c)
       PROVE  LatestInv'
  <2>0. /\ Hang(c) /\ LatestOf(c) /\ time \in Nat /\ Delay \in Nat /\ Interval \in Nat
        /\ threads[c].by \in Nat /\ launched \in Nat /\ joinBy \in Nat
    BY <1>15, MonitorAssumption DEF TypeInv, Threads, LatestInv
  <2>1. ASSUME NEW d \in CellIds \ {c}
        PROVE  LatestOf(d)'
    <3>1. threads'[d] = threads[d] /\ faults'[d] = faults[d] /\ UNCHANGED cellVars /\ LatestOf(d)
      BY <1>15, HangDoes DEF LatestInv
    <3> QED
      BY <3>1, SameLatest
  <2>2. LatestOf(c)'
    <3>1. faults'[c] # {}
      BY <2>0, HangDoes
    <3> QED
      BY <3>1 DEF LatestOf
  <2> QED
    BY <2>1, <2>2 DEF LatestInv
<1>16. ASSUME NEW c \in CellIds, Unblock(c)
       PROVE  LatestInv'
  <2>0. /\ Unblock(c) /\ LatestOf(c) /\ time \in Nat /\ Delay \in Nat /\ Interval \in Nat
        /\ threads[c].by \in Nat /\ launched \in Nat /\ joinBy \in Nat
    BY <1>16, MonitorAssumption DEF TypeInv, Threads, LatestInv
  <2>1. ASSUME NEW d \in CellIds \ {c}
        PROVE  LatestOf(d)'
    <3>1. threads'[d] = threads[d] /\ faults'[d] = faults[d] /\ UNCHANGED cellVars /\ LatestOf(d)
      BY <1>16, UnblockDoes DEF LatestInv
    <3> QED
      BY <3>1, SameLatest
  <2>2. LatestOf(c)'
    <3>1. threads[c].hung /\ threads'[c].pc = threads[c].pc /\ faults'[c] = faults[c]
            /\ threads'[c].prev = threads[c].prev
      BY <2>0, UnblockDoes
    <3>2. faults[c] = {} => ~ Alive(c)
      BY <3>1 DEF TimingInv, TimingOf
    <3> QED
      BY <3>1, <3>2 DEF LatestOf, Alive
  <2> QED
    BY <2>1, <2>2 DEF LatestInv
<1> QED
  BY <1>1, <1>2, <1>3, <1>4, <1>5, <1>6, <1>7, <1>8, <1>9, <1>10,
     <1>11, <1>12, <1>13, <1>14, <1>15, <1>16, Kinds

\* A thread that does not move, in a cell that does not change.
LEMMA SamePrompt ==
  ASSUME NEW c, PromptOf(c), UNCHANGED cellVars, threads'[c] = threads[c], faults'[c] = faults[c]
  PROVE  PromptOf(c)'
BY DEF PromptOf, cellVars

\* A thread that meets no fault has written before the join gives up.
LEMMA PromptPreserved ==
  ASSUME TypeInv, CellInv, TimingInv, PromptInv, Delay < JoinTimeout, [Next]_vars
  PROVE  PromptInv'
<1> USE DEF cellVars
<1>1. CASE StartMonitor
  <2>1. ASSUME NEW d \in CellIds, threads'[d].pc = "write"
        PROVE  faults'[d] # {}
    <3>1. d # cell + 1 /\ threads'[d] = threads[d] /\ faults' = faults /\ orchestrator = "idle"
      BY <1>1, <2>1, StartMonitorDoes
    <3> QED
      BY <2>1, <3>1 DEF PromptInv, PromptOf
  <2> QED
    BY <2>1 DEF PromptInv, PromptOf
<1>2. CASE EnterSteady
  BY <1>2 DEF EnterSteady, PromptInv, PromptOf
<1>3. CASE LeaveSteady
  BY <1>3 DEF LeaveSteady, PromptInv, PromptOf
<1>4. CASE StopMonitor
  <2>1. /\ threads'[cell].by = IF threads[cell].by > time + Delay THEN time + Delay
                                ELSE threads[cell].by
        /\ joinBy' = time + JoinTimeout /\ orchestrator' = "joining" /\ cell' = cell
        /\ cell \in CellIds /\ faults' = faults
        /\ threads'[cell].pc = threads[cell].pc
    BY <1>4, StopMonitorDoes
  <2>2. threads'[cell].by + JoinTimeout <= joinBy' + Delay
    BY <2>1, Times, MonitorAssumption
  <2>3. ASSUME NEW d \in CellIds
        PROVE  PromptOf(d)'
    <3>1. CASE d = cell
      BY <2>1, <2>2, <3>1 DEF PromptOf
    <3>2. CASE d # cell
      <4>1. threads'[d] = threads[d]
        BY <1>4, <3>2, StopMonitorDoes
      <4> QED
        BY <2>1, <3>2, <4>1 DEF PromptInv, PromptOf
    <3> QED
      BY <3>1, <3>2
  <2> QED
    BY <2>3 DEF PromptInv
<1>5. CASE Join
  <2>1. ASSUME NEW d \in CellIds, faults[d] = {}, threads[d].pc = "write"
        PROVE  FALSE
    <3>1. /\ d = cell /\ orchestrator = "joining" /\ threads[d].by + JoinTimeout <= joinBy + Delay
          /\ ~ Alive(cell) \/ time >= joinBy
      BY <1>5, <2>1 DEF Join, PromptInv, PromptOf
    <3>2. time <= threads[d].by /\ Alive(d)
      BY <2>1 DEF TimingInv, TimingOf, Alive
    <3>3. time >= joinBy
      BY <3>1, <3>2
    <3>4. threads[d].by \in Nat /\ time \in Nat /\ joinBy \in Nat /\ Delay \in Nat
             /\ JoinTimeout \in Nat
      BY Times, MonitorAssumption DEF TypeInv
    <3> QED
      BY <3>1, <3>2, <3>3, <3>4
  <2> QED
    BY <1>5, <2>1 DEF Join, PromptInv, PromptOf
<1>6. CASE Tick
  BY <1>6 DEF Tick, PromptInv, PromptOf
<1>7. CASE UNCHANGED vars
  BY <1>7 DEF vars, PromptInv, PromptOf
<1>8. ASSUME NEW c \in CellIds, ReadBaseline(c)
      PROVE  PromptInv'
  <2>0. /\ ReadBaseline(c) /\ PromptOf(c) /\ time \in Nat /\ Delay \in Nat
    BY <1>8, MonitorAssumption DEF TypeInv, PromptInv
  <2>1. ASSUME NEW d \in CellIds \ {c}
        PROVE  PromptOf(d)'
    <3>1. threads'[d] = threads[d] /\ faults'[d] = faults[d] /\ UNCHANGED cellVars /\ PromptOf(d)
      BY <1>8, ReadBaselineDoes DEF PromptInv
    <3> QED
      BY <3>1, SamePrompt
  <2>2. PromptOf(c)'
    <3>1. threads'[c].pc = "first"
      BY <2>0, ReadBaselineDoes
    <3> QED
      BY <3>1 DEF PromptOf
  <2> QED
    BY <2>1, <2>2 DEF PromptInv
<1>9. ASSUME NEW c \in CellIds, Ends(c)
      PROVE  PromptInv'
  <2>0. /\ Ends(c) /\ PromptOf(c) /\ time \in Nat /\ Delay \in Nat
    BY <1>9, MonitorAssumption DEF TypeInv, PromptInv
  <2>1. ASSUME NEW d \in CellIds \ {c}
        PROVE  PromptOf(d)'
    <3>1. threads'[d] = threads[d] /\ faults'[d] = faults[d] /\ UNCHANGED cellVars /\ PromptOf(d)
      BY <1>9, EndsDoes DEF PromptInv
    <3> QED
      BY <3>1, SamePrompt
  <2>2. PromptOf(c)'
    <3>1. threads'[c].pc = "gone"
      BY <2>0, EndsDoes
    <3> QED
      BY <3>1 DEF PromptOf
  <2> QED
    BY <2>1, <2>2 DEF PromptInv
<1>10. ASSUME NEW c \in CellIds, Reads(c)
       PROVE  PromptInv'
  <2>0. /\ Reads(c) /\ PromptOf(c) /\ time \in Nat /\ Delay \in Nat
    BY <1>10, MonitorAssumption DEF TypeInv, PromptInv
  <2>1. ASSUME NEW d \in CellIds \ {c}
        PROVE  PromptOf(d)'
    <3>1. threads'[d] = threads[d] /\ faults'[d] = faults[d] /\ UNCHANGED cellVars /\ PromptOf(d)
      BY <1>10, ReadsDoes DEF PromptInv
    <3> QED
      BY <3>1, SamePrompt
  <2>2. PromptOf(c)'
    <3>1. c = cell /\ orchestrator = "running" /\ cell' = cell /\ orchestrator' = orchestrator
      BY <2>0, ReadsRunning
    <3> QED
      BY <3>1 DEF PromptOf
  <2> QED
    BY <2>1, <2>2 DEF PromptInv
<1>11. ASSUME NEW c \in CellIds, ReadFails(c)
       PROVE  PromptInv'
  <2>0. /\ ReadFails(c) /\ PromptOf(c) /\ time \in Nat /\ Delay \in Nat
    BY <1>11, MonitorAssumption DEF TypeInv, PromptInv
  <2>1. ASSUME NEW d \in CellIds \ {c}
        PROVE  PromptOf(d)'
    <3>1. threads'[d] = threads[d] /\ faults'[d] = faults[d] /\ UNCHANGED cellVars /\ PromptOf(d)
      BY <1>11, ReadFailsDoes DEF PromptInv
    <3> QED
      BY <3>1, SamePrompt
  <2>2. PromptOf(c)'
    <3>1. faults'[c] # {}
      BY <2>0, ReadFailsDoes
    <3> QED
      BY <3>1 DEF PromptOf
  <2> QED
    BY <2>1, <2>2 DEF PromptInv
<1>12. ASSUME NEW c \in CellIds, OpenFails(c)
       PROVE  PromptInv'
  <2>0. /\ OpenFails(c) /\ PromptOf(c) /\ time \in Nat /\ Delay \in Nat
    BY <1>12, MonitorAssumption DEF TypeInv, PromptInv
  <2>1. ASSUME NEW d \in CellIds \ {c}
        PROVE  PromptOf(d)'
    <3>1. threads'[d] = threads[d] /\ faults'[d] = faults[d] /\ UNCHANGED cellVars /\ PromptOf(d)
      BY <1>12, OpenFailsDoes DEF PromptInv
    <3> QED
      BY <3>1, SamePrompt
  <2>2. PromptOf(c)'
    <3>1. threads'[c].pc = "gone"
      BY <2>0, OpenFailsDoes
    <3> QED
      BY <3>1 DEF PromptOf
  <2> QED
    BY <2>1, <2>2 DEF PromptInv
<1>13. ASSUME NEW c \in CellIds, Writes(c)
       PROVE  PromptInv'
  <2>0. /\ Writes(c) /\ PromptOf(c) /\ time \in Nat /\ Delay \in Nat
    BY <1>13, MonitorAssumption DEF TypeInv, PromptInv
  <2>1. ASSUME NEW d \in CellIds \ {c}
        PROVE  PromptOf(d)'
    <3>1. threads'[d] = threads[d] /\ faults'[d] = faults[d] /\ UNCHANGED cellVars /\ PromptOf(d)
      BY <1>13, WritesDoes DEF PromptInv
    <3> QED
      BY <3>1, SamePrompt
  <2>2. PromptOf(c)'
    <3>1. threads'[c].pc = "wait"
      BY <2>0, WritesDoes
    <3> QED
      BY <3>1 DEF PromptOf
  <2> QED
    BY <2>1, <2>2 DEF PromptInv
<1>14. ASSUME NEW c \in CellIds, FlushFails(c)
       PROVE  PromptInv'
  <2>0. /\ FlushFails(c) /\ PromptOf(c) /\ time \in Nat /\ Delay \in Nat
    BY <1>14, MonitorAssumption DEF TypeInv, PromptInv
  <2>1. ASSUME NEW d \in CellIds \ {c}
        PROVE  PromptOf(d)'
    <3>1. threads'[d] = threads[d] /\ faults'[d] = faults[d] /\ UNCHANGED cellVars /\ PromptOf(d)
      BY <1>14, FlushFailsDoes DEF PromptInv
    <3> QED
      BY <3>1, SamePrompt
  <2>2. PromptOf(c)'
    <3>1. faults'[c] # {}
      BY <2>0, FlushFailsDoes
    <3> QED
      BY <3>1 DEF PromptOf
  <2> QED
    BY <2>1, <2>2 DEF PromptInv
<1>15. ASSUME NEW c \in CellIds, Hang(c)
       PROVE  PromptInv'
  <2>0. /\ Hang(c) /\ PromptOf(c) /\ time \in Nat /\ Delay \in Nat
    BY <1>15, MonitorAssumption DEF TypeInv, PromptInv
  <2>1. ASSUME NEW d \in CellIds \ {c}
        PROVE  PromptOf(d)'
    <3>1. threads'[d] = threads[d] /\ faults'[d] = faults[d] /\ UNCHANGED cellVars /\ PromptOf(d)
      BY <1>15, HangDoes DEF PromptInv
    <3> QED
      BY <3>1, SamePrompt
  <2>2. PromptOf(c)'
    <3>1. faults'[c] # {}
      BY <2>0, HangDoes
    <3> QED
      BY <3>1 DEF PromptOf
  <2> QED
    BY <2>1, <2>2 DEF PromptInv
<1>16. ASSUME NEW c \in CellIds, Unblock(c)
       PROVE  PromptInv'
  <2>0. /\ Unblock(c) /\ PromptOf(c) /\ time \in Nat /\ Delay \in Nat
    BY <1>16, MonitorAssumption DEF TypeInv, PromptInv
  <2>1. ASSUME NEW d \in CellIds \ {c}
        PROVE  PromptOf(d)'
    <3>1. threads'[d] = threads[d] /\ faults'[d] = faults[d] /\ UNCHANGED cellVars /\ PromptOf(d)
      BY <1>16, UnblockDoes DEF PromptInv
    <3> QED
      BY <3>1, SamePrompt
  <2>2. PromptOf(c)'
    <3>1. threads[c].hung /\ threads'[c].pc = threads[c].pc /\ faults'[c] = faults[c]
      BY <2>0, UnblockDoes
    <3>2. faults[c] = {} => ~ Alive(c)
      BY <3>1 DEF TimingInv, TimingOf
    <3> QED
      BY <3>1, <3>2 DEF PromptOf, Alive
  <2> QED
    BY <2>1, <2>2 DEF PromptInv
<1> QED
  BY <1>1, <1>2, <1>3, <1>4, <1>5, <1>6, <1>7, <1>8, <1>9, <1>10,
     <1>11, <1>12, <1>13, <1>14, <1>15, <1>16, Kinds


\* A sample being written reaches the file, unless the flush fails.
LEMMA WriteGoesOn ==
  ASSUME TypeInv, CellInv, [Next]_vars, NEW c \in CellIds, threads[c].pc = "write"
  PROVE  \/ faults'[c] # {}
         \/ Writes(c)
         \/ threads'[c].pc = "write" /\ threads'[c].stamp = threads[c].stamp
<1>1. CASE StartMonitor
  BY <1>1, StartMonitorDoes DEF CellInv
<1>2. CASE EnterSteady \/ LeaveSteady \/ Join \/ Tick \/ UNCHANGED vars
  BY <1>2 DEF EnterSteady, LeaveSteady, Join, Tick, vars, cellVars
<1>3. CASE StopMonitor
  BY <1>3, StopMonitorDoes
<1>4. ASSUME NEW d \in CellIds, ReadBaseline(d)
      PROVE  \/ faults'[c] # {}
             \/ Writes(c)
             \/ threads'[c].pc = "write" /\ threads'[c].stamp = threads[c].stamp
  BY <1>4, ReadBaselineDoes
<1>5. ASSUME NEW d \in CellIds, Ends(d)
      PROVE  \/ faults'[c] # {}
             \/ Writes(c)
             \/ threads'[c].pc = "write" /\ threads'[c].stamp = threads[c].stamp
  BY <1>5, EndsDoes
<1>6. ASSUME NEW d \in CellIds, Reads(d)
      PROVE  \/ faults'[c] # {}
             \/ Writes(c)
             \/ threads'[c].pc = "write" /\ threads'[c].stamp = threads[c].stamp
  BY <1>6, ReadsDoes
<1>7. ASSUME NEW d \in CellIds, ReadFails(d)
      PROVE  \/ faults'[c] # {}
             \/ Writes(c)
             \/ threads'[c].pc = "write" /\ threads'[c].stamp = threads[c].stamp
  BY <1>7, ReadFailsDoes
<1>8. ASSUME NEW d \in CellIds, OpenFails(d)
      PROVE  \/ faults'[c] # {}
             \/ Writes(c)
             \/ threads'[c].pc = "write" /\ threads'[c].stamp = threads[c].stamp
  BY <1>8, OpenFailsDoes
<1>9. ASSUME NEW d \in CellIds, Writes(d)
      PROVE  \/ faults'[c] # {}
             \/ Writes(c)
             \/ threads'[c].pc = "write" /\ threads'[c].stamp = threads[c].stamp
  BY <1>9, WritesDoes
<1>10. ASSUME NEW d \in CellIds, FlushFails(d)
       PROVE  \/ faults'[c] # {}
              \/ Writes(c)
              \/ threads'[c].pc = "write" /\ threads'[c].stamp = threads[c].stamp
  BY <1>10, FlushFailsDoes
<1>11. ASSUME NEW d \in CellIds, Hang(d)
       PROVE  \/ faults'[c] # {}
              \/ Writes(c)
              \/ threads'[c].pc = "write" /\ threads'[c].stamp = threads[c].stamp
  BY <1>11, HangDoes
<1>12. ASSUME NEW d \in CellIds, Unblock(d)
       PROVE  \/ faults'[c] # {}
              \/ Writes(c)
              \/ threads'[c].pc = "write" /\ threads'[c].stamp = threads[c].stamp
  BY <1>12, UnblockDoes
<1> QED
  BY <1>1, <1>2, <1>3, <1>4, <1>5, <1>6, <1>7, <1>8, <1>9, <1>10, <1>11, <1>12, Kinds

\* The engine leaves its window: a thread that meets no fault has read within MaxGap.
LEMMA LeftSampled ==
  ASSUME TypeInv, CellInv, BaselineInv, TimingInv, LatestInv, LeaveSteady,
         time - start >= MaxGap, faults[cell] = {}
  PROVE  \/ \E k \in DOMAIN file : start <= file[k].stamp /\ file[k].stamp <= time
         \/ threads[cell].pc = "write" /\ start <= threads[cell].stamp
               /\ threads[cell].stamp <= time
<1>1. engine = "steady" /\ orchestrator = "running" /\ launched < start
  BY DEF LeaveSteady, CellInv
<1>2. cell \in CellIds /\ ~ threads[cell].stop /\ threads[cell].pc \notin {"none", "gone"}
  <2>1. cell \in CellIds
    BY <1>1 DEF CellInv, TypeInv, CellIds
  <2>2. ~ threads[cell].stop /\ threads[cell].pc # "gone"
    BY <1>1, <2>1 DEF CellInv
  <2>3. threads[cell].pc # "none"
    BY <2>1 DEF CellInv, CellIds
  <2> QED
    BY <2>1, <2>2, <2>3
<1>3. time <= threads[cell].by
  BY <1>2 DEF TimingInv, TimingOf, Alive
<1>4. /\ time \in Nat /\ start \in Nat /\ launched \in Nat /\ threads[cell].by \in Nat
      /\ threads[cell].due \in Nat /\ threads[cell].prev \in Nat /\ threads[cell].stamp \in Nat
      /\ Interval \in Nat /\ Delay \in Nat
  BY <1>2, Times, MonitorAssumption DEF TypeInv
<1>5. threads[cell].pc \in {"start", "first", "wait", "write"}
  <2>1. threads[cell] \in Threads
    BY <1>2 DEF TypeInv
  <2> QED
    BY <1>2, <2>1 DEF Threads
<1>6. CASE threads[cell].pc = "start"
  <2>1. threads[cell].by <= launched + Delay
    BY <1>2, <1>6 DEF LatestInv, LatestOf
  <2> QED
    BY <1>1, <1>3, <1>4, <2>1 DEF MaxGap
<1>7. CASE threads[cell].pc = "first"
  <2>1. threads[cell].by <= launched + MaxGap
    BY <1>2, <1>7 DEF LatestInv, LatestOf
  <2> QED
    BY <1>1, <1>3, <1>4, <2>1 DEF MaxGap
<1>8. CASE threads[cell].pc = "wait"
  <2>1. /\ threads[cell].by <= threads[cell].due + Delay
        /\ threads[cell].due <= threads[cell].prev + Delay + Interval
    BY <1>2, <1>8 DEF TimingInv, TimingOf, Alive
  <2>2. threads[cell].prev <= time
    BY <1>2, <1>8 DEF BaselineInv, BaselineOf
  <2>3. \E k \in DOMAIN file : file[k].stamp = threads[cell].prev
    BY <1>2, <1>8 DEF LatestInv, LatestOf
  <2>4. start <= threads[cell].prev
    BY <1>3, <1>4, <2>1 DEF MaxGap
  <2> QED
    BY <2>2, <2>3, <2>4
<1>9. CASE threads[cell].pc = "write"
  <2>1. threads[cell].by <= threads[cell].stamp + Delay /\ threads[cell].stamp <= time
    BY <1>2, <1>9 DEF TimingInv, TimingOf, Alive
  <2> QED
    BY <1>3, <1>4, <1>9, <2>1 DEF MaxGap
<1> QED
  BY <1>5, <1>6, <1>7, <1>8, <1>9

\* A window that lasted MaxGap has a sample, or will have.
LEMMA SampledPreserved ==
  ASSUME TypeInv, TypeInv', CellInv, BaselineInv, TimingInv, LatestInv, SampledInv, [Next]_vars
  PROVE  SampledInv'
<1>1. SUFFICES ASSUME NEW i \in DOMAIN windows'
               PROVE  SampledOf(windows[i])'
  BY DEF SampledInv
<1> USE DEF Charts!Inside
<1>2. CASE i \in DOMAIN windows /\ windows'[i] = windows[i]
  <2>1. windows[i].cell \in CellIds /\ SampledOf(windows[i])
    <3>1. windows[i] \in Windows
      BY <1>2 DEF TypeInv
    <3> QED
      BY <1>2, <3>1 DEF Windows, SampledInv
  <2> DEFINE c == windows[i].cell
  <2>2. faults'[c] = {} => faults[c] = {}
    BY <2>1, FaultsStay
  <2>3. CASE \E k \in DOMAIN file : Charts!Inside(file[k].stamp, windows[i])
    BY <1>2, <2>3, OldSamples DEF SampledOf
  <2>4. CASE threads[c].pc = "write" /\ Charts!Inside(threads[c].stamp, windows[i])
    <3>1. CASE faults'[c] # {}
      BY <1>2, <3>1 DEF SampledOf
    <3>2. CASE Writes(c)
      <4>1. \E k \in DOMAIN file' : file'[k] = Sample(c)
        BY <2>1, <3>2, HeldSamples DEF Held
      <4>2. Sample(c).stamp = threads[c].stamp
        BY DEF Sample
      <4> QED
        BY <1>2, <2>4, <4>1, <4>2 DEF SampledOf
    <3>3. CASE threads'[c].pc = "write" /\ threads'[c].stamp = threads[c].stamp
      BY <1>2, <2>4, <3>3 DEF SampledOf
    <3> QED
      BY <2>1, <2>4, <3>1, <3>2, <3>3, WriteGoesOn
  <2> QED
    BY <1>2, <2>1, <2>2, <2>3, <2>4 DEF SampledOf
<1>3. CASE LeaveSteady /\ windows'[i] = [cell |-> cell, start |-> start, finish |-> time]
  <2>1. faults' = faults /\ threads' = threads /\ file' = file
    BY <1>3 DEF LeaveSteady
  <2> QED
    BY <1>3, <2>1, LeftSampled DEF SampledOf
<1> QED
  BY <1>2, <1>3, WindowStep

-----------------------------------------------------------------------------
(* The invariant.                                                          *)

\* It holds at the start.
LEMMA InitInv ==
  ASSUME Init
  PROVE  IInv
<1>1. \A c \in CellIds : threads[c] = NoThread /\ faults[c] = {}
  BY DEF Init, CellIds
<1>2. /\ NoThread.pc = "none" /\ NoThread.pending = <<>> /\ NoThread.cover = None
      /\ NoThread.stop = FALSE
  BY DEF NoThread
<1>3. file = <<>> /\ windows = <<>> /\ DOMAIN file = {} /\ DOMAIN windows = {}
  BY DEF Init
<1>4. TypeInv
  <2>1. NoThread \in Threads
    <3>1. <<>> \in Seq(Samples) /\ None \in Spans
      BY DEF Spans
    <3> QED
      BY <3>1 DEF NoThread, Threads
  <2>2. threads \in [CellIds -> Threads] /\ faults \in [CellIds -> SUBSET Faults]
    BY <2>1 DEF Init, CellIds
  <2> QED
    BY <1>3, <2>2, MonitorAssumption DEF Init, TypeInv
<1>5. CellInv
  BY <1>1, <1>2, MonitorAssumption DEF Init, CellInv, CellIds, Alive
<1>6. HeldInv /\ OwnerInv
  BY <1>1, <1>2, <1>3 DEF HeldInv, OwnerInv
<1>7. BaselineInv
  BY <1>1, <1>2 DEF BaselineInv, BaselineOf
<1>8. TileInv
  <2>1. \A c \in CellIds : Of(c) = {}
    BY <1>3 DEF Of
  <2> QED
    BY <1>1, <1>2, <2>1 DEF TileInv, TileOf, Active
<1>9. Taken = {}
  <2>1. \A x : x \notin Taken
    BY <1>1, <1>2, <1>3, TakenWhere DEF Taken
  <2> QED
    BY <2>1
<1>10. OrderInv /\ GapInv
  BY <1>3, <1>9 DEF OrderInv, GapInv
<1>11. DueInv /\ TimingInv /\ LatestInv /\ PromptInv
  BY <1>1, <1>2 DEF DueInv, TimingInv, TimingOf, Alive, LatestInv, LatestOf, PromptInv, PromptOf
<1>12. SampledInv
  BY <1>3 DEF SampledInv
<1> QED
  BY <1>4, <1>5, <1>6, <1>7, <1>8, <1>10, <1>11, <1>12 DEF IInv

\* Every step keeps it.
LEMMA NextInv ==
  ASSUME IInv, [Next]_vars
  PROVE  IInv'
<1> USE DEF IInv
<1>1. TypeInv' /\ CellInv' /\ HeldInv' /\ OwnerInv' /\ BaselineInv'
  BY TypePreserved, CellPreserved, HeldPreserved, OwnerPreserved, BaselinePreserved
<1>2. TileInv' /\ OrderInv' /\ DueInv'
  BY <1>1, TilePreserved, OrderPreserved, DuePreserved
<1>3. TimingInv' /\ GapInv' /\ LatestInv'
  BY TimingPreserved, GapPreserved, LatestPreserved
<1>4. PromptInv'
  <2>1. CASE Delay < JoinTimeout
    BY <2>1, PromptPreserved
  <2>2. CASE ~ (Delay < JoinTimeout)
    BY <2>2 DEF PromptInv
  <2> QED
    BY <2>1, <2>2
<1>5. SampledInv'
  BY <1>1, SampledPreserved
<1> QED
  BY <1>1, <1>2, <1>3, <1>4, <1>5

\* Types, and what a cell's thread, its file and its windows have in common,
\* hold in every behaviour of the monitor.
THEOREM Invariance == Spec => []IInv
<1>1. Init => IInv
  BY InitInv
<1>2. IInv /\ [Next]_vars => IInv'
  BY NextInv
<1> QED
  BY <1>1, <1>2, PTL DEF Spec

\* Whatever reading, flush or write fails or hangs, the samples of a cell account
\* for its time from the baseline to the last reading, and for none of it twice
\* unless a flush failed (MonitorThread._run in system_monitor.py).
THEOREM TimeIsTiled == Spec => []TilesTime
<1>1. IInv => TilesTime
  <2>1. SUFFICES ASSUME IInv, NEW c \in 1..Cells, NEW k \in Of(c), file[k].cover # None,
                        NEW t \in threads[c].base + 1..time, t <= file[k].cover[2]
                 PROVE  LET n == Cardinality({j \in Of(c) : Covers(j, t)})
                        IN  n = 1 \/ (n > 1 /\ "flush" \in faults[c])
    BY DEF TilesTime
  <2> DEFINE K == {j \in Of(c) : Covers(j, t)}
  <2>2. TypeInv /\ TileOf(c) /\ c \in CellIds
    BY <2>1 DEF IInv, TileInv, CellIds
  <2>3. threads[c].base \in Nat /\ time \in Nat /\ file[k].cover[2] \in Nat /\ k \in DOMAIN file
    BY <2>1, <2>2, Times DEF Of
  <2>4. K # {}
    <3>1. Spanned(c, threads[c].base, file[k].cover[2])
      BY <2>1, <2>2 DEF TileOf
    <3>2. t \in threads[c].base + 1..file[k].cover[2]
      BY <2>1, <2>3
    <3> QED
      BY <3>1, <3>2 DEF Spanned
  <2>5. IsFiniteSet(K) /\ Cardinality(K) \in Nat /\ Cardinality(K) # 0
    <3>1. Len(file) \in Nat /\ DOMAIN file = 1..Len(file)
      BY <2>2 DEF TypeInv
    <3>2. IsFiniteSet(1..Len(file))
      <4>1. 1 \in Int /\ Len(file) \in Int
        BY <3>1
      <4> QED
        BY <4>1, FS_Interval
    <3>3. K \subseteq 1..Len(file)
      BY <3>1 DEF Of
    <3>4. IsFiniteSet(K)
      BY <3>2, <3>3, FS_Subset
    <3>5. Cardinality(K) \in Nat /\ (Cardinality(K) = 0 <=> K = {})
      BY <3>4, FS_CardinalityType, FS_EmptySet
    <3> QED
      BY <2>4, <3>4, <3>5
  <2>6. ASSUME "flush" \notin faults[c]
        PROVE  Cardinality(K) = 1
    <3>1. PICK i \in K : TRUE
      BY <2>4
    <3>2. ASSUME NEW j \in K
          PROVE  j = i
      <4>1. SUFFICES ASSUME j # i
                     PROVE  FALSE
        OBVIOUS
      <4>2. Apart(j, i)
        BY <2>2, <2>6, <4>1 DEF TileOf
      <4>3. /\ file[i].cover # None /\ file[i].cover[1] < t /\ t <= file[i].cover[2]
            /\ file[j].cover # None /\ file[j].cover[1] < t /\ t <= file[j].cover[2]
        BY DEF Covers
      <4>4. /\ file[i].cover[1] \in Nat /\ file[i].cover[2] \in Nat
            /\ file[j].cover[1] \in Nat /\ file[j].cover[2] \in Nat
        BY <2>2, <4>3, Times DEF Of
      <4> QED
        BY <2>3, <4>2, <4>3, <4>4 DEF Apart
    <3>3. K = {i}
      BY <3>2
    <3> HIDE DEF K
    <3> QED
      BY <3>3, FS_Singleton
  <2> HIDE DEF K
  <2>7. Cardinality(K) = 1 \/ (Cardinality(K) > 1 /\ "flush" \in faults[c])
    BY <2>5, <2>6
  <2> QED
    BY <2>7 DEF K
<1> QED
  BY <1>1, Invariance, PTL

\* The samples charted for a STEADY window are its own cell's, and without a fault
\* they count no time after it, nor more before it than MaxGap
\* (extract_avg_cpu's filter by time stamps over a file several cells append to).
THEOREM CpuIsOfWindow == Spec => []CpuOfWindow
<1>1. IInv => CpuOfWindow
  <2>1. SUFFICES ASSUME IInv, NEW i \in DOMAIN windows, NEW k \in ChartedIn(windows[i])
                 PROVE  /\ file[k].cell = windows[i].cell
                        /\ (faults[file[k].cell] = {} /\ file[k].cover # None) =>
                              /\ file[k].cover[1] >= windows[i].start - MaxGap
                              /\ file[k].cover[2] <= windows[i].finish
    BY DEF CpuOfWindow
  <2> DEFINE x == <<file[k].cell, file[k].stamp, file[k].cover>>
  <2>2. /\ k \in DOMAIN file /\ windows[i].start <= file[k].stamp
        /\ file[k].stamp <= windows[i].finish
    BY DEF ChartedIn, Charts!Inside
  <2>3. x \in Taken
    BY <2>2, TakenWhere DEF Taken
  <2>4. windows[i] \in Windows /\ TypeInv
    BY <2>1 DEF IInv, TypeInv
  <2>5. windows[i].cell \in Nat /\ windows[i].start \in Nat /\ windows[i].finish \in Nat
    BY <2>4 DEF Windows, CellIds
  <2>6. /\ file[k].cell \in Nat /\ file[k].stamp \in Nat
        /\ file[k].cover # None => file[k].cover[1] \in Nat /\ file[k].cover[2] \in Nat
    <3>1. file[k] \in Samples
      BY <2>2, <2>4 DEF TypeInv
    <3> QED
      BY <3>1 DEF Samples, Spans, CellIds
  <2>7. Ordered(windows[i], x)
    BY <2>1, <2>3 DEF IInv, OrderInv
  <2>8. file[k].cell = windows[i].cell
    BY <2>2, <2>5, <2>6, <2>7 DEF Ordered
  <2>9. (faults[file[k].cell] = {} /\ file[k].cover # None) =>
           file[k].cover[2] = file[k].stamp /\ file[k].cover[1] >= file[k].stamp - MaxGap
    BY <2>1, <2>3 DEF IInv, GapInv
  <2>10. MaxGap \in Nat
    BY MonitorAssumption DEF MaxGap
  <2> QED
    BY <2>2, <2>5, <2>6, <2>8, <2>9, <2>10
<1> QED
  BY <1>1, Invariance, PTL

\* If the join outlasts a delay of the thread, as the five seconds of stop() do, a
\* STEADY window that lasted MaxGap has a sample once its cell is over, unless
\* its monitor met a fault.
THEOREM WindowsAreSampled ==
  ASSUME Delay < JoinTimeout
  PROVE  Spec => []WindowSampled
<1>1. IInv => WindowSampled
  <2>1. SUFFICES ASSUME IInv, NEW i \in DOMAIN windows,
                        cell > windows[i].cell \/ orchestrator = "idle",
                        windows[i].finish - windows[i].start >= MaxGap,
                        faults[windows[i].cell] = {}
                 PROVE  ChartedIn(windows[i]) # {}
    BY DEF WindowSampled
  <2>2. windows[i].cell \in CellIds /\ cell \in Nat
    <3>1. windows[i] \in Windows /\ cell \in Nat
      BY <2>1 DEF IInv, TypeInv
    <3> QED
      BY <3>1 DEF Windows
  <2>3. threads[windows[i].cell].pc # "write"
    BY <2>1, <2>2 DEF IInv, PromptInv, PromptOf, CellIds
  <2>4. \E k \in DOMAIN file : Charts!Inside(file[k].stamp, windows[i])
    BY <2>1, <2>3 DEF IInv, SampledInv, SampledOf
  <2> QED
    BY <2>4 DEF ChartedIn
<1> QED
  BY <1>1, Invariance, PTL
=============================================================================
