------------------------- MODULE PythonEngineProofs -------------------------
(***************************************************************************)
(* Proofs about PythonEngine for every number of phases, connections and   *)
(* tasks, every budget and warmup, whatever fails and wherever Ctrl-C      *)
(* arrives: the safety properties the run checks, and that each phase      *)
(* implements RequestBudget.                                               *)
(*                                                                         *)
(* While nobody cancels, a granted claim is at the limiter or sent, and    *)
(* what was sent is awaited or recorded.  A cancelled gather sends and     *)
(* records nothing any more, and its phase cannot become COMPLETED.  Of    *)
(* the rows only the last may be missing, and then the run has ended.      *)
(***************************************************************************)
EXTENDS PythonEngine, FiniteSetTheorems, TLAPS

-----------------------------------------------------------------------------
(* The inductive invariant. *)

Setup == {"create", "commands", "warmup"}
Gathering == {"warmup", "workload"}
Finished == {"close", "ended"}
Final == {"COMPLETED", "ERROR", "INTERRUPTED"}

TypeInv ==
  /\ phase \in 1..Phases
  /\ step \in Setup \cup {"workload"} \cup Finished
  /\ conn \in [Connection -> {"none", "open", "closed"}] /\ clients \subseteq Connection
  /\ task \in [Task -> Ended \cup {"loop", "limit", "await"}]
  /\ pings \in [Connection -> Nat]
  /\ cancelling \in BOOLEAN /\ interrupted \in BOOLEAN /\ timeUp \in BOOLEAN
  /\ target \in Nat /\ warmup \in Nat
  /\ claimed \in Nat /\ sent \in Nat /\ recorded \in Nat /\ errors \in Nat
  /\ status \in Final \cup {"none"} /\ failure \in BOOLEAN /\ hadError \in BOOLEAN
  /\ rows \in Seq(Final) /\ lost \in {"no", "write", "close"} /\ exit \in {0, 1}

\* From the complete list of connections to the end of the workload all are
\* open, and only then tasks run.
WorkInv ==
  /\ NoWorkEscapes
  /\ step \in {"commands", "warmup", "workload"} => \A c \in Connection : conn[c] = "open"

\* Nothing has happened before the workload, and nobody is being cancelled
\* outside a gather.
FreshInv ==
  /\ step \in Setup => claimed = 0 /\ sent = 0 /\ recorded = 0
  /\ step \in {"create", "commands"} => ~ cancelling

\* The tasks at a place.
Those(s) == {t \in Task : task[t] = s}
Num(s) == Cardinality(Those(s))

\* The claims that were granted.
Granted == IF claimed < target THEN claimed ELSE target

\* While nobody is cancelled, a granted claim is at the limiter or was sent; a
\* task ends by itself only when everything has been claimed.
GrantInv ==
  (step = "workload" /\ ~ cancelling /\ RequestBased) =>
    /\ sent + Num("limit") = Granted
    /\ (\E t \in Task : task[t] = "done") => claimed >= target

\* While nobody is cancelled, what was sent is awaited or recorded.
RecordInv ==
  (step = "workload" /\ ~ cancelling) => recorded + Num("await") = sent

\* A phase has its verdict exactly when it is over, and Ctrl-C is not forgotten.
VerdictInv ==
  /\ status = "none" <=> step \notin Finished
  /\ failure => status # "COMPLETED"
  /\ status = "INTERRUPTED" => interrupted /\ failure
  /\ step \in {"create", "commands"} => ~ interrupted
  /\ step \in Gathering /\ interrupted => cancelling
  /\ step = "close" /\ interrupted => status = "INTERRUPTED"

\* The rows written so far, and what they make of the exit status.
RowsInv ==
  /\ step # "ended" =>
       /\ Len(rows) = phase - 1 /\ lost = "no"
       /\ hadError <=> \E i \in DOMAIN rows : rows[i] # "COMPLETED"
  /\ RowPerPhase /\ ExitHonest

IInv ==
  /\ TypeInv /\ WorkInv /\ FreshInv /\ GrantInv /\ RecordInv /\ VerdictInv /\ RowsInv

-----------------------------------------------------------------------------
(* Type correctness. *)

\* A task that moves.
LEMMA TaskType ==
  ASSUME TypeInv, NEW t \in Task, NEW s \in Ended \cup {"loop", "limit", "await"}, GoTo(t, s)
  PROVE  task' \in [Task -> Ended \cup {"loop", "limit", "await"}]
BY DEF TypeInv, GoTo

\* The steps of the tasks.
LEMMA TypeTask ==
  ASSUME TypeInv, NEW t \in Task, NEW ok \in BOOLEAN,
         Ping(t, ok) \/ Claim(t) \/ Send(t) \/ Record(t, ok) \/ Raise(t) \/ Unwind(t)
  PROVE  TypeInv'
<1> USE DEF setup, timing, flags, budget, collector, work, outcome, report, results
<1>1. task' \in [Task -> Ended \cup {"loop", "limit", "await"}]
  <2>1. \E s \in Ended \cup {"loop", "limit", "await"} : GoTo(t, s)
    BY DEF Ping, Claim, Send, Record, Raise, Unwind, Ended
  <2>2. QED
    BY <2>1, TaskType
<1>2. pings' \in [Connection -> Nat]
  <2>1. CASE Ping(t, ok)
    <3>1. t[1] \in Connection
      BY DEF Task
    <3>2. pings' = pings \/ pings' = [pings EXCEPT ![t[1]] = @ + 1]
      BY <2>1 DEF Ping
    <3>3. pings \in [Connection -> Nat]
      BY DEF TypeInv
    <3>4. QED
      BY <3>1, <3>2, <3>3
  <2>2. CASE UNCHANGED pings
    BY <2>2 DEF TypeInv
  <2>3. QED
    BY <2>1, <2>2 DEF Claim, Send, Record, Raise, Unwind
<1>3. claimed' \in Nat /\ sent' \in Nat /\ recorded' \in Nat /\ errors' \in Nat
  <2>1. claimed \in Nat /\ sent \in Nat /\ recorded \in Nat /\ errors \in Nat
    BY DEF TypeInv
  <2>2. CASE Ping(t, ok) \/ Unwind(t)
    BY <2>1, <2>2 DEF Ping, Unwind
  <2>3. CASE Claim(t) \/ Send(t) \/ Record(t, ok) \/ Raise(t)
    BY <2>1, <2>3 DEF Claim, Send, Record, Raise
  <2>4. QED
    BY <2>2, <2>3
<1>4. UNCHANGED <<step, setup, flags, timing, results>>
  BY DEF Ping, Claim, Send, Record, Raise, Unwind
<1>5. QED
  BY <1>1, <1>2, <1>3, <1>4 DEF TypeInv

\* A phase that starts.
LEMMA TypeFresh ==
  ASSUME TypeInv, Fresh
  PROVE  /\ conn' \in [Connection -> {"none", "open", "closed"}] /\ clients' \subseteq Connection
         /\ task' \in [Task -> Ended \cup {"loop", "limit", "await"}]
         /\ pings' \in [Connection -> Nat]
         /\ cancelling' \in BOOLEAN /\ timeUp' \in BOOLEAN /\ failure' \in BOOLEAN
         /\ target' \in Nat /\ warmup' \in Nat
         /\ claimed' \in Nat /\ sent' \in Nat /\ recorded' \in Nat /\ errors' \in Nat
         /\ status' = "none"
<1> USE SizesAssumption DEF Fresh
<1>1. task' \in [Task -> Ended \cup {"loop", "limit", "await"}]
  BY DEF NoTasks, Ended
<1>2. target' \in Nat /\ warmup' \in Nat
  OBVIOUS
<1>3. cancelling' \in BOOLEAN /\ timeUp' \in BOOLEAN /\ failure' \in BOOLEAN
  OBVIOUS
<1>4. conn' \in [Connection -> {"none", "open", "closed"}] /\ pings' \in [Connection -> Nat]
  OBVIOUS
<1>5. QED
  BY <1>1, <1>2, <1>3, <1>4

\* The variables keep their types.
LEMMA TypeStep ==
  ASSUME TypeInv, VerdictInv, [Next]_vars
  PROVE  TypeInv'
<1> USE DEF setup, timing, flags, budget, collector, work, outcome, report, results
<1>1. ASSUME NEW st \in Final, NEW fail \in BOOLEAN, EndPhase(st, fail),
             UNCHANGED <<setup, task, pings, flags, timing, work, report>>
      PROVE  TypeInv'
  BY <1>1 DEF EndPhase, TypeInv, Finished
<1>2. ASSUME NEW c \in Connection, Connect(c) \/ Close(c)
      PROVE  TypeInv'
  <2>1. conn' \in [Connection -> {"none", "open", "closed"}]
    BY <1>2 DEF Connect, Close, TypeInv
  <2>2. clients' \subseteq Connection /\ step' \in Setup \cup Finished
    BY <1>2 DEF Connect, Close, TypeInv, Setup, Finished
  <2>3. UNCHANGED <<phase, task, pings, flags, timing, work, results>>
    BY <1>2 DEF Connect, Close
  <2>4. QED
    BY <2>1, <2>2, <2>3 DEF TypeInv
<1>3. CASE ConnectFailure \/ UnknownCommand
  BY <1>1, <1>3 DEF ConnectFailure, UnknownCommand, Final
<1>4. CASE Drained
  BY <1>1, <1>4 DEF Drained, Final
<1>5. CASE WorkloadEnds
  BY <1>1, <1>5 DEF WorkloadEnds, Final
<1>6. CASE StartWarmup \/ StartWorkload
  <2>1. task' \in [Task -> Ended \cup {"loop", "limit", "await"}]
    BY <1>6 DEF StartWarmup, StartWorkload, Ended
  <2>2. step' \in {"warmup", "workload"} /\ UNCHANGED <<setup, pings, flags, timing, work, results>>
    BY <1>6 DEF StartWarmup, StartWorkload
  <2>3. QED
    BY <2>1, <2>2 DEF TypeInv, Setup
<1>7. CASE Deadline
  BY <1>7 DEF Deadline, TypeInv
<1>8. CASE CancelRest
  BY <1>8 DEF CancelRest, TypeInv
<1>9. CASE Interrupt
  <2>1. /\ UNCHANGED <<setup, task, pings, timing, work, hadError, rows>>
        /\ interrupted' \in BOOLEAN
    BY <1>9 DEF Interrupt
  <2>2. cancelling' \in BOOLEAN
    BY <1>9 DEF Interrupt, EndPhase, TypeInv
  <2>3. failure' \in BOOLEAN
    BY <1>9 DEF Interrupt, EndPhase, TypeInv
  <2>4. step' \in Setup \cup {"workload"} \cup Finished /\ status' \in Final \cup {"none"}
        /\ exit' \in {0, 1}
    BY <1>9 DEF Interrupt, EndPhase, TypeInv, Finished, Final
  <2>5. lost' \in {"no", "write", "close"}
    BY <1>9 DEF Interrupt, TypeInv
  <2>6. QED
    BY <2>1, <2>2, <2>3, <2>4, <2>5 DEF TypeInv
<1>10. CASE WriteRow
  <2>1. status \in Final /\ rows' = Append(rows, status)
    BY <1>10 DEF WriteRow, VerdictInv, TypeInv, Finished
  <2>2. rows' \in Seq(Final)
    BY <2>1 DEF TypeInv
  <2>3. hadError' \in BOOLEAN
    BY <1>10 DEF WriteRow, TypeInv
  <2>4. exit' \in {0, 1} /\ UNCHANGED <<interrupted, lost>>
    BY <1>10 DEF WriteRow, TypeInv
  <2>5. CASE failure \/ phase = Phases
    <3>1. step' = "ended" /\ UNCHANGED <<setup, task, pings, cancelling, timing, work, outcome>>
      BY <1>10, <2>5 DEF WriteRow
    <3>2. QED
      BY <2>2, <2>3, <2>4, <3>1 DEF TypeInv, Finished
  <2>6. CASE ~ (failure \/ phase = Phases)
    <3>1. step' = "create" /\ phase' = phase + 1 /\ Fresh
      BY <1>10, <2>6 DEF WriteRow
    <3>2. phase' \in 1..Phases
      BY <2>6, <3>1, SizesAssumption DEF TypeInv
    <3>3. QED
      BY <2>2, <2>3, <2>4, <3>1, <3>2, TypeFresh DEF TypeInv, Setup
  <2>7. QED
    BY <2>5, <2>6
<1>11. CASE WriteRowFails
  <2>1. UNCHANGED <<setup, task, pings, flags, timing, work, outcome, rows>>
    BY <1>11 DEF WriteRowFails
  <2>2. hadError' \in BOOLEAN /\ lost' = "write" /\ step' = "ended" /\ exit' = 1
    BY <1>11 DEF WriteRowFails, TypeInv
  <2>3. QED
    BY <2>1, <2>2 DEF TypeInv, Finished
<1>12. CASE UNCHANGED vars
  BY <1>12 DEF vars, TypeInv
<1>13. QED
  BY <1>2, <1>3, <1>4, <1>5, <1>6, <1>7, <1>8, <1>9, <1>10, <1>11, <1>12, TypeTask
     DEF Next, Main, Worker, Over

-----------------------------------------------------------------------------
(* Who works, and where. *)

\* What a step of a task does to the main task: nothing.
LEMMA TaskSteps ==
  ASSUME TypeInv, NEW t \in Task, NEW ok \in BOOLEAN,
         Ping(t, ok) \/ Claim(t) \/ Send(t) \/ Record(t, ok) \/ Raise(t) \/ Unwind(t)
  PROVE  /\ UNCHANGED <<step, setup, flags, timing, results>>
         /\ task[t] \notin Ended
         /\ \A s \in Task : s # t => task'[s] = task[s]
         /\ Ping(t, ok) => step = "warmup" /\ ~ cancelling
         /\ Claim(t) \/ Send(t) \/ Record(t, ok) \/ Raise(t) => step = "workload" /\ ~ cancelling
         /\ Unwind(t) => cancelling
<1> USE DEF flags, GoTo
<1>1. task[t] \notin Ended
  BY DEF Ping, Claim, Send, Record, Raise, Unwind, Working, Ended
<1>2. \A s \in Task : s # t => task'[s] = task[s]
  BY DEF Ping, Claim, Send, Record, Raise, Unwind, TypeInv
<1>3. UNCHANGED <<step, setup, flags, timing, results>>
  BY DEF Ping, Claim, Send, Record, Raise, Unwind
<1>4. QED
  BY <1>1, <1>2, <1>3 DEF Ping, Claim, Send, Record, Raise, Unwind, Working

\* No task is left behind, and no connection is closed under one.
LEMMA WorkStep ==
  ASSUME TypeInv, WorkInv, [Next]_vars
  PROVE  WorkInv'
<1> USE DEF WorkInv, NoWorkEscapes, setup, Setup, Finished
<1>1. ASSUME \A t \in Task : task'[t] \in Ended, step' \notin {"commands", "warmup", "workload"}
      PROVE  WorkInv'
  BY <1>1
<1>2. ASSUME step \in {"create", "commands", "close", "ended"}
      PROVE  \A t \in Task : task[t] \in Ended
  BY <1>2
<1>3. ASSUME NEW c \in Connection, Connect(c)
      PROVE  WorkInv'
  <2>1. step = "create" /\ UNCHANGED task /\ \A d \in 1..(c - 1) : conn[d] = "open"
    BY <1>3 DEF Connect
  <2>2. conn' = [conn EXCEPT ![c] = "open"]
    BY <1>3 DEF Connect
  <2>3. step' = IF c < Conns THEN "create" ELSE "commands"
    BY <1>3, <2>1 DEF Connect
  <2>4. c = Conns => \A d \in Connection : conn'[d] = "open"
    BY <2>1, <2>2, SizesAssumption DEF Connection, TypeInv
  <2>5. c < Conns \/ c = Conns
    BY SizesAssumption DEF Connection
  <2>6. QED
    BY <1>2, <2>1, <2>3, <2>4, <2>5
<1>4. CASE ConnectFailure \/ UnknownCommand
  BY <1>1, <1>2, <1>4 DEF ConnectFailure, UnknownCommand, EndPhase
<1>5. CASE StartWarmup \/ StartWorkload
  <2>1. step \in {"commands", "warmup"} /\ step' \in {"warmup", "workload"} /\ UNCHANGED conn
    BY <1>5 DEF StartWarmup, StartWorkload
  <2>2. \A t \in Task : t[1] \in Connection
    BY DEF Task
  <2>3. QED
    BY <2>1, <2>2
<1>6. ASSUME NEW t \in Task, NEW ok \in BOOLEAN,
             Ping(t, ok) \/ Claim(t) \/ Send(t) \/ Record(t, ok) \/ Raise(t) \/ Unwind(t)
      PROVE  WorkInv'
  <2>1. \A s \in Task : task'[s] \notin Ended => task[s] \notin Ended
    BY <1>6, TaskSteps
  <2>2. UNCHANGED <<step, conn>>
    BY <1>6, TaskSteps
  <2>3. QED
    BY <2>1, <2>2
<1>7. CASE Deadline \/ CancelRest
  BY <1>7 DEF Deadline, CancelRest
<1>8. CASE Drained \/ WorkloadEnds
  BY <1>1, <1>8 DEF Drained, WorkloadEnds, EndPhase, AllEnded, Ended
<1>9. ASSUME NEW c \in Connection, Close(c)
      PROVE  WorkInv'
  BY <1>1, <1>2, <1>9 DEF Close
<1>10. CASE WriteRow
  <2>1. step = "close" /\ step' \in {"create", "ended"}
    BY <1>10 DEF WriteRow
  <2>2. UNCHANGED task \/ task' = NoTasks
    BY <1>10 DEF WriteRow, Fresh
  <2>3. QED
    BY <1>1, <1>2, <2>1, <2>2 DEF NoTasks, Ended
<1>14. CASE WriteRowFails
  <2>1. step = "close" /\ step' = "ended" /\ UNCHANGED task
    BY <1>14 DEF WriteRowFails
  <2>2. QED
    BY <1>1, <1>2, <2>1
<1>11. CASE Interrupt
  <2>1. UNCHANGED <<task, conn>>
    BY <1>11 DEF Interrupt
  <2>2. \/ step \in {"create", "close"} /\ step' \in {"close", "ended"}
        \/ UNCHANGED step
    BY <1>11 DEF Interrupt, EndPhase
  <2>3. QED
    BY <1>1, <1>2, <2>1, <2>2
<1>12. CASE UNCHANGED vars
  BY <1>12 DEF vars
<1>13. QED
  BY <1>3, <1>4, <1>5, <1>6, <1>7, <1>8, <1>9, <1>10, <1>11, <1>12, <1>14
     DEF Next, Main, Worker, Over

\* A phase begins with nothing counted.
LEMMA FreshStep ==
  ASSUME TypeInv, FreshInv, [Next]_vars
  PROVE  FreshInv'
<1> USE DEF FreshInv, Setup, work, budget, collector, flags, Finished
<1>1. ASSUME NEW c \in Connection, Connect(c) \/ Close(c)
      PROVE  FreshInv'
  BY <1>1 DEF Connect, Close
<1>2. CASE ConnectFailure \/ UnknownCommand \/ Drained \/ WorkloadEnds
  BY <1>2 DEF ConnectFailure, UnknownCommand, Drained, WorkloadEnds, EndPhase
<1>3. CASE StartWarmup \/ StartWorkload \/ Deadline \/ CancelRest
  BY <1>3 DEF StartWarmup, StartWorkload, Deadline, CancelRest
<1>4. ASSUME NEW t \in Task, NEW ok \in BOOLEAN,
             Ping(t, ok) \/ Claim(t) \/ Send(t) \/ Record(t, ok) \/ Raise(t) \/ Unwind(t)
      PROVE  FreshInv'
  <2>1. UNCHANGED <<step, cancelling>>
    BY <1>4, TaskSteps
  <2>2. step = "workload" \/ UNCHANGED work
    BY <1>4, TaskSteps DEF Ping, Unwind
  <2>3. QED
    BY <2>1, <2>2
<1>5. CASE WriteRow \/ WriteRowFails
  BY <1>5 DEF WriteRow, WriteRowFails, Fresh
<1>6. CASE Interrupt
  BY <1>6 DEF Interrupt, EndPhase
<1>7. CASE UNCHANGED vars
  BY <1>7 DEF vars
<1>8. QED
  BY <1>1, <1>2, <1>3, <1>4, <1>5, <1>6, <1>7 DEF Next, Main, Worker, Over

-----------------------------------------------------------------------------
(* Counting the tasks at a place. *)

\* There are finitely many tasks.
LEMMA TasksFinite == IsFiniteSet(Task)
<1>1. IsFiniteSet(1..Conns) /\ IsFiniteSet(1..Depth)
  BY SizesAssumption, FS_Interval
<1>2. IsFiniteSet((1..Conns) \X (1..Depth))
  BY <1>1, FS_Product
<1>3. QED
  BY <1>2 DEF Task, Connection

\* The number of tasks at a place is a number.
LEMMA NumFacts ==
  ASSUME NEW s
  PROVE  /\ IsFiniteSet(Those(s)) /\ Num(s) \in Nat
         /\ Num(s) = 0 <=> Those(s) = {}
<1>1. IsFiniteSet(Those(s))
  BY TasksFinite, FS_Subset DEF Those
<1>2. QED
  BY <1>1, FS_EmptySet, FS_CardinalityType DEF Num

\* A task that moves leaves one place and reaches another.
LEMMA NumMove ==
  ASSUME TypeInv, NEW t \in Task, NEW to, GoTo(t, to), NEW s
  PROVE  /\ (s = task[t] /\ s # to) => Num(s)' = Num(s) - 1
         /\ (s # task[t] /\ s = to) => Num(s)' = Num(s) + 1
         /\ (s # task[t] /\ s # to) => Num(s)' = Num(s)
<1>1. IsFiniteSet(Those(s))
  BY NumFacts
<1>2. CASE s = to
  <2>1. Those(s)' = Those(s) \cup {t} /\ (t \in Those(s) <=> s = task[t])
    BY <1>2 DEF Those, GoTo, TypeInv
  <2>2. QED
    BY <1>1, <1>2, <2>1, FS_AddElement DEF Num
<1>3. CASE s # to
  <2>1. Those(s)' = Those(s) \ {t} /\ (t \in Those(s) <=> s = task[t])
    BY <1>3 DEF Those, GoTo, TypeInv
  <2>2. QED
    BY <1>1, <1>3, <2>1, FS_RemoveElement DEF Num
<1>4. QED
  BY <1>2, <1>3

\* Where nobody is, the count is zero: now ...
LEMMA NumNobody ==
  ASSUME NEW s, \A t \in Task : task[t] # s
  PROVE  Num(s) = 0
BY NumFacts DEF Those

\* ... and after a step.
LEMMA NumNobodyNext ==
  ASSUME NEW s, \A t \in Task : task'[t] # s
  PROVE  Num(s)' = 0
<1>1. Those(s)' = {}
  BY DEF Those
<1>2. QED
  BY <1>1, FS_EmptySet DEF Num

-----------------------------------------------------------------------------
(* The counts. *)

\* Besides the tasks' steps, a workload is only started, disturbed, or
\* cancelled; nothing goes on in a workload that is being cancelled.
LEMMA WorkloadSteps ==
  ASSUME TypeInv, [Next]_vars, step' = "workload", ~ cancelling'
  PROVE  \/ StartWorkload
         \/ /\ step = "workload" /\ ~ cancelling
            /\ UNCHANGED <<task, target, work>>
         \/ \E t \in Task, ok \in BOOLEAN : Claim(t) \/ Send(t) \/ Record(t, ok) \/ Raise(t)
<1> USE DEF flags, timing, work, budget, collector, Finished
<1>1. ASSUME NEW c \in Connection, Connect(c) \/ Close(c)
      PROVE  FALSE
  BY <1>1 DEF Connect, Close
<1>2. CASE ConnectFailure \/ UnknownCommand \/ Drained \/ WorkloadEnds \/ StartWarmup \/ CancelRest
  BY <1>2 DEF ConnectFailure, UnknownCommand, Drained, WorkloadEnds, EndPhase, StartWarmup,
              CancelRest
<1>3. CASE Deadline
  BY <1>3 DEF Deadline
<1>4. ASSUME NEW t \in Task, NEW ok \in BOOLEAN, Ping(t, ok) \/ Unwind(t)
      PROVE  FALSE
  BY <1>4 DEF Ping, Unwind
<1>5. CASE WriteRow \/ WriteRowFails
  BY <1>5 DEF WriteRow, WriteRowFails
<1>6. CASE Interrupt
  BY <1>6 DEF Interrupt, EndPhase
<1>7. CASE UNCHANGED vars
  BY <1>7 DEF vars
<1>8. QED
  BY <1>1, <1>2, <1>3, <1>4, <1>5, <1>6, <1>7 DEF Next, Main, Worker, Over

\* The budget is granted exactly, one claim at a time.
LEMMA GrantStep ==
  ASSUME TypeInv, FreshInv, GrantInv, [Next]_vars
  PROVE  GrantInv'
<1> SUFFICES ASSUME step' = "workload", ~ cancelling', RequestBased'
             PROVE  GrantInv'
  BY DEF GrantInv
<1>t. claimed \in Nat /\ sent \in Nat /\ target \in Nat /\ Num("limit") \in Nat
  BY NumFacts DEF TypeInv
<1>1. CASE StartWorkload
  <2>1. \A t \in Task : task'[t] = "loop"
    BY <1>1 DEF StartWorkload
  <2>2. Num("limit")' = 0
    BY <2>1, NumNobodyNext
  <2>3. claimed' = 0 /\ sent' = 0 /\ target' = target
    BY <1>1 DEF StartWorkload, FreshInv, Setup, work, budget, timing
  <2>4. QED
    BY <1>t, <2>1, <2>2, <2>3 DEF GrantInv, Granted, RequestBased
<1>2. CASE step = "workload" /\ ~ cancelling /\ UNCHANGED <<task, target, work>>
  <2>1. Num("limit")' = Num("limit")
    BY <1>2 DEF Num, Those
  <2>2. QED
    BY <1>2, <2>1 DEF GrantInv, Granted, RequestBased, work, budget
<1>3. ASSUME NEW t \in Task, Claim(t)
      PROVE  GrantInv'
  <2>1. step = "workload" /\ ~ cancelling /\ task[t] = "loop" /\ UNCHANGED <<target, sent>>
    BY <1>3 DEF Claim, Working, timing
  <2>2. claimed' = claimed + 1 /\ GoTo(t, IF claimed >= target THEN "done" ELSE "limit")
    BY <1>3, <2>1 DEF Claim, RequestBased
  <2>3. /\ sent + Num("limit") = Granted
        /\ (\E s \in Task : task[s] = "done") => claimed >= target
    BY <2>1 DEF GrantInv, RequestBased
  <2>4. Num("limit")' = IF claimed >= target THEN Num("limit") ELSE Num("limit") + 1
    BY <2>1, <2>2, NumMove
  <2>5. sent' + Num("limit")' = Granted'
    BY <1>t, <2>1, <2>2, <2>3, <2>4 DEF Granted
  <2>6. (\E s \in Task : task'[s] = "done") => claimed >= target
    BY <2>2, <2>3 DEF GoTo, TypeInv
  <2>7. QED
    BY <1>t, <2>1, <2>2, <2>5, <2>6 DEF GrantInv
<1>4. ASSUME NEW t \in Task, NEW ok \in BOOLEAN, Send(t) \/ Record(t, ok) \/ Raise(t)
      PROVE  GrantInv'
  <2>1. step = "workload" /\ ~ cancelling /\ UNCHANGED <<target, claimed>>
    BY <1>4 DEF Send, Record, Raise, Working, timing, budget
  <2>2. \/ task[t] = "limit" /\ GoTo(t, "await") /\ sent' = sent + 1
        \/ task[t] = "await" /\ UNCHANGED sent /\ \E s \in {"loop", "raised"} : GoTo(t, s)
    BY <1>4 DEF Send, Record, Raise, Working, budget
  <2>3. sent' + Num("limit")' = sent + Num("limit")
    BY <1>t, <2>2, NumMove
  <2>4. \A s \in Task : task'[s] = "done" => task[s] = "done"
    BY <2>2 DEF GoTo, TypeInv
  <2>5. QED
    BY <2>1, <2>3, <2>4 DEF GrantInv, Granted, RequestBased
<1>5. QED
  BY <1>1, <1>2, <1>3, <1>4, WorkloadSteps

\* What was sent is awaited or recorded.
LEMMA RecordStep ==
  ASSUME TypeInv, FreshInv, RecordInv, [Next]_vars
  PROVE  RecordInv'
<1> SUFFICES ASSUME step' = "workload", ~ cancelling'
             PROVE  RecordInv'
  BY DEF RecordInv
<1>t. recorded \in Nat /\ sent \in Nat /\ Num("await") \in Nat
  BY NumFacts DEF TypeInv
<1>1. CASE StartWorkload
  <2>1. \A t \in Task : task'[t] = "loop"
    BY <1>1 DEF StartWorkload
  <2>2. Num("await")' = 0
    BY <2>1, NumNobodyNext
  <2>3. recorded' = 0 /\ sent' = 0
    BY <1>1 DEF StartWorkload, FreshInv, Setup, work, budget, collector
  <2>4. QED
    BY <2>2, <2>3 DEF RecordInv
<1>2. CASE step = "workload" /\ ~ cancelling /\ UNCHANGED <<task, target, work>>
  <2>1. Num("await")' = Num("await")
    BY <1>2 DEF Num, Those
  <2>2. QED
    BY <1>2, <2>1 DEF RecordInv, work, budget, collector
<1>3. ASSUME NEW t \in Task, NEW ok \in BOOLEAN,
             Claim(t) \/ Send(t) \/ Record(t, ok) \/ Raise(t)
      PROVE  RecordInv'
  <2>1. step = "workload" /\ ~ cancelling
    BY <1>3 DEF Claim, Send, Record, Raise, Working
  <2>2. CASE Claim(t)
    <3>1. task[t] = "loop" /\ UNCHANGED <<sent, recorded>> /\ \E s \in {"done", "limit"} : GoTo(t, s)
      BY <2>2 DEF Claim, Working, collector
    <3>2. Num("await")' = Num("await")
      BY <3>1, NumMove
    <3>3. QED
      BY <2>1, <3>1, <3>2 DEF RecordInv
  <2>3. CASE Send(t)
    <3>1. task[t] = "limit" /\ sent' = sent + 1 /\ recorded' = recorded /\ GoTo(t, "await")
      BY <2>3 DEF Send, Working, collector
    <3>2. Num("await")' = Num("await") + 1
      BY <3>1, NumMove
    <3>3. QED
      BY <1>t, <2>1, <3>1, <3>2 DEF RecordInv
  <2>4. CASE Record(t, ok)
    <3>1. task[t] = "await" /\ recorded' = recorded + 1 /\ sent' = sent /\ GoTo(t, "loop")
      BY <2>4 DEF Record, Working, budget
    <3>2. Num("await")' = Num("await") - 1
      BY <3>1, NumMove
    <3>3. QED
      BY <1>t, <2>1, <3>1, <3>2 DEF RecordInv
  <2>5. CASE Raise(t)
    <3>1. task[t] = "await" /\ recorded' = recorded + 1 /\ sent' = sent /\ GoTo(t, "raised")
      BY <2>5 DEF Raise, Working, budget
    <3>2. Num("await")' = Num("await") - 1
      BY <3>1, NumMove
    <3>3. QED
      BY <1>t, <2>1, <3>1, <3>2 DEF RecordInv
  <2>6. QED
    BY <1>3, <2>2, <2>3, <2>4, <2>5
<1>4. QED
  BY <1>1, <1>2, <1>3, WorkloadSteps

-----------------------------------------------------------------------------
(* The verdict, the rows and the exit status. *)

\* The verdict is the last thing of a phase, and says whether Ctrl-C came.
LEMMA VerdictStep ==
  ASSUME TypeInv, VerdictInv, [Next]_vars
  PROVE  VerdictInv'
<1> USE DEF VerdictInv, Setup, Gathering, Finished, flags, outcome, results
<1>1. ASSUME NEW c \in Connection, Connect(c) \/ Close(c)
      PROVE  VerdictInv'
  BY <1>1 DEF Connect, Close
<1>2. CASE ConnectFailure \/ UnknownCommand
  BY <1>2 DEF ConnectFailure, UnknownCommand, EndPhase
<1>3. CASE StartWarmup \/ StartWorkload
  BY <1>3 DEF StartWarmup, StartWorkload
<1>4. ASSUME NEW t \in Task, NEW ok \in BOOLEAN,
             Ping(t, ok) \/ Claim(t) \/ Send(t) \/ Record(t, ok) \/ Raise(t) \/ Unwind(t)
      PROVE  VerdictInv'
  <2>1. UNCHANGED <<step, flags, results>>
    BY <1>4, TaskSteps
  <2>2. QED
    BY <2>1
<1>5. CASE Deadline \/ CancelRest
  BY <1>5 DEF Deadline, CancelRest
<1>6. CASE Drained
  BY <1>6 DEF Drained, EndPhase
<1>7. CASE WorkloadEnds
  BY <1>7 DEF WorkloadEnds, EndPhase
<1>8. CASE WriteRow
  <2>1. step = "close" /\ UNCHANGED interrupted
    BY <1>8 DEF WriteRow
  <2>2. CASE failure \/ phase = Phases
    BY <1>8, <2>1, <2>2 DEF WriteRow
  <2>3. CASE ~ (failure \/ phase = Phases)
    <3>1. ~ interrupted
      BY <2>1, <2>3
    <3>2. step' = "create" /\ status' = "none" /\ failure' = FALSE
      BY <1>8, <2>3 DEF WriteRow, Fresh
    <3>3. QED
      BY <2>1, <3>1, <3>2
  <2>4. QED
    BY <2>2, <2>3
<1>9. CASE Interrupt
  BY <1>9 DEF Interrupt, EndPhase
<1>10. CASE WriteRowFails
  BY <1>10 DEF WriteRowFails
<1>11. CASE UNCHANGED vars
  BY <1>11 DEF vars
<1>12. QED
  BY <1>1, <1>2, <1>3, <1>4, <1>5, <1>6, <1>7, <1>8, <1>9, <1>10, <1>11
     DEF Next, Main, Worker, Over

\* The rows and the exit status.
LEMMA RowsStep ==
  ASSUME TypeInv, TypeInv', VerdictInv, RowsInv, [Next]_vars
  PROVE  RowsInv'
<1> USE DEF RowsInv, RowPerPhase, ExitHonest
<1>1. ASSUME step # "ended", step' # "ended", UNCHANGED <<phase, rows, hadError, lost>>
      PROVE  RowsInv'
  BY <1>1
<1>2. ASSUME UNCHANGED <<step, phase, rows, hadError, interrupted, lost, exit>>
      PROVE  RowsInv'
  BY <1>2
<1>3. CASE WriteRow
  <2>1. /\ step = "close" /\ rows' = Append(rows, status) /\ UNCHANGED <<interrupted, lost>>
        /\ hadError' = (hadError \/ status # "COMPLETED")
    BY <1>3 DEF WriteRow
  <2>2. /\ rows \in Seq(Final) /\ status \in Final /\ phase \in 1..Phases
        /\ Len(rows) = phase - 1 /\ lost = "no"
        /\ hadError <=> \E i \in DOMAIN rows : rows[i] # "COMPLETED"
    BY <2>1 DEF VerdictInv, TypeInv, Finished
  <2>3. /\ Len(rows') = phase
        /\ DOMAIN rows' = DOMAIN rows \cup {Len(rows) + 1}
        /\ \A i \in DOMAIN rows : rows'[i] = rows[i]
        /\ rows'[Len(rows) + 1] = status
    BY <2>1, <2>2, SizesAssumption
  <2>4. hadError' <=> \E i \in DOMAIN rows' : rows'[i] # "COMPLETED"
    BY <2>1, <2>2, <2>3
  <2>5. CASE failure \/ phase = Phases
    <3>1. /\ step' = "ended" /\ UNCHANGED <<phase, status>>
          /\ exit' = IF hadError' THEN 1 ELSE 0
      BY <1>3, <2>5 DEF WriteRow, setup, outcome
    <3>2. RowPerPhase'
      BY <2>1, <2>2, <2>3, <3>1 DEF VerdictInv
    <3>3. failure => hadError'
      BY <2>1 DEF VerdictInv
    <3>4. ExitHonest'
      BY <2>3, <2>4, <2>5, <3>1, <3>3
    <3>5. QED
      BY <3>1, <3>2, <3>4
  <2>6. CASE ~ (failure \/ phase = Phases)
    <3>1. step' = "create" /\ phase' = phase + 1
      BY <1>3, <2>6 DEF WriteRow
    <3>2. QED
      BY <2>1, <2>2, <2>3, <2>4, <3>1, SizesAssumption
  <2>7. QED
    BY <2>5, <2>6
<1>4. CASE Interrupt
  <2>1. UNCHANGED <<phase, rows, hadError>> /\ interrupted' /\ ~ interrupted
    BY <1>4 DEF Interrupt, setup
  <2>2. CASE step' # "ended"
    <3>1. step # "ended" /\ UNCHANGED lost
      BY <1>4, <2>2 DEF Interrupt
    <3>2. QED
      BY <1>1, <2>1, <2>2, <3>1
  <2>3. CASE step' = "ended"
    <3>1. step = "close" /\ lost' = "close" /\ exit' = 1
      BY <1>4, <2>3 DEF Interrupt, EndPhase
    <3>2. Len(rows) = phase - 1 /\ phase \in 1..Phases
      BY <3>1 DEF TypeInv
    <3>3. QED
      BY <2>1, <2>3, <3>1, <3>2, SizesAssumption
  <2>4. QED
    BY <2>2, <2>3
<1>5. ASSUME NEW t \in Task, NEW ok \in BOOLEAN,
             Ping(t, ok) \/ Claim(t) \/ Send(t) \/ Record(t, ok) \/ Raise(t) \/ Unwind(t)
      PROVE  RowsInv'
  BY <1>2, <1>5, TaskSteps DEF setup, flags, results, outcome, report
<1>6. ASSUME NEW c \in Connection, Connect(c) \/ Close(c)
      PROVE  RowsInv'
  BY <1>1, <1>6 DEF Connect, Close, results, report
<1>7. CASE ConnectFailure \/ UnknownCommand \/ StartWarmup \/ StartWorkload \/ Drained \/ WorkloadEnds
  BY <1>1, <1>7 DEF ConnectFailure, UnknownCommand, StartWarmup, StartWorkload, Drained,
                    WorkloadEnds, EndPhase, setup, report, results
<1>8. CASE Deadline \/ CancelRest \/ UNCHANGED vars
  BY <1>2, <1>8 DEF Deadline, CancelRest, vars, setup, flags, results, outcome, report
<1>9. CASE WriteRowFails
  <2>1. /\ step = "close" /\ step' = "ended" /\ lost' = "write" /\ exit' = 1
        /\ UNCHANGED <<phase, rows>>
    BY <1>9 DEF WriteRowFails, setup
  <2>2. Len(rows) = phase - 1 /\ phase \in 1..Phases
    BY <2>1 DEF TypeInv
  <2>3. QED
    BY <2>1, <2>2, SizesAssumption
<1>10. QED
  BY <1>3, <1>4, <1>5, <1>6, <1>7, <1>8, <1>9 DEF Next, Main, Worker, Over

-----------------------------------------------------------------------------
(* The theorems. *)

\* The invariant holds at first ...
LEMMA InitIInv == Init => IInv
<1> SUFFICES ASSUME Init PROVE IInv
  OBVIOUS
<1> USE SizesAssumption DEF Init
<1>1. TypeInv
  <2>1. task \in [Task -> Ended \cup {"loop", "limit", "await"}]
    BY DEF NoTasks, Ended
  <2>2. conn \in [Connection -> {"none", "open", "closed"}] /\ pings \in [Connection -> Nat]
    OBVIOUS
  <2>3. /\ cancelling \in BOOLEAN /\ interrupted \in BOOLEAN /\ timeUp \in BOOLEAN
        /\ failure \in BOOLEAN /\ hadError \in BOOLEAN
    OBVIOUS
  <2>4. rows \in Seq(Final)
    OBVIOUS
  <2>5. phase \in 1..Phases /\ target \in Nat /\ warmup \in Nat
    OBVIOUS
  <2>6. QED
    BY <2>1, <2>2, <2>3, <2>4, <2>5 DEF TypeInv, Setup
<1>2. WorkInv /\ FreshInv
  BY DEF WorkInv, NoWorkEscapes, NoTasks, Ended, FreshInv
<1>3. GrantInv /\ RecordInv /\ VerdictInv
  BY DEF GrantInv, RecordInv, VerdictInv, Finished, Gathering
<1>4. RowsInv
  BY DEF RowsInv, RowPerPhase, ExitHonest
<1>5. QED
  BY <1>1, <1>2, <1>3, <1>4 DEF IInv

\* ... and every step keeps it.
LEMMA StepIInv == IInv /\ [Next]_vars => IInv'
<1> SUFFICES ASSUME IInv, [Next]_vars PROVE IInv'
  OBVIOUS
<1>1. TypeInv' /\ WorkInv' /\ FreshInv'
  BY TypeStep, WorkStep, FreshStep DEF IInv
<1>2. GrantInv' /\ RecordInv' /\ VerdictInv'
  BY GrantStep, RecordStep, VerdictStep DEF IInv
<1>3. RowsInv'
  BY <1>1, RowsStep DEF IInv
<1>4. QED
  BY <1>1, <1>2, <1>3 DEF IInv

\* The inductive invariant holds in every reachable state.
THEOREM Invariance == Spec => []IInv
BY InitIInv, StepIInv, PTL DEF Spec

\* No work escapes the phase that started it, whatever raises or is cancelled.
THEOREM NobodyEscapes == Spec => []NoWorkEscapes
<1>1. IInv => NoWorkEscapes
  BY DEF IInv, WorkInv
<1>2. QED
  BY <1>1, Invariance, PTL

\* The exit status tells whether every phase of the workload was COMPLETED.
THEOREM ExitIsHonest == Spec => []ExitHonest
<1>1. IInv => ExitHonest
  BY DEF IInv, RowsInv
<1>2. QED
  BY <1>1, Invariance, PTL

\* A phase has no row only when that could not be written or Ctrl-C arrived
\* while its connections were closed; otherwise the row of the last phase says
\* whether there was a Ctrl-C.
THEOREM RowsAreComplete == Spec => []RowPerPhase
<1>1. IInv => RowPerPhase
  BY DEF IInv, RowsInv
<1>2. QED
  BY <1>1, Invariance, PTL

\* Every task that could have held a request back ended by itself.
LEMMA CompletedIsExact ==
  ASSUME IInv, step = "workload", ~ cancelling, \A t \in Task : task[t] = "done"
  PROVE  recorded = sent /\ (target # 0 => sent = target)
<1>1. Num("limit") = 0 /\ Num("await") = 0
  BY NumNobody
<1>2. \E t \in Task : task[t] = "done"
  <2>1. <<1, 1>> \in Task
    BY SizesAssumption DEF Task, Connection
  <2>2. QED
    BY <2>1
<1>3. recorded \in Nat /\ sent \in Nat /\ claimed \in Nat /\ target \in Nat
  BY DEF IInv, TypeInv
<1>4. recorded = sent
  BY <1>1, <1>3 DEF IInv, RecordInv
<1>5. target # 0 => sent = target
  BY <1>1, <1>2, <1>3 DEF IInv, GrantInv, Granted, RequestBased
<1>6. QED
  BY <1>4, <1>5

\* Each step of the engine is a step of the abstract budget, or leaves it alone.
LEMMA BudgetStep ==
  ASSUME IInv, [Next]_vars
  PROVE  [Budget!Next]_(Budget!vars)
<1> USE DEF Budget!vars, setup, timing, flags, budget, collector, work, outcome, report, results
<1>t. /\ target \in Nat /\ sent \in Nat /\ recorded \in Nat /\ claimed \in Nat
      /\ status = "none" <=> step \notin Finished
  BY DEF IInv, TypeInv, VerdictInv
<1>1. ASSUME UNCHANGED <<target, sent, recorded, status>>
      PROVE  UNCHANGED Budget!vars
  BY <1>1
<1>2. ASSUME step \notin Finished, UNCHANGED <<target, sent, recorded>>,
             status' \in {"ERROR", "INTERRUPTED"}
      PROVE  Budget!Abort
  BY <1>t, <1>2 DEF Budget!Abort
<1>3. ASSUME NEW t \in Task, Send(t)
      PROVE  Budget!Issue
  <2>1. step = "workload" /\ ~ cancelling /\ t \in Those("limit")
    BY <1>3 DEF Send, Working, Those
  <2>2. Num("limit") \in Nat \ {0}
    BY <2>1, NumFacts
  <2>3. target = 0 \/ sent < target
    BY <1>t, <2>1, <2>2 DEF IInv, GrantInv, RequestBased, Granted
  <2>4. QED
    BY <1>3, <1>t, <2>1, <2>3 DEF Budget!Issue, Send, Finished
<1>4. ASSUME NEW t \in Task, NEW ok \in BOOLEAN, Record(t, ok) \/ Raise(t)
      PROVE  Budget!Record
  <2>1. step = "workload" /\ ~ cancelling /\ t \in Those("await")
    BY <1>4 DEF Record, Raise, Working, Those
  <2>2. Num("await") \in Nat \ {0}
    BY <2>1, NumFacts
  <2>3. recorded < sent
    BY <1>t, <2>1, <2>2 DEF IInv, RecordInv
  <2>4. QED
    BY <1>4, <1>t, <2>1, <2>3 DEF Budget!Record, Record, Raise, Finished
<1>5. ASSUME NEW t \in Task, NEW ok \in BOOLEAN, Ping(t, ok) \/ Claim(t) \/ Unwind(t)
      PROVE  UNCHANGED Budget!vars
  BY <1>5 DEF Ping, Claim, Unwind
<1>6. ASSUME NEW c \in Connection, Connect(c) \/ Close(c)
      PROVE  UNCHANGED Budget!vars
  BY <1>6 DEF Connect, Close
<1>7. CASE ConnectFailure \/ UnknownCommand
  BY <1>2, <1>7 DEF ConnectFailure, UnknownCommand, EndPhase, Finished, Budget!Next
<1>8. CASE Drained
  BY <1>2, <1>8 DEF Drained, EndPhase, Finished, Budget!Next
<1>9. CASE WorkloadEnds
  <2>1. /\ step = "workload" /\ ~ cancelling /\ \A t \in Task : task[t] = "done"
        /\ UNCHANGED <<target, sent, recorded>> /\ status' \in {"COMPLETED", "ERROR"}
    BY <1>9 DEF WorkloadEnds, EndPhase
  <2>2. recorded = sent /\ (target # 0 => sent = target)
    BY <2>1, CompletedIsExact
  <2>3. CASE status' = "COMPLETED"
    BY <1>t, <2>1, <2>2, <2>3 DEF Budget!Next, Budget!Complete, Finished
  <2>4. CASE status' = "ERROR"
    BY <1>2, <2>1, <2>4 DEF Budget!Next, Finished
  <2>5. QED
    BY <2>1, <2>3, <2>4
<1>10. CASE \/ StartWarmup \/ StartWorkload \/ Deadline \/ CancelRest \/ WriteRowFails
            \/ UNCHANGED vars
  BY <1>1, <1>10 DEF StartWarmup, StartWorkload, Deadline, CancelRest, WriteRowFails, vars
<1>11. CASE WriteRow
  <2>1. CASE UNCHANGED <<timing, work, outcome>>
    BY <2>1
  <2>2. CASE Fresh
    <3>1. target' \in Nat /\ status # "none"
      BY <1>11, <1>t, <2>2, SizesAssumption DEF Fresh, WriteRow, Finished
    <3>2. QED
      BY <2>2, <3>1 DEF Fresh, Budget!Next, Budget!Restart
  <2>3. QED
    BY <1>11, <2>1, <2>2 DEF WriteRow
<1>12. CASE Interrupt
  <2>1. UNCHANGED <<target, sent, recorded>>
    BY <1>12 DEF Interrupt
  <2>2. UNCHANGED status \/ (step = "create" /\ status' = "INTERRUPTED")
    BY <1>12 DEF Interrupt, EndPhase
  <2>3. QED
    BY <1>2, <2>1, <2>2 DEF Budget!Next, Finished
<1>13. QED
  BY <1>3, <1>4, <1>5, <1>6, <1>7, <1>8, <1>9, <1>10, <1>11, <1>12
     DEF Next, Main, Worker, Over, Budget!Next

\* Each phase implements RequestBudget.
THEOREM ImplementsBudget == Spec => BudgetSpec
<1>1. Init => Budget!Init
  BY SizesAssumption DEF Init, Budget!Init
<1>2. IInv /\ [Next]_vars => [Budget!Next]_(Budget!vars)
  BY BudgetStep
<1>3. QED
  BY <1>1, <1>2, Invariance, PTL DEF Spec, BudgetSpec, Budget!Spec
=============================================================================
