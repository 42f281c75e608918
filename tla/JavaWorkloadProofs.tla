-------------------------- MODULE JavaWorkloadProofs --------------------------
(***************************************************************************)
(* Proofs about JavaWorkload for every set of workers, budget and          *)
(* deadline: the safety properties the runs check on small instances, and  *)
(* that the workload implements RequestBudget.                             *)
(*                                                                         *)
(* None of the properties is inductive.  The argument counts: every claim  *)
(* the shared counter has taken is either being given back, or waiting to  *)
(* be sent, or sent, and every request sent is either awaited or recorded. *)
(* A worker that throws drops its request, so these are equations only     *)
(* while `running` is set, and inequalities afterwards.                    *)
(***************************************************************************)
EXTENDS JavaWorkload, FiniteSetTheorems, TLAPS

-----------------------------------------------------------------------------
(* The inductive invariant. *)

Num(s) == Cardinality(At(s))

\* The claims that are not being given back.
Granted == requestCount - Num("giveback")

\* Only a request-based phase claims.
ModeInv == ~ RequestBased => At("claim") = {} /\ At("giveback") = {}

\* The counter never grants more than the budget, and overshoots it only when
\* the budget is spent.
ClaimInv ==
  RequestBased =>
    /\ Granted \in 0..target
    /\ At("giveback") # {} => Granted = target
    /\ (running /\ At("done") # {}) => Granted = target

\* Every granted claim is a request waiting to be sent or sent, unless a
\* worker threw.
SentInv ==
  RequestBased =>
    /\ sent + Num("limit") <= Granted
    /\ running => sent + Num("limit") = Granted

\* Every request sent is awaited or recorded, unless a worker threw.
RecordInv ==
  /\ totalRequests + Num("await") <= sent
  /\ running => totalRequests + Num("await") = sent

\* The flag is cleared exactly by the workers that fail.
FlagInv == running <=> At("failed") = {}

\* The main thread gives a status when it stops, after the workers.
MainInv ==
  /\ main = "stopped" <=> status # "none"
  /\ main = "stopped" => AllDone
  /\ status = "COMPLETED" => At("failed") = {}
  /\ status = "ERROR" => At("failed") # {}

\* A worker that has sent a request after the stop condition is past its
\* claim, and the stop condition persists.
OverrunInv ==
  \A w \in Workers :
    /\ overrun[w] <= 1
    /\ overrun[w] = 1 => /\ ~ running \/ TimeUp
                         /\ pc[w] \in {"await", "loop"} \cup Ended

IInv ==
  /\ TypeOK
  /\ ModeInv
  /\ ClaimInv
  /\ SentInv
  /\ RecordInv
  /\ FlagInv
  /\ MainInv
  /\ OverrunInv

-----------------------------------------------------------------------------
(* Counting the workers at a place. *)

\* The workers at a place are finitely many.
LEMMA NumFacts ==
  ASSUME NEW s
  PROVE  /\ IsFiniteSet(At(s))
         /\ Num(s) \in Nat
         /\ Num(s) = 0 <=> At(s) = {}
<1>1. IsFiniteSet(At(s))
  BY WorkersAssumption, FS_Subset DEF At
<1>2. QED
  BY <1>1, FS_EmptySet, FS_CardinalityType DEF Num

\* The same in the next state.
LEMMA NumFactsNext ==
  ASSUME NEW s
  PROVE  /\ Num(s)' \in Nat
         /\ Num(s)' = 0 <=> At(s)' = {}
<1>1. IsFiniteSet(At(s)')
  BY WorkersAssumption, FS_Subset DEF At
<1>2. QED
  BY <1>1, FS_EmptySet, FS_CardinalityType DEF Num

\* A worker that moves leaves one place and reaches another.
LEMMA AtMove ==
  ASSUME TypeOK, NEW w \in Workers, NEW t, GoTo(w, t), NEW s
  PROVE  /\ s = t  => At(s)' = At(s) \cup {w}
         /\ s # t  => At(s)' = At(s) \ {w}
         /\ w \in At(s) <=> s = pc[w]
         /\ (s # pc[w] /\ s # t) => At(s)' = At(s)
<1>1. /\ s = t  => At(s)' = At(s) \cup {w}
      /\ s # t  => At(s)' = At(s) \ {w}
      /\ w \in At(s) <=> s = pc[w]
  BY DEF TypeOK, GoTo, At
<1>2. QED
  BY <1>1

\* The numbers follow.
LEMMA NumMove ==
  ASSUME TypeOK, NEW w \in Workers, NEW t, GoTo(w, t), NEW s
  PROVE  /\ (s = pc[w] /\ s # t) => Num(s)' = Num(s) - 1
         /\ (s # pc[w] /\ s = t) => Num(s)' = Num(s) + 1
         /\ (s # pc[w] /\ s # t) => Num(s)' = Num(s)
<1>1. IsFiniteSet(At(s))
  BY NumFacts
<1>2. CASE s = t
  BY <1>1, <1>2, AtMove, FS_AddElement DEF Num
<1>3. CASE s # t
  BY <1>1, <1>3, AtMove, FS_RemoveElement DEF Num
<1>4. QED
  BY <1>2, <1>3

\* A step that moves no worker.
LEMMA NumStays ==
  ASSUME UNCHANGED pc, NEW s
  PROVE  Num(s)' = Num(s) /\ At(s)' = At(s)
BY DEF Num, At

-----------------------------------------------------------------------------
(* Type correctness. *)

\* The budget of the phase is configuration.
LEMMA TargetStays ==
  ASSUME [Next]_vars
  PROVE  target' = target
BY DEF Next, Worker, Leave, Enter, Claim, GiveBack, Send, Record, Throw, Finish,
       Interrupt, FinishInterrupted, Tick, Stopped, vars, env

\* GiveBack decrements the counter: that it stays a natural number needs
\* ClaimInv, so the type invariant is not inductive by itself.
LEMMA TypeStep ==
  ASSUME TypeOK, ModeInv, ClaimInv, [Next]_vars
  PROVE  TypeOK'
<1> USE DEF TypeOK, WorkerState, Ended, GoTo, env, window, mainThread, history
<1>1. ASSUME NEW w \in Workers, Leave(w)
      PROVE  TypeOK'
  BY <1>1 DEF Leave
<1>2. ASSUME NEW w \in Workers, Enter(w)
      PROVE  TypeOK'
  BY <1>2 DEF Enter
<1>3. ASSUME NEW w \in Workers, Claim(w)
      PROVE  TypeOK'
  BY <1>3 DEF Claim
<1>4. ASSUME NEW w \in Workers, GiveBack(w)
      PROVE  TypeOK'
  <2>1. requestCount - 1 \in Nat
    <3>1. At("giveback") # {}
      BY <1>4 DEF GiveBack, At
    <3>2. Num("giveback") \in Nat /\ Num("giveback") # 0
      BY <3>1, NumFacts
    <3>3. QED
      BY <3>1, <3>2 DEF ModeInv, ClaimInv, Granted
  <2>2. QED
    BY <1>4, <2>1 DEF GiveBack
<1>5. ASSUME NEW w \in Workers, Send(w)
      PROVE  TypeOK'
  BY <1>5 DEF Send
<1>6. ASSUME NEW w \in Workers, NEW success \in BOOLEAN, Record(w, success)
      PROVE  TypeOK'
  BY <1>6 DEF Record
<1>7. ASSUME NEW w \in Workers, Throw(w)
      PROVE  TypeOK'
  BY <1>7 DEF Throw
<1>8. CASE Finish
  BY <1>8 DEF Finish
<1>9. CASE Interrupt
  BY <1>9 DEF Interrupt
<1>10. CASE FinishInterrupted
  BY <1>10 DEF FinishInterrupted
<1>11. CASE Tick
  BY <1>11 DEF Tick
<1>12. CASE UNCHANGED vars
  BY <1>12 DEF vars
<1>13. QED
  BY <1>1, <1>2, <1>3, <1>4, <1>5, <1>6, <1>7, <1>8, <1>9, <1>10, <1>11,
     <1>12 DEF Next, Worker, Stopped

-----------------------------------------------------------------------------
(* The counts.  Only the steps of the workers disturb them. *)

CountInv == ModeInv /\ ClaimInv /\ SentInv /\ RecordInv

Counted == {"claim", "giveback", "limit", "await", "done"}

\* Every step keeps the equations between the counter and the workers.
LEMMA CountStep ==
  ASSUME TypeOK, CountInv, [Next]_vars
  PROVE  CountInv'
<1> USE DEF CountInv, ModeInv, ClaimInv, SentInv, RecordInv, Granted
<1> USE DEF RequestBased
<1>n. \A s \in Counted : /\ Num(s) \in Nat
                         /\ Num(s) = 0 <=> At(s) = {}
  BY NumFacts
<1>m. \A s \in Counted : /\ Num(s)' \in Nat
                         /\ Num(s)' = 0 <=> At(s)' = {}
  BY NumFactsNext
<1>t. /\ requestCount \in Nat /\ totalRequests \in Nat /\ sent \in Nat
      /\ running \in BOOLEAN
      /\ target \in Nat /\ target' = target
  BY TargetStays DEF TypeOK
<1>1. ASSUME NEW w \in Workers, Leave(w)
      PROVE  CountInv'
  <2>1. /\ Num("giveback")' = Num("giveback") /\ Num("limit")' = Num("limit")
        /\ Num("await")' = Num("await") /\ Num("claim")' = Num("claim")
    BY <1>1, NumMove DEF Leave
  <2>2. RequestBased => ~ running
    BY <1>1 DEF Leave, TimeUp
  <2>3. QED
    BY <1>1, <1>n, <1>m, <1>t, <2>1, <2>2 DEF Leave, window, history, Counted
<1>2. ASSUME NEW w \in Workers, Enter(w)
      PROVE  CountInv'
  <2> DEFINE t == IF RequestBased THEN "claim" ELSE "limit"
  <2>1. /\ Num("giveback")' = Num("giveback")
        /\ Num("await")' = Num("await")
        /\ RequestBased => Num("limit")' = Num("limit")
        /\ ~ RequestBased => Num("claim")' = Num("claim")
        /\ At("done")' = At("done")
    BY <1>2, NumMove, AtMove DEF Enter
  <2>2. QED
    BY <1>2, <1>n, <1>m, <1>t, <2>1 DEF Enter, window, history, Counted
<1>3. ASSUME NEW w \in Workers, Claim(w)
      PROVE  CountInv'
  <2>1. RequestBased /\ w \in At("claim")
    BY <1>3 DEF Claim, At
  <2>2. CASE requestCount >= target
    <3>1. /\ Num("giveback")' = Num("giveback") + 1
          /\ Num("limit")' = Num("limit") /\ Num("await")' = Num("await")
          /\ At("done")' = At("done")
      <4>1. GoTo(w, "giveback") /\ pc[w] = "claim"
        BY <1>3, <2>2 DEF Claim
      <4>2. QED
        BY <4>1, NumMove, AtMove
    <3>2. Granted = target
      BY <1>n, <1>t, <2>1, <2>2 DEF Counted
    <3>3. Granted' = target
      BY <1>3, <1>n, <1>t, <3>1, <3>2 DEF Claim, Counted
    <3>4. QED
      BY <1>3, <1>t, <2>1, <3>1, <3>2, <3>3 DEF Claim, window, history
  <2>3. CASE ~ (requestCount >= target)
    <3>1. /\ Num("giveback")' = Num("giveback")
          /\ Num("limit")' = Num("limit") + 1
          /\ Num("await")' = Num("await")
          /\ At("done")' = At("done")
      <4>1. GoTo(w, "limit") /\ pc[w] = "claim"
        BY <1>3, <2>3 DEF Claim
      <4>2. QED
        BY <4>1, NumMove, AtMove
    <3>2. At("giveback") = {} /\ At("giveback")' = {}
      BY <1>n, <1>m, <1>t, <2>1, <2>3, <3>1 DEF Counted
    <3>3. Granted' = Granted + 1 /\ Granted = requestCount
      BY <1>3, <1>n, <1>t, <3>1, <3>2 DEF Claim, Counted
    <3>4. ~ (running /\ At("done") # {})
      BY <1>t, <2>1, <2>3, <3>3
    <3>5. QED
      BY <1>3, <1>t, <1>n, <2>1, <2>3, <3>1, <3>2, <3>3, <3>4
         DEF Claim, window, history, Counted
  <2>4. QED
    BY <2>2, <2>3
<1>4. ASSUME NEW w \in Workers, GiveBack(w)
      PROVE  CountInv'
  <2>1. RequestBased /\ w \in At("giveback")
    BY <1>4 DEF GiveBack, At
  <2>2. /\ Num("giveback")' = Num("giveback") - 1
        /\ Num("limit")' = Num("limit") /\ Num("await")' = Num("await")
    BY <1>4, NumMove DEF GiveBack
  <2>3. Granted = target /\ Granted' = Granted
    BY <1>4, <1>n, <1>t, <2>1, <2>2 DEF GiveBack, Counted
  <2>4. QED
    BY <1>4, <1>t, <2>1, <2>2, <2>3 DEF GiveBack, window, history
<1>5. ASSUME NEW w \in Workers, Send(w)
      PROVE  CountInv'
  <2>1. /\ Num("giveback")' = Num("giveback") /\ Num("claim")' = Num("claim")
        /\ Num("limit")' = Num("limit") - 1
        /\ Num("await")' = Num("await") + 1
        /\ At("done")' = At("done")
    BY <1>5, NumMove, AtMove DEF Send
  <2>2. QED
    BY <1>5, <1>n, <1>m, <1>t, <2>1 DEF Send, window, Counted
<1>6. ASSUME NEW w \in Workers, NEW success \in BOOLEAN, Record(w, success)
      PROVE  CountInv'
  <2>1. /\ Num("giveback")' = Num("giveback") /\ Num("claim")' = Num("claim")
        /\ Num("limit")' = Num("limit")
        /\ Num("await")' = Num("await") - 1
        /\ At("done")' = At("done")
    BY <1>6, NumMove, AtMove DEF Record
  <2>2. QED
    BY <1>6, <1>n, <1>m, <1>t, <2>1 DEF Record, history, Counted
<1>7. ASSUME NEW w \in Workers, Throw(w)
      PROVE  CountInv'
  <2>1. /\ Num("giveback")' = Num("giveback") /\ Num("claim")' = Num("claim")
        /\ Num("limit")' \in {Num("limit"), Num("limit") - 1}
        /\ Num("await")' \in {Num("await"), Num("await") - 1}
    BY <1>7, NumMove DEF Throw
  <2>2. QED
    BY <1>7, <1>n, <1>m, <1>t, <2>1 DEF Throw, window, history, Counted
<1>8. ASSUME UNCHANGED <<pc, running, requestCount, window, sent>>
      PROVE  CountInv'
  BY <1>8, <1>t, NumStays DEF window
<1>9. QED
  BY <1>1, <1>2, <1>3, <1>4, <1>5, <1>6, <1>7, <1>8
     DEF Next, Worker, Finish, Interrupt, FinishInterrupted, Tick, Stopped,
         vars,
         history

-----------------------------------------------------------------------------
(* The flag, the main thread and the overrun. *)

\* Only Throw clears the flag, and only Throw fails a worker.
LEMMA FlagStep ==
  ASSUME TypeOK, FlagInv, [Next]_vars
  PROVE  FlagInv'
<1> USE DEF FlagInv
<1>1. ASSUME NEW w \in Workers, Worker(w)
      PROVE  FlagInv'
  <2>1. PICK t \in WorkerState : GoTo(w, t) /\ t # "failed"
    BY <1>1 DEF Worker, Leave, Enter, Claim, GiveBack, Send, Record,
                WorkerState, Ended
  <2>2. pc[w] # "failed" /\ UNCHANGED running
    BY <1>1 DEF Worker, Leave, Enter, Claim, GiveBack, Send, Record
  <2>3. At("failed")' = At("failed")
    BY <2>1, <2>2, AtMove
  <2>4. QED
    BY <2>2, <2>3
<1>2. ASSUME NEW w \in Workers, Throw(w)
      PROVE  FlagInv'
  <2>1. At("failed")' # {}
    BY <1>2, AtMove DEF Throw
  <2>2. QED
    BY <1>2, <2>1 DEF Throw
<1>3. ASSUME UNCHANGED <<pc, running>>
      PROVE  FlagInv'
  BY <1>3 DEF At
<1>4. QED
  BY <1>1, <1>2, <1>3
     DEF Next, Finish, Interrupt, FinishInterrupted, Tick, Stopped, vars

\* Once every worker has ended no worker moves.
LEMMA WorkersStay ==
  ASSUME TypeOK, AllDone, [Next]_vars
  PROVE  UNCHANGED <<pc, running, requestCount, window, sent>>
BY DEF TypeOK, AllDone, Ended, Next, Worker, Leave, Enter, Claim, GiveBack,
       Send,
       Record, Throw, Finish, Interrupt, FinishInterrupted, Tick, Stopped, vars,
       history

\* The main thread stops once, after the workers.
LEMMA MainStep ==
  ASSUME TypeOK, MainInv, [Next]_vars
  PROVE  MainInv'
<1> USE DEF MainInv
<1>1. CASE main = "stopped"
  <2>1. UNCHANGED <<pc, mainThread>>
    <3>1. UNCHANGED pc
      BY <1>1, WorkersStay
    <3>2. UNCHANGED mainThread
      BY <1>1 DEF Next, Worker, Leave, Enter, Claim, GiveBack, Send, Record,
                  Throw, Finish, Interrupt, FinishInterrupted, Tick, Stopped,
                  vars, mainThread
    <3>3. QED
      BY <3>1, <3>2
  <2>2. QED
    BY <2>1, <1>1 DEF mainThread, AllDone, At
<1>2. CASE main # "stopped"
  <2>1. CASE Finish
    BY <1>2, <2>1 DEF Finish, AllDone, At
  <2>2. CASE Interrupt
    BY <1>2, <2>2 DEF Interrupt
  <2>3. CASE FinishInterrupted
    BY <1>2, <2>3 DEF FinishInterrupted, AllDone
  <2>4. CASE UNCHANGED mainThread
    BY <1>2, <2>4 DEF mainThread
  <2>5. QED
    BY <2>1, <2>2, <2>3, <2>4
       DEF Next, Worker, Leave, Enter, Claim, GiveBack, Send, Record, Throw,
           Tick,
           Stopped, vars
<1>3. QED
  BY <1>1, <1>2

\* The stop condition persists, and a worker passes its claim only before it.
LEMMA OverrunStep ==
  ASSUME TypeOK, OverrunInv, [Next]_vars
  PROVE  OverrunInv'
<1> USE DEF OverrunInv, TypeOK, Ended, WorkerState
<1>1. (~ running \/ TimeUp) => (~ running' \/ TimeUp')
  BY DeadlineAssumption
     DEF TimeUp, RequestBased, Next, Worker, Leave, Enter, Claim, GiveBack,
         Send, Record, Throw, Finish, Interrupt, FinishInterrupted, Tick, Stopped,
         vars, env
<1>2. ASSUME NEW w \in Workers, Send(w)
      PROVE  OverrunInv'
  BY <1>1, <1>2 DEF Send, GoTo
<1>3. ASSUME NEW w \in Workers, NEW t \in WorkerState, GoTo(w, t),
             UNCHANGED overrun,
             overrun[w] = 1 => t \in {"await", "loop"} \cup Ended
      PROVE  OverrunInv'
  BY <1>1, <1>3 DEF GoTo
<1>4. ASSUME NEW w \in Workers, Worker(w) \/ Throw(w), ~ Send(w)
      PROVE  OverrunInv'
  <2>1. PICK t \in WorkerState :
          /\ GoTo(w, t) /\ UNCHANGED overrun
          /\ overrun[w] = 1 => t \in {"await", "loop"} \cup Ended
    BY <1>4 DEF Worker, Leave, Enter, Claim, GiveBack, Record, Throw, history,
                TimeUp
  <2>2. QED
    BY <1>3, <2>1
<1>5. ASSUME UNCHANGED <<pc, overrun>>
      PROVE  OverrunInv'
  BY <1>1, <1>5
<1>6. QED
  BY <1>2, <1>4, <1>5
     DEF Next, Finish, Interrupt, FinishInterrupted, Tick, Stopped, vars,
         history

-----------------------------------------------------------------------------
(* The inductive invariant holds, and the properties follow. *)

\* Initially no worker has claimed anything.
LEMMA InitIInv == Init => IInv
<1> SUFFICES ASSUME Init PROVE IInv
  OBVIOUS
<1>1. \A s \in WorkerState \ {"loop"} : At(s) = {} /\ Num(s) = 0
  BY NumFacts DEF Init, At
<1>n. /\ At("claim") = {} /\ At("giveback") = {} /\ At("done") = {}
      /\ Num("giveback") = 0 /\ Num("limit") = 0 /\ Num("await") = 0
  BY <1>1 DEF WorkerState, Ended
<1>2. TypeOK
  BY TargetsAssumption DEF Init, TypeOK, WorkerState
<1>3. ModeInv /\ ClaimInv /\ SentInv /\ RecordInv
  <2>1. requestCount = 0 /\ sent = 0 /\ totalRequests = 0
    BY DEF Init
  <2>2. Granted = 0
    BY <1>n, <2>1 DEF Granted
  <2>3. ModeInv /\ ClaimInv
    BY <1>n, <1>2, <2>2 DEF TypeOK, ModeInv, ClaimInv
  <2>4. SentInv /\ RecordInv
    BY <1>n, <2>1, <2>2 DEF SentInv, RecordInv
  <2>5. QED
    BY <2>3, <2>4
<1>4. FlagInv /\ MainInv /\ OverrunInv
  BY <1>1 DEF Init, FlagInv, MainInv, OverrunInv, WorkerState, Ended
<1>5. QED
  BY <1>2, <1>3, <1>4 DEF IInv

\* IInv is inductive.
LEMMA StepIInv == IInv /\ [Next]_vars => IInv'
<1> SUFFICES ASSUME IInv, [Next]_vars PROVE IInv'
  OBVIOUS
<1>1. TypeOK'
  BY TypeStep DEF IInv
<1>2. CountInv'
  BY CountStep DEF IInv, CountInv
<1>3. FlagInv' /\ MainInv' /\ OverrunInv'
  BY FlagStep, MainStep, OverrunStep DEF IInv
<1>4. QED
  BY <1>1, <1>2, <1>3 DEF IInv, CountInv

\* The inductive invariant holds in every reachable state.
THEOREM Invariance == Spec => []IInv
BY InitIInv, StepIInv, PTL DEF Spec

\* The variables keep their types; in particular the shared counter never
\* falls below zero, however the claims and the give-backs interleave.
THEOREM TypeCorrect == Spec => []TypeOK
<1>1. IInv => TypeOK
  BY DEF IInv
<1>2. QED
  BY <1>1, Invariance, PTL

\* Racing claims never hand the driver more requests than the budget.
THEOREM BudgetIsRespected == Spec => []BudgetRespected
<1>1. IInv => BudgetRespected
  <2> SUFFICES ASSUME IInv, RequestBased PROVE sent <= target
    BY DEF BudgetRespected
  <2>1. Num("limit") \in Nat /\ Num("giveback") \in Nat
    BY NumFacts
  <2>2. QED
    BY <2>1
       DEF IInv, TypeOK, ClaimInv, SentInv, Granted
<1>2. QED
  BY <1>1, Invariance, PTL

\* A phase called COMPLETED has sent and recorded its whole budget, and the
\* shared counter has settled on it.
THEOREM CompletionIsExact == Spec => []CompletedIsExact
<1>1. IInv => CompletedIsExact
  <2> SUFFICES ASSUME IInv, status = "COMPLETED", RequestBased
               PROVE  /\ totalRequests = target
                      /\ sent = target
                      /\ requestCount = target
    BY DEF CompletedIsExact
  <2>1. AllDone /\ At("failed") = {} /\ running = TRUE
    BY DEF IInv, MainInv, FlagInv, TypeOK
  <2>2. At("done") # {}
    BY <2>1, WorkersAssumption DEF AllDone, At, Ended
  <2>3. At("giveback") = {} /\ At("limit") = {} /\ At("await") = {}
    BY <2>1 DEF AllDone, At, Ended
  <2>4. Num("giveback") = 0 /\ Num("limit") = 0 /\ Num("await") = 0
    BY <2>3, NumFacts
  <2>5. Granted = target /\ requestCount = target
    BY <2>1, <2>2, <2>4 DEF IInv, ClaimInv, Granted, TypeOK
  <2>6. sent = target
    BY <2>1, <2>4, <2>5 DEF IInv, SentInv, TypeOK
  <2>7. totalRequests = target
    BY <2>1, <2>4, <2>6 DEF IInv, RecordInv, TypeOK
  <2>8. QED
    BY <2>5, <2>6, <2>7
<1>2. QED
  BY <1>1, Invariance, PTL

\* After the stop condition a worker sends at most one request more.
THEOREM OverrunIsBounded == Spec => []OverrunBounded
<1>1. IInv => OverrunBounded
  BY DEF IInv, OverrunInv, OverrunBounded
<1>2. QED
  BY <1>1, Invariance, PTL

\* The status the main thread returns is that of the workers, all ended.
THEOREM VerdictIsHonest == Spec => []VerdictHonest
<1>1. IInv => VerdictHonest
  BY DEF IInv, MainInv, VerdictHonest
<1>2. QED
  BY <1>1, Invariance, PTL

\* No result enters the measurement window after it was closed.
THEOREM WindowStaysFinal == Spec => WindowIsFinal
<1>1. IInv /\ [Next]_vars
        => [main = "stopped" => UNCHANGED <<window, requestCount>>]_vars
  BY WorkersStay DEF IInv, MainInv
<1>2. QED
  BY <1>1, Invariance, PTL DEF Spec, WindowIsFinal

\* Every step of the workload is a step of the abstract budget or leaves it
\* as it is.
LEMMA BudgetStep == IInv /\ [Next]_vars => [Budget!Next]_(Budget!vars)
<1> SUFFICES ASSUME IInv, [Next]_vars PROVE [Budget!Next]_(Budget!vars)
  OBVIOUS
<1> USE DEF Budget!vars, Budget!Next
<1>v. ASSUME NEW w \in Workers, pc[w] \notin Ended
      PROVE  status = "none"
  BY <1>v DEF IInv, MainInv, AllDone
<1>1. ASSUME NEW w \in Workers, Send(w)
      PROVE  Budget!Issue
  <2>1. status = "none"
    BY <1>1, <1>v DEF Send, Ended
  <2>2. At("limit") # {}
    BY <1>1 DEF Send, At
  <2>3. Num("limit") \in Nat \ {0} /\ Num("giveback") \in Nat
    BY <2>2, NumFacts
  <2>4. target = 0 \/ sent < target
    BY <2>3
       DEF IInv, TypeOK, ClaimInv, SentInv, Granted, RequestBased
  <2>5. QED
    BY <1>1, <2>1, <2>4 DEF Budget!Issue, Send, env, window, mainThread
<1>2. ASSUME NEW w \in Workers, NEW success \in BOOLEAN, Record(w, success)
      PROVE  Budget!Record
  <2>1. status = "none"
    BY <1>2, <1>v DEF Record, Ended
  <2>2. At("await") # {}
    BY <1>2 DEF Record, At
  <2>3. Num("await") \in Nat \ {0}
    BY <2>2, NumFacts
  <2>4. totalRequests < sent
    BY <2>3 DEF IInv, TypeOK, RecordInv
  <2>5. QED
    BY <1>2, <2>1, <2>4 DEF Budget!Record, Record, env, mainThread, history
<1>3. ASSUME Finish, At("failed") = {}
      PROVE  Budget!Complete
  <2>1. status = "none" /\ AllDone /\ running = TRUE
    BY <1>3 DEF Finish, IInv, MainInv, FlagInv, TypeOK
  <2>2. At("giveback") = {} /\ At("limit") = {} /\ At("await") = {}
    BY <2>1 DEF AllDone, At, Ended
  <2>3. Num("giveback") = 0 /\ Num("limit") = 0 /\ Num("await") = 0
    BY <2>2, NumFacts
  <2>4. At("done") # {}
    BY <1>3, <2>1, WorkersAssumption DEF AllDone, At, Ended
  <2>5. totalRequests = sent
    BY <2>1, <2>3 DEF IInv, TypeOK, RecordInv
  <2>6. target # 0 => sent = target
    BY <2>1, <2>3, <2>4
       DEF IInv, TypeOK, ClaimInv, SentInv, Granted, RequestBased
  <2>7. QED
    BY <1>3, <2>1, <2>5, <2>6
       DEF Budget!Complete, Finish, env, window, history
<1>4. ASSUME (Finish /\ At("failed") # {}) \/ FinishInterrupted
      PROVE  Budget!Abort
  BY <1>4 DEF Budget!Abort, Finish, FinishInterrupted, IInv, MainInv, env,
              window, history
<1>5. ASSUME UNCHANGED <<sent, totalRequests, status>>
      PROVE  UNCHANGED Budget!vars
  BY <1>5, TargetStays
<1>6. QED
  BY <1>1, <1>2, <1>3, <1>4, <1>5
     DEF Next, Worker, Leave, Enter, Claim, GiveBack, Throw, Interrupt, Tick,
         Stopped, vars, window, mainThread, history

\* The workload implements RequestBudget.
THEOREM ImplementsBudget == Spec => BudgetSpec
<1>1. Init => Budget!Init
  BY TargetsAssumption DEF Init, Budget!Init
<1>2. QED
  BY <1>1, BudgetStep, Invariance, PTL DEF Spec, BudgetSpec, Budget!Spec
=============================================================================
