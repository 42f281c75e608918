------------------------- MODULE JavaPipelineProofs -------------------------
(***************************************************************************)
(* Proofs about JavaPipeline for every number of workers, every depth and  *)
(* budget, whatever the driver throws and whenever it answers: no result   *)
(* is recorded twice, and the phase implements RequestBudget.              *)
(*                                                                         *)
(* A granted claim is at the limiter or sent.  While nobody has failed the *)
(* counter is the granted claims and those about to be given back, and a   *)
(* claim is only given back when the budget is granted in full.  A worker  *)
(* whose list has run empty was refused, so that COMPLETED, with every     *)
(* list empty, says that the budget was sent and every result recorded.    *)
(***************************************************************************)
EXTENDS JavaPipeline, FiniteSetTheorems, TLAPS

-----------------------------------------------------------------------------
(* The inductive invariant. *)

Asking == {"ask", "claim", "giveback", "limit"}

TypeInv ==
  /\ target \in Nat /\ requestCount \in Int
  /\ totalRequests \in Nat /\ sent \in Nat
  /\ running \in BOOLEAN /\ expired \in BOOLEAN
  /\ pc \in [Workers -> Asking \cup {"fill", "wait", "join", "pass"} \cup Ended]
  /\ filling \in [Workers -> BOOLEAN]
  /\ filled \in [Workers -> Nat]
  /\ pending \in [Workers -> Seq({"flying", "ready"})]
  /\ cursor \in [Workers -> Nat]
  /\ modified \in [Workers -> BOOLEAN]
  /\ status \in {"none", "ERROR", "COMPLETED"}

\* The iterator is at a future or behind the last one.
CursorInv ==
  \A w \in Workers : 1 <= cursor[w] /\ cursor[w] <= Len(pending[w]) + 1

\* Until it first waits for an answer a worker has not removed a future.
FillInv ==
  /\ \A w \in Workers : filling[w] => Len(pending[w]) = filled[w]
  /\ \A w \in Workers : pc[w] = "fill" => filling[w]
  /\ \A w \in Workers : pc[w] = "pass" => ~ filling[w]

\* The flag falls with the first failure; an end time is for phases that have
\* no budget.
FlagInv ==
  /\ running <=> \A w \in Workers : pc[w] # "failed"
  /\ RequestBased => ~ expired

At(s) == {w \in Workers : pc[w] = s}
Num(s) == Cardinality(At(s))

\* The claims that were granted and whose driver call did not throw.
Granted == sent + Num("limit")

\* The counter stands for every claim; those beyond the budget are about to
\* be given back.
ClaimInv ==
  RequestBased =>
    /\ Granted + Num("giveback") <= requestCount
    /\ Granted <= target
    /\ running => /\ Granted + Num("giveback") = requestCount
                  /\ Num("giveback") > 0 => Granted = target

\* A worker whose list ran empty was refused a claim.
RefusedInv ==
  (RequestBased /\ running) =>
    \A w \in Workers :
      (pc[w] \in {"wait", "join", "pass", "done"} /\ pending[w] = <<>>) =>
        Granted = target

\* Who is done left with an empty list, or because somebody failed.
LeftInv ==
  running => \A w \in Workers : pc[w] = "done" => pending[w] = <<>>

\* The verdict is given when nobody works any more.
VerdictInv == status # "none" => \A w \in Workers : pc[w] \in Ended

FuturesInv == IsFiniteSet(Futures) /\ NoResultTwice

IInv ==
  /\ TypeInv /\ CursorInv /\ FillInv /\ FlagInv /\ ClaimInv /\ RefusedInv
  /\ LeftInv /\ VerdictInv /\ FuturesInv

-----------------------------------------------------------------------------
(* The workers at a place, the lists and the futures in them. *)

\* The workers at a place are finitely many.
LEMMA NumFacts ==
  ASSUME NEW s
  PROVE  /\ IsFiniteSet(At(s))
         /\ Num(s) \in Nat
         /\ Num(s) = 0 <=> At(s) = {}
<1>1. IsFiniteSet(At(s))
  BY WorkersAssumption, FS_Subset DEF At
<1> QED
  BY <1>1, FS_EmptySet, FS_CardinalityType DEF Num

\* A worker that goes on leaves one place and reaches another.
LEMMA NumMove ==
  ASSUME TypeInv, NEW w \in Workers, NEW t, GoTo(w, t), NEW s
  PROVE  /\ (s = pc[w] /\ s # t) => Num(s)' = Num(s) - 1
         /\ (s # pc[w] /\ s = t) => Num(s)' = Num(s) + 1
         /\ (s # pc[w] /\ s # t) => Num(s)' = Num(s) /\ At(s)' = At(s)
<1>1. IsFiniteSet(At(s)) /\ (w \in At(s) <=> s = pc[w])
  BY NumFacts DEF At
<1>2. CASE s = t
  <2>1. At(s)' = At(s) \cup {w}
    BY <1>2 DEF TypeInv, GoTo, At
  <2> QED
    BY <1>1, <1>2, <2>1, FS_AddElement DEF Num
<1>3. CASE s # t
  <2>1. At(s)' = At(s) \ {w}
    BY <1>3 DEF TypeInv, GoTo, At
  <2> QED
    BY <1>1, <1>3, <2>1, FS_RemoveElement DEF Num
<1> QED
  BY <1>2, <1>3

\* A step that moves no worker.
LEMMA NumStays ==
  ASSUME UNCHANGED pc, NEW s
  PROVE  Num(s)' = Num(s) /\ At(s)' = At(s)
BY DEF Num, At

\* The list of a worker that submits grows by one future.
LEMMA SubmitList ==
  ASSUME TypeInv, NEW w \in Workers, Submit(w)
  PROVE  /\ pending' \in [Workers -> Seq({"flying", "ready"})]
         /\ Len(pending'[w]) = Len(pending[w]) + 1
         /\ \A v \in Workers \ {w} : pending'[v] = pending[v]
BY DEF Submit, TypeInv

\* The list of a worker that harvests shrinks by one future.
LEMMA HarvestList ==
  ASSUME TypeInv, CursorInv, NEW w \in Workers, Harvest(w)
  PROVE  /\ pending' \in [Workers -> Seq({"flying", "ready"})]
         /\ cursor[w] \in 1..Len(pending[w])
         /\ Len(pending'[w]) = Len(pending[w]) - 1
         /\ \A v \in Workers \ {w} : pending'[v] = pending[v]
<1>1. /\ cursor[w] \in 1..Len(pending[w])
      /\ pending[w] \in Seq({"flying", "ready"})
  BY DEF Harvest, HasNext, TypeInv, CursorInv
<1>2. pending' = [pending EXCEPT ![w] = RemoveAt(@, cursor[w])]
  BY DEF Harvest
<1> DEFINE s == pending[w]
           i == cursor[w]
           a == SubSeq(s, 1, i - 1)
           b == SubSeq(s, i + 1, Len(s))
<1>3. i \in Nat /\ Len(s) \in Nat /\ 1 <= i /\ i <= Len(s)
  BY <1>1
<1> HIDE DEF s, i
<1>4. s \in Seq({"flying", "ready"})
  BY <1>1 DEF s
<1>5. a \in Seq({"flying", "ready"}) /\ Len(a) = i - 1
  BY <1>3, <1>4
<1>6. b \in Seq({"flying", "ready"}) /\ Len(b) = Len(s) - i
  BY <1>3, <1>4
<1> HIDE DEF a, b
<1>7. /\ a \o b \in Seq({"flying", "ready"})
      /\ Len(a \o b) = Len(s) - 1
  BY <1>3, <1>5, <1>6
<1>8. RemoveAt(s, i) = a \o b
  BY DEF RemoveAt, a, b
<1> QED
  BY <1>1, <1>2, <1>7, <1>8 DEF TypeInv, s, i

\* An answer changes no list's length.
LEMMA AnswerList ==
  ASSUME TypeInv, NEW w \in Workers, Answer(w)
  PROVE  /\ pending' \in [Workers -> Seq({"flying", "ready"})]
         /\ \A v \in Workers : Len(pending'[v]) = Len(pending[v])
         /\ \A v \in Workers : pending'[v] = <<>> <=> pending[v] = <<>>
<1>1. PICK i \in DOMAIN pending[w] :
        pending' = [pending EXCEPT ![w][i] = "ready"]
  BY DEF Answer
<1>2. pending[w] \in Seq({"flying", "ready"})
  BY DEF TypeInv
<1>3. /\ [pending[w] EXCEPT ![i] = "ready"] \in Seq({"flying", "ready"})
      /\ Len([pending[w] EXCEPT ![i] = "ready"]) = Len(pending[w])
  BY <1>2
<1>4. pending' \in [Workers -> Seq({"flying", "ready"})]
  BY <1>1, <1>3 DEF TypeInv
<1>5. \A v \in Workers : Len(pending'[v]) = Len(pending[v])
  BY <1>1, <1>3 DEF TypeInv
<1>6. \A v \in Workers : /\ pending'[v] = <<>> <=> Len(pending'[v]) = 0
                         /\ pending[v] = <<>> <=> Len(pending[v]) = 0
  BY <1>4 DEF TypeInv
<1> QED
  BY <1>4, <1>5, <1>6

\* A list is empty if its length is 0.
LEMMA EmptyList ==
  ASSUME TypeInv
  PROVE  \A w \in Workers : /\ Len(pending[w]) \in Nat
                            /\ pending[w] = <<>> <=> Len(pending[w]) = 0
BY DEF TypeInv

\* The futures are the pairs of a worker and a position in its list.
LEMMA FutureIsPosition ==
  ASSUME TypeInv
  PROVE  \A x : x \in Futures <=>
           \E w \in Workers : \E i \in 1..Len(pending[w]) : x = <<w, i>>
BY DEF TypeInv, Futures

\* The same in the next state.
LEMMA FutureIsPositionNext ==
  ASSUME pending' \in [Workers -> Seq({"flying", "ready"})]
  PROVE  \A x : x \in Futures' <=>
           \E w \in Workers : \E i \in 1..Len(pending'[w]) : x = <<w, i>>
BY DEF Futures

-----------------------------------------------------------------------------
(* Every reachable state satisfies the invariant. *)

\* The initial states satisfy the invariant.
LEMMA InitIInv == Init => IInv
<1> SUFFICES ASSUME Init PROVE IInv
  OBVIOUS
<1> USE DEF Init
<1>1. TypeInv
  <2>1. target \in Nat /\ running \in BOOLEAN /\ expired \in BOOLEAN
    BY TargetsAssumption
  <2>2. /\ pc \in [Workers -> Asking \cup {"fill", "wait", "join", "pass"} \cup Ended]
        /\ filling \in [Workers -> BOOLEAN] /\ modified \in [Workers -> BOOLEAN]
    OBVIOUS
  <2>3. filled \in [Workers -> Nat] /\ cursor \in [Workers -> Nat]
    OBVIOUS
  <2>4. pending \in [Workers -> Seq({"flying", "ready"})]
    OBVIOUS
  <2> QED
    BY <2>1, <2>2, <2>3, <2>4 DEF TypeInv
<1>2. CursorInv /\ FillInv /\ FlagInv /\ RefusedInv /\ LeftInv /\ VerdictInv
  BY DEF CursorInv, FillInv, FlagInv, RefusedInv, LeftInv, VerdictInv
<1>3. Num("limit") = 0 /\ Num("giveback") = 0
  BY NumFacts DEF At
<1>4. ClaimInv
  BY <1>1, <1>3 DEF ClaimInv, Granted, RequestBased, TypeInv
<1>5. Futures = {}
  BY DEF Futures
<1>6. FuturesInv
  BY <1>5, FS_EmptySet DEF FuturesInv, NoResultTwice
<1> QED
  BY <1>1, <1>2, <1>4, <1>6 DEF IInv

\* Every step preserves the types.
LEMMA TypeStep ==
  ASSUME TypeInv, CursorInv, [Next]_vars
  PROVE  TypeInv'
<1> USE DEF vars, env, fill, list, outcome, history
<1>1. ASSUME NEW w \in Workers, Fill(w)
      PROVE  TypeInv'
  BY <1>1 DEF Fill, GoTo, TypeInv, Asking, Ended
<1>2. ASSUME NEW w \in Workers, Ask(w)
      PROVE  TypeInv'
  BY <1>2 DEF Ask, Refused, GoTo, TypeInv, Asking
<1>3. ASSUME NEW w \in Workers, Claim(w)
      PROVE  TypeInv'
  BY <1>3 DEF Claim, GoTo, TypeInv, Asking, Ended
<1>4. ASSUME NEW w \in Workers, GiveBack(w)
      PROVE  TypeInv'
  BY <1>4 DEF GiveBack, Refused, GoTo, TypeInv, Asking
<1>5. ASSUME NEW w \in Workers, Submit(w)
      PROVE  TypeInv'
  <2>1. pending' \in [Workers -> Seq({"flying", "ready"})]
    BY <1>5, SubmitList
  <2>2. sent' \in Nat /\ filled' \in [Workers -> Nat]
    <3>1. filled \in [Workers -> Nat] /\ sent \in Nat
      BY DEF TypeInv
    <3>2. CASE filling[w]
      BY <1>5, <3>1, <3>2 DEF Submit
    <3>3. CASE ~ filling[w]
      BY <1>5, <3>1, <3>3 DEF Submit
    <3> QED
      BY <3>2, <3>3
  <2>3. modified' \in [Workers -> BOOLEAN]
    BY <1>5 DEF Submit, TypeInv
  <2>4. pc' \in [Workers -> Asking \cup {"fill", "wait", "join", "pass"} \cup Ended]
    BY <1>5 DEF Submit, GoTo, TypeInv
  <2> QED
    BY <1>5, <2>1, <2>2, <2>3, <2>4 DEF Submit, TypeInv
<1>6. ASSUME NEW w \in Workers, Await(w)
      PROVE  TypeInv'
  BY <1>6 DEF Await, GoTo, TypeInv, Asking, Ended
<1>7. ASSUME NEW w \in Workers, Wake(w)
      PROVE  TypeInv'
  <2>1. filling' \in [Workers -> BOOLEAN] /\ modified' \in [Workers -> BOOLEAN]
    BY <1>7 DEF Wake, TypeInv
  <2>2. cursor' \in [Workers -> Nat]
    BY <1>7 DEF Wake, TypeInv
  <2> QED
    BY <1>7, <2>1, <2>2 DEF Wake, GoTo, TypeInv
<1>8. ASSUME NEW w \in Workers, Skip(w)
      PROVE  TypeInv'
  BY <1>8 DEF Skip, GoTo, TypeInv, Asking, Ended
<1>9. ASSUME NEW w \in Workers, Harvest(w)
      PROVE  TypeInv'
  <2>1. pending' \in [Workers -> Seq({"flying", "ready"})]
    BY <1>9, HarvestList
  <2> QED
    BY <1>9, <2>1 DEF Harvest, GoTo, TypeInv, Asking
<1>10. ASSUME NEW w \in Workers, NextThrows(w)
       PROVE  TypeInv'
  BY <1>10 DEF NextThrows, GoTo, TypeInv, Asking, Ended
<1>11. ASSUME NEW w \in Workers, EndPass(w)
       PROVE  TypeInv'
  BY <1>11 DEF EndPass, GoTo, TypeInv, Asking, Ended
<1>12. ASSUME NEW w \in Workers, Leave(w)
       PROVE  TypeInv'
  BY <1>12 DEF Leave, GoTo, TypeInv, Asking, Ended
<1>13. ASSUME NEW w \in Workers, Answer(w)
       PROVE  TypeInv'
  <2>1. pending' \in [Workers -> Seq({"flying", "ready"})]
    BY <1>13, AnswerList
  <2> QED
    BY <1>13, <2>1 DEF Answer, TypeInv
<1>14. ASSUME NEW w \in Workers, DriverThrows(w)
       PROVE  TypeInv'
  BY <1>14 DEF DriverThrows, GoTo, TypeInv, Asking, Ended
<1>15. CASE Finish
  BY <1>15 DEF Finish, TypeInv, Asking, Ended
<1>16. CASE Expire
  BY <1>16 DEF Expire, TypeInv, Asking, Ended
<1>17. CASE UNCHANGED vars
  BY <1>17 DEF TypeInv, Asking, Ended
<1> QED
  BY <1>1, <1>2, <1>3, <1>4, <1>5, <1>6, <1>7, <1>8, <1>9, <1>10,
     <1>11, <1>12, <1>13, <1>14, <1>15, <1>16, <1>17 DEF Next, Step, Stopped


\* The iterator stays within its list.
LEMMA CursorStep ==
  ASSUME TypeInv, CursorInv, [Next]_vars
  PROVE  CursorInv'
<1> USE DEF vars, env, fill, list, outcome, history
<1>1. ASSUME NEW w \in Workers, Fill(w)
      PROVE  CursorInv'
  BY <1>1 DEF Fill, GoTo, TypeInv, CursorInv
<1>2. ASSUME NEW w \in Workers, Ask(w)
      PROVE  CursorInv'
  BY <1>2 DEF Ask, GoTo, TypeInv, CursorInv
<1>3. ASSUME NEW w \in Workers, Claim(w)
      PROVE  CursorInv'
  BY <1>3 DEF Claim, GoTo, TypeInv, CursorInv
<1>4. ASSUME NEW w \in Workers, GiveBack(w)
      PROVE  CursorInv'
  BY <1>4 DEF GiveBack, GoTo, TypeInv, CursorInv
<1>5. ASSUME NEW w \in Workers, Submit(w)
      PROVE  CursorInv'
  <2>1. cursor' = cursor /\ \A v \in Workers : cursor[v] \in Nat
    BY <1>5 DEF Submit, TypeInv
  <2> QED
    BY <1>5, <2>1, SubmitList, EmptyList DEF CursorInv
<1>6. ASSUME NEW w \in Workers, Await(w)
      PROVE  CursorInv'
  BY <1>6 DEF Await, GoTo, TypeInv, CursorInv
<1>7. ASSUME NEW w \in Workers, Wake(w)
      PROVE  CursorInv'
  BY <1>7 DEF Wake, GoTo, TypeInv, CursorInv
<1>8. ASSUME NEW w \in Workers, Skip(w)
      PROVE  CursorInv'
  BY <1>8, EmptyList DEF Skip, HasNext, TypeInv, CursorInv
<1>9. ASSUME NEW w \in Workers, Harvest(w)
      PROVE  CursorInv'
  <2>1. cursor' = cursor /\ cursor[w] \in Nat
    BY <1>9 DEF Harvest, TypeInv
  <2>2. /\ cursor[w] \in 1..Len(pending[w]) /\ Len(pending'[w]) = Len(pending[w]) - 1
        /\ \A v \in Workers \ {w} : pending'[v] = pending[v]
    BY <1>9, HarvestList
  <2>3. Len(pending[w]) \in Nat
    BY EmptyList
  <2>4. 1 <= cursor'[w] /\ cursor'[w] <= Len(pending'[w]) + 1
    BY <2>1, <2>2, <2>3
  <2> QED
    BY <2>1, <2>2, <2>4 DEF CursorInv
<1>10. ASSUME NEW w \in Workers, NextThrows(w)
       PROVE  CursorInv'
  BY <1>10 DEF NextThrows, GoTo, TypeInv, CursorInv
<1>11. ASSUME NEW w \in Workers, EndPass(w)
       PROVE  CursorInv'
  BY <1>11 DEF EndPass, GoTo, TypeInv, CursorInv
<1>12. ASSUME NEW w \in Workers, Leave(w)
       PROVE  CursorInv'
  BY <1>12 DEF Leave, GoTo, TypeInv, CursorInv
<1>13. ASSUME NEW w \in Workers, Answer(w)
       PROVE  CursorInv'
  BY <1>13, AnswerList DEF Answer, CursorInv
<1>14. ASSUME NEW w \in Workers, DriverThrows(w)
       PROVE  CursorInv'
  BY <1>14 DEF DriverThrows, GoTo, TypeInv, CursorInv
<1>15. CASE Finish
  BY <1>15 DEF Finish, TypeInv, CursorInv
<1>16. CASE Expire
  BY <1>16 DEF Expire, TypeInv, CursorInv
<1>17. CASE UNCHANGED vars
  BY <1>17 DEF TypeInv, CursorInv
<1> QED
  BY <1>1, <1>2, <1>3, <1>4, <1>5, <1>6, <1>7, <1>8, <1>9, <1>10,
     <1>11, <1>12, <1>13, <1>14, <1>15, <1>16, <1>17 DEF Next, Step, Stopped


\* The initial fill counts the futures.
LEMMA FillStep ==
  ASSUME TypeInv, CursorInv, FillInv, [Next]_vars
  PROVE  FillInv'
<1> USE DEF vars, env, fill, list, outcome, history
<1>1. ASSUME NEW w \in Workers, Fill(w)
      PROVE  FillInv'
  BY <1>1 DEF Fill, GoTo, TypeInv, FillInv, Refused
<1>2. ASSUME NEW w \in Workers, Ask(w)
      PROVE  FillInv'
  BY <1>2 DEF Ask, GoTo, TypeInv, FillInv, Refused
<1>3. ASSUME NEW w \in Workers, Claim(w)
      PROVE  FillInv'
  BY <1>3 DEF Claim, GoTo, TypeInv, FillInv, Refused
<1>4. ASSUME NEW w \in Workers, GiveBack(w)
      PROVE  FillInv'
  BY <1>4 DEF GiveBack, GoTo, TypeInv, FillInv, Refused
<1>5. ASSUME NEW w \in Workers, Submit(w)
      PROVE  FillInv'
  BY <1>5, SubmitList DEF Submit, GoTo, FillInv, TypeInv
<1>6. ASSUME NEW w \in Workers, Await(w)
      PROVE  FillInv'
  BY <1>6 DEF Await, GoTo, TypeInv, FillInv, Refused
<1>7. ASSUME NEW w \in Workers, Wake(w)
      PROVE  FillInv'
  BY <1>7 DEF Wake, GoTo, TypeInv, FillInv, Refused
<1>8. ASSUME NEW w \in Workers, Skip(w)
      PROVE  FillInv'
  BY <1>8 DEF Skip, GoTo, TypeInv, FillInv, Refused
<1>9. ASSUME NEW w \in Workers, Harvest(w)
      PROVE  FillInv'
  <2>1. ~ filling[w]
    BY <1>9 DEF Harvest, FillInv
  <2> QED
    BY <1>9, <2>1, HarvestList DEF Harvest, GoTo, FillInv, TypeInv
<1>10. ASSUME NEW w \in Workers, NextThrows(w)
       PROVE  FillInv'
  BY <1>10 DEF NextThrows, GoTo, TypeInv, FillInv, Refused
<1>11. ASSUME NEW w \in Workers, EndPass(w)
       PROVE  FillInv'
  BY <1>11 DEF EndPass, GoTo, TypeInv, FillInv, Refused
<1>12. ASSUME NEW w \in Workers, Leave(w)
       PROVE  FillInv'
  BY <1>12 DEF Leave, GoTo, TypeInv, FillInv, Refused
<1>13. ASSUME NEW w \in Workers, Answer(w)
       PROVE  FillInv'
  BY <1>13, AnswerList DEF Answer, FillInv
<1>14. ASSUME NEW w \in Workers, DriverThrows(w)
       PROVE  FillInv'
  BY <1>14 DEF DriverThrows, GoTo, TypeInv, FillInv, Refused
<1>15. CASE Finish
  BY <1>15 DEF Finish, TypeInv, FillInv, Refused
<1>16. CASE Expire
  BY <1>16 DEF Expire, TypeInv, FillInv, Refused
<1>17. CASE UNCHANGED vars
  BY <1>17 DEF TypeInv, FillInv, Refused
<1> QED
  BY <1>1, <1>2, <1>3, <1>4, <1>5, <1>6, <1>7, <1>8, <1>9, <1>10,
     <1>11, <1>12, <1>13, <1>14, <1>15, <1>16, <1>17 DEF Next, Step, Stopped


\* The flag tells whether somebody failed.
LEMMA FlagStep ==
  ASSUME TypeInv, FlagInv, [Next]_vars
  PROVE  FlagInv'
<1> USE DEF vars, env, fill, list, outcome, history
<1>1. ASSUME NEW w \in Workers, Fill(w)
      PROVE  FlagInv'
  BY <1>1 DEF Fill, GoTo, TypeInv, FlagInv, Refused, RequestBased
<1>2. ASSUME NEW w \in Workers, Ask(w)
      PROVE  FlagInv'
  BY <1>2 DEF Ask, GoTo, TypeInv, FlagInv, Refused, RequestBased
<1>3. ASSUME NEW w \in Workers, Claim(w)
      PROVE  FlagInv'
  BY <1>3 DEF Claim, GoTo, TypeInv, FlagInv, Refused, RequestBased
<1>4. ASSUME NEW w \in Workers, GiveBack(w)
      PROVE  FlagInv'
  BY <1>4 DEF GiveBack, GoTo, TypeInv, FlagInv, Refused, RequestBased
<1>5. ASSUME NEW w \in Workers, Submit(w)
      PROVE  FlagInv'
  BY <1>5 DEF Submit, GoTo, TypeInv, FlagInv, Refused, RequestBased
<1>6. ASSUME NEW w \in Workers, Await(w)
      PROVE  FlagInv'
  BY <1>6 DEF Await, GoTo, TypeInv, FlagInv, Refused, RequestBased
<1>7. ASSUME NEW w \in Workers, Wake(w)
      PROVE  FlagInv'
  BY <1>7 DEF Wake, GoTo, TypeInv, FlagInv, Refused, RequestBased
<1>8. ASSUME NEW w \in Workers, Skip(w)
      PROVE  FlagInv'
  BY <1>8 DEF Skip, GoTo, TypeInv, FlagInv, Refused, RequestBased
<1>9. ASSUME NEW w \in Workers, Harvest(w)
      PROVE  FlagInv'
  BY <1>9 DEF Harvest, GoTo, TypeInv, FlagInv, Refused, RequestBased
<1>10. ASSUME NEW w \in Workers, NextThrows(w)
       PROVE  FlagInv'
  BY <1>10 DEF NextThrows, GoTo, TypeInv, FlagInv, Refused, RequestBased
<1>11. ASSUME NEW w \in Workers, EndPass(w)
       PROVE  FlagInv'
  BY <1>11 DEF EndPass, GoTo, TypeInv, FlagInv, Refused, RequestBased
<1>12. ASSUME NEW w \in Workers, Leave(w)
       PROVE  FlagInv'
  BY <1>12 DEF Leave, GoTo, TypeInv, FlagInv, Refused, RequestBased
<1>13. ASSUME NEW w \in Workers, Answer(w)
       PROVE  FlagInv'
  BY <1>13 DEF Answer, GoTo, TypeInv, FlagInv, Refused, RequestBased
<1>14. ASSUME NEW w \in Workers, DriverThrows(w)
       PROVE  FlagInv'
  BY <1>14 DEF DriverThrows, GoTo, TypeInv, FlagInv, Refused, RequestBased
<1>15. CASE Finish
  BY <1>15 DEF Finish, TypeInv, FlagInv, Refused, RequestBased
<1>16. CASE Expire
  BY <1>16 DEF Expire, TypeInv, FlagInv, Refused, RequestBased
<1>17. CASE UNCHANGED vars
  BY <1>17 DEF TypeInv, FlagInv, Refused, RequestBased
<1> QED
  BY <1>1, <1>2, <1>3, <1>4, <1>5, <1>6, <1>7, <1>8, <1>9, <1>10,
     <1>11, <1>12, <1>13, <1>14, <1>15, <1>16, <1>17 DEF Next, Step, Stopped


\* The verdict waits for every worker.
LEMMA VerdictStep ==
  ASSUME TypeInv, VerdictInv, [Next]_vars
  PROVE  VerdictInv'
<1> USE DEF vars, env, fill, list, outcome, history
<1>1. ASSUME NEW w \in Workers, Fill(w)
      PROVE  VerdictInv'
  BY <1>1 DEF Fill, GoTo, TypeInv, VerdictInv, Ended, Refused
<1>2. ASSUME NEW w \in Workers, Ask(w)
      PROVE  VerdictInv'
  BY <1>2 DEF Ask, GoTo, TypeInv, VerdictInv, Ended, Refused
<1>3. ASSUME NEW w \in Workers, Claim(w)
      PROVE  VerdictInv'
  BY <1>3 DEF Claim, GoTo, TypeInv, VerdictInv, Ended, Refused
<1>4. ASSUME NEW w \in Workers, GiveBack(w)
      PROVE  VerdictInv'
  BY <1>4 DEF GiveBack, GoTo, TypeInv, VerdictInv, Ended, Refused
<1>5. ASSUME NEW w \in Workers, Submit(w)
      PROVE  VerdictInv'
  BY <1>5 DEF Submit, GoTo, TypeInv, VerdictInv, Ended, Refused
<1>6. ASSUME NEW w \in Workers, Await(w)
      PROVE  VerdictInv'
  BY <1>6 DEF Await, GoTo, TypeInv, VerdictInv, Ended, Refused
<1>7. ASSUME NEW w \in Workers, Wake(w)
      PROVE  VerdictInv'
  BY <1>7 DEF Wake, GoTo, TypeInv, VerdictInv, Ended, Refused
<1>8. ASSUME NEW w \in Workers, Skip(w)
      PROVE  VerdictInv'
  BY <1>8 DEF Skip, GoTo, TypeInv, VerdictInv, Ended, Refused
<1>9. ASSUME NEW w \in Workers, Harvest(w)
      PROVE  VerdictInv'
  BY <1>9 DEF Harvest, GoTo, TypeInv, VerdictInv, Ended, Refused
<1>10. ASSUME NEW w \in Workers, NextThrows(w)
       PROVE  VerdictInv'
  BY <1>10 DEF NextThrows, GoTo, TypeInv, VerdictInv, Ended, Refused
<1>11. ASSUME NEW w \in Workers, EndPass(w)
       PROVE  VerdictInv'
  BY <1>11 DEF EndPass, GoTo, TypeInv, VerdictInv, Ended, Refused
<1>12. ASSUME NEW w \in Workers, Leave(w)
       PROVE  VerdictInv'
  BY <1>12 DEF Leave, GoTo, TypeInv, VerdictInv, Ended, Refused
<1>13. ASSUME NEW w \in Workers, Answer(w)
       PROVE  VerdictInv'
  BY <1>13 DEF Answer, GoTo, TypeInv, VerdictInv, Ended, Refused
<1>14. ASSUME NEW w \in Workers, DriverThrows(w)
       PROVE  VerdictInv'
  BY <1>14 DEF DriverThrows, GoTo, TypeInv, VerdictInv, Ended, Refused
<1>15. CASE Finish
  BY <1>15 DEF Finish, TypeInv, VerdictInv, Ended, Refused
<1>16. CASE Expire
  BY <1>16 DEF Expire, TypeInv, VerdictInv, Ended, Refused
<1>17. CASE UNCHANGED vars
  BY <1>17 DEF TypeInv, VerdictInv, Ended, Refused
<1> QED
  BY <1>1, <1>2, <1>3, <1>4, <1>5, <1>6, <1>7, <1>8, <1>9, <1>10,
     <1>11, <1>12, <1>13, <1>14, <1>15, <1>16, <1>17 DEF Next, Step, Stopped

\* The counts after a step of a worker that goes from one place to another.
LEMMA Counts ==
  ASSUME TypeInv, NEW w \in Workers, NEW t, GoTo(w, t)
  PROVE  /\ Num("limit") \in Nat /\ Num("giveback") \in Nat
         /\ Num("limit")' = Num("limit") + (IF t = "limit" THEN 1 ELSE 0)
                                         - (IF pc[w] = "limit" THEN 1 ELSE 0)
         /\ Num("giveback")' =
              Num("giveback") + (IF t = "giveback" THEN 1 ELSE 0)
                              - (IF pc[w] = "giveback" THEN 1 ELSE 0)
         /\ pc[w] = "limit" => Num("limit") > 0
         /\ pc[w] = "giveback" => Num("giveback") > 0
<1>1. /\ Num("limit") \in Nat /\ Num("giveback") \in Nat
      /\ Num("limit") = 0 <=> At("limit") = {}
      /\ Num("giveback") = 0 <=> At("giveback") = {}
  BY NumFacts
<1>2. ASSUME NEW s
      PROVE  Num(s)' = Num(s) + (IF t = s THEN 1 ELSE 0)
                              - (IF pc[w] = s THEN 1 ELSE 0)
  <2>1. Num(s) \in Nat
    BY NumFacts
  <2>2. CASE s = t /\ s = pc[w]
    <3>1. At(s)' = At(s)
      BY <2>2 DEF GoTo, At, TypeInv
    <3> QED
      BY <2>1, <2>2, <3>1 DEF Num
  <2>3. CASE ~ (s = t /\ s = pc[w])
    BY <2>1, <2>3, NumMove
  <2> QED
    BY <2>2, <2>3
<1>3. /\ pc[w] = "limit" => At("limit") # {}
      /\ pc[w] = "giveback" => At("giveback") # {}
  BY DEF At
<1> QED
  BY <1>1, <1>2, <1>3

\* A worker that goes on without claiming, submitting or giving back leaves
\* the counts alone.
LEMMA CountsStay ==
  ASSUME TypeInv, ClaimInv, NEW w \in Workers, NEW t, GoTo(w, t),
         pc[w] \notin {"limit", "giveback"}, t \notin {"limit", "giveback"},
         target' = target, sent' = sent,
         running' => running,
         RequestBased => requestCount' = requestCount
  PROVE  ClaimInv' /\ Granted' = Granted
<1>1. Num("limit")' = Num("limit") /\ Num("giveback")' = Num("giveback")
  BY Counts
<1>2. Granted' = Granted
  BY <1>1 DEF Granted
<1> QED
  BY <1>1, <1>2 DEF ClaimInv, RequestBased

\* The counter keeps standing for the claims.
LEMMA ClaimStep ==
  ASSUME TypeInv, ClaimInv, [Next]_vars
  PROVE  ClaimInv'
<1> USE DEF vars, env, fill, list, outcome, history
<1>1. ASSUME NEW w \in Workers, Fill(w)
      PROVE  ClaimInv'
  <2>1. PICK t \in {"ask", "wait"} : GoTo(w, t)
    BY <1>1 DEF Fill
  <2> QED
    BY <1>1, <2>1, CountsStay DEF Fill
<1>2. ASSUME NEW w \in Workers, Ask(w)
      PROVE  ClaimInv'
  <2>1. CASE RequestBased
    <3>1. PICK t \in {"wait", "pass", "claim"} : GoTo(w, t)
      BY <1>2, <2>1 DEF Ask, Refused
    <3> QED
      BY <1>2, <3>1, CountsStay DEF Ask
  <2>2. CASE ~ RequestBased
    BY <1>2, <2>2 DEF Ask, ClaimInv, RequestBased
  <2> QED
    BY <2>1, <2>2
<1>3. ASSUME NEW w \in Workers, Claim(w)
      PROVE  ClaimInv'
  <2>1. CASE requestCount >= target
    <3>1. GoTo(w, "giveback")
      BY <1>3, <2>1 DEF Claim
    <3>2. /\ target' = target /\ sent' = sent /\ running' = running
          /\ requestCount' = requestCount + 1
          /\ pc[w] = "claim"
      BY <1>3 DEF Claim
    <3> HIDE DEF env, fill, list, outcome, history, vars
    <3>3. /\ Num("limit")' = Num("limit")
          /\ Num("giveback")' = Num("giveback") + 1
          /\ Num("limit") \in Nat /\ Num("giveback") \in Nat
      BY <3>1, <3>2, Counts
    <3> QED
      BY <2>1, <3>2, <3>3 DEF ClaimInv, Granted, RequestBased, TypeInv
  <2>2. CASE ~ requestCount >= target
    <3>1. GoTo(w, "limit")
      BY <1>3, <2>2 DEF Claim
    <3>2. /\ target' = target /\ sent' = sent /\ running' = running
          /\ requestCount' = requestCount + 1
          /\ pc[w] = "claim"
      BY <1>3 DEF Claim
    <3>3. /\ Num("limit")' = Num("limit") + 1
          /\ Num("giveback")' = Num("giveback")
          /\ Num("limit") \in Nat /\ Num("giveback") \in Nat
      BY <3>1, <3>2, Counts
    <3>4. Granted' = Granted + 1 /\ Granted \in Nat
      BY <3>2, <3>3 DEF Granted, TypeInv
    <3> QED
      BY <2>2, <3>2, <3>3, <3>4 DEF ClaimInv, RequestBased, TypeInv
  <2> QED
    BY <2>1, <2>2
<1>4. ASSUME NEW w \in Workers, GiveBack(w)
      PROVE  ClaimInv'
  <2>1. PICK t \in {"wait", "pass"} : GoTo(w, t)
    BY <1>4 DEF GiveBack, Refused
  <2>2. /\ target' = target /\ sent' = sent /\ running' = running
        /\ requestCount' = requestCount - 1
        /\ pc[w] = "giveback"
    BY <1>4 DEF GiveBack
  <2>3. /\ Num("limit")' = Num("limit")
        /\ Num("giveback")' = Num("giveback") - 1
        /\ Num("limit") \in Nat /\ Num("giveback") \in Nat
    BY <2>1, <2>2, Counts
  <2>4. Granted' = Granted /\ Granted \in Nat
    BY <2>2, <2>3 DEF Granted, TypeInv
  <2> SUFFICES ASSUME RequestBased'
               PROVE  /\ Granted' + Num("giveback")' <= requestCount'
                      /\ Granted' <= target'
                      /\ running' => Granted' + Num("giveback")' = requestCount'
                      /\ (running' /\ Num("giveback")' > 0) => Granted' = target'
    BY DEF ClaimInv
  <2>5. requestCount \in Int /\ RequestBased
    BY <2>2 DEF RequestBased, TypeInv
  <2>6. Granted' + Num("giveback")' <= requestCount' /\ Granted' <= target'
    BY <2>2, <2>3, <2>4, <2>5 DEF ClaimInv
  <2>7. CASE running
    BY <2>2, <2>3, <2>4, <2>5, <2>6, <2>7 DEF ClaimInv
  <2>8. CASE ~ running
    BY <2>2, <2>6, <2>8
  <2> QED
    BY <2>7, <2>8
<1>5. ASSUME NEW w \in Workers, Submit(w)
      PROVE  ClaimInv'
  <2>1. PICK t \in {"fill", "pass"} : GoTo(w, t)
    BY <1>5 DEF Submit
  <2>2. /\ target' = target /\ requestCount' = requestCount /\ running' = running
        /\ sent' = sent + 1
        /\ pc[w] = "limit"
    BY <1>5 DEF Submit
  <2>3. /\ Num("limit")' = Num("limit") - 1
        /\ Num("giveback")' = Num("giveback")
        /\ Num("limit") \in Nat /\ Num("giveback") \in Nat
    BY <2>1, <2>2, Counts
  <2>4. Granted' = Granted /\ Granted \in Nat
    BY <2>2, <2>3 DEF Granted, TypeInv
  <2> QED
    BY <2>2, <2>3, <2>4 DEF ClaimInv, RequestBased, TypeInv
<1>6. ASSUME NEW w \in Workers, Await(w)
      PROVE  ClaimInv'
  BY <1>6, CountsStay DEF Await
<1>7. ASSUME NEW w \in Workers, Wake(w)
      PROVE  ClaimInv'
  BY <1>7, CountsStay DEF Wake
<1>8. ASSUME NEW w \in Workers, Skip(w)
      PROVE  ClaimInv'
  BY <1>8, NumStays DEF Skip, ClaimInv, Granted, RequestBased
<1>9. ASSUME NEW w \in Workers, Harvest(w)
      PROVE  ClaimInv'
  <2>1. PICK t \in {"ask", "pass"} : GoTo(w, t)
    BY <1>9 DEF Harvest
  <2> QED
    BY <1>9, <2>1, CountsStay DEF Harvest
<1>10. ASSUME NEW w \in Workers, NextThrows(w)
       PROVE  ClaimInv'
  BY <1>10, CountsStay DEF NextThrows
<1>11. ASSUME NEW w \in Workers, EndPass(w)
       PROVE  ClaimInv'
  BY <1>11, CountsStay DEF EndPass
<1>12. ASSUME NEW w \in Workers, Leave(w)
       PROVE  ClaimInv'
  BY <1>12, CountsStay DEF Leave
<1>13. ASSUME NEW w \in Workers, Answer(w)
       PROVE  ClaimInv'
  BY <1>13, NumStays DEF Answer, ClaimInv, Granted, RequestBased
<1>14. ASSUME NEW w \in Workers, DriverThrows(w)
       PROVE  ClaimInv'
  <2>1. /\ target' = target /\ requestCount' = requestCount /\ sent' = sent /\ running' = FALSE
        /\ pc[w] = "limit" /\ GoTo(w, "failed")
    BY <1>14 DEF DriverThrows
  <2>2. /\ Num("limit")' = Num("limit") - 1
        /\ Num("giveback")' = Num("giveback")
        /\ Num("limit") \in Nat /\ Num("giveback") \in Nat
    BY <2>1, Counts
  <2> QED
    BY <2>1, <2>2 DEF ClaimInv, Granted, RequestBased, TypeInv
<1>15. CASE Finish
  BY <1>15, NumStays DEF Finish, ClaimInv, Granted, RequestBased
<1>16. CASE Expire
  BY <1>16, NumStays DEF Expire, ClaimInv, Granted, RequestBased
<1>17. CASE UNCHANGED vars
  BY <1>17, NumStays DEF ClaimInv, Granted, RequestBased
<1> QED
  BY <1>1, <1>2, <1>3, <1>4, <1>5, <1>6, <1>7, <1>8, <1>9, <1>10,
     <1>11, <1>12, <1>13, <1>14, <1>15, <1>16, <1>17 DEF Next, Step, Stopped

\* The budget, once granted in full, stays so while nobody fails.
LEMMA FullStays ==
  ASSUME TypeInv, ClaimInv, RequestBased, running', Granted = target, [Next]_vars
  PROVE  Granted' = target
<1> USE DEF vars, env, fill, list, outcome, history
<1>1. ASSUME NEW w \in Workers, Fill(w)
      PROVE  Granted' = target
  <2>1. PICK t \in {"ask", "wait"} : GoTo(w, t)
    BY <1>1 DEF Fill
  <2> QED
    BY <1>1, <2>1, CountsStay DEF Fill
<1>2. ASSUME NEW w \in Workers, Ask(w)
      PROVE  Granted' = target
  <2>1. PICK t \in {"wait", "pass", "claim"} : GoTo(w, t)
    BY <1>2 DEF Ask, Refused
  <2> QED
    BY <1>2, <2>1, CountsStay DEF Ask
<1>3. ASSUME NEW w \in Workers, Claim(w)
      PROVE  Granted' = target
  <2>1. GoTo(w, "giveback") /\ pc[w] = "claim" /\ sent' = sent
    <3>1. requestCount >= target
      <4>1. requestCount \in Int /\ Num("giveback") \in Nat /\ running
        BY <1>3, NumFacts DEF Claim, TypeInv
      <4> QED
        BY <4>1 DEF ClaimInv, TypeInv
    <3> QED
      BY <1>3, <3>1 DEF Claim
  <2>2. Num("limit")' = Num("limit")
    BY <2>1, Counts
  <2> QED
    BY <2>1, <2>2 DEF Granted
<1>4. ASSUME NEW w \in Workers, GiveBack(w)
      PROVE  Granted' = target
  <2>1. PICK t \in {"wait", "pass"} : GoTo(w, t)
    BY <1>4 DEF GiveBack, Refused
  <2>2. sent' = sent /\ pc[w] = "giveback"
    BY <1>4 DEF GiveBack
  <2>3. Num("limit")' = Num("limit")
    BY <2>1, <2>2, Counts
  <2> QED
    BY <2>2, <2>3 DEF Granted
<1>5. ASSUME NEW w \in Workers, Submit(w)
      PROVE  Granted' = target
  <2>1. PICK t \in {"fill", "pass"} : GoTo(w, t)
    BY <1>5 DEF Submit
  <2>2. sent' = sent + 1 /\ pc[w] = "limit"
    BY <1>5 DEF Submit
  <2>3. Num("limit")' = Num("limit") - 1 /\ Num("limit") \in Nat
    BY <2>1, <2>2, Counts
  <2> QED
    BY <2>2, <2>3 DEF Granted, TypeInv
<1>6. ASSUME NEW w \in Workers, Await(w)
      PROVE  Granted' = target
  BY <1>6, CountsStay DEF Await
<1>7. ASSUME NEW w \in Workers, Wake(w)
      PROVE  Granted' = target
  BY <1>7, CountsStay DEF Wake
<1>8. ASSUME NEW w \in Workers, Skip(w)
      PROVE  Granted' = target
  BY <1>8, NumStays DEF Skip, Granted
<1>9. ASSUME NEW w \in Workers, Harvest(w)
      PROVE  Granted' = target
  <2>1. PICK t \in {"ask", "pass"} : GoTo(w, t)
    BY <1>9 DEF Harvest
  <2> QED
    BY <1>9, <2>1, CountsStay DEF Harvest
<1>10. ASSUME NEW w \in Workers, NextThrows(w)
       PROVE  Granted' = target
  BY <1>10, CountsStay DEF NextThrows
<1>11. ASSUME NEW w \in Workers, EndPass(w)
       PROVE  Granted' = target
  BY <1>11, CountsStay DEF EndPass
<1>12. ASSUME NEW w \in Workers, Leave(w)
       PROVE  Granted' = target
  BY <1>12, CountsStay DEF Leave
<1>13. ASSUME NEW w \in Workers, Answer(w)
       PROVE  Granted' = target
  BY <1>13, NumStays DEF Answer, Granted
<1>14. ASSUME NEW w \in Workers, DriverThrows(w)
       PROVE  Granted' = target
  BY <1>14 DEF DriverThrows
<1>15. CASE Finish
  BY <1>15, NumStays DEF Finish, Granted
<1>16. CASE Expire
  BY <1>16, NumStays DEF Expire, Granted
<1>17. CASE UNCHANGED vars
  BY <1>17, NumStays DEF Granted
<1> QED
  BY <1>1, <1>2, <1>3, <1>4, <1>5, <1>6, <1>7, <1>8, <1>9, <1>10,
     <1>11, <1>12, <1>13, <1>14, <1>15, <1>16, <1>17 DEF Next, Step, Stopped


\* Who finds its list empty was refused.
LEMMA RefusedStep ==
  ASSUME TypeInv, CursorInv, FillInv, FlagInv, ClaimInv, RefusedInv, [Next]_vars
  PROVE  RefusedInv'
<1> USE DEF vars, env, fill, list, outcome, history
<1> DEFINE RefusedPlaces == {"wait", "join", "pass", "done"}
<1> SUFFICES ASSUME RequestBased', running', NEW v \in Workers,
                    pc'[v] \in RefusedPlaces, pending'[v] = <<>>
             PROVE  Granted' = target'
  BY DEF RefusedInv
<1>t. target' = target
  BY DEF Next, Step, Stopped, Fill, Ask, Claim, GiveBack, Submit, Await, Wake,
     Skip, Harvest, NextThrows, EndPass, Leave, Answer, DriverThrows, Finish,
     Expire
<1>r. RequestBased /\ running
  BY <1>t DEF RequestBased, Next, Step, Stopped, Fill, Ask, Claim, GiveBack,
     Submit, Await, Wake, Skip, Harvest, NextThrows, EndPass, Leave, Answer,
     DriverThrows, Finish, Expire
<1>s. (pc[v] \in RefusedPlaces /\ pending[v] = <<>>) => Granted = target
  BY <1>r DEF RefusedInv
<1>1. ASSUME NEW w \in Workers, Fill(w)
      PROVE  Granted = target
  <2>1. CASE v = w
    <3>1. GoTo(w, "wait") /\ pc[w] = "fill" /\ ~ filled[w] < Depth
      BY <1>1, <2>1, <1>r DEF Fill, GoTo, TypeInv
    <3>2. Len(pending[w]) = filled[w] /\ filled[w] \in Nat
      BY <3>1 DEF FillInv, TypeInv
    <3>3. pending[w] = <<>>
      BY <1>1, <2>1 DEF Fill
    <3> QED
      BY <3>1, <3>2, <3>3, DepthAssumption, EmptyList
  <2>2. CASE v # w
    BY <1>1, <2>2, <1>r, <1>s DEF Fill, GoTo, TypeInv
  <2> QED
    BY <2>1, <2>2
<1>2. ASSUME NEW w \in Workers, Ask(w)
      PROVE  Granted = target
  <2>1. GoTo(w, "claim")
    BY <1>2, <1>r DEF Ask, FlagInv
  <2> QED
    BY <1>2, <2>1, <1>s DEF Ask, GoTo, TypeInv
<1>3. ASSUME NEW w \in Workers, Claim(w)
      PROVE  Granted = target
  <2>1. PICK t \in {"giveback", "limit"} : GoTo(w, t)
    BY <1>3 DEF Claim
  <2> QED
    BY <1>3, <2>1, <1>s DEF Claim, GoTo, TypeInv
<1>4. ASSUME NEW w \in Workers, GiveBack(w)
      PROVE  Granted = target
  <2>1. CASE v = w
    <3>1. pc[w] = "giveback"
      BY <1>4 DEF GiveBack
    <3>2. w \in At("giveback")
      BY <3>1 DEF At
    <3>3. Num("giveback") > 0
      BY <3>2, NumFacts
    <3> QED
      BY <3>3, <1>r DEF ClaimInv
  <2>2. CASE v # w
    BY <1>4, <2>2, <1>s DEF GiveBack, GoTo, TypeInv
  <2> QED
    BY <2>1, <2>2
<1>5. ASSUME NEW w \in Workers, Submit(w)
      PROVE  Granted = target
  <2>1. CASE v = w
    <3>1. Len(pending'[w]) = Len(pending[w]) + 1 /\ Len(pending[w]) \in Nat
      BY <1>5, SubmitList, EmptyList
    <3>2. Len(pending'[w]) = 0
      BY <2>1
    <3> QED
      BY <3>1, <3>2
  <2>2. CASE v # w
    BY <1>5, <2>2, <1>s DEF Submit, GoTo, TypeInv
  <2> QED
    BY <2>1, <2>2
<1>6. ASSUME NEW w \in Workers, Await(w)
      PROVE  Granted = target
  BY <1>6, <1>s DEF Await, GoTo, TypeInv
<1>7. ASSUME NEW w \in Workers, Wake(w)
      PROVE  Granted = target
  BY <1>7, <1>s DEF Wake, GoTo, TypeInv
<1>8. ASSUME NEW w \in Workers, Skip(w)
      PROVE  Granted = target
  BY <1>8, <1>s DEF Skip
<1>9. ASSUME NEW w \in Workers, Harvest(w)
      PROVE  Granted = target
  <2>1. GoTo(w, "ask")
    BY <1>9, <1>r DEF Harvest
  <2> QED
    BY <1>9, <2>1, <1>s, HarvestList DEF Harvest, GoTo, TypeInv
<1>10. ASSUME NEW w \in Workers, NextThrows(w)
       PROVE  Granted = target
  BY <1>10 DEF NextThrows
<1>11. ASSUME NEW w \in Workers, EndPass(w)
       PROVE  Granted = target
  BY <1>11, <1>s DEF EndPass, GoTo, TypeInv
<1>12. ASSUME NEW w \in Workers, Leave(w)
       PROVE  Granted = target
  BY <1>12, <1>s DEF Leave, GoTo, TypeInv
<1>13. ASSUME NEW w \in Workers, Answer(w)
       PROVE  Granted = target
  BY <1>13, <1>s, AnswerList DEF Answer
<1>14. ASSUME NEW w \in Workers, DriverThrows(w)
       PROVE  Granted = target
  BY <1>14 DEF DriverThrows
<1>15. ASSUME Finish
       PROVE  Granted = target
  BY <1>15, <1>s DEF Finish
<1>16. ASSUME Expire
       PROVE  Granted = target
  BY <1>16, <1>s DEF Expire
<1>17. ASSUME UNCHANGED vars
       PROVE  Granted = target
  BY <1>17, <1>s
<1>q. Granted = target
  BY <1>1, <1>2, <1>3, <1>4, <1>5, <1>6, <1>7, <1>8, <1>9, <1>10,
     <1>11, <1>12, <1>13, <1>14, <1>15, <1>16, <1>17 DEF Next, Step, Stopped
<1> QED
  BY <1>q, <1>r, <1>t, FullStays

\* Who leaves while nobody failed leaves an empty list.
LEMMA LeftStep ==
  ASSUME TypeInv, CursorInv, LeftInv, [Next]_vars
  PROVE  LeftInv'
<1> USE DEF vars, env, fill, list, outcome, history
<1>1. ASSUME NEW w \in Workers, Fill(w)
      PROVE  LeftInv'
  BY <1>1 DEF Fill, GoTo, TypeInv, LeftInv, Refused
<1>2. ASSUME NEW w \in Workers, Ask(w)
      PROVE  LeftInv'
  BY <1>2 DEF Ask, GoTo, TypeInv, LeftInv, Refused
<1>3. ASSUME NEW w \in Workers, Claim(w)
      PROVE  LeftInv'
  BY <1>3 DEF Claim, GoTo, TypeInv, LeftInv, Refused
<1>4. ASSUME NEW w \in Workers, GiveBack(w)
      PROVE  LeftInv'
  BY <1>4 DEF GiveBack, GoTo, TypeInv, LeftInv, Refused
<1>5. ASSUME NEW w \in Workers, Submit(w)
      PROVE  LeftInv'
  BY <1>5, SubmitList DEF Submit, GoTo, LeftInv, TypeInv
<1>6. ASSUME NEW w \in Workers, Await(w)
      PROVE  LeftInv'
  BY <1>6 DEF Await, GoTo, TypeInv, LeftInv, Refused
<1>7. ASSUME NEW w \in Workers, Wake(w)
      PROVE  LeftInv'
  BY <1>7 DEF Wake, GoTo, TypeInv, LeftInv, Refused
<1>8. ASSUME NEW w \in Workers, Skip(w)
      PROVE  LeftInv'
  BY <1>8 DEF Skip, GoTo, TypeInv, LeftInv, Refused
<1>9. ASSUME NEW w \in Workers, Harvest(w)
      PROVE  LeftInv'
  BY <1>9, HarvestList DEF Harvest, GoTo, LeftInv, TypeInv
<1>10. ASSUME NEW w \in Workers, NextThrows(w)
       PROVE  LeftInv'
  BY <1>10 DEF NextThrows, GoTo, TypeInv, LeftInv, Refused
<1>11. ASSUME NEW w \in Workers, EndPass(w)
       PROVE  LeftInv'
  BY <1>11 DEF EndPass, GoTo, TypeInv, LeftInv, Refused
<1>12. ASSUME NEW w \in Workers, Leave(w)
       PROVE  LeftInv'
  BY <1>12 DEF Leave, GoTo, TypeInv, LeftInv, Refused
<1>13. ASSUME NEW w \in Workers, Answer(w)
       PROVE  LeftInv'
  BY <1>13, AnswerList DEF Answer, LeftInv
<1>14. ASSUME NEW w \in Workers, DriverThrows(w)
       PROVE  LeftInv'
  BY <1>14 DEF DriverThrows, GoTo, TypeInv, LeftInv, Refused
<1>15. CASE Finish
  BY <1>15 DEF Finish, TypeInv, LeftInv, Refused
<1>16. CASE Expire
  BY <1>16 DEF Expire, TypeInv, LeftInv, Refused
<1>17. CASE UNCHANGED vars
  BY <1>17 DEF TypeInv, LeftInv, Refused
<1> QED
  BY <1>1, <1>2, <1>3, <1>4, <1>5, <1>6, <1>7, <1>8, <1>9, <1>10,
     <1>11, <1>12, <1>13, <1>14, <1>15, <1>16, <1>17 DEF Next, Step, Stopped

\* Every request sent stays recorded or in a list.
LEMMA FuturesStep ==
  ASSUME TypeInv, CursorInv, FuturesInv, [Next]_vars
  PROVE  FuturesInv'
<1> USE DEF vars, env, fill, list, outcome, history
<1>1. ASSUME NEW w \in Workers, Fill(w)
      PROVE  FuturesInv'
  BY <1>1 DEF Fill, FuturesInv, NoResultTwice, Futures
<1>2. ASSUME NEW w \in Workers, Ask(w)
      PROVE  FuturesInv'
  BY <1>2 DEF Ask, FuturesInv, NoResultTwice, Futures
<1>3. ASSUME NEW w \in Workers, Claim(w)
      PROVE  FuturesInv'
  BY <1>3 DEF Claim, FuturesInv, NoResultTwice, Futures
<1>4. ASSUME NEW w \in Workers, GiveBack(w)
      PROVE  FuturesInv'
  BY <1>4 DEF GiveBack, FuturesInv, NoResultTwice, Futures
<1>5. ASSUME NEW w \in Workers, Submit(w)
      PROVE  FuturesInv'
  <2> DEFINE x == <<w, Len(pending'[w])>>
  <2>1. /\ pending' \in [Workers -> Seq({"flying", "ready"})]
        /\ Len(pending'[w]) = Len(pending[w]) + 1 /\ Len(pending[w]) \in Nat
        /\ \A v \in Workers \ {w} : pending'[v] = pending[v]
    BY <1>5, SubmitList, EmptyList
  <2>2. Futures' = Futures \cup {x} /\ x \notin Futures
    <3>1. x \notin Futures
      BY <2>1, FutureIsPosition
    <3>2. x \in Futures'
      BY <2>1, FutureIsPositionNext
    <3>3. ASSUME NEW y \in Futures PROVE y \in Futures'
      <4>1. PICK v \in Workers : \E i \in 1..Len(pending[v]) : y = <<v, i>>
        BY FutureIsPosition
      <4>2. PICK i \in 1..Len(pending[v]) : y = <<v, i>>
        BY <4>1
      <4>3. i \in 1..Len(pending'[v])
        BY <2>1
      <4> QED
        BY <2>1, <4>2, <4>3, FutureIsPositionNext
    <3>4. ASSUME NEW y \in Futures' PROVE y \in Futures \cup {x}
      <4>1. PICK v \in Workers : \E i \in 1..Len(pending'[v]) : y = <<v, i>>
        BY <2>1, FutureIsPositionNext
      <4>2. PICK i \in 1..Len(pending'[v]) : y = <<v, i>>
        BY <4>1
      <4>3. y = x \/ i \in 1..Len(pending[v])
        BY <2>1, <4>2
      <4> QED
        BY <4>2, <4>3, FutureIsPosition
    <3> QED
      BY <3>1, <3>2, <3>3, <3>4
  <2>3. /\ IsFiniteSet(Futures')
        /\ Cardinality(Futures') = Cardinality(Futures) + 1
        /\ Cardinality(Futures) \in Nat
    BY <2>2, FS_AddElement, FS_CardinalityType DEF FuturesInv
  <2>4. sent' = sent + 1 /\ totalRequests' = totalRequests
    BY <1>5 DEF Submit
  <2> QED
    BY <2>3, <2>4 DEF FuturesInv, NoResultTwice, TypeInv
<1>6. ASSUME NEW w \in Workers, Await(w)
      PROVE  FuturesInv'
  BY <1>6 DEF Await, FuturesInv, NoResultTwice, Futures
<1>7. ASSUME NEW w \in Workers, Wake(w)
      PROVE  FuturesInv'
  BY <1>7 DEF Wake, FuturesInv, NoResultTwice, Futures
<1>8. ASSUME NEW w \in Workers, Skip(w)
      PROVE  FuturesInv'
  BY <1>8 DEF Skip, FuturesInv, NoResultTwice, Futures
<1>9. ASSUME NEW w \in Workers, Harvest(w)
      PROVE  FuturesInv'
  <2> DEFINE x == <<w, Len(pending[w])>>
  <2>1. /\ pending' \in [Workers -> Seq({"flying", "ready"})]
        /\ Len(pending'[w]) = Len(pending[w]) - 1
        /\ Len(pending[w]) \in Nat /\ cursor[w] \in 1..Len(pending[w])
        /\ \A v \in Workers \ {w} : pending'[v] = pending[v]
    BY <1>9, HarvestList, EmptyList
  <2>2. Futures' = Futures \ {x} /\ x \in Futures
    <3>1. x \in Futures
      BY <2>1, FutureIsPosition
    <3>2. x \notin Futures'
      BY <2>1, FutureIsPositionNext
    <3>3. ASSUME NEW y \in Futures \ {x} PROVE y \in Futures'
      <4>1. PICK v \in Workers : \E i \in 1..Len(pending[v]) : y = <<v, i>>
        BY FutureIsPosition
      <4>2. PICK i \in 1..Len(pending[v]) : y = <<v, i>>
        BY <4>1
      <4>3. i \in 1..Len(pending'[v])
        BY <2>1, <4>2
      <4> QED
        BY <2>1, <4>2, <4>3, FutureIsPositionNext
    <3>4. ASSUME NEW y \in Futures' PROVE y \in Futures
      <4>1. PICK v \in Workers : \E i \in 1..Len(pending'[v]) : y = <<v, i>>
        BY <2>1, FutureIsPositionNext
      <4>2. PICK i \in 1..Len(pending'[v]) : y = <<v, i>>
        BY <4>1
      <4>3. i \in 1..Len(pending[v])
        BY <2>1
      <4> QED
        BY <4>2, <4>3, FutureIsPosition
    <3> QED
      BY <3>1, <3>2, <3>3, <3>4
  <2>3. /\ IsFiniteSet(Futures')
        /\ Cardinality(Futures') = Cardinality(Futures) - 1
        /\ Cardinality(Futures) \in Nat
    BY <2>2, FS_RemoveElement, FS_CardinalityType DEF FuturesInv
  <2> QED
    BY <1>9, <2>3 DEF Harvest, FuturesInv, NoResultTwice, TypeInv
<1>10. ASSUME NEW w \in Workers, NextThrows(w)
       PROVE  FuturesInv'
  BY <1>10 DEF NextThrows, FuturesInv, NoResultTwice, Futures
<1>11. ASSUME NEW w \in Workers, EndPass(w)
       PROVE  FuturesInv'
  BY <1>11 DEF EndPass, FuturesInv, NoResultTwice, Futures
<1>12. ASSUME NEW w \in Workers, Leave(w)
       PROVE  FuturesInv'
  BY <1>12 DEF Leave, FuturesInv, NoResultTwice, Futures
<1>13. ASSUME NEW w \in Workers, Answer(w)
       PROVE  FuturesInv'
  <2>1. Futures' = Futures
    BY <1>13, AnswerList, FutureIsPosition, FutureIsPositionNext
  <2> QED
    BY <1>13, <2>1 DEF Answer, FuturesInv, NoResultTwice
<1>14. ASSUME NEW w \in Workers, DriverThrows(w)
       PROVE  FuturesInv'
  BY <1>14 DEF DriverThrows, FuturesInv, NoResultTwice, Futures
<1>15. CASE Finish
  BY <1>15 DEF Finish, FuturesInv, NoResultTwice, Futures
<1>16. CASE Expire
  BY <1>16 DEF Expire, FuturesInv, NoResultTwice, Futures
<1>17. CASE UNCHANGED vars
  BY <1>17 DEF FuturesInv, NoResultTwice, Futures
<1> QED
  BY <1>1, <1>2, <1>3, <1>4, <1>5, <1>6, <1>7, <1>8, <1>9, <1>10,
     <1>11, <1>12, <1>13, <1>14, <1>15, <1>16, <1>17 DEF Next, Step, Stopped


\* Every step preserves the invariant.
LEMMA NextIInv == IInv /\ [Next]_vars => IInv'
BY TypeStep, CursorStep, FillStep, FlagStep, ClaimStep, RefusedStep, LeftStep,
   VerdictStep, FuturesStep DEF IInv

\* The inductive invariant holds in every reachable state of the pipelined
\* request loop.
THEOREM Invariance == Spec => []IInv
BY InitIInv, NextIInv, PTL DEF Spec

\* No result is recorded twice or lost, however the answers interleave with
\* the walks over the lists (runPipelinedLoop).
THEOREM NothingTwice == Spec => []NoResultTwice
BY Invariance, PTL DEF IInv, FuturesInv

-----------------------------------------------------------------------------
(* The pipelined loop implements the abstract request budget. *)

\* Every step is one of the abstract budget, or none.
LEMMA BudgetStep ==
  ASSUME IInv, [Next]_vars
  PROVE  [Budget!Next]_(Budget!vars)
<1> USE DEF vars, env, fill, list, outcome, history,
    Budget!vars, IInv
<1>1. ASSUME NEW w \in Workers, Fill(w)
      PROVE  [Budget!Next]_(Budget!vars)
  BY <1>1 DEF Fill
<1>2. ASSUME NEW w \in Workers, Ask(w)
      PROVE  [Budget!Next]_(Budget!vars)
  BY <1>2 DEF Ask
<1>3. ASSUME NEW w \in Workers, Claim(w)
      PROVE  [Budget!Next]_(Budget!vars)
  BY <1>3 DEF Claim
<1>4. ASSUME NEW w \in Workers, GiveBack(w)
      PROVE  [Budget!Next]_(Budget!vars)
  BY <1>4 DEF GiveBack
<1>5. ASSUME NEW w \in Workers, Submit(w)
      PROVE  [Budget!Next]_(Budget!vars)
  <2>1. pc[w] = "limit" /\ sent' = sent + 1
        /\ UNCHANGED <<target, totalRequests, status>>
    BY <1>5 DEF Submit
  <2>2. status = "none"
    BY <2>1 DEF VerdictInv, Ended
  <2>3. w \in At("limit")
    BY <2>1 DEF At
  <2>4. Num("limit") \in Nat /\ Num("limit") > 0
    BY <2>3, NumFacts
  <2>5. target = 0 \/ sent < target
    BY <2>4 DEF ClaimInv, Granted, RequestBased, TypeInv
  <2> QED
    BY <2>1, <2>2, <2>5 DEF Budget!Next, Budget!Issue
<1>6. ASSUME NEW w \in Workers, Await(w)
      PROVE  [Budget!Next]_(Budget!vars)
  BY <1>6 DEF Await
<1>7. ASSUME NEW w \in Workers, Wake(w)
      PROVE  [Budget!Next]_(Budget!vars)
  BY <1>7 DEF Wake
<1>8. ASSUME NEW w \in Workers, Skip(w)
      PROVE  [Budget!Next]_(Budget!vars)
  BY <1>8 DEF Skip
<1>9. ASSUME NEW w \in Workers, Harvest(w)
      PROVE  [Budget!Next]_(Budget!vars)
  <2>1. pc[w] = "pass" /\ totalRequests' = totalRequests + 1
        /\ UNCHANGED <<target, sent, status>>
    BY <1>9 DEF Harvest
  <2>2. status = "none"
    BY <2>1 DEF VerdictInv, Ended
  <2>3. <<w, cursor[w]>> \in Futures
    BY <1>9, HarvestList, FutureIsPosition
  <2>4. Cardinality(Futures) \in Nat /\ Cardinality(Futures) # 0
    BY <2>3, FS_CardinalityType, FS_EmptySet DEF FuturesInv
  <2>5. totalRequests < sent
    BY <2>4 DEF FuturesInv, NoResultTwice, TypeInv
  <2> QED
    BY <2>1, <2>2, <2>5 DEF Budget!Next, Budget!Record
<1>10. ASSUME NEW w \in Workers, NextThrows(w)
       PROVE  [Budget!Next]_(Budget!vars)
  BY <1>10 DEF NextThrows
<1>11. ASSUME NEW w \in Workers, EndPass(w)
       PROVE  [Budget!Next]_(Budget!vars)
  BY <1>11 DEF EndPass
<1>12. ASSUME NEW w \in Workers, Leave(w)
       PROVE  [Budget!Next]_(Budget!vars)
  BY <1>12 DEF Leave
<1>13. ASSUME NEW w \in Workers, Answer(w)
       PROVE  [Budget!Next]_(Budget!vars)
  BY <1>13 DEF Answer
<1>14. ASSUME NEW w \in Workers, DriverThrows(w)
       PROVE  [Budget!Next]_(Budget!vars)
  BY <1>14 DEF DriverThrows
<1>15. CASE Finish
  <2>1. /\ status = "none" /\ UNCHANGED <<target, sent, totalRequests>>
        /\ \A w \in Workers : pc[w] \in Ended
    BY <1>15 DEF Finish
  <2>2. CASE \E w \in Workers : pc[w] = "failed"
    BY <1>15, <2>1, <2>2 DEF Finish, Budget!Next, Budget!Abort
  <2>3. CASE ~ \E w \in Workers : pc[w] = "failed"
    <3>1. running /\ \A w \in Workers : pc[w] = "done"
      BY <2>1, <2>3 DEF FlagInv, Ended
    <3>2. \A w \in Workers : pending[w] = <<>>
      BY <3>1 DEF LeftInv
    <3>3. Futures = {}
      BY <3>2 DEF Futures
    <3>4. totalRequests = sent
      BY <3>3, FS_EmptySet DEF FuturesInv, NoResultTwice, TypeInv
    <3>5. target # 0 => sent = target
      <4>1. At("limit") = {}
        BY <3>1 DEF At
      <4>2. Num("limit") = 0
        BY <4>1, NumFacts
      <4>3. PICK w \in Workers : TRUE
        BY WorkersAssumption
      <4>4. target # 0 => Granted = target
        BY <3>1, <3>2, <4>3 DEF RefusedInv, RequestBased, TypeInv
      <4> QED
        BY <4>2, <4>4 DEF Granted, TypeInv
    <3>6. status' = "COMPLETED"
      BY <1>15, <2>3 DEF Finish
    <3> QED
      BY <2>1, <3>4, <3>5, <3>6 DEF Budget!Next, Budget!Complete
  <2> QED
    BY <2>2, <2>3
<1>16. CASE Expire
  BY <1>16 DEF Expire
<1>17. CASE UNCHANGED vars
  BY <1>17
<1> QED
  BY <1>1, <1>2, <1>3, <1>4, <1>5, <1>6, <1>7, <1>8, <1>9, <1>10,
     <1>11, <1>12, <1>13, <1>14, <1>15, <1>16, <1>17 DEF Next, Step, Stopped


\* The pipelined request loop implements the abstract request budget.
THEOREM ImplementsBudget == Spec => BudgetSpec
<1>1. Init => Budget!Init
  BY TargetsAssumption DEF Init, Budget!Init
<1> QED
  BY <1>1, BudgetStep, Invariance, PTL DEF Spec, BudgetSpec, Budget!Spec
=============================================================================
