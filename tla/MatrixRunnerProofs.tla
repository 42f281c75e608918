------------------------- MODULE MatrixRunnerProofs -------------------------
(***************************************************************************)
(* Proofs about MatrixRunner for every number of invocations, run ids and  *)
(* cells, in every mode, wherever an invocation is interrupted, killed or  *)
(* ended by a traceback: the safety properties its run checks.             *)
(*                                                                         *)
(* An orphan is an engine whose orchestrator is gone.  What another        *)
(* invocation finds in a run directory it did not resume is its own or of  *)
(* an orphan, and what a cell finds beyond its offset as well: the two     *)
(* facts from which honesty and the separation of the runs follow.         *)
(***************************************************************************)
EXTENDS MatrixRunner, TLAPS

-----------------------------------------------------------------------------
(* The inductive invariant. *)

Engines == RunIds \X Nat \X Nat

Statuses == {"ok", "failed"}

Manifests ==
  [final : BOOLEAN, inv : Nat, cells : Seq(Statuses), truth : Seq(BOOLEAN)]

TypeInv ==
  /\ serverCells \subseteq 1..Cells
  /\ step \in {"idle", "preflight", "cell", "flush", "launch", "engine"}
  /\ inv \in Nat /\ run \in RunIds /\ cell \in Nat \ {0}
  /\ cells \in Seq(Statuses) /\ truth \in Seq(BOOLEAN)
  /\ engine \in {"none", "running", "exit0", "exit1"}
  /\ exit \in {0, 1, 2, Killed}
  /\ offset \subseteq Engines
  /\ records \in [RunIds -> SUBSET Engines]
  /\ manifest \in [RunIds -> Manifests]
  /\ latest \in RunIds \cup {"none", "foreign"}
  /\ dirty \in BOOLEAN
  /\ strays \subseteq Engines /\ orphaned \subseteq Engines
  /\ cut \subseteq Engines
  /\ resumed \subseteq Nat /\ aborted \in BOOLEAN

\* An engine process exists while the invocation waits for one, and the list
\* of outcomes is as long as the sweep has come.
StepInv ==
  /\ (engine # "none") <=> (step = "engine")
  /\ step # "idle" =>
       /\ inv > 0
       /\ Len(cells) = cell - 1 /\ Len(truth) = cell - 1
       /\ cell <= Cells + 1
  /\ step = "preflight" => cells = <<>>
  /\ step \in {"flush", "launch", "engine"} => cell <= Cells

\* A record lies in the run directory of its engine, and comes from an
\* invocation there has been; only engines without orchestrator are strays,
\* and those of the current invocation are not before it has ended.
AuthorInv ==
  /\ strays \subseteq orphaned
  /\ \A r \in RunIds : \A e \in records[r] : e[1] = r /\ e[2] <= inv
  /\ \A e \in orphaned : e[2] <= inv
  /\ step # "idle" => \A e \in orphaned : e[2] < inv
  /\ step = "preflight" => \A e \in records[run] : e[2] # inv

\* What an invocation that was not told to resume finds in its directory is
\* of its own engines or of orphans; that stays so for the engines it leaves.
FreshInv ==
  /\ (step # "idle" /\ inv \notin resumed) =>
       \A e \in records[run] : e[2] = inv \/ e \in orphaned
  /\ \A s \in orphaned : \A e \in records[s[1]] :
       e[2] < s[2] => s[2] \in resumed \/ e \in orphaned

\* Records beyond the offset are the cell's own or of orphans.
OffsetInv ==
  step \in {"flush", "launch", "engine"} =>
    \A e \in records[run] \ offset : e = Me \/ e \in orphaned

\* The outcomes the invocation has appended so far are as honest as the
\* manifest it will write.
OutcomeInv ==
  step # "idle" =>
    \A i \in DOMAIN cells :
      cells[i] = "ok" => truth[i] \/ \E e \in orphaned : e[1] = run

\* An invocation refused by the preflight left no engine.
RefusedInv ==
  (step = "idle" /\ inv > 0 /\ exit = 2) => \A e \in orphaned : e[2] # inv

\* A manifest is of an invocation there has been, and before the current one
\* has ended it has not written its last.
WrittenInv ==
  /\ \A r \in RunIds : manifest[r].inv <= inv
  /\ step # "idle" => ~ (manifest[run].final /\ manifest[run].inv = inv)

IInv ==
  /\ TypeInv /\ StepInv /\ AuthorInv /\ FreshInv /\ OffsetInv /\ OutcomeInv
  /\ RefusedInv /\ WrittenInv
  /\ NoSilentMerge /\ ManifestHonest /\ ExitTruth /\ CleanKeyspace

-----------------------------------------------------------------------------
(* Every reachable state satisfies the invariant. *)

\* The initial states satisfy the invariant.
LEMMA InitIInv == Init => IInv
<1> SUFFICES ASSUME Init PROVE IInv
  OBVIOUS
<1> USE CellsAssumption DEF Init
<1>1. TypeInv
  <2>1. /\ serverCells \subseteq 1..Cells
        /\ inv \in Nat /\ run \in RunIds /\ cell \in Nat \ {0}
        /\ step \in {"idle", "preflight", "cell", "flush", "launch", "engine"}
        /\ engine \in {"none", "running", "exit0", "exit1"}
        /\ exit \in {0, 1, 2, Killed}
    OBVIOUS
  <2>2. cells \in Seq(Statuses) /\ truth \in Seq(BOOLEAN)
    OBVIOUS
  <2>3. records \in [RunIds -> SUBSET Engines]
    OBVIOUS
  <2>4. NoManifest \in Manifests
    BY DEF NoManifest, Manifests
  <2>5. manifest \in [RunIds -> Manifests]
    BY <2>4
  <2>6. dirty \in BOOLEAN
    OBVIOUS
  <2> QED
    BY <2>1, <2>2, <2>3, <2>5, <2>6 DEF TypeInv
<1>2. StepInv /\ AuthorInv /\ FreshInv /\ OffsetInv /\ OutcomeInv /\ RefusedInv
  BY DEF StepInv, AuthorInv, FreshInv, OffsetInv, OutcomeInv, RefusedInv
<1>3. NoSilentMerge /\ ExitTruth /\ CleanKeyspace
  BY DEF NoSilentMerge, ExitTruth, CleanKeyspace
<1>4. ManifestHonest
  <2>1. \A r \in RunIds : manifest[r].cells = <<>>
    BY DEF NoManifest
  <2> QED
    BY <2>1 DEF ManifestHonest
<1>5. WrittenInv
  BY DEF WrittenInv, NoManifest
<1> QED
  BY <1>1, <1>2, <1>3, <1>4, <1>5 DEF IInv

\* A final manifest of well-typed outcomes is a manifest.
LEMMA FinalManifestType ==
  ASSUME TypeInv, NEW cs \in Seq(Statuses), NEW ts \in Seq(BOOLEAN),
         FinalManifest(cs, ts)
  PROVE  /\ manifest' \in [RunIds -> Manifests]
         /\ manifest'[run] =
              [final |-> TRUE, inv |-> inv, cells |-> cs, truth |-> ts]
         /\ \A r \in RunIds \ {run} : manifest'[r] = manifest[r]
<1>1. [final |-> TRUE, inv |-> inv, cells |-> cs, truth |-> ts] \in Manifests
  BY DEF TypeInv, Manifests
<1> QED
  BY <1>1 DEF TypeInv, FinalManifest

\* A manifest without outcomes is a manifest.
LEMMA UnfinishedType ==
  ASSUME TypeInv
  PROVE  NoManifest \in Manifests /\ Unfinished \in Manifests
<1>1. inv \in Nat
  BY DEF TypeInv
<1>2. NoManifest \in Manifests
  BY DEF NoManifest, Manifests
<1> QED
  BY <1>1, <1>2 DEF Manifests, Unfinished

\* What an invocation leaves that ends through the outer finally block.
LEMMA ConcludeType ==
  ASSUME TypeInv, NEW cs \in Seq(Statuses), NEW ts \in Seq(BOOLEAN),
         NEW status \in {0, 1, 2, Killed}, NEW raised \in BOOLEAN,
         Conclude(cs, ts, status, raised)
  PROVE  /\ cells' = cs /\ truth' = ts /\ step' = "idle"
         /\ exit' \in {0, 1, 2, Killed} /\ aborted' \in BOOLEAN
         /\ manifest' \in [RunIds -> Manifests]
         /\ \A r \in RunIds \ {run} : manifest'[r] = manifest[r]
         /\ \/ /\ manifest'[run] = [final |-> TRUE, inv |-> inv,
                                   cells |-> cs, truth |-> ts]
               /\ exit' = status /\ aborted' = raised
            \/ /\ manifest'[run] \in {manifest[run], Unfinished}
               /\ exit' = 1 /\ aborted' = TRUE
<1>1. cells' = cs /\ truth' = ts /\ step' = "idle"
  BY DEF Conclude
<1>2. CASE FinalManifest(cs, ts) /\ exit' = status /\ aborted' = raised
  <2>1. exit' \in {0, 1, 2, Killed} /\ aborted' \in BOOLEAN
    BY <1>2
  <2> QED
    BY <1>1, <1>2, <2>1, FinalManifestType
<1>3. CASE ManifestWriteFails /\ exit' = 1 /\ aborted' = TRUE
  <2>1. run \in RunIds /\ manifest \in [RunIds -> Manifests]
    BY DEF TypeInv
  <2>2. CASE UNCHANGED manifest
    BY <1>1, <1>3, <2>1, <2>2
  <2>3. CASE manifest' = [manifest EXCEPT ![run] = Unfinished]
    BY <1>1, <1>3, <2>1, <2>3, UnfinishedType
  <2> QED
    BY <1>3, <2>2, <2>3 DEF ManifestWriteFails
<1> QED
  BY <1>2, <1>3 DEF Conclude

\* The engine of the current cell is an engine.
LEMMA MeType ==
  ASSUME TypeInv
  PROVE  Me \in Engines /\ Me[1] = run /\ Me[2] = inv /\ Me[3] = cell
BY DEF TypeInv, Me, Engines

\* Every step preserves the types.
LEMMA TypeStep ==
  ASSUME TypeInv, [Next]_vars
  PROVE  TypeInv'
<1> USE DEF vars, invocation, disk, progress, history
<1> USE MeType
<1>1. ASSUME NEW r \in RunIds, NEW mode \in Modes, Start(r, mode)
      PROVE  TypeInv'
  <2>1. /\ cells' \in Seq(Statuses) /\ truth' \in Seq(BOOLEAN)
        /\ inv' \in Nat /\ run' \in RunIds /\ cell' \in Nat \ {0}
        /\ offset' \subseteq Engines /\ resumed' \subseteq Nat
    BY <1>1 DEF Start, Begin, TypeInv
  <2>2. /\ step' \in {"idle", "preflight"}
        /\ exit' \in {0, 1, 2, Killed}
    BY <1>1 DEF Start, Begin, TypeInv
  <2>3. NoManifest \in Manifests
    BY DEF NoManifest, Manifests
  <2>4. /\ records' \in [RunIds -> SUBSET Engines]
        /\ manifest' \in [RunIds -> Manifests]
    BY <1>1, <2>3 DEF Start, Begin, TypeInv
  <2> QED
    BY <1>1, <2>1, <2>2, <2>4 DEF Start, Begin, TypeInv
<1>2. CASE PreflightFails
  BY <1>2 DEF PreflightFails, TypeInv
<1>3. CASE Publish
  BY <1>3, UnfinishedType DEF Publish, update_latest_link, TypeInv
<1>4. CASE BeginCell
  BY <1>4 DEF BeginCell, TypeInv
<1>5. CASE Flush
  <2>1. dirty' \in BOOLEAN /\ step' = "launch"
    BY <1>5 DEF Flush, TypeInv
  <2>2. UNCHANGED <<serverCells, inv, run, cell, cells, truth, offset, engine, exit, records,
                    manifest, latest, strays, orphaned, cut, resumed, aborted>>
    BY <1>5 DEF Flush
  <2> QED
    BY <2>1, <2>2 DEF TypeInv
<1>6. CASE CellFails
  BY <1>6 DEF CellFails, Append_, TypeInv, Statuses
<1>7. CASE Launch
  <2>1. dirty' \in BOOLEAN
    BY <1>7 DEF Launch
  <2> QED
    BY <1>7, <2>1 DEF Launch, TypeInv
<1>8. CASE Judge
  <2>1. /\ cells' \in Seq(Statuses) /\ cell' \in Nat \ {0}
        /\ step' = "cell" /\ engine' = "none"
    BY <1>8 DEF Judge, Append_, TypeInv, Statuses
  <2>2. (engine = "exit0" /\ Me \in records[run]) \in BOOLEAN
    OBVIOUS
  <2>3. truth' = Append(truth, (engine = "exit0" /\ Me \in records[run]))
    BY <1>8 DEF Judge, Append_
  <2>4. truth' \in Seq(BOOLEAN)
    BY <2>2, <2>3 DEF TypeInv
  <2> QED
    BY <1>8, <2>1, <2>4 DEF Judge, TypeInv
<1>9. CASE Finish
  <2> DEFINE status == IF Contains(cells, "failed") THEN 1 ELSE 0
  <2>1. /\ Conclude(cells, truth, status, FALSE)
        /\ UNCHANGED <<serverCells, inv, run, cell, offset, engine, records,
                       latest, dirty, strays, orphaned, resumed, cut>>
    BY <1>9 DEF Finish
  <2>2. status \in {0, 1, 2, Killed}
    OBVIOUS
  <2> HIDE DEF status
  <2>3. cells \in Seq(Statuses) /\ truth \in Seq(BOOLEAN)
    BY DEF TypeInv
  <2>4. /\ cells' \in Seq(Statuses) /\ truth' \in Seq(BOOLEAN)
        /\ step' = "idle" /\ exit' \in {0, 1, 2, Killed}
        /\ aborted' \in BOOLEAN /\ manifest' \in [RunIds -> Manifests]
    BY <2>1, <2>2, <2>3, ConcludeType
  <2> QED
    BY <2>1, <2>4 DEF TypeInv
<1>10. CASE EngineWrites
  BY <1>10 DEF EngineWrites, TypeInv
<1>11. CASE EngineExits
  BY <1>11 DEF EngineExits, TypeInv
<1>12. CASE Interrupt
  <2> DEFINE guarded == step \in {"flush", "launch", "engine"}
             good == engine = "exit0" /\ Me \in records[run]
             cs == IF guarded THEN Append(cells, "ok") ELSE cells
             ts == IF guarded THEN Append(truth, good) ELSE truth
  <2>1. cs \in Seq(Statuses) /\ ts \in Seq(BOOLEAN)
    <3>1. cells \in Seq(Statuses) /\ truth \in Seq(BOOLEAN) /\ good \in BOOLEAN
      BY DEF TypeInv
    <3>2. Append(cells, "ok") \in Seq(Statuses)
      BY <3>1 DEF Statuses
    <3> HIDE DEF good
    <3>3. Append(truth, good) \in Seq(BOOLEAN)
      BY <3>1
    <3> QED
      BY <3>1, <3>2, <3>3
  <2>2. /\ step = "preflight" =>
              /\ step' = "idle" /\ exit' = Killed
              /\ UNCHANGED <<cells, truth, manifest, aborted>>
        /\ step # "preflight" => Conclude(cs, ts, Killed, FALSE)
    BY <1>12 DEF Interrupt
  <2> HIDE DEF cs, ts
  <2>3. /\ cells' \in Seq(Statuses) /\ truth' \in Seq(BOOLEAN)
        /\ step' = "idle" /\ exit' \in {0, 1, 2, Killed}
        /\ aborted' \in BOOLEAN /\ manifest' \in [RunIds -> Manifests]
    <3>1. CASE step = "preflight"
      BY <2>2, <3>1 DEF TypeInv
    <3>2. CASE step # "preflight"
      BY <2>1, <2>2, <3>2, ConcludeType
    <3> QED
      BY <3>1, <3>2
  <2>4. cut' \subseteq Engines
    BY <1>12 DEF Interrupt, TypeInv
  <2>5. /\ strays' \subseteq Engines /\ orphaned' \subseteq Engines
        /\ engine' = "none"
    BY <1>12 DEF Interrupt, Orphan, TypeInv
  <2>6. UNCHANGED <<serverCells, inv, run, cell, offset, records, latest, dirty,
                    resumed>>
    BY <1>12 DEF Interrupt
  <2> QED
    BY <2>3, <2>4, <2>5, <2>6 DEF TypeInv
<1>13. CASE Crash
  BY <1>13 DEF Crash, Orphan, TypeInv
<1>14. CASE ConfigRaises
  <2>1. /\ Conclude(cells, truth, 1, TRUE)
        /\ UNCHANGED <<serverCells, inv, run, cell, offset, engine, records,
                       latest, dirty, strays, orphaned, resumed, cut>>
    BY <1>14 DEF ConfigRaises, Abort
  <2>2. cells \in Seq(Statuses) /\ truth \in Seq(BOOLEAN)
    BY DEF TypeInv
  <2>3. /\ cells' \in Seq(Statuses) /\ truth' \in Seq(BOOLEAN)
        /\ step' = "idle" /\ exit' \in {0, 1, 2, Killed}
        /\ aborted' \in BOOLEAN /\ manifest' \in [RunIds -> Manifests]
    BY <2>1, <2>2, ConcludeType
  <2> QED
    BY <2>1, <2>3 DEF TypeInv
<1>15. CASE MonitorRaises
  <2>1. /\ Conclude(Append(cells, "ok"), Append(truth, FALSE), 1, TRUE)
        /\ UNCHANGED <<serverCells, inv, run, cell, offset, engine, records,
                       latest, resumed>>
    BY <1>15 DEF MonitorRaises, Abort
  <2>2. Append(cells, "ok") \in Seq(Statuses)
    BY DEF TypeInv, Statuses
  <2>3. Append(truth, FALSE) \in Seq(BOOLEAN)
    BY DEF TypeInv
  <2>4. /\ cells' \in Seq(Statuses) /\ truth' \in Seq(BOOLEAN)
        /\ step' = "idle" /\ exit' \in {0, 1, 2, Killed}
        /\ aborted' \in BOOLEAN /\ manifest' \in [RunIds -> Manifests]
    BY <2>1, <2>2, <2>3, ConcludeType
  <2>5. dirty' \in BOOLEAN
    BY <1>15 DEF MonitorRaises
  <2>6. /\ strays' \subseteq Engines /\ orphaned' \subseteq Engines
        /\ cut' \subseteq Engines
    BY <1>15 DEF MonitorRaises, TypeInv
  <2> QED
    BY <2>1, <2>4, <2>5, <2>6 DEF TypeInv
<1>16. ASSUME NEW e \in strays, StrayWrites(e)
       PROVE  TypeInv'
  <2>1. dirty' \in BOOLEAN
    BY <1>16 DEF StrayWrites
  <2>2. e[1] \in RunIds /\ e \in Engines
    BY DEF TypeInv, Engines
  <2> QED
    BY <1>16, <2>1, <2>2 DEF StrayWrites, TypeInv
<1>17. ASSUME NEW e \in strays, StrayEnds(e)
       PROVE  TypeInv'
  BY <1>17 DEF StrayEnds, TypeInv
<1>18. CASE UNCHANGED vars
  BY <1>18 DEF TypeInv
<1>19. ASSUME NEW r \in RunIds, NEW mode \in Modes, StartRaises(r, mode)
       PROVE  TypeInv'
  <2>1. /\ cells' \in Seq(Statuses) /\ truth' \in Seq(BOOLEAN)
        /\ inv' \in Nat /\ run' \in RunIds /\ cell' \in Nat \ {0}
        /\ offset' \subseteq Engines /\ resumed' \subseteq Nat
    BY <1>19 DEF StartRaises, Begin, TypeInv
  <2>2. step' = "idle" /\ exit' = 1 /\ aborted' = TRUE
    BY <1>19 DEF StartRaises
  <2>3. records' \in [RunIds -> SUBSET Engines]
    BY <1>19 DEF StartRaises, TypeInv
  <2>4. UNCHANGED <<serverCells, engine, manifest, latest, dirty, strays,
                    orphaned, cut>>
    BY <1>19 DEF StartRaises
  <2> QED
    BY <2>1, <2>2, <2>3, <2>4 DEF TypeInv
<1>20. CASE PublishRaises
  <2>1. /\ step' = "idle" /\ exit' = 1 /\ aborted' = TRUE
        /\ latest' \in RunIds \cup {"none", "foreign"}
        /\ UNCHANGED <<serverCells, inv, run, cell, cells, truth, offset, engine,
                       records, dirty, strays, orphaned, resumed, cut>>
    BY <1>20 DEF PublishRaises, update_latest_link, TypeInv
  <2>2. manifest' \in [RunIds -> Manifests]
    BY <1>20, UnfinishedType DEF PublishRaises, ManifestWriteFails, TypeInv
  <2> QED
    BY <2>1, <2>2 DEF TypeInv
<1> QED
  BY <1>1, <1>2, <1>3, <1>4, <1>5, <1>6, <1>7, <1>8, <1>9, <1>10, <1>11,
     <1>12, <1>13, <1>14, <1>15, <1>16, <1>17, <1>18,
     <1>19, <1>20 DEF Next, Sweep

\* Every step keeps the engine, the cell and the outcomes in step.
LEMMA StepStep ==
  ASSUME TypeInv, StepInv, [Next]_vars
  PROVE  StepInv'
<1> USE DEF vars, invocation, disk, progress, history
<1> USE CellsAssumption
<1>1. ASSUME NEW r \in RunIds, NEW mode \in Modes, Start(r, mode)
      PROVE  StepInv'
  BY <1>1 DEF Start, Begin, TypeInv, StepInv, Statuses
<1>2. CASE PreflightFails
  BY <1>2 DEF PreflightFails, TypeInv, StepInv, Statuses
<1>3. CASE Publish
  BY <1>3 DEF Publish, TypeInv, StepInv, Statuses
<1>4. CASE BeginCell
  BY <1>4 DEF BeginCell, TypeInv, StepInv, Statuses
<1>5. CASE Flush
  BY <1>5 DEF Flush, TypeInv, StepInv, Statuses
<1>6. CASE CellFails
  BY <1>6 DEF CellFails, Append_, TypeInv, StepInv, Statuses
<1>7. CASE Launch
  BY <1>7 DEF Launch, TypeInv, StepInv, Statuses
<1>8. CASE Judge
  BY <1>8 DEF Judge, Append_, TypeInv, StepInv, Statuses
<1>9. CASE Finish
  BY <1>9 DEF Finish, Conclude, TypeInv, StepInv, Statuses
<1>10. CASE EngineWrites
  BY <1>10 DEF EngineWrites, TypeInv, StepInv, Statuses
<1>11. CASE EngineExits
  BY <1>11 DEF EngineExits, TypeInv, StepInv, Statuses
<1>12. CASE Interrupt
  BY <1>12 DEF Interrupt, Orphan, Conclude, TypeInv, StepInv, Statuses
<1>13. CASE Crash
  BY <1>13 DEF Crash, Orphan, TypeInv, StepInv, Statuses
<1>14. CASE ConfigRaises
  BY <1>14 DEF ConfigRaises, Abort, Conclude, TypeInv, StepInv, Statuses
<1>15. CASE MonitorRaises
  BY <1>15 DEF MonitorRaises, Abort, Conclude, TypeInv, StepInv, Statuses
<1>16. ASSUME NEW e \in strays, StrayWrites(e)
       PROVE  StepInv'
  BY <1>16 DEF StrayWrites, TypeInv, StepInv, Statuses
<1>17. ASSUME NEW e \in strays, StrayEnds(e)
       PROVE  StepInv'
  BY <1>17 DEF StrayEnds, TypeInv, StepInv, Statuses
<1>18. CASE UNCHANGED vars
  BY <1>18 DEF TypeInv, StepInv, Statuses
<1>19. ASSUME NEW r \in RunIds, NEW mode \in Modes, StartRaises(r, mode)
       PROVE  StepInv'
  BY <1>19 DEF StartRaises, Begin, TypeInv, StepInv, Statuses
<1>20. CASE PublishRaises
  BY <1>20 DEF PublishRaises, TypeInv, StepInv, Statuses
<1> QED
  BY <1>1, <1>2, <1>3, <1>4, <1>5, <1>6, <1>7, <1>8, <1>9, <1>10,
     <1>11, <1>12, <1>13, <1>14, <1>15, <1>16, <1>17, <1>18,
     <1>19, <1>20 DEF Next, Sweep


\* Every step keeps records and orphans with the invocations they are of.
LEMMA AuthorStep ==
  ASSUME TypeInv, StepInv, AuthorInv, [Next]_vars
  PROVE  AuthorInv'
<1> USE DEF vars, invocation, disk, progress, history
<1> USE MeType
<1>1. ASSUME NEW r \in RunIds, NEW mode \in Modes, Start(r, mode)
      PROVE  AuthorInv'
  <2>1. inv' = inv + 1 /\ inv \in Nat
    BY <1>1 DEF Start, Begin, TypeInv
  <2>2. \A q \in RunIds : records'[q] \subseteq records[q]
    BY <1>1 DEF Start, Begin, TypeInv
  <2>3. \A q \in RunIds : \A e \in records[q] : e[2] \in Nat /\ e[2] <= inv
    BY DEF TypeInv, AuthorInv, Engines
  <2>4. \A e \in orphaned : e[2] \in Nat /\ e[2] <= inv
    BY DEF TypeInv, AuthorInv, Engines
  <2>5. \A q \in RunIds : \A e \in records'[q] : e[1] = q /\ e[2] < inv'
    BY <2>1, <2>2, <2>3 DEF AuthorInv
  <2>6. \A e \in orphaned' : e[2] < inv'
    BY <1>1, <2>1, <2>4 DEF Start, Begin
  <2>7. strays' \subseteq orphaned' /\ run' \in RunIds
    BY <1>1 DEF Start, Begin, AuthorInv
  <2>8. /\ \A q \in RunIds : \A e \in records'[q] : e[1] = q /\ e[2] <= inv'
        /\ \A e \in records'[run'] : e[2] # inv'
    BY <2>1, <2>2, <2>3, <2>5, <2>7
  <2>9. \A e \in orphaned' : e[2] <= inv'
    BY <1>1, <2>1, <2>4 DEF Start, Begin
  <2> QED
    BY <2>6, <2>7, <2>8, <2>9 DEF AuthorInv
<1>2. CASE PreflightFails
  BY <1>2 DEF PreflightFails, TypeInv, StepInv, AuthorInv
<1>3. CASE Publish
  BY <1>3 DEF Publish, TypeInv, StepInv, AuthorInv
<1>4. CASE BeginCell
  BY <1>4 DEF BeginCell, TypeInv, StepInv, AuthorInv
<1>5. CASE Flush
  BY <1>5 DEF Flush, TypeInv, StepInv, AuthorInv
<1>6. CASE CellFails
  BY <1>6 DEF CellFails, Append_, TypeInv, StepInv, AuthorInv
<1>7. CASE Launch
  BY <1>7 DEF Launch, TypeInv, StepInv, AuthorInv
<1>8. CASE Judge
  BY <1>8 DEF Judge, Append_, TypeInv, StepInv, AuthorInv
<1>9. CASE Finish
  BY <1>9 DEF Finish, Conclude, TypeInv, StepInv, AuthorInv
<1>10. CASE EngineWrites
  BY <1>10 DEF EngineWrites, TypeInv, StepInv, AuthorInv
<1>11. CASE EngineExits
  BY <1>11 DEF EngineExits, TypeInv, StepInv, AuthorInv
<1>12. CASE Interrupt
  BY <1>12 DEF Interrupt, Orphan, Conclude, TypeInv, StepInv, AuthorInv
<1>13. CASE Crash
  BY <1>13 DEF Crash, Orphan, TypeInv, StepInv, AuthorInv
<1>14. CASE ConfigRaises
  BY <1>14 DEF ConfigRaises, Abort, Conclude, TypeInv, StepInv, AuthorInv
<1>15. CASE MonitorRaises
  BY <1>15 DEF MonitorRaises, Abort, Conclude, TypeInv, StepInv, AuthorInv
<1>16. ASSUME NEW e \in strays, StrayWrites(e)
       PROVE  AuthorInv'
  BY <1>16 DEF StrayWrites, TypeInv, StepInv, AuthorInv
<1>17. ASSUME NEW e \in strays, StrayEnds(e)
       PROVE  AuthorInv'
  BY <1>17 DEF StrayEnds, TypeInv, StepInv, AuthorInv
<1>18. CASE UNCHANGED vars
  BY <1>18 DEF TypeInv, StepInv, AuthorInv
<1>19. ASSUME NEW r \in RunIds, NEW mode \in Modes, StartRaises(r, mode)
       PROVE  AuthorInv'
  <2>1. inv' = inv + 1 /\ inv \in Nat /\ step' = "idle"
        /\ UNCHANGED <<strays, orphaned>>
    BY <1>19 DEF StartRaises, Begin, TypeInv
  <2>2. \A q \in RunIds : records'[q] \subseteq records[q]
    BY <1>19 DEF StartRaises, TypeInv
  <2>3. \A q \in RunIds : \A e \in records'[q] : e[1] = q /\ e[2] <= inv'
    BY <2>1, <2>2 DEF TypeInv, AuthorInv, Engines
  <2>4. \A e \in orphaned' : e[2] <= inv'
    BY <2>1 DEF TypeInv, AuthorInv, Engines
  <2> QED
    BY <2>1, <2>3, <2>4 DEF AuthorInv
<1>20. CASE PublishRaises
  BY <1>20 DEF PublishRaises, TypeInv, StepInv, AuthorInv
<1> QED
  BY <1>1, <1>2, <1>3, <1>4, <1>5, <1>6, <1>7, <1>8, <1>9, <1>10,
     <1>11, <1>12, <1>13, <1>14, <1>15, <1>16, <1>17, <1>18,
     <1>19, <1>20 DEF Next, Sweep


\* A cell's new records are its own or of orphans.
LEMMA OffsetStep ==
  ASSUME TypeInv, StepInv, AuthorInv, OffsetInv, [Next]_vars
  PROVE  OffsetInv'
<1> USE DEF vars, invocation, disk, progress, history
<1> USE MeType
<1>1. ASSUME NEW r \in RunIds, NEW mode \in Modes, Start(r, mode)
      PROVE  OffsetInv'
  BY <1>1 DEF Start, Begin, TypeInv, StepInv, AuthorInv, OffsetInv, Me
<1>2. CASE PreflightFails
  BY <1>2 DEF PreflightFails, TypeInv, StepInv, AuthorInv, OffsetInv, Me
<1>3. CASE Publish
  BY <1>3 DEF Publish, TypeInv, StepInv, AuthorInv, OffsetInv, Me
<1>4. CASE BeginCell
  BY <1>4 DEF BeginCell, TypeInv, StepInv, AuthorInv, OffsetInv, Me
<1>5. CASE Flush
  BY <1>5 DEF Flush, TypeInv, StepInv, AuthorInv, OffsetInv, Me
<1>6. CASE CellFails
  BY <1>6 DEF CellFails, Append_, TypeInv, StepInv, AuthorInv, OffsetInv, Me
<1>7. CASE Launch
  BY <1>7 DEF Launch, TypeInv, StepInv, AuthorInv, OffsetInv, Me
<1>8. CASE Judge
  BY <1>8 DEF Judge, Append_, TypeInv, StepInv, AuthorInv, OffsetInv, Me
<1>9. CASE Finish
  BY <1>9 DEF Finish, Conclude, TypeInv, StepInv, AuthorInv, OffsetInv, Me
<1>10. CASE EngineWrites
  BY <1>10 DEF EngineWrites, TypeInv, StepInv, AuthorInv, OffsetInv, Me
<1>11. CASE EngineExits
  BY <1>11 DEF EngineExits, TypeInv, StepInv, AuthorInv, OffsetInv, Me
<1>12. CASE Interrupt
  BY <1>12 DEF Interrupt, Orphan, Conclude, TypeInv, StepInv, AuthorInv, OffsetInv, Me
<1>13. CASE Crash
  BY <1>13 DEF Crash, Orphan, TypeInv, StepInv, AuthorInv, OffsetInv, Me
<1>14. CASE ConfigRaises
  BY <1>14 DEF ConfigRaises, Abort, Conclude, TypeInv, StepInv, AuthorInv, OffsetInv, Me
<1>15. CASE MonitorRaises
  BY <1>15 DEF MonitorRaises, Abort, Conclude, TypeInv, StepInv, AuthorInv, OffsetInv, Me
<1>16. ASSUME NEW e \in strays, StrayWrites(e)
       PROVE  OffsetInv'
  BY <1>16 DEF StrayWrites, TypeInv, StepInv, AuthorInv, OffsetInv, Me
<1>17. ASSUME NEW e \in strays, StrayEnds(e)
       PROVE  OffsetInv'
  BY <1>17 DEF StrayEnds, TypeInv, StepInv, AuthorInv, OffsetInv, Me
<1>18. CASE UNCHANGED vars
  BY <1>18 DEF TypeInv, StepInv, AuthorInv, OffsetInv, Me
<1>19. ASSUME NEW r \in RunIds, NEW mode \in Modes, StartRaises(r, mode)
       PROVE  OffsetInv'
  BY <1>19 DEF StartRaises, Begin, TypeInv, StepInv, AuthorInv, OffsetInv, Me
<1>20. CASE PublishRaises
  BY <1>20 DEF PublishRaises, TypeInv, StepInv, AuthorInv, OffsetInv, Me
<1> QED
  BY <1>1, <1>2, <1>3, <1>4, <1>5, <1>6, <1>7, <1>8, <1>9, <1>10,
     <1>11, <1>12, <1>13, <1>14, <1>15, <1>16, <1>17, <1>18,
     <1>19, <1>20 DEF Next, Sweep


\* Every step keeps the directories of live engines fresh.
LEMMA FreshStep ==
  ASSUME TypeInv, StepInv, AuthorInv, FreshInv, [Next]_vars
  PROVE  FreshInv'
<1> USE DEF vars, invocation, disk, progress, history
<1> USE MeType
<1>1. ASSUME NEW r \in RunIds, NEW mode \in Modes, Start(r, mode)
      PROVE  FreshInv'
  <2>1. inv' = inv + 1 /\ inv \in Nat /\ run' = r /\ orphaned' = orphaned
    BY <1>1 DEF Start, Begin, TypeInv
  <2>2. \A q \in RunIds : records'[q] \subseteq records[q]
    BY <1>1 DEF Start, Begin, TypeInv
  <2>3. (step' # "idle" /\ inv' \notin resumed') => records'[r] = {}
    <3>1. CASE mode = "resume"
      BY <1>1, <3>1 DEF Start, Begin
    <3>2. CASE mode # "resume" /\ ~ Populated(r)
      BY <1>1, <3>2 DEF Start, Begin, Populated
    <3>3. CASE mode = "overwrite" /\ Populated(r)
      BY <1>1, <3>3 DEF Start, Begin, TypeInv
    <3>4. CASE mode = "new" /\ Populated(r)
      BY <1>1, <3>4 DEF Start, Begin
    <3> QED
      BY <3>1, <3>2, <3>3, <3>4, ModesAssumption
  <2>4. \A s \in orphaned : s[1] \in RunIds
    BY DEF TypeInv, Engines
  <2>5. resumed \subseteq resumed'
    BY <1>1 DEF Start, Begin
  <2>6. \A s \in orphaned' : \A e \in records'[s[1]] :
          e[2] < s[2] => s[2] \in resumed' \/ e \in orphaned'
    BY <2>1, <2>2, <2>4, <2>5 DEF FreshInv
  <2> QED
    BY <2>1, <2>3, <2>6 DEF FreshInv
<1>2. CASE PreflightFails
  BY <1>2 DEF PreflightFails, TypeInv, StepInv, AuthorInv, FreshInv
<1>3. CASE Publish
  BY <1>3 DEF Publish, TypeInv, StepInv, AuthorInv, FreshInv
<1>4. CASE BeginCell
  BY <1>4 DEF BeginCell, TypeInv, StepInv, AuthorInv, FreshInv
<1>5. CASE Flush
  BY <1>5 DEF Flush, TypeInv, StepInv, AuthorInv, FreshInv
<1>6. CASE CellFails
  BY <1>6 DEF CellFails, Append_, TypeInv, StepInv, AuthorInv, FreshInv
<1>7. CASE Launch
  BY <1>7 DEF Launch, TypeInv, StepInv, AuthorInv, FreshInv
<1>8. CASE Judge
  BY <1>8 DEF Judge, Append_, TypeInv, StepInv, AuthorInv, FreshInv
<1>9. CASE Finish
  BY <1>9 DEF Finish, Conclude, TypeInv, StepInv, AuthorInv, FreshInv
<1>10. CASE EngineWrites
  <2>1. /\ records' = [records EXCEPT ![run] = @ \cup {Me}]
        /\ UNCHANGED <<step, inv, run, orphaned, resumed>>
    BY <1>10 DEF EngineWrites
  <2>2. \A q \in RunIds : records'[q] \subseteq records[q] \cup {Me}
    BY <2>1 DEF TypeInv
  <2>3. \A s \in orphaned : s[1] \in RunIds /\ s[2] \in Nat /\ s[2] <= inv
    BY DEF TypeInv, Engines, AuthorInv
  <2>4. \A s \in orphaned : ~ Me[2] < s[2]
    BY <2>3 DEF TypeInv
  <2>5. \A s \in orphaned' : \A e \in records'[s[1]] :
          e[2] < s[2] => s[2] \in resumed' \/ e \in orphaned'
    BY <2>1, <2>2, <2>3, <2>4 DEF FreshInv
  <2>6. run \in RunIds
    BY DEF TypeInv
  <2>7. (step' # "idle" /\ inv' \notin resumed') =>
          \A e \in records'[run'] : e[2] = inv' \/ e \in orphaned'
    BY <2>1, <2>2, <2>6 DEF FreshInv
  <2> QED
    BY <2>5, <2>7 DEF FreshInv
<1>11. CASE EngineExits
  BY <1>11 DEF EngineExits, TypeInv, StepInv, AuthorInv, FreshInv
<1>12. CASE Interrupt
  BY <1>12 DEF Interrupt, Orphan, Conclude, TypeInv, StepInv, AuthorInv, FreshInv
<1>13. CASE Crash
  BY <1>13 DEF Crash, Orphan, TypeInv, StepInv, AuthorInv, FreshInv
<1>14. CASE ConfigRaises
  BY <1>14 DEF ConfigRaises, Abort, Conclude, TypeInv, StepInv, AuthorInv, FreshInv
<1>15. CASE MonitorRaises
  BY <1>15 DEF MonitorRaises, Abort, Conclude, TypeInv, StepInv, AuthorInv, FreshInv
<1>16. ASSUME NEW e \in strays, StrayWrites(e)
       PROVE  FreshInv'
  BY <1>16 DEF StrayWrites, TypeInv, StepInv, AuthorInv, FreshInv
<1>17. ASSUME NEW e \in strays, StrayEnds(e)
       PROVE  FreshInv'
  BY <1>17 DEF StrayEnds, TypeInv, StepInv, AuthorInv, FreshInv
<1>18. CASE UNCHANGED vars
  BY <1>18 DEF TypeInv, StepInv, AuthorInv, FreshInv
<1>19. ASSUME NEW r \in RunIds, NEW mode \in Modes, StartRaises(r, mode)
       PROVE  FreshInv'
  <2>1. step' = "idle" /\ orphaned' = orphaned /\ resumed \subseteq resumed'
    BY <1>19 DEF StartRaises, Begin
  <2>2. \A q \in RunIds : records'[q] \subseteq records[q]
    BY <1>19 DEF StartRaises, TypeInv
  <2>3. \A s \in orphaned : s[1] \in RunIds
    BY DEF TypeInv, Engines
  <2>4. \A s \in orphaned' : \A e \in records'[s[1]] :
          e[2] < s[2] => s[2] \in resumed' \/ e \in orphaned'
    BY <2>1, <2>2, <2>3 DEF FreshInv
  <2> QED
    BY <2>1, <2>4 DEF FreshInv
<1>20. CASE PublishRaises
  BY <1>20 DEF PublishRaises, TypeInv, StepInv, AuthorInv, FreshInv
<1> QED
  BY <1>1, <1>2, <1>3, <1>4, <1>5, <1>6, <1>7, <1>8, <1>9, <1>10,
     <1>11, <1>12, <1>13, <1>14, <1>15, <1>16, <1>17, <1>18,
     <1>19, <1>20 DEF Next, Sweep

\* The outcomes appended so far stay honest: a cell called ok left a record
\* beyond its offset.
LEMMA OutcomeStep ==
  ASSUME TypeInv, StepInv, AuthorInv, OffsetInv, OutcomeInv, [Next]_vars
  PROVE  OutcomeInv'
<1> USE DEF vars, invocation, disk, progress, history
<1> USE MeType
<1>1. ASSUME NEW r \in RunIds, NEW mode \in Modes, Start(r, mode)
      PROVE  OutcomeInv'
  BY <1>1 DEF Start, Begin, TypeInv, StepInv, OutcomeInv
<1>2. CASE PreflightFails
  BY <1>2 DEF PreflightFails, TypeInv, StepInv, OutcomeInv
<1>3. CASE Publish
  BY <1>3 DEF Publish, TypeInv, StepInv, OutcomeInv
<1>4. CASE BeginCell
  BY <1>4 DEF BeginCell, TypeInv, StepInv, OutcomeInv
<1>5. CASE Flush
  BY <1>5 DEF Flush, TypeInv, StepInv, OutcomeInv
<1>6. CASE CellFails
  <2>1. /\ cells' = Append(cells, "failed") /\ truth' = Append(truth, FALSE)
        /\ UNCHANGED <<run, orphaned>> /\ step # "idle"
    BY <1>6 DEF CellFails, Append_
  <2>2. /\ cells \in Seq(Statuses) /\ truth \in Seq(BOOLEAN)
        /\ Len(cells) = Len(truth)
    BY <2>1 DEF TypeInv, StepInv
  <2>3. ASSUME NEW i \in DOMAIN cells', cells'[i] = "ok"
        PROVE  truth'[i] \/ \E e \in orphaned : e[1] = run
    <3>1. i \in DOMAIN cells /\ cells'[i] = cells[i]
      BY <2>1, <2>2, <2>3 DEF Statuses
    <3>2. FALSE \in BOOLEAN /\ i \in 1..Len(truth)
      BY <2>2, <3>1
    <3>3. truth'[i] = truth[i]
      BY <2>1, <2>2, <3>2
    <3> QED
      BY <2>1, <2>3, <3>1, <3>3 DEF OutcomeInv
  <2> QED
    BY <2>1, <2>3 DEF OutcomeInv
<1>7. CASE Launch
  BY <1>7 DEF Launch, TypeInv, StepInv, OutcomeInv
<1>8. CASE Judge
  <2> DEFINE ok == engine = "exit0" /\ records[run] \ offset # {}
             good == engine = "exit0" /\ Me \in records[run]
             status == IF ok THEN "ok" ELSE "failed"
  <2>1. /\ cells' = Append(cells, status) /\ truth' = Append(truth, good)
        /\ UNCHANGED <<run, orphaned>> /\ step # "idle"
    BY <1>8 DEF Judge, Append_
  <2>2. /\ cells \in Seq(Statuses) /\ truth \in Seq(BOOLEAN)
        /\ Len(cells) = Len(truth)
    BY <2>1 DEF TypeInv, StepInv
  <2>3. status = "ok" => good \/ \E e \in orphaned : e[1] = run
    <3>1. SUFFICES ASSUME ok, Me \notin records[run]
                   PROVE  \E e \in orphaned : e[1] = run
      OBVIOUS
    <3>2. PICK e \in records[run] : e \notin offset
      BY <3>1
    <3>3. e \in orphaned
      BY <1>8, <3>1, <3>2 DEF Judge, OffsetInv
    <3> QED
      BY <3>2, <3>3 DEF AuthorInv, TypeInv
  <2>4. good \in BOOLEAN /\ status \in Statuses
    BY DEF Statuses
  <2> HIDE DEF ok, good, status
  <2>5. ASSUME NEW i \in DOMAIN cells', cells'[i] = "ok"
        PROVE  truth'[i] \/ \E e \in orphaned : e[1] = run
    <3>1. CASE i \in DOMAIN cells
      <4>1. cells'[i] = cells[i]
        BY <2>1, <2>2, <3>1
      <4>2. truth'[i] = truth[i]
        BY <2>1, <2>2, <3>1, <2>4
      <4> QED
        BY <2>1, <2>5, <3>1, <4>1, <4>2 DEF OutcomeInv
    <3>2. CASE i \notin DOMAIN cells
      <4>1. i = Len(cells) + 1
        BY <2>1, <2>2, <2>4, <3>2
      <4>2. cells'[i] = status
        BY <2>1, <2>2, <2>4, <4>1
      <4>3. truth'[i] = good
        BY <2>1, <2>2, <2>4, <4>1
      <4> QED
        BY <2>3, <2>5, <4>2, <4>3
    <3> QED
      BY <3>1, <3>2
  <2> QED
    BY <2>1, <2>5 DEF OutcomeInv
<1>9. CASE Finish
  BY <1>9 DEF Finish, Conclude, TypeInv, StepInv, OutcomeInv
<1>10. CASE EngineWrites
  BY <1>10 DEF EngineWrites, TypeInv, StepInv, OutcomeInv
<1>11. CASE EngineExits
  BY <1>11 DEF EngineExits, TypeInv, StepInv, OutcomeInv
<1>12. CASE Interrupt
  BY <1>12 DEF Interrupt, Orphan, Conclude, TypeInv, StepInv, OutcomeInv
<1>13. CASE Crash
  BY <1>13 DEF Crash, Orphan, TypeInv, StepInv, OutcomeInv
<1>14. CASE ConfigRaises
  BY <1>14 DEF ConfigRaises, Abort, Conclude, TypeInv, StepInv, OutcomeInv
<1>15. CASE MonitorRaises
  BY <1>15 DEF MonitorRaises, Abort, Conclude, TypeInv, StepInv, OutcomeInv
<1>16. ASSUME NEW e \in strays, StrayWrites(e)
       PROVE  OutcomeInv'
  BY <1>16 DEF StrayWrites, TypeInv, StepInv, OutcomeInv
<1>17. ASSUME NEW e \in strays, StrayEnds(e)
       PROVE  OutcomeInv'
  BY <1>17 DEF StrayEnds, TypeInv, StepInv, OutcomeInv
<1>18. CASE UNCHANGED vars
  BY <1>18 DEF TypeInv, StepInv, OutcomeInv
<1>19. ASSUME NEW r \in RunIds, NEW mode \in Modes, StartRaises(r, mode)
       PROVE  OutcomeInv'
  BY <1>19 DEF StartRaises, Begin, TypeInv, StepInv, OutcomeInv
<1>20. CASE PublishRaises
  BY <1>20 DEF PublishRaises, TypeInv, StepInv, OutcomeInv
<1> QED
  BY <1>1, <1>2, <1>3, <1>4, <1>5, <1>6, <1>7, <1>8, <1>9, <1>10,
     <1>11, <1>12, <1>13, <1>14, <1>15, <1>16, <1>17, <1>18,
     <1>19, <1>20 DEF Next, Sweep


\* A refused invocation leaves no engine.
LEMMA RefusedStep ==
  ASSUME TypeInv, StepInv, AuthorInv, RefusedInv, [Next]_vars
  PROVE  RefusedInv'
<1> USE DEF vars, invocation, disk, progress, history
<1>1. ASSUME NEW r \in RunIds, NEW mode \in Modes, Start(r, mode)
      PROVE  RefusedInv'
  BY <1>1 DEF Start, Begin, TypeInv, StepInv, AuthorInv, RefusedInv, Killed, Engines
<1>2. CASE PreflightFails
  BY <1>2 DEF PreflightFails, TypeInv, StepInv, AuthorInv, RefusedInv, Killed, Engines
<1>3. CASE Publish
  BY <1>3 DEF Publish, TypeInv, StepInv, AuthorInv, RefusedInv, Killed, Engines
<1>4. CASE BeginCell
  BY <1>4 DEF BeginCell, TypeInv, StepInv, AuthorInv, RefusedInv, Killed, Engines
<1>5. CASE Flush
  BY <1>5 DEF Flush, TypeInv, StepInv, AuthorInv, RefusedInv, Killed, Engines
<1>6. CASE CellFails
  BY <1>6 DEF CellFails, Append_, TypeInv, StepInv, AuthorInv, RefusedInv, Killed, Engines
<1>7. CASE Launch
  BY <1>7 DEF Launch, TypeInv, StepInv, AuthorInv, RefusedInv, Killed, Engines
<1>8. CASE Judge
  BY <1>8 DEF Judge, Append_, TypeInv, StepInv, AuthorInv, RefusedInv, Killed, Engines
<1>9. CASE Finish
  BY <1>9 DEF Finish, Conclude, TypeInv, StepInv, AuthorInv, RefusedInv, Killed, Engines
<1>10. CASE EngineWrites
  BY <1>10 DEF EngineWrites, TypeInv, StepInv, AuthorInv, RefusedInv, Killed, Engines
<1>11. CASE EngineExits
  BY <1>11 DEF EngineExits, TypeInv, StepInv, AuthorInv, RefusedInv, Killed, Engines
<1>12. CASE Interrupt
  BY <1>12 DEF Interrupt, Orphan, Conclude, TypeInv, StepInv, AuthorInv, RefusedInv, Killed, Engines
<1>13. CASE Crash
  BY <1>13 DEF Crash, Orphan, TypeInv, StepInv, AuthorInv, RefusedInv, Killed, Engines
<1>14. CASE ConfigRaises
  BY <1>14 DEF ConfigRaises, Abort, Conclude, TypeInv, StepInv, AuthorInv, RefusedInv, Killed, Engines
<1>15. CASE MonitorRaises
  BY <1>15 DEF MonitorRaises, Abort, Conclude, TypeInv, StepInv, AuthorInv, RefusedInv, Killed, Engines
<1>16. ASSUME NEW e \in strays, StrayWrites(e)
       PROVE  RefusedInv'
  BY <1>16 DEF StrayWrites, TypeInv, StepInv, AuthorInv, RefusedInv, Killed, Engines
<1>17. ASSUME NEW e \in strays, StrayEnds(e)
       PROVE  RefusedInv'
  BY <1>17 DEF StrayEnds, TypeInv, StepInv, AuthorInv, RefusedInv, Killed, Engines
<1>18. CASE UNCHANGED vars
  BY <1>18 DEF TypeInv, StepInv, AuthorInv, RefusedInv, Killed, Engines
<1>19. ASSUME NEW r \in RunIds, NEW mode \in Modes, StartRaises(r, mode)
       PROVE  RefusedInv'
  BY <1>19 DEF StartRaises, Begin, TypeInv, StepInv, AuthorInv, RefusedInv, Killed, Engines
<1>20. CASE PublishRaises
  BY <1>20 DEF PublishRaises, TypeInv, StepInv, AuthorInv, RefusedInv, Killed, Engines
<1> QED
  BY <1>1, <1>2, <1>3, <1>4, <1>5, <1>6, <1>7, <1>8, <1>9, <1>10,
     <1>11, <1>12, <1>13, <1>14, <1>15, <1>16, <1>17, <1>18,
     <1>19, <1>20 DEF Next, Sweep


\* Whoever writes into a run directory merges with nobody in silence.
LEMMA MergeStep ==
  ASSUME TypeInv, StepInv, AuthorInv, FreshInv, NoSilentMerge, [Next]_vars
  PROVE  NoSilentMerge'
<1> USE DEF vars, invocation, disk, progress, history
<1> USE MeType
<1>1. ASSUME NEW r \in RunIds, NEW mode \in Modes, Start(r, mode)
      PROVE  NoSilentMerge'
  BY <1>1 DEF Start, Begin, TypeInv, StepInv, AuthorInv, FreshInv, NoSilentMerge
<1>2. CASE PreflightFails
  BY <1>2 DEF PreflightFails, TypeInv, StepInv, AuthorInv, FreshInv, NoSilentMerge
<1>3. CASE Publish
  BY <1>3 DEF Publish, TypeInv, StepInv, AuthorInv, FreshInv, NoSilentMerge
<1>4. CASE BeginCell
  BY <1>4 DEF BeginCell, TypeInv, StepInv, AuthorInv, FreshInv, NoSilentMerge
<1>5. CASE Flush
  BY <1>5 DEF Flush, TypeInv, StepInv, AuthorInv, FreshInv, NoSilentMerge
<1>6. CASE CellFails
  BY <1>6 DEF CellFails, Append_, TypeInv, StepInv, AuthorInv, FreshInv, NoSilentMerge
<1>7. CASE Launch
  BY <1>7 DEF Launch, TypeInv, StepInv, AuthorInv, FreshInv, NoSilentMerge
<1>8. CASE Judge
  BY <1>8 DEF Judge, Append_, TypeInv, StepInv, AuthorInv, FreshInv, NoSilentMerge
<1>9. CASE Finish
  BY <1>9 DEF Finish, Conclude, TypeInv, StepInv, AuthorInv, FreshInv, NoSilentMerge
<1>10. CASE EngineWrites
  <2>1. /\ records' = [records EXCEPT ![run] = @ \cup {Me}]
        /\ UNCHANGED <<inv, run, orphaned, resumed>> /\ step # "idle"
    BY <1>10 DEF EngineWrites, StepInv
  <2>2. ASSUME NEW q \in RunIds, NEW e \in records'[q], NEW f \in records'[q],
               e[2] < f[2]
        PROVE  f[2] \in resumed \/ e \in orphaned
    <3>1. /\ e = Me \/ e \in records[q]
          /\ f = Me \/ f \in records[q]
          /\ q = run \/ (e \in records[q] /\ f \in records[q])
      BY <2>1 DEF TypeInv
    <3>2. CASE e \in records[q] /\ f \in records[q]
      BY <2>2, <3>2 DEF NoSilentMerge
    <3>3. CASE e \in records[q] /\ f = Me
      <4>1. CASE q = run
        <5>1. inv \in Nat /\ f[2] = inv
          BY <3>3 DEF TypeInv, Me
        <5>2. inv \notin resumed => e[2] = inv \/ e \in orphaned
          BY <2>1, <3>3, <4>1 DEF FreshInv
        <5>3. e[2] # inv
          BY <2>2, <5>1
        <5> QED
          BY <5>1, <5>2, <5>3
      <4>2. CASE q # run
        BY <2>2, <3>1, <4>2 DEF NoSilentMerge
      <4> QED
        BY <4>1, <4>2
    <3>4. CASE e = Me
      <4>1. f[2] \in Nat /\ f[2] <= inv
        <5>1. CASE f = Me
          BY <5>1 DEF TypeInv, Me
        <5>2. CASE f \in records[q]
          BY <5>2 DEF TypeInv, AuthorInv, Engines
        <5> QED
          BY <3>1, <5>1, <5>2
      <4> QED
        BY <2>2, <3>4, <4>1 DEF TypeInv
    <3> QED
      BY <3>1, <3>2, <3>3, <3>4
  <2> QED
    BY <2>1, <2>2 DEF NoSilentMerge
<1>11. CASE EngineExits
  BY <1>11 DEF EngineExits, TypeInv, StepInv, AuthorInv, FreshInv, NoSilentMerge
<1>12. CASE Interrupt
  BY <1>12 DEF Interrupt, Orphan, Conclude, TypeInv, StepInv, AuthorInv, FreshInv, NoSilentMerge
<1>13. CASE Crash
  BY <1>13 DEF Crash, Orphan, TypeInv, StepInv, AuthorInv, FreshInv, NoSilentMerge
<1>14. CASE ConfigRaises
  BY <1>14 DEF ConfigRaises, Abort, Conclude, TypeInv, StepInv, AuthorInv, FreshInv, NoSilentMerge
<1>15. CASE MonitorRaises
  BY <1>15 DEF MonitorRaises, Abort, Conclude, TypeInv, StepInv, AuthorInv, FreshInv, NoSilentMerge
<1>16. ASSUME NEW e \in strays, StrayWrites(e)
       PROVE  NoSilentMerge'
  BY <1>16 DEF StrayWrites, TypeInv, StepInv, AuthorInv, FreshInv, NoSilentMerge
<1>17. ASSUME NEW e \in strays, StrayEnds(e)
       PROVE  NoSilentMerge'
  BY <1>17 DEF StrayEnds, TypeInv, StepInv, AuthorInv, FreshInv, NoSilentMerge
<1>18. CASE UNCHANGED vars
  BY <1>18 DEF TypeInv, StepInv, AuthorInv, FreshInv, NoSilentMerge
<1>19. ASSUME NEW r \in RunIds, NEW mode \in Modes, StartRaises(r, mode)
       PROVE  NoSilentMerge'
  BY <1>19 DEF StartRaises, Begin, TypeInv, StepInv, AuthorInv, FreshInv, NoSilentMerge
<1>20. CASE PublishRaises
  BY <1>20 DEF PublishRaises, TypeInv, StepInv, AuthorInv, FreshInv, NoSilentMerge
<1> QED
  BY <1>1, <1>2, <1>3, <1>4, <1>5, <1>6, <1>7, <1>8, <1>9, <1>10,
     <1>11, <1>12, <1>13, <1>14, <1>15, <1>16, <1>17, <1>18,
     <1>19, <1>20 DEF Next, Sweep


\* An engine that needs the server keeps finding it flushed.
LEMMA KeyspaceStep ==
  ASSUME TypeInv, AuthorInv, CleanKeyspace, [Next]_vars
  PROVE  CleanKeyspace'
<1> USE DEF vars, invocation, disk, progress, history
<1>1. ASSUME NEW r \in RunIds, NEW mode \in Modes, Start(r, mode)
      PROVE  CleanKeyspace'
  BY <1>1 DEF Start, Begin, TypeInv, AuthorInv, CleanKeyspace
<1>2. CASE PreflightFails
  BY <1>2 DEF PreflightFails, TypeInv, AuthorInv, CleanKeyspace
<1>3. CASE Publish
  BY <1>3 DEF Publish, TypeInv, AuthorInv, CleanKeyspace
<1>4. CASE BeginCell
  BY <1>4 DEF BeginCell, TypeInv, AuthorInv, CleanKeyspace
<1>5. CASE Flush
  BY <1>5 DEF Flush, TypeInv, AuthorInv, CleanKeyspace
<1>6. CASE CellFails
  BY <1>6 DEF CellFails, Append_, TypeInv, AuthorInv, CleanKeyspace
<1>7. CASE Launch
  BY <1>7 DEF Launch, TypeInv, AuthorInv, CleanKeyspace
<1>8. CASE Judge
  BY <1>8 DEF Judge, Append_, TypeInv, AuthorInv, CleanKeyspace
<1>9. CASE Finish
  BY <1>9 DEF Finish, Conclude, TypeInv, AuthorInv, CleanKeyspace
<1>10. CASE EngineWrites
  BY <1>10 DEF EngineWrites, TypeInv, AuthorInv, CleanKeyspace
<1>11. CASE EngineExits
  BY <1>11 DEF EngineExits, TypeInv, AuthorInv, CleanKeyspace
<1>12. CASE Interrupt
  BY <1>12 DEF Interrupt, Orphan, Conclude, TypeInv, AuthorInv, CleanKeyspace
<1>13. CASE Crash
  BY <1>13 DEF Crash, Orphan, TypeInv, AuthorInv, CleanKeyspace
<1>14. CASE ConfigRaises
  BY <1>14 DEF ConfigRaises, Abort, Conclude, TypeInv, AuthorInv, CleanKeyspace
<1>15. CASE MonitorRaises
  BY <1>15 DEF MonitorRaises, Abort, Conclude, TypeInv, AuthorInv, CleanKeyspace
<1>16. ASSUME NEW e \in strays, StrayWrites(e)
       PROVE  CleanKeyspace'
  BY <1>16 DEF StrayWrites, TypeInv, AuthorInv, CleanKeyspace
<1>17. ASSUME NEW e \in strays, StrayEnds(e)
       PROVE  CleanKeyspace'
  BY <1>17 DEF StrayEnds, TypeInv, AuthorInv, CleanKeyspace
<1>18. CASE UNCHANGED vars
  BY <1>18 DEF TypeInv, AuthorInv, CleanKeyspace
<1>19. ASSUME NEW r \in RunIds, NEW mode \in Modes, StartRaises(r, mode)
       PROVE  CleanKeyspace'
  BY <1>19 DEF StartRaises, Begin, TypeInv, AuthorInv, CleanKeyspace
<1>20. CASE PublishRaises
  BY <1>20 DEF PublishRaises, TypeInv, AuthorInv, CleanKeyspace
<1> QED
  BY <1>1, <1>2, <1>3, <1>4, <1>5, <1>6, <1>7, <1>8, <1>9, <1>10,
     <1>11, <1>12, <1>13, <1>14, <1>15, <1>16, <1>17, <1>18,
     <1>19, <1>20 DEF Next, Sweep

\* A manifest m of run id r is honest, given the cut cells c and the orphans o.
Honest(r, m, c, o) ==
  \A i \in DOMAIN m.cells :
    m.cells[i] = "ok" => \/ m.truth[i]
                         \/ <<r, m.inv, i>> \in c
                         \/ \E e \in o : e[1] = r

\* ManifestHonest, by run id.
LEMMA HonestByRun ==
  ManifestHonest <=> \A r \in RunIds : Honest(r, manifest[r], cut, orphaned)
BY DEF ManifestHonest, Honest

\* The manifests stay honest if each is what it was, holds no outcomes, or is
\* honest.
LEMMA HonestStays ==
  ASSUME ManifestHonest, cut \subseteq cut', orphaned \subseteq orphaned',
         \A r \in RunIds : \/ manifest'[r] = manifest[r]
                           \/ manifest'[r].cells = <<>>
                           \/ Honest(r, manifest'[r], cut', orphaned')
  PROVE  ManifestHonest'
<1>1. \A r \in RunIds : Honest(r, manifest[r], cut, orphaned)
  BY HonestByRun
<1>2. \A r \in RunIds : Honest(r, manifest'[r], cut', orphaned')
  BY <1>1 DEF Honest
<1> QED
  BY <1>2 DEF ManifestHonest, Honest

\* A cell cut off and appended as ok does not make the outcomes less honest,
\* because the cut is known.
LEMMA CutIsHonest ==
  ASSUME TypeInv, StepInv, OutcomeInv, step # "idle",
         NEW good \in BOOLEAN
  PROVE  Honest(run, [final |-> TRUE, inv |-> inv, cells |-> Append(cells, "ok"),
                      truth |-> Append(truth, good)], cut \cup {Me}, orphaned)
<1> DEFINE cs == Append(cells, "ok")
           ts == Append(truth, good)
<1>1. /\ cells \in Seq(Statuses) /\ truth \in Seq(BOOLEAN)
      /\ Len(cells) = Len(truth) /\ cell = Len(cells) + 1
  BY DEF TypeInv, StepInv
<1>2. ASSUME NEW i \in DOMAIN cs, cs[i] = "ok", i # cell
      PROVE  ts[i] \/ \E e \in orphaned : e[1] = run
  <2>1. i \in DOMAIN cells /\ cs[i] = cells[i] /\ i \in 1..Len(truth)
    BY <1>1, <1>2 DEF Statuses
  <2>2. ts[i] = truth[i]
    BY <1>1, <2>1
  <2> QED
    BY <1>2, <2>1, <2>2 DEF OutcomeInv
<1> HIDE DEF cs, ts
<1>3. \A i \in DOMAIN cs : cs[i] = "ok" =>
        \/ ts[i]
        \/ <<run, inv, i>> \in cut \cup {Me}
        \/ \E e \in orphaned : e[1] = run
  BY <1>2 DEF Me
<1> QED
  BY <1>3 DEF Honest, cs, ts

\* The outcomes appended so far make an honest manifest.
LEMMA OutcomesAreHonest ==
  ASSUME OutcomeInv, step # "idle", NEW b, NEW c
  PROVE  Honest(run, [final |-> b, inv |-> inv, cells |-> cells,
                      truth |-> truth], c, orphaned)
BY DEF OutcomeInv, Honest

\* The last manifest of the invocation.
Final(cs, ts) == [final |-> TRUE, inv |-> inv, cells |-> cs, truth |-> ts]

\* The manifests stay honest when an invocation concludes with honest
\* outcomes, whether its manifest is written or not.
LEMMA ConcludeIsHonest ==
  ASSUME TypeInv, ManifestHonest,
         cut \subseteq cut', orphaned \subseteq orphaned',
         NEW cs \in Seq(Statuses), NEW ts \in Seq(BOOLEAN),
         NEW status \in {0, 1, 2, Killed}, NEW raised \in BOOLEAN,
         Conclude(cs, ts, status, raised),
         Honest(run, Final(cs, ts), cut', orphaned')
  PROVE  ManifestHonest'
<1>0. /\ \A r \in RunIds \ {run} : manifest'[r] = manifest[r]
      /\ \/ manifest'[run] = [final |-> TRUE, inv |-> inv, cells |-> cs, truth |-> ts]
         \/ manifest'[run] \in {manifest[run], Unfinished}
  <2>1. run \in RunIds /\ manifest \in [RunIds -> Manifests]
    BY DEF TypeInv
  <2>2. CASE FinalManifest(cs, ts)
    BY <2>1, <2>2 DEF FinalManifest
  <2>3. CASE ManifestWriteFails
    BY <2>1, <2>3 DEF ManifestWriteFails
  <2> QED
    BY <2>2, <2>3, Zenon DEF Conclude
<1>1. /\ \A r \in RunIds \ {run} : manifest'[r] = manifest[r]
      /\ \/ manifest'[run] = Final(cs, ts)
         \/ manifest'[run] \in {manifest[run], Unfinished}
  BY <1>0, Zenon DEF Final
<1>2. Unfinished.cells = <<>>
  BY DEF NoManifest, Unfinished
<1>3. \A r \in RunIds : \/ manifest'[r] = manifest[r]
                         \/ manifest'[r].cells = <<>>
                         \/ Honest(r, manifest'[r], cut', orphaned')
  BY <1>1, <1>2
<1> QED
  BY <1>3, HonestStays

\* The manifests stay honest.
LEMMA HonestStep ==
  ASSUME TypeInv, StepInv, OutcomeInv, ManifestHonest, [Next]_vars
  PROVE  ManifestHonest'
<1> USE DEF vars, invocation, disk, progress, history
<1>1. ASSUME NEW r \in RunIds, NEW mode \in Modes, Start(r, mode)
      PROVE  ManifestHonest'
  <2>1. \A q \in RunIds : manifest'[q] = manifest[q] \/ manifest'[q].cells = <<>>
    BY <1>1 DEF Start, Begin, TypeInv, NoManifest
  <2> QED
    BY <1>1, <2>1, HonestStays DEF Start, Begin
<1>2. CASE PreflightFails
  BY <1>2, HonestStays DEF PreflightFails
<1>3. CASE Publish
  <2>1. Unfinished.cells = <<>>
    BY DEF NoManifest, Unfinished
  <2>2. \A q \in RunIds : manifest'[q] = manifest[q] \/ manifest'[q].cells = <<>>
    BY <1>3, <2>1 DEF Publish, TypeInv
  <2> QED
    BY <1>3, <2>2, HonestStays DEF Publish
<1>4. CASE BeginCell
  BY <1>4, HonestStays DEF BeginCell
<1>5. CASE Flush
  BY <1>5, HonestStays DEF Flush
<1>6. CASE CellFails
  BY <1>6, HonestStays DEF CellFails, Append_
<1>7. CASE Launch
  BY <1>7, HonestStays DEF Launch
<1>8. CASE Judge
  BY <1>8, HonestStays DEF Judge, Append_
<1>9. CASE Finish
  <2> DEFINE status == IF Contains(cells, "failed") THEN 1 ELSE 0
  <2>1. /\ Conclude(cells, truth, status, FALSE)
        /\ step # "idle" /\ UNCHANGED <<cut, orphaned>>
    BY <1>9 DEF Finish
  <2>2. /\ status \in {0, 1, 2, Killed}
        /\ cells \in Seq(Statuses) /\ truth \in Seq(BOOLEAN)
    BY DEF TypeInv
  <2> HIDE DEF status
  <2>3. Honest(run, Final(cells, truth), cut', orphaned')
    BY <2>1, OutcomesAreHonest DEF Final
  <2> QED
    BY <2>1, <2>2, <2>3, ConcludeIsHonest
<1>10. CASE EngineWrites
  BY <1>10, HonestStays DEF EngineWrites
<1>11. CASE EngineExits
  BY <1>11, HonestStays DEF EngineExits
<1>12. CASE Interrupt
  <2> DEFINE guarded == step \in {"flush", "launch", "engine"}
             good == engine = "exit0" /\ Me \in records[run]
             cs == IF guarded THEN Append(cells, "ok") ELSE cells
             ts == IF guarded THEN Append(truth, good) ELSE truth
  <2>1. cut \subseteq cut' /\ orphaned \subseteq orphaned' /\ step # "idle"
    BY <1>12 DEF Interrupt, Orphan
  <2>2. CASE step = "preflight"
    BY <1>12, <2>1, <2>2, HonestStays DEF Interrupt
  <2>3. CASE step = "cell"
    <3>1. Conclude(cells, truth, Killed, FALSE)
      BY <1>12, <2>3 DEF Interrupt
    <3>2. cells \in Seq(Statuses) /\ truth \in Seq(BOOLEAN)
      BY DEF TypeInv
    <3>3. Honest(run, Final(cells, truth), cut', orphaned)
      BY <2>1, OutcomesAreHonest DEF Final
    <3>4. Honest(run, Final(cells, truth), cut', orphaned')
      BY <2>1, <3>3 DEF Honest
    <3> QED
      BY <2>1, <3>1, <3>2, <3>4, ConcludeIsHonest
  <2>4. CASE guarded
    <3>1. /\ Conclude(Append(cells, "ok"), Append(truth, good), Killed, FALSE)
          /\ cut' = cut \cup {Me}
      BY <1>12, <2>4 DEF Interrupt
    <3>2. good \in BOOLEAN
      OBVIOUS
    <3> HIDE DEF good
    <3>3. Append(cells, "ok") \in Seq(Statuses)
      BY DEF TypeInv, Statuses
    <3>4. Append(truth, good) \in Seq(BOOLEAN)
      BY <3>2 DEF TypeInv
    <3>5. Honest(run, Final(Append(cells, "ok"), Append(truth, good)), cut',
                 orphaned)
      BY <2>1, <3>1, <3>2, CutIsHonest DEF Final
    <3>6. Honest(run, Final(Append(cells, "ok"), Append(truth, good)), cut',
                 orphaned')
      BY <2>1, <3>5 DEF Honest
    <3> QED
      BY <2>1, <3>1, <3>3, <3>4, <3>6, ConcludeIsHonest
  <2> QED
    BY <2>1, <2>2, <2>3, <2>4 DEF TypeInv
<1>13. CASE Crash
  BY <1>13, HonestStays DEF Crash, Orphan
<1>14. CASE ConfigRaises
  <2>1. /\ Conclude(cells, truth, 1, TRUE)
        /\ step # "idle" /\ UNCHANGED <<cut, orphaned>>
    BY <1>14 DEF ConfigRaises, Abort
  <2>2. cells \in Seq(Statuses) /\ truth \in Seq(BOOLEAN)
    BY DEF TypeInv
  <2>3. Honest(run, Final(cells, truth), cut', orphaned')
    BY <2>1, OutcomesAreHonest DEF Final
  <2> QED
    BY <2>1, <2>2, <2>3, ConcludeIsHonest
<1>15. CASE MonitorRaises
  <2>1. /\ Conclude(Append(cells, "ok"), Append(truth, FALSE), 1, TRUE)
        /\ cut' = cut \cup {Me} /\ orphaned \subseteq orphaned'
        /\ step # "idle"
    BY <1>15 DEF MonitorRaises, Abort
  <2>2. Append(cells, "ok") \in Seq(Statuses)
    BY DEF TypeInv, Statuses
  <2>3. Append(truth, FALSE) \in Seq(BOOLEAN)
    BY DEF TypeInv
  <2>4. Honest(run, Final(Append(cells, "ok"), Append(truth, FALSE)), cut',
               orphaned)
    BY <2>1, CutIsHonest DEF Final
  <2>5. Honest(run, Final(Append(cells, "ok"), Append(truth, FALSE)), cut',
               orphaned')
    BY <2>1, <2>4 DEF Honest
  <2> QED
    BY <2>1, <2>2, <2>3, <2>5, ConcludeIsHonest
<1>16. ASSUME NEW e \in strays, StrayWrites(e)
       PROVE  ManifestHonest'
  BY <1>16, HonestStays DEF StrayWrites
<1>17. ASSUME NEW e \in strays, StrayEnds(e)
       PROVE  ManifestHonest'
  BY <1>17, HonestStays DEF StrayEnds
<1>18. CASE UNCHANGED vars
  BY <1>18 DEF ManifestHonest
<1>19. ASSUME NEW r \in RunIds, NEW mode \in Modes, StartRaises(r, mode)
       PROVE  ManifestHonest'
  BY <1>19, HonestStays DEF StartRaises
<1>20. CASE PublishRaises
  <2>1. Unfinished.cells = <<>>
    BY DEF NoManifest, Unfinished
  <2>2. \A q \in RunIds : manifest'[q] = manifest[q] \/ manifest'[q].cells = <<>>
    BY <1>20, <2>1 DEF PublishRaises, ManifestWriteFails, TypeInv
  <2> QED
    BY <1>20, <2>2, HonestStays DEF PublishRaises
<1> QED
  BY <1>1, <1>2, <1>3, <1>4, <1>5, <1>6, <1>7, <1>8, <1>9, <1>10,
     <1>11, <1>12, <1>13, <1>14, <1>15, <1>16, <1>17, <1>18,
     <1>19, <1>20 DEF Next, Sweep

\* A failed write leaves no last manifest of this invocation.
LEMMA StillNotOwn ==
  ASSUME TypeInv, WrittenInv, step # "idle", ManifestWriteFails
  PROVE  ~ (manifest'[run].final /\ manifest'[run].inv = inv)
<1>1. CASE UNCHANGED manifest
  BY <1>1 DEF WrittenInv
<1>2. CASE manifest' = [manifest EXCEPT ![run] = Unfinished]
  <2>1. manifest'[run] = Unfinished
    BY <1>2 DEF TypeInv
  <2>2. Unfinished.final = FALSE
    BY DEF Unfinished, NoManifest
  <2> QED
    BY <2>1, <2>2
<1> QED
  BY <1>1, <1>2 DEF ManifestWriteFails

\* Every write of a manifest is of the current invocation.
LEMMA WrittenByMe ==
  ASSUME TypeInv, WrittenInv,
         NEW m, m.inv = inv,
         manifest' = [manifest EXCEPT ![run] = m] \/ UNCHANGED manifest
  PROVE  \A r \in RunIds : manifest'[r].inv <= inv
BY DEF TypeInv, WrittenInv

\* Every step keeps the manifests with the invocations that wrote them.
LEMMA WrittenStep ==
  ASSUME TypeInv, StepInv, WrittenInv, [Next]_vars
  PROVE  WrittenInv'
<1> USE DEF vars, invocation, disk, progress, history
<1> DEFINE final(cs, ts) == [final |-> TRUE, inv |-> inv, cells |-> cs,
                             truth |-> ts]
<1>0. ASSUME NEW cs, NEW ts, NEW status, NEW raised,
             Conclude(cs, ts, status, raised), UNCHANGED <<run, inv>>
      PROVE  WrittenInv'
  <2>1. CASE FinalManifest(cs, ts)
    <3>1. final(cs, ts).inv = inv
      OBVIOUS
    <3>2. manifest' = [manifest EXCEPT ![run] = final(cs, ts)]
      BY <2>1 DEF FinalManifest
    <3> HIDE DEF final
    <3>3. \A r \in RunIds : manifest'[r].inv <= inv
      BY <3>1, <3>2, WrittenByMe
    <3> QED
      BY <1>0, <3>3 DEF Conclude, WrittenInv
  <2>2. CASE ManifestWriteFails
    <3>1. Unfinished.inv = inv
      BY DEF Unfinished, NoManifest
    <3>2. \A r \in RunIds : manifest'[r].inv <= inv
      BY <2>2, <3>1, WrittenByMe DEF ManifestWriteFails
    <3> QED
      BY <1>0, <3>2 DEF Conclude, WrittenInv
  <2> QED
    BY <1>0, <2>1, <2>2 DEF Conclude
<1>1. ASSUME NEW r \in RunIds, NEW mode \in Modes, Start(r, mode)
      PROVE  WrittenInv'
  <2>1. /\ inv' = inv + 1 /\ run' = r
        /\ \A q \in RunIds : manifest'[q] = manifest[q] \/ manifest'[q] = NoManifest
    BY <1>1 DEF Start, Begin, TypeInv
  <2>2. /\ inv \in Nat
        /\ \A q \in RunIds : manifest[q].inv \in Nat /\ manifest[q].inv <= inv
    BY DEF TypeInv, WrittenInv, Manifests
  <2>3. NoManifest.inv = 0
    BY DEF NoManifest
  <2>4. \A q \in RunIds : manifest'[q].inv < inv' /\ manifest'[q].inv <= inv'
    BY <2>1, <2>2, <2>3
  <2> QED
    BY <2>1, <2>4 DEF WrittenInv
<1>2. CASE PreflightFails
  BY <1>2 DEF PreflightFails, WrittenInv
<1>3. CASE Publish
  <2>1. manifest' = [manifest EXCEPT ![run] = Unfinished]
        /\ UNCHANGED <<run, inv>>
    BY <1>3 DEF Publish
  <2>2. Unfinished.inv = inv /\ Unfinished.final = FALSE
    BY DEF Unfinished, NoManifest
  <2>3. \A r \in RunIds : manifest'[r].inv <= inv
    BY <2>1, <2>2, WrittenByMe
  <2>4. manifest'[run].final = FALSE
    BY <2>1, <2>2 DEF TypeInv
  <2> QED
    BY <2>1, <2>3, <2>4 DEF WrittenInv
<1>4. CASE BeginCell
  BY <1>4 DEF BeginCell, WrittenInv
<1>5. CASE Flush
  BY <1>5 DEF Flush, WrittenInv
<1>6. CASE CellFails
  BY <1>6 DEF CellFails, Append_, WrittenInv
<1>7. CASE Launch
  BY <1>7 DEF Launch, WrittenInv
<1>8. CASE Judge
  BY <1>8 DEF Judge, Append_, WrittenInv
<1>9. CASE Finish
  BY <1>0, <1>9 DEF Finish
<1>10. CASE EngineWrites
  BY <1>10 DEF EngineWrites, WrittenInv
<1>11. CASE EngineExits
  BY <1>11 DEF EngineExits, WrittenInv
<1>12. CASE Interrupt
  <2>1. CASE step = "preflight"
    BY <1>12, <2>1 DEF Interrupt, WrittenInv
  <2>2. CASE step # "preflight"
    <3>1. /\ \E cs, ts : Conclude(cs, ts, Killed, FALSE)
          /\ UNCHANGED <<run, inv>>
      BY <1>12, <2>2 DEF Interrupt
    <3> QED
      BY <1>0, <3>1
  <2> QED
    BY <2>1, <2>2
<1>13. CASE Crash
  BY <1>13 DEF Crash, WrittenInv
<1>14. CASE ConfigRaises
  BY <1>0, <1>14 DEF ConfigRaises, Abort
<1>15. CASE MonitorRaises
  BY <1>0, <1>15 DEF MonitorRaises, Abort
<1>16. ASSUME NEW e \in strays, StrayWrites(e)
       PROVE  WrittenInv'
  BY <1>16 DEF StrayWrites, WrittenInv
<1>17. ASSUME NEW e \in strays, StrayEnds(e)
       PROVE  WrittenInv'
  BY <1>17 DEF StrayEnds, WrittenInv
<1>18. CASE UNCHANGED vars
  BY <1>18 DEF WrittenInv
<1>19. ASSUME NEW r \in RunIds, NEW mode \in Modes, StartRaises(r, mode)
       PROVE  WrittenInv'
  <2>1. inv' = inv + 1 /\ manifest' = manifest /\ step' = "idle"
    BY <1>19 DEF StartRaises, Begin
  <2>2. /\ inv \in Nat
        /\ \A q \in RunIds : manifest[q].inv \in Nat /\ manifest[q].inv <= inv
    BY DEF TypeInv, WrittenInv, Manifests
  <2>3. \A q \in RunIds : manifest'[q].inv <= inv'
    BY <2>1, <2>2
  <2> QED
    BY <2>1, <2>3 DEF WrittenInv
<1>20. CASE PublishRaises
  <2>1. ManifestWriteFails /\ step' = "idle" /\ UNCHANGED inv
    BY <1>20 DEF PublishRaises, ManifestWriteFails
  <2>2. Unfinished.inv = inv
    BY DEF Unfinished, NoManifest
  <2>3. \A r \in RunIds : manifest'[r].inv <= inv
    BY <2>1, <2>2, WrittenByMe DEF ManifestWriteFails
  <2> QED
    BY <2>1, <2>3 DEF WrittenInv
<1> QED
  BY <1>1, <1>2, <1>3, <1>4, <1>5, <1>6, <1>7, <1>8, <1>9, <1>10,
     <1>11, <1>12, <1>13, <1>14, <1>15, <1>16, <1>17, <1>18,
     <1>19, <1>20 DEF Next, Sweep

\* The exit status stays true.
LEMMA ExitStep ==
  ASSUME TypeInv, StepInv, AuthorInv, RefusedInv, WrittenInv, ExitTruth,
         [Next]_vars
  PROVE  ExitTruth'
<1> USE DEF vars, invocation, disk, progress, history
<1>1. ASSUME NEW r \in RunIds, NEW mode \in Modes, Start(r, mode)
      PROVE  ExitTruth'
  <2>1. CASE step' = "idle"
    <3>1. exit' = 2 /\ cells' = <<>> /\ records' = records
      BY <1>1, <2>1 DEF Start, Begin, TypeInv
    <3>2. inv' = inv + 1 /\ run' \in RunIds
      BY <1>1 DEF Start, Begin
    <3>3. \A e \in records'[run'] : e[2] # inv'
      BY <3>1, <3>2 DEF TypeInv, AuthorInv, Engines
    <3> QED
      BY <3>1, <3>3 DEF ExitTruth
  <2>2. CASE step' # "idle"
    BY <2>2 DEF ExitTruth
  <2> QED
    BY <2>1, <2>2
<1>2. CASE PreflightFails
  <2>1. exit' = 2 /\ step = "preflight" /\ UNCHANGED <<run, inv, cells, records>>
    BY <1>2 DEF PreflightFails
  <2>2. cells = <<>> /\ \A e \in records[run] : e[2] # inv
    BY <2>1 DEF StepInv, AuthorInv
  <2> QED
    BY <2>1, <2>2 DEF ExitTruth
<1>3. CASE Publish
  BY <1>3 DEF ExitTruth, StepInv, Publish
<1>4. CASE BeginCell
  BY <1>4 DEF ExitTruth, StepInv, BeginCell
<1>5. CASE Flush
  BY <1>5 DEF ExitTruth, StepInv, Flush
<1>6. CASE CellFails
  BY <1>6 DEF ExitTruth, StepInv, CellFails, Append_
<1>7. CASE Launch
  BY <1>7 DEF ExitTruth, StepInv, Launch
<1>8. CASE Judge
  BY <1>8 DEF ExitTruth, StepInv, Judge, Append_
<1>9. CASE Finish
  <2> DEFINE failed == Contains(cells, "failed")
             status == IF failed THEN 1 ELSE 0
  <2>1. /\ Conclude(cells, truth, status, FALSE) /\ cell > Cells
        /\ step # "idle" /\ UNCHANGED <<run, inv>>
    BY <1>9 DEF Finish
  <2>2. /\ status \in {0, 1, 2, Killed} /\ status # 2
        /\ status = 0 => ~ failed
        /\ status = 1 => failed
        /\ cells \in Seq(Statuses) /\ truth \in Seq(BOOLEAN)
    BY DEF TypeInv
  <2>3. Len(cells) = Cells
    BY <2>1, CellsAssumption DEF StepInv, TypeInv
  <2> HIDE DEF status
  <2>4. /\ aborted' = FALSE \/ aborted' = TRUE
        /\ \/ FinalManifest(cells, truth) /\ exit' = status
           \/ ManifestWriteFails /\ exit' = 1 /\ aborted' = TRUE
    BY <2>1 DEF Conclude
  <2>5. CASE ManifestWriteFails /\ exit' = 1 /\ aborted' = TRUE
    BY <2>1, <2>5, StillNotOwn DEF ExitTruth
  <2>6. CASE FinalManifest(cells, truth) /\ exit' = status
    <3>1. manifest'[run] = [final |-> TRUE, inv |-> inv, cells |-> cells,
                            truth |-> truth]
      BY <2>2, <2>6, FinalManifestType
    <3> QED
      BY <2>1, <2>2, <2>3, <2>6, <3>1 DEF ExitTruth
  <2> QED
    BY <2>4, <2>5, <2>6
<1>10. CASE EngineWrites
  BY <1>10 DEF ExitTruth, StepInv, EngineWrites
<1>11. CASE EngineExits
  BY <1>11 DEF ExitTruth, StepInv, EngineExits
<1>12. CASE Interrupt
  <2> DEFINE guarded == step \in {"flush", "launch", "engine"}
             good == engine = "exit0" /\ Me \in records[run]
             cs == IF guarded THEN Append(cells, "ok") ELSE cells
             ts == IF guarded THEN Append(truth, good) ELSE truth
  <2>1. /\ exit' = Killed \/ Conclude(cs, ts, Killed, FALSE)
        /\ step # "idle" /\ UNCHANGED <<run, inv>>
    BY <1>12 DEF Interrupt
  <2> HIDE DEF cs, ts
  <2>2. \/ exit' = Killed
        \/ exit' = 1 /\ aborted' = TRUE /\ ManifestWriteFails
    BY <2>1 DEF Conclude
  <2>3. CASE exit' = Killed
    BY <2>3 DEF ExitTruth, Killed
  <2>4. CASE exit' = 1 /\ aborted' = TRUE /\ ManifestWriteFails
    BY <2>1, <2>4, StillNotOwn DEF ExitTruth
  <2> QED
    BY <2>2, <2>3, <2>4
<1>13. CASE Crash
  <2>1. exit' = Killed
    BY <1>13 DEF Crash
  <2> QED
    BY <2>1 DEF ExitTruth, Killed
<1>14. CASE ConfigRaises
  <2>1. /\ Conclude(cells, truth, 1, TRUE) /\ cell <= Cells
        /\ step # "idle" /\ UNCHANGED <<run, inv>>
    BY <1>14 DEF ConfigRaises, Abort
  <2>2. /\ exit' = 1 /\ aborted' = TRUE
        /\ FinalManifest(cells, truth) \/ ManifestWriteFails
    BY <2>1 DEF Conclude
  <2>3. CASE FinalManifest(cells, truth)
    <3>1. cells \in Seq(Statuses) /\ truth \in Seq(BOOLEAN)
      BY DEF TypeInv
    <3>2. manifest'[run] = [final |-> TRUE, inv |-> inv, cells |-> cells,
                            truth |-> truth]
      BY <2>3, <3>1, FinalManifestType
    <3>3. Len(cells) < Cells
      BY <2>1, CellsAssumption DEF StepInv, TypeInv
    <3> QED
      BY <2>1, <2>2, <3>2, <3>3 DEF ExitTruth
  <2>4. CASE ManifestWriteFails
    BY <2>1, <2>2, <2>4, StillNotOwn DEF ExitTruth
  <2> QED
    BY <2>2, <2>3, <2>4
<1>15. CASE MonitorRaises
  <2> DEFINE ts == Append(truth, FALSE)
  <2>1. /\ Conclude(Append(cells, "ok"), ts, 1, TRUE)
        /\ step # "idle" /\ UNCHANGED <<run, inv>>
    BY <1>15 DEF MonitorRaises, Abort
  <2>2. /\ exit' = 1 /\ aborted' = TRUE
        /\ FinalManifest(Append(cells, "ok"), ts) \/ ManifestWriteFails
    BY <2>1 DEF Conclude
  <2>3. ts \in Seq(BOOLEAN)
    BY DEF TypeInv
  <2>4. ~ Last(ts)
    BY DEF TypeInv, Last
  <2> HIDE DEF ts
  <2>5. CASE FinalManifest(Append(cells, "ok"), ts)
    <3>1. Append(cells, "ok") \in Seq(Statuses)
      BY DEF TypeInv, Statuses
    <3>2. manifest'[run] = [final |-> TRUE, inv |-> inv,
                            cells |-> Append(cells, "ok"), truth |-> ts]
      BY <2>3, <2>5, <3>1, FinalManifestType
    <3>3. /\ manifest'[run].final /\ manifest'[run].inv = inv
          /\ manifest'[run].truth = ts
      BY <3>2
    <3>4. ~ Last(manifest'[run].truth)
      BY <2>4, <3>3, Zenon
    <3> QED
      BY <2>1, <2>2, <3>3, <3>4 DEF ExitTruth
  <2>6. CASE ManifestWriteFails
    BY <2>1, <2>2, <2>6, StillNotOwn DEF ExitTruth
  <2> QED
    BY <2>2, <2>5, <2>6
<1>16. ASSUME NEW e \in strays, StrayWrites(e)
       PROVE  ExitTruth'
  <2>1. /\ records' = [records EXCEPT ![e[1]] = @ \cup {e}]
        /\ UNCHANGED <<step, inv, run, exit, manifest, cells, aborted>>
    BY <1>16 DEF StrayWrites
  <2>2. e \in orphaned /\ run \in RunIds
    BY DEF AuthorInv, TypeInv
  <2>3. records'[run] \subseteq records[run] \cup {e}
    BY <2>1, <2>2 DEF TypeInv
  <2>4. (step = "idle" /\ inv > 0 /\ exit = 2) => e[2] # inv
    BY <2>2 DEF RefusedInv
  <2> QED
    BY <2>1, <2>3, <2>4 DEF ExitTruth
<1>17. ASSUME NEW e \in strays, StrayEnds(e)
       PROVE  ExitTruth'
  BY <1>17 DEF StrayEnds, ExitTruth
<1>18. CASE UNCHANGED vars
  BY <1>18 DEF ExitTruth
<1>19. ASSUME NEW r \in RunIds, NEW mode \in Modes, StartRaises(r, mode)
       PROVE  ExitTruth'
  <2>1. /\ exit' = 1 /\ aborted' = TRUE /\ manifest' = manifest
        /\ inv' = inv + 1 /\ run' \in RunIds
    BY <1>19 DEF StartRaises, Begin
  <2>2. manifest[run'].inv \in Nat /\ manifest[run'].inv <= inv /\ inv \in Nat
    BY <2>1 DEF TypeInv, Manifests, WrittenInv
  <2>3. manifest'[run'].inv # inv'
    BY <2>1, <2>2
  <2> QED
    BY <2>1, <2>3 DEF ExitTruth
<1>20. CASE PublishRaises
  <2>1. /\ exit' = 1 /\ aborted' = TRUE /\ step # "idle"
        /\ ManifestWriteFails /\ UNCHANGED <<run, inv>>
    BY <1>20 DEF PublishRaises, ManifestWriteFails
  <2> QED
    BY <2>1, StillNotOwn DEF ExitTruth
<1> QED
  BY <1>1, <1>2, <1>3, <1>4, <1>5, <1>6, <1>7, <1>8, <1>9, <1>10,
     <1>11, <1>12, <1>13, <1>14, <1>15, <1>16, <1>17, <1>18,
     <1>19, <1>20 DEF Next, Sweep


\* Every step preserves the invariant.
LEMMA NextIInv == IInv /\ [Next]_vars => IInv'
BY TypeStep, StepStep, AuthorStep, FreshStep, OffsetStep, OutcomeStep,
   RefusedStep, WrittenStep, MergeStep, HonestStep, ExitStep, KeyspaceStep
   DEF IInv

\* The inductive invariant holds in every reachable state of the orchestrator.
THEOREM Invariance == Spec => []IInv
BY InitIInv, NextIInv, PTL DEF Spec

\* Two invocations never merge in one run directory unless the later one was
\* told to resume or an engine of the earlier one outlived its orchestrator,
\* for any number of invocations, run ids and cells (prepare_results_dir).
THEOREM NothingMergesInSilence == Spec => []NoSilentMerge
BY Invariance, PTL DEF IInv

\* The manifest calls no cell ok that did not succeed, except one cut off by
\* an exception that is not caught, or beside the records of an orphan.
THEOREM ManifestsAreHonest == Spec => []ManifestHonest
BY Invariance, PTL DEF IInv

\* Whatever is interrupted, killed or raises, 0 is the status of a sweep whose
\* last manifest is complete and without a failed cell, 1 that of one whose
\* last manifest is not, or of a traceback, and 2 says that nothing was run.
THEOREM ExitsAreTrue == Spec => []ExitTruth
BY Invariance, PTL DEF IInv

\* An engine that needs the server starts on an empty keyspace unless an
\* engine outlived its orchestrator.
THEOREM KeyspacesAreClean == Spec => []CleanKeyspace
BY Invariance, PTL DEF IInv
=============================================================================
