-------------------------- MODULE JobServiceProofs --------------------------
(***************************************************************************)
(* What JobService guarantees for every number of jobs and processes, every *)
(* limit and every number of crashes and database faults, proved.          *)
(*                                                                         *)
(* IInv is the inductive invariant.  Its parts beyond the properties say   *)
(* where a task can be (Placement), which ids are still unused (Freshness) *)
(* and what a row looks like while its task waits or runs (RowShape).      *)
(***************************************************************************)
EXTENDS RetrievalThreads, FiniteSetTheorems, TLAPS

\* Where a task, and an open transaction, can be.
Placement ==
    /\ \A j \in Jobs : task[j].pc = "none" <=> task[j].at = None
    /\ \A j \in Jobs : \A p \in Processes : task[j].at = p => Serving(p)
    /\ \A p \in Processes : inserting[p] # None => proc[p] = "ready"

\* Which ids are unused.
Freshness ==
    /\ \A j \in Jobs : row[j].status = "absent" => task[j].pc = "none" /\ row[j] = NoRow
    /\ \A p \in Processes : inserting[p] # None => row[inserting[p]] = NoRow
    /\ \A p, q \in Processes :
          inserting[p] # None /\ inserting[p] = inserting[q] => p = q

\* What a row looks like in each stage of its worker.
RowShape ==
    /\ \A j \in Jobs : Unfinished(j) => row[j].code = "none"
    /\ \A j \in Jobs : task[j].pc = "waiting" => row[j].status = "queued" \/ Terminal(j)
    /\ \A j \in Jobs : task[j].pc = "failing" => task[j].code # "none"

\* The inductive invariant.
IInv ==
    /\ TypeOK /\ Placement /\ Freshness /\ RowShape
    /\ WorkerOwnsRow /\ EndedIsTerminal /\ UnfinishedHasWorker
    /\ SlotsConserved

-----------------------------------------------------------------------------
\* Two different processes are two processes.
LEMMA TwoProcesses ==
    ASSUME NEW p \in Processes, NEW q \in Processes, p # q
    PROVE  Cardinality(Processes) > 1
<1>1. Cardinality({p} \cup {q}) = 2
  <2>1. IsFiniteSet({}) /\ Cardinality({}) = 0
    BY FS_EmptySet
  <2>2. IsFiniteSet({} \cup {p}) /\ Cardinality({} \cup {p}) = 1
    BY <2>1, FS_AddElement
  <2>3. {} \cup {p} = {p}
    OBVIOUS
  <2> QED
    BY <2>2, <2>3, FS_AddElement
<1>2. Cardinality({p} \cup {q}) <= Cardinality(Processes)
  <2>1. {p} \cup {q} \in SUBSET Processes
    OBVIOUS
  <2> QED
    BY <2>1, FS_Subset, JobServiceAssumption
<1>3. Cardinality(Processes) \in Nat
  BY FS_CardinalityType, JobServiceAssumption
<1> QED
  BY <1>1, <1>2, <1>3

\* The fields of the rows a transaction writes.
LEMMA RowFields ==
    /\ NoRow.status = "absent" /\ NoRow.code = "none"
    /\ QueuedRow.status = "queued" /\ QueuedRow.code = "none"
    /\ CompletedRow.status = "completed" /\ CompletedRow.code = "none"
    /\ \A s : /\ ProcessingRow(s).status = "processing" /\ ProcessingRow(s).stage = s
             /\ ProcessingRow(s).code = "none"
    /\ \A s, c : /\ FailedRow(s, c).status = "failed" /\ FailedRow(s, c).stage = s
                /\ FailedRow(s, c).code = c
<1> QED
  BY DEF NoRow, QueuedRow, CompletedRow, ProcessingRow, FailedRow

\* The service starts inside the invariant: no task, no row and every slot free.
LEMMA InitIInv == Init => IInv
<1> SUFFICES ASSUME Init PROVE IInv
  OBVIOUS
<1> USE JobServiceAssumption DEF Init
<1>1. TypeOK
  BY DEF TypeOK, NoRow, NoTask, Rows, Tasks, Stages, Statuses, Codes, WorkerCodes
<1>2. Placement /\ Freshness /\ RowShape
  BY DEF Placement, Freshness, RowShape, NoTask, NoRow, Unfinished, Terminal, Serving
<1>3. WorkerOwnsRow /\ EndedIsTerminal /\ UnfinishedHasWorker
  BY DEF WorkerOwnsRow, EndedIsTerminal, UnfinishedHasWorker, Holding, NoTask, NoRow, Serving,
         Unfinished
<1>4. SlotsConserved
  <2>1. \A p \in Processes : Holders(p) = {}
    BY DEF Holders, Holding, NoTask
  <2> QED
    BY <2>1, FS_EmptySet DEF SlotsConserved
<1> QED
  BY <1>1, <1>2, <1>3, <1>4 DEF IInv

-----------------------------------------------------------------------------
(***************************************************************************)
(* What the steps of a worker, and of create_queued, have in common.       *)
(***************************************************************************)

\* A task that fails keeps its place, and no other task changes.
LEMMA FailingTask ==
    ASSUME task \in [Jobs -> Tasks], NEW j \in Jobs, NEW s \in Stages, NEW c \in WorkerCodes,
           \/ task' = [task EXCEPT ![j] = [@ EXCEPT !.pc = "failing", !.code = c]]
           \/ task' = [task EXCEPT ![j] = [@ EXCEPT !.stage = s, !.pc = "failing", !.code = c]]
    PROVE  /\ task' \in [Jobs -> Tasks]
           /\ task'[j].at = task[j].at /\ task'[j].pc = "failing"
           /\ \A k \in Jobs : k # j => task'[k] = task[k]
<1>1. task[j] \in Tasks
  OBVIOUS
<1>2. /\ [task[j] EXCEPT !.pc = "failing", !.code = c] \in Tasks
      /\ [task[j] EXCEPT !.stage = s, !.pc = "failing", !.code = c] \in Tasks
  BY <1>1 DEF Tasks
<1>3. ASSUME NEW t \in Tasks, t.at = task[j].at, t.pc = "failing",
             task' = [task EXCEPT ![j] = t]
      PROVE  /\ task' \in [Jobs -> Tasks]
             /\ task'[j].at = task[j].at /\ task'[j].pc = "failing"
             /\ \A k \in Jobs : k # j => task'[k] = task[k]
  BY <1>3
<1>4. CASE task' = [task EXCEPT ![j] = [@ EXCEPT !.pc = "failing", !.code = c]]
  <2>1. /\ [task[j] EXCEPT !.pc = "failing", !.code = c].at = task[j].at
        /\ [task[j] EXCEPT !.pc = "failing", !.code = c].pc = "failing"
    BY <1>1 DEF Tasks
  <2> QED
    BY <1>2, <1>3, <1>4, <2>1, Zenon
<1>5. CASE task' = [task EXCEPT ![j] = [@ EXCEPT !.stage = s, !.pc = "failing", !.code = c]]
  <2>1. /\ [task[j] EXCEPT !.stage = s, !.pc = "failing", !.code = c].at = task[j].at
        /\ [task[j] EXCEPT !.stage = s, !.pc = "failing", !.code = c].pc = "failing"
    BY <1>1 DEF Tasks
  <2> QED
    BY <1>2, <1>3, <1>5, <2>1, Zenon
<1> QED
  BY <1>4, <1>5

\* A worker step changes the task and the row of one job, and nothing of its process
\* but the semaphore.
LEMMA WorkerEffect ==
    ASSUME TypeOK, Placement, NEW j \in Jobs, Worker(j) \/ WorkerFault(j)
    PROVE  /\ task[j].at \in Processes /\ Serving(task[j].at)
           /\ task[j].pc \in {"waiting", "running", "failing"}
           /\ task' \in [Jobs -> Tasks]
           /\ task'[j].at = task[j].at
           /\ task'[j].pc \in {"running", "failing", "ended"}
           /\ row' \in [Jobs -> Rows]
           /\ \A k \in Jobs : k # j => task'[k] = task[k] /\ row'[k] = row[k]
           /\ UNCHANGED <<proc, inserting, crashes>>
<1> USE JobServiceAssumption DEF TypeOK, Tasks, Rows, Stages, WorkerCodes, Codes, Statuses
<1>0. /\ task[j].pc \in {"waiting", "running", "failing"}
      /\ UNCHANGED <<proc, inserting, crashes>>
  BY DEF Worker, WorkerFault, StartIfQueued, SkipNotQueued, StartIfQueuedFails, MayStart,
     Running, ReportStage, ReportStageFails, RaiseError, CompleteIfProcessing, CompleteFails,
     FailIfNonterminal, FailFails, Fault
<1>1. task[j].at \in Processes /\ Serving(task[j].at)
  BY <1>0 DEF Placement
<1> DEFINE Effect ==
           /\ task' \in [Jobs -> Tasks]
           /\ task'[j].at = task[j].at
           /\ task'[j].pc \in {"running", "failing", "ended"}
           /\ row' \in [Jobs -> Rows]
           /\ \A k \in Jobs : k # j => task'[k] = task[k] /\ row'[k] = row[k]
<1>2. ASSUME StartIfQueued(j) PROVE Effect
  BY <1>2 DEF StartIfQueued, ProcessingRow
<1>3. ASSUME SkipNotQueued(j) PROVE Effect
  BY <1>3, <1>0 DEF SkipNotQueued
<1>4. ASSUME StartIfQueuedFails(j) PROVE Effect
  <2>1. row' = row \/ row' = [row EXCEPT ![j] = ProcessingRow("extracting_assumptions")]
    BY <1>4 DEF StartIfQueuedFails
  <2>2. /\ row' \in [Jobs -> Rows]
        /\ \A k \in Jobs : k # j => row'[k] = row[k]
    BY <2>1 DEF ProcessingRow
  <2>3. task' = [task EXCEPT ![j] = [@ EXCEPT !.pc = "ended"]]
    BY <1>4 DEF StartIfQueuedFails
  <2>4. /\ task' \in [Jobs -> Tasks]
        /\ task'[j].at = task[j].at /\ task'[j].pc = "ended"
        /\ \A k \in Jobs : k # j => task'[k] = task[k]
    BY <2>3
  <2> QED
    BY <2>2, <2>4
<1>5. ASSUME ReportStage(j) PROVE Effect
  BY <1>5, <1>0 DEF ReportStage, Running, ProcessingRow
<1>6. ASSUME ReportStageFails(j) PROVE Effect
  <2>1. PICK s \in Stages :
           task' = [task EXCEPT ![j] = [@ EXCEPT !.stage = s, !.pc = "failing",
                                                 !.code = "ANALYSIS_FAILED"]]
    BY <1>6 DEF ReportStageFails
  <2>2. row' = row
    BY <1>6 DEF ReportStageFails
  <2>3. /\ task' \in [Jobs -> Tasks]
        /\ task'[j].at = task[j].at /\ task'[j].pc = "failing"
        /\ \A k \in Jobs : k # j => task'[k] = task[k]
    BY <2>1, FailingTask
  <2> QED
    BY <2>2, <2>3
<1>7. ASSUME RaiseError(j) PROVE Effect
  <2>1. PICK c \in WorkerCodes :
           task' = [task EXCEPT ![j] = [@ EXCEPT !.pc = "failing", !.code = c]]
    BY <1>7 DEF RaiseError
  <2>2. row' = row
    BY <1>7 DEF RaiseError
  <2>3. /\ task' \in [Jobs -> Tasks]
        /\ task'[j].at = task[j].at /\ task'[j].pc = "failing"
        /\ \A k \in Jobs : k # j => task'[k] = task[k]
    BY <2>1, FailingTask
  <2> QED
    BY <2>2, <2>3
<1>8. ASSUME CompleteIfProcessing(j) PROVE Effect
  BY <1>8 DEF CompleteIfProcessing, CompletedRow
<1>9. ASSUME CompleteFails(j) PROVE Effect
  BY <1>9 DEF CompleteFails
<1>10. ASSUME FailIfNonterminal(j) PROVE Effect
  BY <1>10 DEF FailIfNonterminal, FailedRow
<1>11. ASSUME FailFails(j) PROVE Effect
  BY <1>11 DEF FailFails
<1> QED
  BY <1>0, <1>1, <1>2, <1>3, <1>4, <1>5, <1>6, <1>7, <1>8, <1>9, <1>10, <1>11
     DEF Worker, WorkerFault

\* A worker step, seen from its job: what happens to the row, to the task and to the
\* count of faults together.
StartMove(j) ==
    /\ task[j].pc = "waiting" /\ row[j].status = "queued"
    /\ task'[j].pc = "running" /\ task'[j].stage = "extracting_assumptions"
    /\ row'[j] = ProcessingRow("extracting_assumptions")
    /\ faults' = faults
SkipMove(j) ==
    /\ task[j].pc = "waiting" /\ row[j].status # "queued"
    /\ task'[j].pc = "ended"
    /\ row'[j] = row[j] /\ faults' = faults
ReportMove(j) ==
    /\ task[j].pc = "running" /\ task'[j].pc = "running"
    /\ row[j].status = "processing" => row'[j] = ProcessingRow(task'[j].stage)
    /\ row[j].status # "processing" => row'[j] = row[j]
    /\ faults' = faults
RaiseMove(j) ==
    /\ task[j].pc = "running" /\ task'[j].pc = "failing"
    /\ task'[j].stage = task[j].stage /\ task'[j].code \in WorkerCodes
    /\ row'[j] = row[j] /\ faults' = faults
CompleteMove(j) ==
    /\ task[j].pc = "running" /\ task'[j].pc = "ended"
    /\ row[j].status = "processing" => row'[j] = CompletedRow
    /\ row[j].status # "processing" => row'[j] = row[j]
    /\ faults' = faults
FailMove(j) ==
    /\ task[j].pc = "failing" /\ task'[j].pc = "ended"
    /\ row[j].status \in {"queued", "processing"} =>
          row'[j] = FailedRow(task[j].stage, task[j].code)
    /\ row[j].status \notin {"queued", "processing"} => row'[j] = row[j]
    /\ faults' = faults
FaultMove(j) ==
    /\ faults < MaxFaults /\ faults' = faults + 1
    /\ \/ /\ task[j].pc = "running" /\ task'[j].pc = "failing"
          /\ task'[j].code \in WorkerCodes /\ row'[j] = row[j]
       \/ task'[j].pc = "ended" /\ row'[j] = row[j]
       \/ /\ task[j].pc = "waiting" /\ row[j].status = "queued"
          /\ task'[j].pc = "ended" /\ row'[j] = ProcessingRow("extracting_assumptions")

\* A step of a worker is one of the moves above, seen from the job it works on.
LEMMA WorkerMoves ==
    ASSUME TypeOK, NEW j \in Jobs, Worker(j) \/ WorkerFault(j)
    PROVE  \/ StartMove(j) \/ SkipMove(j) \/ ReportMove(j) \/ RaiseMove(j)
           \/ CompleteMove(j) \/ FailMove(j) \/ FaultMove(j)
<1> USE DEF TypeOK, Tasks
<1>1. ASSUME StartIfQueued(j) PROVE StartMove(j)
  BY <1>1 DEF StartIfQueued, MayStart, StartMove
<1>2. ASSUME SkipNotQueued(j) PROVE SkipMove(j)
  BY <1>2 DEF SkipNotQueued, MayStart, SkipMove
<1>3. ASSUME StartIfQueuedFails(j) PROVE FaultMove(j)
  BY <1>3 DEF StartIfQueuedFails, MayStart, FaultMove, Fault
<1>4. ASSUME ReportStage(j) PROVE ReportMove(j)
  <2> PICK s \in Stages :
         /\ task' = [task EXCEPT ![j] = [@ EXCEPT !.stage = s]]
         /\ row' = [row EXCEPT ![j] = IF @.status = "processing" THEN ProcessingRow(s) ELSE @]
    BY <1>4 DEF ReportStage
  <2> QED
    BY <1>4 DEF ReportStage, Running, ReportMove
<1>5. ASSUME ReportStageFails(j) PROVE FaultMove(j)
  <2> PICK s \in Stages :
         task' = [task EXCEPT ![j] = [@ EXCEPT !.stage = s, !.pc = "failing",
                                               !.code = "ANALYSIS_FAILED"]]
    BY <1>5 DEF ReportStageFails
  <2>1. task'[j].pc = "failing" /\ task'[j].code = "ANALYSIS_FAILED"
    OBVIOUS
  <2> QED
    BY <1>5, <2>1 DEF ReportStageFails, Running, FaultMove, Fault, WorkerCodes
<1>6. ASSUME RaiseError(j) PROVE RaiseMove(j)
  <2> PICK c \in WorkerCodes :
         task' = [task EXCEPT ![j] = [@ EXCEPT !.pc = "failing", !.code = c]]
    BY <1>6 DEF RaiseError
  <2>1. task'[j].pc = "failing" /\ task'[j].code = c /\ task'[j].stage = task[j].stage
    OBVIOUS
  <2> QED
    BY <1>6, <2>1 DEF RaiseError, Running, RaiseMove
<1>7. ASSUME CompleteIfProcessing(j) PROVE CompleteMove(j)
  BY <1>7 DEF CompleteIfProcessing, Running, CompleteMove
<1>8. ASSUME CompleteFails(j) PROVE FaultMove(j)
  <2>1. task'[j].pc = "failing" /\ task'[j].code = "ANALYSIS_FAILED"
    BY <1>8 DEF CompleteFails
  <2> QED
    BY <1>8, <2>1 DEF CompleteFails, Running, FaultMove, Fault, WorkerCodes
<1>9. ASSUME FailIfNonterminal(j) PROVE FailMove(j)
  BY <1>9 DEF FailIfNonterminal, FailMove
<1>10. ASSUME FailFails(j) PROVE FaultMove(j)
  BY <1>10 DEF FailFails, FaultMove, Fault
<1> QED
  BY <1>1, <1>2, <1>3, <1>4, <1>5, <1>6, <1>7, <1>8, <1>9, <1>10 DEF Worker, WorkerFault

\* The commit of create_queued adds one row and one waiting task.
LEMMA InsertEffect ==
    ASSUME TypeOK, Placement, NEW p \in Processes, InsertQueued(p)
    PROVE  /\ inserting[p] \in Jobs /\ proc[p] = "ready"
           /\ row' \in [Jobs -> Rows] /\ row'[inserting[p]] = QueuedRow
           /\ task' \in [Jobs -> Tasks]
           /\ task'[inserting[p]] = WaitingTask(p)
           /\ \A k \in Jobs :
                 k # inserting[p] => task'[k] = task[k] /\ row'[k] = row[k]
           /\ inserting' = [inserting EXCEPT ![p] = None]
           /\ UNCHANGED <<proc, slots, crashes, faults>>
<1>1. inserting[p] \in Jobs /\ proc[p] = "ready"
  BY DEF InsertQueued, TypeOK, Placement
<1>2. QueuedRow \in Rows
  BY DEF QueuedRow, Rows, Statuses, Stages, Codes, WorkerCodes
<1>4. WaitingTask(p) \in Tasks
  BY DEF WaitingTask, Tasks, Stages
<1>5. /\ row' \in [Jobs -> Rows] /\ row'[inserting[p]] = QueuedRow
      /\ \A k \in Jobs : k # inserting[p] => row'[k] = row[k]
  BY <1>1, <1>2 DEF InsertQueued, TypeOK
<1>6. /\ task' \in [Jobs -> Tasks]
      /\ task'[inserting[p]] = WaitingTask(p)
      /\ \A k \in Jobs : k # inserting[p] => task'[k] = task[k]
  BY <1>1, <1>4 DEF InsertQueued, TypeOK
<1> QED
  BY <1>1, <1>5, <1>6 DEF InsertQueued

\* A reconciled row is typed, and unfinished rows become failed ones.
LEMMA ReconcileEffect ==
    ASSUME TypeOK, NEW p \in Processes, Start(p)
    PROVE  /\ row' \in [Jobs -> Rows]
           /\ \A j \in Jobs :
                 Unfinished(j) => row'[j] = FailedRow(row[j].stage, "WORKER_INTERRUPTED")
           /\ \A j \in Jobs : ~ Unfinished(j) => row'[j] = row[j]
           /\ UNCHANGED <<inserting, task, slots, crashes, faults>>
<1>1. ASSUME NEW r \in Rows
      PROVE  /\ Reconciled(r) \in Rows
             /\ Reconciled(r) = IF r.status \in {"queued", "processing"}
                                THEN FailedRow(r.stage, "WORKER_INTERRUPTED")
                                ELSE r
  BY DEF Reconciled, Rows, FailedRow, Statuses, Codes
<1> QED
  BY <1>1 DEF Start, TypeOK, Unfinished

\* The end of a process erases its tasks, and only them.
LEMMA CrashEffect ==
    ASSUME TypeOK, NEW p \in Processes, Crash(p)
    PROVE  /\ task' \in [Jobs -> Tasks]
           /\ \A j \in Jobs : task[j].at = p => task'[j] = NoTask
           /\ \A j \in Jobs : task[j].at # p => task'[j] = task[j]
           /\ inserting' = [inserting EXCEPT ![p] = None]
           /\ proc' = [proc EXCEPT ![p] = "down"]
           /\ slots' = [slots EXCEPT ![p] = MaxConcurrent]
           /\ UNCHANGED <<row, faults>>
<1>1. NoTask \in Tasks
  BY DEF NoTask, Tasks, Stages
<1> QED
  BY <1>1 DEF Crash, TypeOK
-----------------------------------------------------------------------------
(***************************************************************************)
(* Every step preserves each part of IInv.                                 *)
(***************************************************************************)
\* Tasks only exist in processes that serve, and only a ready process holds a transaction open.
LEMMA PlacementStep ==
    ASSUME TypeOK, Placement, Next
    PROVE  Placement'
<1> USE JobServiceAssumption
<1>1. ASSUME NEW p \in Processes, Start(p) \/ StartFails(p) PROVE Placement'
  BY <1>1 DEF Start, StartFails, TypeOK, Placement, Serving
<1>2. ASSUME NEW p \in Processes, Crash(p) PROVE Placement'
  BY <1>2, CrashEffect DEF TypeOK, NoTask, Placement, Serving
<1>3. ASSUME NEW p \in Processes, NEW j \in Jobs, CountQueued(p, j) PROVE Placement'
  BY <1>3 DEF CountQueued, TypeOK, Placement, Serving
<1>4. ASSUME NEW p \in Processes, InsertQueued(p) PROVE Placement'
  <2> DEFINE i == inserting[p]
  <2>0. /\ i \in Jobs /\ proc[p] = "ready"
        /\ task'[i] = WaitingTask(p)
        /\ \A k \in Jobs : k # i => task'[k] = task[k]
        /\ inserting' = [inserting EXCEPT ![p] = None]
        /\ proc' = proc
    BY <1>4, InsertEffect
  <2>1. task'[i].pc = "waiting" /\ task'[i].at = p
    BY <2>0 DEF WaitingTask
  <2> QED
    BY <2>0, <2>1 DEF TypeOK, Placement, Serving
<1>5. ASSUME NEW p \in Processes, InsertFails(p) PROVE Placement'
  BY <1>5 DEF InsertFails, TypeOK, Placement, Serving
<1>6. ASSUME NEW j \in Jobs, Worker(j) \/ WorkerFault(j) PROVE Placement'
  BY <1>6, WorkerEffect DEF TypeOK, Placement, Serving
<1> QED
  BY <1>1, <1>2, <1>3, <1>4, <1>5, <1>6 DEF Next

\* An id without a row has no task, and no two transactions insert the same id.
LEMMA FreshnessStep ==
    ASSUME TypeOK, Placement, Freshness, Next
    PROVE  Freshness'
<1> USE JobServiceAssumption
<1>1. ASSUME NEW p \in Processes, Start(p) PROVE Freshness'
  <2>1. \A j \in Jobs : row'[j].status = "absent" => row'[j] = row[j]
    <3> SUFFICES ASSUME NEW j \in Jobs, Unfinished(j) PROVE row'[j].status # "absent"
      BY <1>1, ReconcileEffect
    <3>1. row'[j] = FailedRow(row[j].stage, "WORKER_INTERRUPTED")
      BY <1>1, ReconcileEffect
    <3> QED
      BY <3>1 DEF FailedRow
  <2>2. \A j \in Jobs : row[j] = NoRow => row'[j] = NoRow
    BY <1>1, ReconcileEffect DEF Unfinished, NoRow
  <2> QED
    BY <1>1, <2>1, <2>2, ReconcileEffect DEF TypeOK, Freshness
<1>2. ASSUME NEW p \in Processes, StartFails(p) PROVE Freshness'
  BY <1>2 DEF StartFails, Freshness
<1>3. ASSUME NEW p \in Processes, Crash(p) PROVE Freshness'
  BY <1>3, CrashEffect DEF TypeOK, NoTask, Freshness
<1>4. ASSUME NEW p \in Processes, NEW j \in Jobs, CountQueued(p, j) PROVE Freshness'
  BY <1>4 DEF CountQueued, TypeOK, Freshness
<1>5. ASSUME NEW p \in Processes, InsertQueued(p) PROVE Freshness'
  BY <1>5, InsertEffect DEF TypeOK, QueuedRow, NoRow, Freshness
<1>6. ASSUME NEW p \in Processes, InsertFails(p) PROVE Freshness'
  BY <1>6 DEF InsertFails, TypeOK, Freshness
<1>7. ASSUME NEW j \in Jobs, Worker(j) \/ WorkerFault(j) PROVE Freshness'
  <2>1. row[j].status # "absent"
    BY <1>7, WorkerEffect DEF Freshness
  <2>2. row'[j].status # "absent"
    <3>1. \/ row'[j] = row[j]
          \/ \E s : row'[j] = ProcessingRow(s)
          \/ row'[j] = CompletedRow
          \/ row'[j] = FailedRow(task[j].stage, task[j].code)
      BY <1>7, WorkerMoves DEF StartMove, SkipMove, ReportMove, RaiseMove, CompleteMove,
         FailMove, FaultMove, Stages
    <3> QED
      BY <2>1, <3>1, RowFields
  <2> QED
    BY <1>7, <2>1, <2>2, WorkerEffect DEF NoRow, TypeOK, Freshness
<1> QED
  BY <1>1, <1>2, <1>3, <1>4, <1>5, <1>6, <1>7 DEF Next

\* A row keeps the shape its status and its task's place call for.
LEMMA RowShapeStep ==
    ASSUME TypeOK, Placement, Freshness, RowShape, Next
    PROVE  RowShape'
<1> USE JobServiceAssumption DEF RowShape, Unfinished, Terminal
<1>1. ASSUME NEW p \in Processes, Start(p) PROVE RowShape'
  BY <1>1, ReconcileEffect, RowFields DEF Unfinished
<1>2. ASSUME NEW p \in Processes, StartFails(p) PROVE RowShape'
  BY <1>2 DEF StartFails
<1>3. ASSUME NEW p \in Processes, Crash(p) PROVE RowShape'
  BY <1>3, CrashEffect DEF NoTask
<1>4. ASSUME NEW p \in Processes, NEW j \in Jobs, CountQueued(p, j) PROVE RowShape'
  BY <1>4 DEF CountQueued
<1>5. ASSUME NEW p \in Processes, InsertQueued(p) PROVE RowShape'
  <2>1. WaitingTask(p).pc = "waiting"
    BY DEF WaitingTask
  <2> QED
    BY <1>5, <2>1, InsertEffect, RowFields
<1>6. ASSUME NEW p \in Processes, InsertFails(p) PROVE RowShape'
  BY <1>6 DEF InsertFails
<1>7. ASSUME NEW j \in Jobs, Worker(j) \/ WorkerFault(j) PROVE RowShape'
  <2>1. \A k \in Jobs : k # j => task'[k] = task[k] /\ row'[k] = row[k]
    BY <1>7, WorkerEffect
  <2>2. row'[j].status \in {"queued", "processing"} => row'[j].code = "none"
    BY <1>7, WorkerMoves, RowFields DEF StartMove, SkipMove, ReportMove, RaiseMove,
       CompleteMove, FailMove, FaultMove
  <2>3. task'[j].pc # "waiting"
    BY <1>7, WorkerEffect
  <2>4. task'[j].pc = "failing" => task'[j].code # "none"
    BY <1>7, WorkerMoves DEF StartMove, SkipMove, ReportMove, RaiseMove, CompleteMove,
       FailMove, FaultMove, WorkerCodes
  <2> QED
    BY <2>1, <2>2, <2>3, <2>4
<1> QED
  BY <1>1, <1>2, <1>3, <1>4, <1>5, <1>6, <1>7 DEF Next

\* Only an overlapping start takes a row away from the worker that executes it.
LEMMA WorkerOwnsRowStep ==
    ASSUME TypeOK, Placement, Freshness, RowShape, WorkerOwnsRow, Next
    PROVE  WorkerOwnsRow'
<1> USE JobServiceAssumption DEF WorkerOwnsRow, Holding
<1>1. ASSUME NEW p \in Processes, Start(p) PROVE WorkerOwnsRow'
  <2> SUFFICES ASSUME NEW j \in Jobs, task[j].pc \in {"running", "failing"}
               PROVE  /\ row'[j].status = "failed" /\ row'[j].code = "WORKER_INTERRUPTED"
                      /\ Cardinality(Processes) > 1
    BY <1>1, ReconcileEffect
  <2>1. task[j].at \in Processes /\ Serving(task[j].at)
    BY DEF TypeOK, Tasks, Placement
  <2>2. task[j].at # p
    BY <1>1, <2>1 DEF Start, Serving
  <2>3. Cardinality(Processes) > 1
    BY <2>1, <2>2, TwoProcesses
  <2>4. row'[j].status = "failed" /\ row'[j].code = "WORKER_INTERRUPTED"
    BY <1>1, ReconcileEffect, RowFields DEF Unfinished
  <2> QED
    BY <2>3, <2>4
<1>2. ASSUME NEW p \in Processes, StartFails(p) PROVE WorkerOwnsRow'
  BY <1>2 DEF StartFails, Fault, TypeOK
<1>3. ASSUME NEW p \in Processes, Crash(p) PROVE WorkerOwnsRow'
  BY <1>3, CrashEffect DEF NoTask
<1>4. ASSUME NEW p \in Processes, NEW j \in Jobs, CountQueued(p, j) PROVE WorkerOwnsRow'
  BY <1>4 DEF CountQueued
<1>5. ASSUME NEW p \in Processes, InsertQueued(p) PROVE WorkerOwnsRow'
  <2>1. WaitingTask(p).pc = "waiting"
    BY DEF WaitingTask
  <2> QED
    BY <1>5, <2>1, InsertEffect
<1>6. ASSUME NEW p \in Processes, InsertFails(p) PROVE WorkerOwnsRow'
  BY <1>6 DEF InsertFails, Fault, TypeOK
<1>7. ASSUME NEW j \in Jobs, Worker(j) \/ WorkerFault(j) PROVE WorkerOwnsRow'
  <2>1. \A k \in Jobs : k # j => task'[k] = task[k] /\ row'[k] = row[k]
    BY <1>7, WorkerEffect
  <2>2. faults' = 0 => faults = 0 /\ ~ FaultMove(j)
    BY <1>7, WorkerMoves DEF StartMove, SkipMove, ReportMove, RaiseMove, CompleteMove, FailMove,
       FaultMove, TypeOK
  <2>3. task'[j].pc \in {"running", "failing"} =>
           \/ row'[j].status = "processing" /\ (faults' = 0 => row'[j].stage = task'[j].stage)
           \/ /\ row'[j].status = "failed" /\ row'[j].code = "WORKER_INTERRUPTED"
              /\ Cardinality(Processes) > 1
    BY <1>7, <2>2, WorkerMoves, RowFields DEF StartMove, SkipMove, ReportMove, RaiseMove,
       CompleteMove, FailMove, FaultMove
  <2> QED
    BY <2>1, <2>2, <2>3
<1> QED
  BY <1>1, <1>2, <1>3, <1>4, <1>5, <1>6, <1>7 DEF Next

\* Without a fault, the last thing a worker does to its row is make it terminal.
LEMMA EndedIsTerminalStep ==
    ASSUME TypeOK, Placement, Freshness, RowShape, WorkerOwnsRow, EndedIsTerminal, Next
    PROVE  EndedIsTerminal'
<1> USE JobServiceAssumption DEF EndedIsTerminal, Terminal
<1>1. ASSUME NEW p \in Processes, Start(p) PROVE EndedIsTerminal'
  BY <1>1, ReconcileEffect DEF Unfinished
<1>2. ASSUME NEW p \in Processes, StartFails(p) PROVE EndedIsTerminal'
  BY <1>2 DEF StartFails, Fault, TypeOK
<1>3. ASSUME NEW p \in Processes, Crash(p) PROVE EndedIsTerminal'
  BY <1>3, CrashEffect DEF NoTask
<1>4. ASSUME NEW p \in Processes, NEW j \in Jobs, CountQueued(p, j) PROVE EndedIsTerminal'
  BY <1>4 DEF CountQueued
<1>5. ASSUME NEW p \in Processes, InsertQueued(p) PROVE EndedIsTerminal'
  <2>1. WaitingTask(p).pc = "waiting"
    BY DEF WaitingTask
  <2> QED
    BY <1>5, <2>1, InsertEffect
<1>6. ASSUME NEW p \in Processes, InsertFails(p) PROVE EndedIsTerminal'
  BY <1>6 DEF InsertFails, Fault, TypeOK
<1>7. ASSUME NEW j \in Jobs, Worker(j) \/ WorkerFault(j) PROVE EndedIsTerminal'
  <2>1. \A k \in Jobs : k # j => task'[k] = task[k] /\ row'[k] = row[k]
    BY <1>7, WorkerEffect
  <2>2. faults' = 0 => faults = 0 /\ ~ FaultMove(j)
    BY <1>7, WorkerMoves DEF StartMove, SkipMove, ReportMove, RaiseMove, CompleteMove, FailMove,
       FaultMove, TypeOK
  <2>3. row[j].status = "queued" \/ Terminal(j) \/ task[j].pc # "waiting"
    BY DEF RowShape
  <2>4. row[j].status \in {"processing", "failed"} \/ task[j].pc \notin {"running", "failing"}
    BY DEF WorkerOwnsRow, Holding
  <2>5. faults' = 0 /\ task'[j].pc = "ended" => row'[j].status \in {"completed", "failed"}
    BY <1>7, <2>2, <2>3, <2>4, WorkerMoves, RowFields DEF StartMove, SkipMove, ReportMove,
       RaiseMove, CompleteMove, FailMove
  <2> QED
    BY <2>1, <2>2, <2>5
<1> QED
  BY <1>1, <1>2, <1>3, <1>4, <1>5, <1>6, <1>7 DEF Next

\* Without a fault, a row becomes unfinished only together with a task, and loses the task
\* only when it is terminal.
LEMMA UnfinishedHasWorkerStep ==
    ASSUME TypeOK, Placement, Freshness, RowShape, WorkerOwnsRow, UnfinishedHasWorker,
           EndedIsTerminal', Next
    PROVE  UnfinishedHasWorker'
<1> USE JobServiceAssumption DEF UnfinishedHasWorker, Unfinished
<1>1. ASSUME NEW p \in Processes, Start(p) PROVE UnfinishedHasWorker'
  BY <1>1, ReconcileEffect, RowFields
<1>2. ASSUME NEW p \in Processes, StartFails(p) PROVE UnfinishedHasWorker'
  BY <1>2 DEF StartFails, Fault, TypeOK
<1>3. ASSUME NEW p \in Processes, Crash(p) PROVE UnfinishedHasWorker'
  BY <1>3, CrashEffect DEF Serving, TypeOK
<1>4. ASSUME NEW p \in Processes, NEW j \in Jobs, CountQueued(p, j)
      PROVE  UnfinishedHasWorker'
  BY <1>4 DEF CountQueued, Serving
<1>5. ASSUME NEW p \in Processes, InsertQueued(p) PROVE UnfinishedHasWorker'
  <2>1. WaitingTask(p).pc = "waiting"
    BY DEF WaitingTask
  <2> QED
    BY <1>5, <2>1, InsertEffect DEF Serving
<1>6. ASSUME NEW p \in Processes, InsertFails(p) PROVE UnfinishedHasWorker'
  BY <1>6 DEF InsertFails, Fault, TypeOK
<1>7. ASSUME NEW j \in Jobs, Worker(j) \/ WorkerFault(j) PROVE UnfinishedHasWorker'
  <2>1. /\ \A k \in Jobs : k # j => task'[k] = task[k] /\ row'[k] = row[k]
        /\ task'[j].pc \in {"running", "failing", "ended"}
        /\ proc' = proc
    BY <1>7, WorkerEffect
  <2>2. faults' = 0 => faults = 0
    BY <1>7, WorkerMoves DEF StartMove, SkipMove, ReportMove, RaiseMove, CompleteMove, FailMove,
       FaultMove, TypeOK
  <2>3. faults' = 0 /\ task'[j].pc = "ended" => row'[j].status \notin {"queued", "processing"}
    BY DEF EndedIsTerminal, Terminal
  <2> QED
    BY <2>1, <2>2, <2>3 DEF Serving
<1> QED
  BY <1>1, <1>2, <1>3, <1>4, <1>5, <1>6, <1>7 DEF Next
-----------------------------------------------------------------------------
(***************************************************************************)
(* The semaphore: its value changes exactly when its set of holders does.  *)
(***************************************************************************)
\* The workers holding a slot can be counted.
LEMMA HoldersFinite ==
    \A p \in Processes : IsFiniteSet(Holders(p)) /\ Cardinality(Holders(p)) \in Nat
<1> TAKE p \in Processes
<1>1. Holders(p) \in SUBSET Jobs
  BY DEF Holders
<1>2. IsFiniteSet(Holders(p))
  BY <1>1, FS_Subset, JobServiceAssumption
<1> QED
  BY <1>2, FS_CardinalityType

\* The queued rows can be counted.
LEMMA QueuedFinite == IsFiniteSet(Queued) /\ Cardinality(Queued) \in Nat
<1>1. Queued \in SUBSET Jobs
  BY DEF Queued
<1>2. IsFiniteSet(Queued)
  BY <1>1, FS_Subset, JobServiceAssumption
<1> QED
  BY <1>2, FS_CardinalityType

\* The semaphore in a worker step.
LEMMA SlotMoves ==
    ASSUME TypeOK, Placement, NEW j \in Jobs, Worker(j) \/ WorkerFault(j)
    PROVE  \/ /\ ~ Holding(task[j]) /\ Holding(task'[j]) /\ slots[task[j].at] > 0
              /\ slots' = [slots EXCEPT ![task[j].at] = @ - 1]
           \/ /\ Holding(task[j]) /\ ~ Holding(task'[j])
              /\ slots' = [slots EXCEPT ![task[j].at] = @ + 1]
           \/ /\ Holding(task[j]) = Holding(task'[j])
              /\ slots' = slots
<1> USE DEF Holding, TypeOK
<1>1. CASE StartIfQueued(j)
  <2>1. StartMove(j) \/ task'[j].pc = "running"
    BY <1>1 DEF StartIfQueued, Tasks
  <2> QED
    BY <1>1, <2>1 DEF StartIfQueued, MayStart, StartMove
<1>2. CASE SkipNotQueued(j)
  BY <1>2 DEF SkipNotQueued, MayStart
<1>3. CASE StartIfQueuedFails(j)
  BY <1>3 DEF StartIfQueuedFails, MayStart
<1>4. CASE ReportStage(j)
  <2> PICK s \in Stages : task' = [task EXCEPT ![j] = [@ EXCEPT !.stage = s]]
    BY <1>4 DEF ReportStage
  <2>1. task[j].pc = "running" /\ slots' = slots
    BY <1>4 DEF ReportStage, Running
  <2>2. task'[j].pc = "running"
    BY <2>1 DEF Tasks
  <2> QED
    BY <2>1, <2>2
<1>8. CASE ReportStageFails(j)
  <2> PICK s \in Stages :
         task' = [task EXCEPT ![j] = [@ EXCEPT !.stage = s, !.pc = "failing",
                                               !.code = "ANALYSIS_FAILED"]]
    BY <1>8 DEF ReportStageFails
  <2>1. task[j].pc = "running" /\ slots' = slots
    BY <1>8 DEF ReportStageFails, Running
  <2>2. task'[j].pc = "failing"
    BY DEF Tasks
  <2> QED
    BY <2>1, <2>2
<1>9. CASE RaiseError(j)
  <2> PICK c \in WorkerCodes :
         task' = [task EXCEPT ![j] = [@ EXCEPT !.pc = "failing", !.code = c]]
    BY <1>9 DEF RaiseError
  <2>1. task[j].pc = "running" /\ slots' = slots
    BY <1>9 DEF RaiseError, Running
  <2>2. task'[j].pc = "failing"
    BY DEF Tasks
  <2> QED
    BY <2>1, <2>2
<1>10. CASE CompleteFails(j)
  BY <1>10 DEF CompleteFails, Running, Tasks
<1>5. CASE CompleteIfProcessing(j)
  BY <1>5 DEF CompleteIfProcessing, Running
<1>6. CASE FailIfNonterminal(j)
  BY <1>6 DEF FailIfNonterminal
<1>7. CASE FailFails(j)
  BY <1>7 DEF FailFails
<1> QED
  BY <1>1, <1>2, <1>3, <1>4, <1>5, <1>6, <1>7, <1>8, <1>9, <1>10 DEF Worker, WorkerFault

\* A slot changes hands only between the semaphore and a worker.
LEMMA SlotsConservedStep ==
    ASSUME TypeOK, Placement, Freshness, SlotsConserved, Next
    PROVE  SlotsConserved' /\ slots' \in [Processes -> 0 .. MaxConcurrent]
<1> USE JobServiceAssumption
<1>0. \A p \in Processes : slots[p] \in 0 .. MaxConcurrent
  BY DEF TypeOK
<1>1. ASSUME slots' = slots, \A p \in Processes : Holders(p)' = Holders(p)
      PROVE  SlotsConserved' /\ slots' \in [Processes -> 0 .. MaxConcurrent]
  BY <1>1 DEF SlotsConserved, TypeOK
<1>2. ASSUME NEW p \in Processes,
             Start(p) \/ StartFails(p) \/ InsertFails(p) \/ \E j \in Jobs : CountQueued(p, j)
      PROVE  SlotsConserved' /\ slots' \in [Processes -> 0 .. MaxConcurrent]
  <2>1. slots' = slots /\ task' = task
    BY <1>2 DEF Start, StartFails, InsertFails, CountQueued
  <2> QED
    BY <1>1, <2>1 DEF Holders
<1>3. ASSUME NEW p \in Processes, Crash(p)
      PROVE  SlotsConserved' /\ slots' \in [Processes -> 0 .. MaxConcurrent]
  <2>1. Holders(p)' = {}
    BY <1>3, CrashEffect DEF Holders, Holding, NoTask
  <2>2. \A q \in Processes : q # p => Holders(q)' = Holders(q)
    BY <1>3, CrashEffect DEF Holders, Holding, NoTask
  <2>3. /\ slots' \in [Processes -> 0 .. MaxConcurrent] /\ slots'[p] = MaxConcurrent
        /\ \A q \in Processes : q # p => slots'[q] = slots[q]
    BY <1>3, CrashEffect DEF TypeOK
  <2>4. Cardinality(Holders(p)') = 0
    BY <2>1, FS_EmptySet
  <2>5. ASSUME NEW q \in Processes
        PROVE  slots'[q] + Cardinality(Holders(q)') = MaxConcurrent
    BY <2>2, <2>3, <2>4 DEF SlotsConserved
  <2> QED
    BY <2>3, <2>5 DEF SlotsConserved
<1>4. ASSUME NEW p \in Processes, InsertQueued(p)
      PROVE  SlotsConserved' /\ slots' \in [Processes -> 0 .. MaxConcurrent]
  <2>1. /\ inserting[p] \in Jobs /\ task'[inserting[p]] = WaitingTask(p)
        /\ \A k \in Jobs : k # inserting[p] => task'[k] = task[k]
        /\ slots' = slots
    BY <1>4, InsertEffect
  <2>2. task[inserting[p]].pc = "none"
    BY <2>1, <1>4, RowFields DEF Freshness, InsertQueued
  <2>3. \A k \in Jobs : \A q \in Processes :
           (task[k].at = q /\ Holding(task[k])) <=> (task'[k].at = q /\ Holding(task'[k]))
    BY <2>1, <2>2 DEF Holding, WaitingTask
  <2> QED
    BY <1>1, <2>1, <2>3 DEF Holders
<1>5. ASSUME NEW j \in Jobs, Worker(j) \/ WorkerFault(j)
      PROVE  SlotsConserved' /\ slots' \in [Processes -> 0 .. MaxConcurrent]
  <2> PICK p \in Processes : p = task[j].at
    BY <1>5, WorkerEffect
  <2>1. /\ p \in Processes /\ task'[j].at = p
        /\ \A k \in Jobs : k # j => task'[k] = task[k]
    BY <1>5, WorkerEffect
  <2>2. \A q \in Processes : q # p => Holders(q)' = Holders(q)
    BY <2>1 DEF Holders
  <2>3. CASE /\ ~ Holding(task[j]) /\ Holding(task'[j]) /\ slots[p] > 0
             /\ slots' = [slots EXCEPT ![p] = @ - 1]
    <3>1. Holders(p)' = Holders(p) \cup {j} /\ j \notin Holders(p)
      BY <2>1, <2>3 DEF Holders
    <3>2. Cardinality(Holders(p)') = Cardinality(Holders(p)) + 1
      BY <2>1, <3>1, HoldersFinite, FS_AddElement
    <3>3. \A q \in Processes : slots'[q] = IF q = p THEN slots[p] - 1 ELSE slots[q]
      BY <2>1, <2>3 DEF TypeOK
    <3>4. slots[p] + Cardinality(Holders(p)) = MaxConcurrent /\ Cardinality(Holders(p)) \in Nat
      BY <2>1, HoldersFinite DEF SlotsConserved
    <3>5. slots' \in [Processes -> 0 .. MaxConcurrent]
      BY <1>0, <2>1, <2>3, <3>4 DEF TypeOK
    <3>6. ASSUME NEW q \in Processes
          PROVE  slots'[q] + Cardinality(Holders(q)') = MaxConcurrent
      <4>1. CASE q = p
        BY <1>0, <2>1, <3>2, <3>3, <3>4, <4>1
      <4>2. CASE q # p
        BY <2>2, <3>3, <4>2 DEF SlotsConserved
      <4> QED
        BY <4>1, <4>2
    <3> QED
      BY <3>5, <3>6 DEF SlotsConserved
  <2>4. CASE /\ Holding(task[j]) /\ ~ Holding(task'[j])
             /\ slots' = [slots EXCEPT ![p] = @ + 1]
    <3>1. Holders(p)' = Holders(p) \ {j} /\ j \in Holders(p)
      BY <2>1, <2>4 DEF Holders
    <3>2. /\ Cardinality(Holders(p)') = Cardinality(Holders(p)) - 1
          /\ Cardinality(Holders(p)') \in Nat
      BY <2>1, <3>1, HoldersFinite, FS_RemoveElement, FS_CardinalityType
    <3>3. \A q \in Processes : slots'[q] = IF q = p THEN slots[p] + 1 ELSE slots[q]
      BY <2>1, <2>4 DEF TypeOK
    <3>4. slots[p] + Cardinality(Holders(p)) = MaxConcurrent /\ Cardinality(Holders(p)) \in Nat
      BY <2>1, HoldersFinite DEF SlotsConserved
    <3>5. slots' \in [Processes -> 0 .. MaxConcurrent]
      BY <1>0, <2>1, <2>4, <3>2, <3>4 DEF TypeOK
    <3>6. ASSUME NEW q \in Processes
          PROVE  slots'[q] + Cardinality(Holders(q)') = MaxConcurrent
      <4>1. CASE q = p
        BY <1>0, <2>1, <3>2, <3>3, <3>4, <4>1
      <4>2. CASE q # p
        BY <2>2, <3>3, <4>2 DEF SlotsConserved
      <4> QED
        BY <4>1, <4>2
    <3> QED
      BY <3>5, <3>6 DEF SlotsConserved
  <2>5. CASE /\ Holding(task[j]) = Holding(task'[j])
             /\ slots' = slots
    <3>1. Holders(p)' = Holders(p)
      BY <2>1, <2>5 DEF Holders
    <3>2. \A q \in Processes : Holders(q)' = Holders(q)
      BY <2>2, <3>1
    <3> QED
      BY <1>1, <2>5, <3>2
  <2> QED
    BY <1>5, <2>3, <2>4, <2>5, SlotMoves
<1> QED
  BY <1>2, <1>3, <1>4, <1>5 DEF Next
-----------------------------------------------------------------------------
\* Every step keeps the types.
LEMMA TypeOKStep ==
    ASSUME TypeOK, Placement, Freshness, SlotsConserved, Next
    PROVE  TypeOK'
<1> USE JobServiceAssumption
<1>1. slots' \in [Processes -> 0 .. MaxConcurrent]
  BY SlotsConservedStep
<1>2. ASSUME NEW p \in Processes, Start(p) PROVE TypeOK'
  BY <1>1, <1>2, ReconcileEffect DEF Start, TypeOK
<1>3. ASSUME NEW p \in Processes, StartFails(p) \/ InsertFails(p) PROVE TypeOK'
  BY <1>1, <1>3 DEF StartFails, InsertFails, Fault, TypeOK
<1>4. ASSUME NEW p \in Processes, Crash(p) PROVE TypeOK'
  <2>1. crashes' \in 0 .. MaxCrashes
    BY <1>4 DEF Crash, TypeOK
  <2>2. /\ proc' \in [Processes -> {"down", "no_database", "no_evidence", "ready"}]
        /\ inserting' \in [Processes -> Jobs \cup {None}]
    BY <1>4, CrashEffect DEF TypeOK
  <2> QED
    BY <1>1, <1>4, <2>1, <2>2, CrashEffect DEF TypeOK
<1>5. ASSUME NEW p \in Processes, NEW j \in Jobs, CountQueued(p, j) PROVE TypeOK'
  BY <1>1, <1>5 DEF CountQueued, TypeOK
<1>6. ASSUME NEW p \in Processes, InsertQueued(p) PROVE TypeOK'
  BY <1>1, <1>6, InsertEffect DEF TypeOK
<1>7. ASSUME NEW j \in Jobs, Worker(j) \/ WorkerFault(j) PROVE TypeOK'
  <2>1. faults' \in 0 .. MaxFaults
    BY <1>7, WorkerMoves DEF StartMove, SkipMove, ReportMove, RaiseMove, CompleteMove, FailMove,
       FaultMove, TypeOK
  <2> QED
    BY <1>1, <1>7, <2>1, WorkerEffect DEF TypeOK
<1> QED
  BY <1>2, <1>3, <1>4, <1>5, <1>6, <1>7 DEF Next

\* IInv is inductive.
LEMMA IInvStep == IInv /\ [Next]_vars => IInv'
<1>1. ASSUME IInv, Next PROVE IInv'
  <2> USE <1>1 DEF IInv
  <2>1. TypeOK' /\ SlotsConserved'
    BY TypeOKStep, SlotsConservedStep
  <2>2. Placement' /\ Freshness' /\ RowShape'
    BY PlacementStep, FreshnessStep, RowShapeStep
  <2>3. WorkerOwnsRow' /\ EndedIsTerminal'
    BY WorkerOwnsRowStep, EndedIsTerminalStep
  <2>4. UnfinishedHasWorker'
    BY <2>3, UnfinishedHasWorkerStep
  <2> QED
    BY <2>1, <2>2, <2>3, <2>4
<1>2. ASSUME IInv, UNCHANGED vars PROVE IInv'
  BY <1>2 DEF IInv, vars, TypeOK, Placement, Freshness, RowShape, WorkerOwnsRow,
     EndedIsTerminal, UnfinishedHasWorker, SlotsConserved, Serving, Unfinished, Terminal, Holders,
     Holding
<1> QED
  BY <1>1, <1>2

\* IInv holds in every state of the service.
LEMMA Invariance == Spec => []IInv
  BY InitIInv, IInvStep, PTL DEF Spec

\* Every state of the service is well typed, for every size of it.
THEOREM TypeCorrect == Spec => []TypeOK
<1>1. IInv => TypeOK
  BY DEF IInv
<1> QED
  BY <1>1, Invariance, PTL

\* No way a worker ends, and no crash, leaks or duplicates a slot of the semaphore
\* (AnalysisJobService._run).
THEOREM SlotsNeverLeak == Spec => []SlotsConserved
<1>1. IInv => SlotsConserved
  BY DEF IInv
<1> QED
  BY <1>1, Invariance, PTL

\* While the database answers, a worker that ends leaves its analysis terminal.
THEOREM WorkersEndTerminal == Spec => []EndedIsTerminal
<1>1. IInv => EndedIsTerminal
  BY DEF IInv
<1> QED
  BY <1>1, Invariance, PTL

\* While the database answers and all processes serve, nothing unfinished is orphaned.
THEOREM NoOrphans == Spec => []UnfinishedHasWorker
<1>1. IInv => UnfinishedHasWorker
  BY DEF IInv
<1> QED
  BY <1>1, Invariance, PTL

\* An executing worker finds its row processing, or reconciled by another process.
THEOREM RowsHaveOneOwner == Spec => []WorkerOwnsRow
<1>1. IInv => WorkerOwnsRow
  BY DEF IInv
<1> QED
  BY <1>1, Invariance, PTL
-----------------------------------------------------------------------------
(***************************************************************************)
(* The bound of the queue.  A transaction that has counted has reserved a  *)
(* place: queued rows and open transactions are counted together.          *)
(***************************************************************************)
QueueInv ==
    /\ Cardinality(Inserting) <= Writers
    /\ Cardinality(Queued) + Cardinality(Inserting) <= MaxQueued + (Writers - 1)

\* The open transactions can be counted.
LEMMA InsertingFinite == IsFiniteSet(Inserting) /\ Cardinality(Inserting) \in Nat
<1>1. Inserting \in SUBSET Processes
  BY DEF Inserting
<1>2. IsFiniteSet(Inserting)
  BY <1>1, FS_Subset, JobServiceAssumption
<1> QED
  BY <1>2, FS_CardinalityType

\* At least one transaction can be open.
LEMMA WritersPositive == Writers \in Nat /\ Writers >= 1
<1>1. Cardinality(Processes) \in Nat /\ Cardinality(Processes) # 0
  BY FS_CardinalityType, FS_EmptySet, JobServiceAssumption
<1> QED
  BY <1>1 DEF Writers

\* Fewer queued rows and fewer open transactions keep the bound.
LEMMA QueueShrinks ==
    ASSUME QueueInv, Queued' \subseteq Queued, Inserting' \subseteq Inserting
    PROVE  QueueInv'
<1>1. /\ Cardinality(Queued') <= Cardinality(Queued)
      /\ Cardinality(Inserting') <= Cardinality(Inserting)
  BY QueuedFinite, InsertingFinite, FS_Subset
<1>2. Cardinality(Queued') \in Nat /\ Cardinality(Inserting') \in Nat
  BY QueuedFinite, InsertingFinite, FS_Subset, FS_CardinalityType
<1> QED
  BY <1>1, <1>2, QueuedFinite, InsertingFinite, WritersPositive, JobServiceAssumption
     DEF QueueInv, Writers

\* A place is reserved when create_queued counts, and never used twice.
LEMMA QueueStep ==
    ASSUME TypeOK, Placement, Freshness, QueueInv, Next
    PROVE  QueueInv'
<1> USE JobServiceAssumption
<1>1. ASSUME NEW p \in Processes, Start(p) PROVE QueueInv'
  <2>1. Queued' \subseteq Queued
    BY <1>1, ReconcileEffect, RowFields DEF Queued, Unfinished
  <2> QED
    BY <1>1, <2>1, QueueShrinks DEF Start, Inserting
<1>2. ASSUME NEW p \in Processes, StartFails(p) \/ InsertFails(p) PROVE QueueInv'
  BY <1>2, QueueShrinks DEF StartFails, InsertFails, Queued, Inserting, TypeOK
<1>3. ASSUME NEW p \in Processes, Crash(p) PROVE QueueInv'
  BY <1>3, QueueShrinks DEF Crash, Queued, Inserting, TypeOK
<1>4. ASSUME NEW p \in Processes, NEW j \in Jobs, CountQueued(p, j) PROVE QueueInv'
  <2>1. Inserting' = Inserting \cup {p} /\ p \notin Inserting /\ Queued' = Queued
    BY <1>4 DEF CountQueued, LoopFree, Inserting, Queued, TypeOK
  <2>2. Cardinality(Inserting') = Cardinality(Inserting) + 1
    BY <2>1, InsertingFinite, FS_AddElement
  <2>3. Cardinality(Inserting') <= Writers
    <3>1. CASE Dialect = "sqlite"
      <4>1. Inserting = {}
        BY <1>4, <2>1, <3>1 DEF CountQueued, CanWrite
      <4> QED
        BY <2>2, <3>1, <4>1, FS_EmptySet DEF Writers
    <3>2. CASE Dialect # "sqlite"
      <4>1. Inserting' \in SUBSET Processes
        BY <2>1 DEF Inserting
      <4> QED
        BY <3>2, <4>1, FS_Subset DEF Writers
    <3> QED
      BY <3>1, <3>2
  <2>4. Cardinality(Queued) < MaxQueued
    BY <1>4 DEF CountQueued
  <2>5. Cardinality(Queued') + Cardinality(Inserting') <= MaxQueued + (Writers - 1)
    BY <2>1, <2>2, <2>3, <2>4, QueuedFinite, InsertingFinite, WritersPositive
  <2> QED
    BY <2>3, <2>5 DEF QueueInv, Writers
<1>5. ASSUME NEW p \in Processes, InsertQueued(p) PROVE QueueInv'
  <2> PICK i \in Jobs : i = inserting[p]
    BY <1>5, InsertEffect
  <2>1. Queued' = Queued \cup {i} /\ i \notin Queued
    <3>1. row[i].status = "absent" /\ row'[i].status = "queued"
      BY <1>5, InsertEffect, RowFields DEF Freshness, InsertQueued
    <3>2. \A k \in Jobs : k # i => row'[k] = row[k]
      BY <1>5, InsertEffect
    <3> QED
      BY <3>1, <3>2 DEF Queued
  <2>2. Inserting' = Inserting \ {p} /\ p \in Inserting
    BY <1>5, InsertEffect DEF Inserting, InsertQueued, TypeOK
  <2>3. /\ Cardinality(Queued') = Cardinality(Queued) + 1
        /\ Cardinality(Inserting') = Cardinality(Inserting) - 1
    BY <2>1, <2>2, QueuedFinite, InsertingFinite, FS_AddElement, FS_RemoveElement
  <2> QED
    BY <2>3, QueuedFinite, InsertingFinite, WritersPositive DEF QueueInv, Writers
<1>6. ASSUME NEW j \in Jobs, Worker(j) \/ WorkerFault(j) PROVE QueueInv'
  <2>1. row'[j].status = "queued" => row[j].status = "queued"
    BY <1>6, WorkerMoves, RowFields DEF StartMove, SkipMove, ReportMove, RaiseMove,
       CompleteMove, FailMove, FaultMove
  <2>2. Queued' \subseteq Queued /\ Inserting' = Inserting
    BY <1>6, <2>1, WorkerEffect DEF Queued, Inserting
  <2> QED
    BY <2>2, QueueShrinks
<1> QED
  BY <1>1, <1>2, <1>3, <1>4, <1>5, <1>6 DEF Next

\* The reservation holds in every state of the service.
LEMMA QueueInvariance == Spec => []QueueInv
<1>1. Init => QueueInv
  <2>1. Init => Queued = {} /\ Inserting = {}
    BY RowFields DEF Init, Queued, Inserting
  <2>2. Cardinality({}) = 0
    BY FS_EmptySet
  <2> QED
    BY <2>1, <2>2, WritersPositive, JobServiceAssumption DEF QueueInv
<1>2. IInv /\ QueueInv /\ [Next]_vars => QueueInv'
  <2>1. ASSUME IInv, QueueInv, Next PROVE QueueInv'
    BY <2>1, QueueStep DEF IInv
  <2>2. ASSUME QueueInv, UNCHANGED vars PROVE QueueInv'
    BY <2>2 DEF QueueInv, Queued, Inserting, Writers, vars
  <2> QED
    BY <2>1, <2>2
<1> QED
  BY <1>1, <1>2, Invariance, PTL DEF Spec

\* create_queued keeps the queue within max_queued on SQLite, and within the number of
\* processes minus one of it where counting and inserting are not serialized.
THEOREM QueueIsBounded == Spec => []QueueBound
<1>1. QueueInv => QueueBound
  BY QueuedFinite, InsertingFinite, WritersPositive, JobServiceAssumption
     DEF QueueInv, QueueBound
<1> QED
  BY <1>1, QueueInvariance, PTL
-----------------------------------------------------------------------------
\* Whoever comes late, a worker whose row was reconciled or a second reconciliation,
\* leaves a terminal row as it is.
THEOREM TerminalForever == Spec => TerminalRowsImmutable
<1> DEFINE Stays == \A j \in Jobs : Terminal(j) => row'[j] = row[j]
<1>1. ASSUME IInv, Next PROVE Stays
  <2> USE <1>1, JobServiceAssumption DEF IInv, Terminal
  <2>1. ASSUME NEW p \in Processes, Start(p) PROVE Stays
    BY <2>1, ReconcileEffect DEF Unfinished
  <2>2. ASSUME NEW p \in Processes, StartFails(p) \/ Crash(p) \/ InsertFails(p) PROVE Stays
    BY <2>2 DEF StartFails, Crash, InsertFails
  <2>3. ASSUME NEW p \in Processes, NEW j \in Jobs, CountQueued(p, j) PROVE Stays
    BY <2>3 DEF CountQueued
  <2>4. ASSUME NEW p \in Processes, InsertQueued(p) PROVE Stays
    BY <2>4, InsertEffect, RowFields DEF Freshness, InsertQueued
  <2>5. ASSUME NEW j \in Jobs, Worker(j) \/ WorkerFault(j) PROVE Stays
    <3>1. Terminal(j) => row'[j] = row[j]
      BY <2>5, WorkerMoves DEF StartMove, SkipMove, ReportMove, RaiseMove, CompleteMove,
         FailMove, FaultMove
    <3> QED
      BY <2>5, <3>1, WorkerEffect
  <2> QED
    BY <2>1, <2>2, <2>3, <2>4, <2>5 DEF Next
<1>2. UNCHANGED vars => Stays
  BY DEF vars
<1>3. IInv /\ [Next]_vars => [Stays]_vars
  BY <1>1, <1>2
<1> QED
  BY <1>3, Invariance, PTL DEF Spec, TerminalRowsImmutable
-----------------------------------------------------------------------------
(***************************************************************************)
(* Nobody waits in a circle.  The synchronous sections of a process        *)
(* exclude each other, so the one that is in progress finds the event loop *)
(* free; and without one, a slot that is taken is held by a task that does.*)
(***************************************************************************)
InSync(j) == task[j].pc = "running" /\ task[j].stage \in SyncStages

LoopExclusive ==
    \A j, k \in Jobs : j # k /\ InSync(j) /\ InSync(k) => task[j].at # task[k].at

\* A synchronous section only begins where no other is in progress.
LEMMA SyncBegins ==
    ASSUME TypeOK, NEW j \in Jobs, Worker(j) \/ WorkerFault(j), InSync(j)'
    PROVE  LoopFree(task[j].at, j)
<1>1. CASE StartIfQueued(j)
  <2>1. task'[j].stage = "extracting_assumptions"
    BY <1>1 DEF StartIfQueued, TypeOK, Tasks
  <2> QED
    BY <2>1 DEF InSync, SyncStages
<1>2. CASE ReportStage(j)
  BY <1>2 DEF ReportStage, Running
<1>3. ASSUME ~StartIfQueued(j), ~ReportStage(j) PROVE task'[j].pc # "running"
  <2>1. CASE RaiseError(j)
    <3>1. PICK c \in WorkerCodes :
             task' = [task EXCEPT ![j] = [@ EXCEPT !.pc = "failing", !.code = c]]
      BY <2>1 DEF RaiseError
    <3> QED
      BY <3>1 DEF TypeOK, Tasks
  <2>3. CASE ReportStageFails(j)
    <3>1. PICK s \in Stages :
             task' = [task EXCEPT ![j] = [@ EXCEPT !.stage = s, !.pc = "failing",
                                                   !.code = "ANALYSIS_FAILED"]]
      BY <2>3 DEF ReportStageFails
    <3> QED
      BY <3>1 DEF TypeOK, Tasks
  <2>2. CASE \/ SkipNotQueued(j) \/ CompleteIfProcessing(j) \/ FailIfNonterminal(j)
             \/ StartIfQueuedFails(j) \/ CompleteFails(j) \/ FailFails(j)
    BY <2>2 DEF SkipNotQueued, CompleteIfProcessing, FailIfNonterminal, StartIfQueuedFails,
                CompleteFails, FailFails, TypeOK, Tasks
  <2> QED
    BY <1>3, <2>1, <2>2, <2>3 DEF Worker, WorkerFault
<1> QED
  BY <1>1, <1>2, <1>3 DEF InSync

\* Every step keeps the synchronous sections apart.
LEMMA LoopExclusiveStep ==
    ASSUME TypeOK, Placement, LoopExclusive, Next
    PROVE  LoopExclusive'
<1> USE DEF LoopExclusive, InSync
<1>1. ASSUME task' = task PROVE LoopExclusive'
  BY <1>1
<1>2. ASSUME NEW p \in Processes, Crash(p) PROVE LoopExclusive'
  <2>1. NoTask.pc # "running"
    BY DEF NoTask
  <2> QED
    BY <1>2, <2>1, CrashEffect
<1>3. ASSUME NEW p \in Processes, InsertQueued(p) PROVE LoopExclusive'
  <2>1. WaitingTask(p).pc # "running"
    BY DEF WaitingTask
  <2> QED
    BY <1>3, <2>1, InsertEffect
<1>4. ASSUME NEW j \in Jobs, Worker(j) \/ WorkerFault(j) PROVE LoopExclusive'
  <2>1. task'[j].at = task[j].at /\ \A k \in Jobs : k # j => task'[k] = task[k]
    BY <1>4, WorkerEffect
  <2>2. InSync(j)' => \A k \in Jobs \ {j} : InSync(k) => task[k].at # task[j].at
    BY <1>4, SyncBegins DEF LoopFree
  <2> QED
    BY <2>1, <2>2
<1> QED
  BY <1>1, <1>2, <1>3, <1>4 DEF Next, Start, StartFails, CountQueued, InsertFails

\* Synchronous sections of one process never overlap.
LEMMA LoopInvariance == Spec => [](IInv /\ LoopExclusive)
<1>1. Init => LoopExclusive
  <2>1. NoTask.pc # "running"
    BY DEF NoTask
  <2> QED
    BY <2>1 DEF Init, LoopExclusive, InSync
<1>2. IInv /\ LoopExclusive /\ [Next]_vars => LoopExclusive'
  <2>1. IInv /\ LoopExclusive /\ Next => LoopExclusive'
    BY LoopExclusiveStep DEF IInv
  <2>2. LoopExclusive /\ UNCHANGED vars => LoopExclusive'
    BY DEF vars, LoopExclusive, InSync
  <2> QED
    BY <2>1, <2>2
<1> QED
  BY <1>1, <1>2, InitIInv, IInvStep, PTL DEF Spec

\* The semaphore, the event loop and the write lock never hold up everybody: whatever an
\* analysis waits for, a task of its process or an open transaction can move.
THEOREM NobodyIsStuck == Spec => []NoDeadlock
<1>1. ASSUME IInv, LoopExclusive PROVE NoDeadlock
  <2> SUFFICES ASSUME Inserting = {}, NEW j \in Jobs, AtWork(j)
               PROVE  \E k \in Jobs : task[k].at = task[j].at /\ CanMove(k)
    BY <1>1 DEF NoDeadlock, IInv
  <2> DEFINE p == task[j].at
  <2>1. p \in Processes /\ inserting[p] = None
    BY <1>1 DEF IInv, TypeOK, Tasks, Placement, AtWork, Inserting
  <2>2. \A q \in Processes : CanWrite(q)
    BY DEF CanWrite
  <2> HIDE DEF p
  <2>3. CASE \E k \in Jobs : task[k].at = p /\ InSync(k)
    <3>1. PICK k \in Jobs : task[k].at = p /\ InSync(k)
      BY <2>3
    <3>2. LoopFree(p, k)
      BY <1>1, <2>1, <3>1 DEF LoopFree, LoopExclusive, InSync
    <3>3. CanMove(k)
      BY <2>1, <2>2, <3>1, <3>2 DEF CanMove, AtWork, InSync
    <3> QED
      BY <3>1, <3>3 DEF p
  <2>4. CASE ~\E k \in Jobs : task[k].at = p /\ InSync(k)
    <3>1. \A k \in Jobs : LoopFree(p, k)
      BY <2>1, <2>4 DEF LoopFree, InSync
    <3>2. CASE Holding(task[j]) \/ slots[p] > 0
      BY <2>1, <2>2, <3>1, <3>2 DEF CanMove, AtWork, Holding, p
    <3>3. CASE slots[p] = 0
      <4>1. Holders(p) # {}
        BY <1>1, <2>1, <3>3, FS_EmptySet, JobServiceAssumption DEF IInv, SlotsConserved
      <4>2. PICK k \in Jobs : task[k].at = p /\ Holding(task[k])
        BY <4>1 DEF Holders
      <4>3. CanMove(k)
        BY <2>1, <2>2, <3>1, <4>2 DEF CanMove, AtWork, Holding
      <4> QED
        BY <4>2, <4>3 DEF p
    <3> QED
      BY <1>1, <2>1, <3>2, <3>3 DEF IInv, TypeOK
  <2> QED
    BY <2>3, <2>4
<1> QED
  BY <1>1, LoopInvariance, PTL
-----------------------------------------------------------------------------
(***************************************************************************)
(* How much of its work a task has before it.                              *)
(***************************************************************************)
StagesLeft(s) ==
    CASE s = "extracting_assumptions" -> 5
      [] s = "retrieving_evidence" -> 4
      [] s = "calculating_financials" -> 3
      [] s = "reviewing_evidence" -> 2
      [] s = "building_report" -> 1
      [] OTHER -> 0
StepsLeft(t) ==
    CASE t.pc = "waiting" -> 8
      [] t.pc = "running" -> 2 + StagesLeft(t.stage)
      [] t.pc = "failing" -> 1
      [] OTHER -> 0

\* The steps a task has left, by what it does.
LEMMA StepsBounded ==
    ASSUME NEW t
    PROVE  /\ StagesLeft(t.stage) \in 0 .. 5
           /\ t.pc = "waiting" => StepsLeft(t) = 8
           /\ t.pc = "running" => StepsLeft(t) = 2 + StagesLeft(t.stage)
           /\ t.pc = "failing" => StepsLeft(t) = 1
           /\ t.pc \in {"none", "ended"} => StepsLeft(t) = 0
<1>1. StagesLeft(t.stage) \in 0 .. 5
  BY DEF StagesLeft
<1> QED
  BY <1>1 DEF StepsLeft

\* Each step of a worker brings its end nearer: through the stages in their order, or out of
\* them, so that a worker takes eight steps at most, however many analyses there are.
Advances(j) ==
    AtWork(j) => task'[j] = task[j] \/ StepsLeft(task'[j]) < StepsLeft(task[j])

LEMMA WorkerAdvances ==
    ASSUME TypeOK, NEW j \in Jobs, Worker(j) \/ WorkerFault(j)
    PROVE  StepsLeft(task'[j]) < StepsLeft(task[j])
<1>1. CASE ReportStage(j)
  <2>1. PICK s \in Stages :
           /\ <<task[j].stage, s>> \in StageOrder
           /\ task' = [task EXCEPT ![j] = [@ EXCEPT !.stage = s]]
    BY <1>1 DEF ReportStage
  <2>2. task[j].pc = "running" /\ task'[j].pc = "running" /\ task'[j].stage = s
    BY <1>1, <2>1 DEF ReportStage, Running, TypeOK, Tasks
  <2>3. StagesLeft(s) < StagesLeft(task[j].stage)
    BY <2>1 DEF StageOrder, StagesLeft
  <2> QED
    BY <2>2, <2>3, StepsBounded
<1>2. CASE ~ReportStage(j)
  <2> DEFINE Leaves == \/ task[j].pc = "waiting" /\ task'[j].pc \in {"running", "ended"}
                       \/ task[j].pc = "running" /\ task'[j].pc \in {"failing", "ended"}
                       \/ task[j].pc = "failing" /\ task'[j].pc = "ended"
  <2>1. Leaves
    <3>1. CASE RaiseError(j)
      <4>1. PICK c \in WorkerCodes :
               task' = [task EXCEPT ![j] = [@ EXCEPT !.pc = "failing", !.code = c]]
        BY <3>1 DEF RaiseError
      <4> QED
        BY <3>1, <4>1 DEF RaiseError, Running, TypeOK, Tasks
    <3>2. CASE ReportStageFails(j)
      <4>1. PICK s \in Stages :
               task' = [task EXCEPT ![j] = [@ EXCEPT !.stage = s, !.pc = "failing",
                                                     !.code = "ANALYSIS_FAILED"]]
        BY <3>2 DEF ReportStageFails
      <4> QED
        BY <3>2, <4>1 DEF ReportStageFails, Running, TypeOK, Tasks
    <3>3. CASE StartIfQueued(j) \/ SkipNotQueued(j) \/ StartIfQueuedFails(j)
      BY <3>3 DEF StartIfQueued, SkipNotQueued, StartIfQueuedFails, MayStart, TypeOK, Tasks
    <3>4. CASE CompleteIfProcessing(j) \/ CompleteFails(j)
      <4>1. /\ task[j].pc = "running"
            /\ \/ task' = [task EXCEPT ![j].pc = "ended"]
               \/ task' = [task EXCEPT ![j] = [@ EXCEPT !.pc = "failing",
                                                       !.code = "ANALYSIS_FAILED"]]
        BY <3>4 DEF CompleteIfProcessing, CompleteFails, Running
      <4> QED
        BY <4>1 DEF TypeOK, Tasks
    <3>5. CASE FailIfNonterminal(j) \/ FailFails(j)
      BY <3>5 DEF FailIfNonterminal, FailFails, TypeOK, Tasks
    <3> HIDE DEF Leaves
    <3> QED
      BY <1>2, <3>1, <3>2, <3>3, <3>4, <3>5 DEF Worker, WorkerFault
  <2>2. /\ StagesLeft(task[j].stage) \in 0 .. 5 /\ StagesLeft(task'[j].stage) \in 0 .. 5
    BY StepsBounded
  <2> QED
    BY <2>1, <2>2, StepsBounded
<1> QED
  BY <1>1, <1>2

\* No analysis starts over: a worker goes through its stages at most once, and no error,
\* restart or transaction of another process takes it back (AnalysisJobService._run).
THEOREM WorkersAdvance == Spec => [][\A j \in Jobs : Advances(j)]_vars
<1>1. ASSUME IInv, Next PROVE \A j \in Jobs : Advances(j)
  <2> SUFFICES ASSUME NEW j \in Jobs, AtWork(j), task'[j] # task[j]
               PROVE  StepsLeft(task'[j]) < StepsLeft(task[j])
    BY DEF Advances
  <2>1. ASSUME NEW p \in Processes, Crash(p)
        PROVE  StepsLeft(task'[j]) < StepsLeft(task[j])
    <3>1. task'[j].pc = "none"
      BY <1>1, <2>1, CrashEffect DEF IInv, NoTask
    <3>2. StepsLeft(task'[j]) = 0 /\ StagesLeft(task[j].stage) \in 0 .. 5
      BY <3>1, StepsBounded
    <3> QED
      BY <3>2, StepsBounded DEF AtWork
  <2>2. ASSUME NEW p \in Processes, InsertQueued(p) PROVE FALSE
    <3>1. j = inserting[p]
      BY <1>1, <2>2, InsertEffect DEF IInv
    <3>2. row[j].status = "absent"
      BY <1>1, <2>2, <3>1, RowFields DEF IInv, Freshness, InsertQueued
    <3> QED
      BY <1>1, <3>2 DEF IInv, Freshness, AtWork
  <2>3. ASSUME NEW k \in Jobs, Worker(k) \/ WorkerFault(k)
        PROVE  StepsLeft(task'[j]) < StepsLeft(task[j])
    <3>1. j = k
      BY <1>1, <2>3, WorkerEffect DEF IInv
    <3> QED
      BY <1>1, <2>3, <3>1, WorkerAdvances DEF IInv
  <2> QED
    BY <1>1, <2>1, <2>2, <2>3 DEF Next, Start, StartFails, CountQueued, InsertFails
<1>2. UNCHANGED vars => [\A j \in Jobs : Advances(j)]_vars
  OBVIOUS
<1>3. IInv /\ [Next]_vars => [\A j \in Jobs : Advances(j)]_vars
  BY <1>1, <1>2
<1> QED
  BY <1>3, Invariance, PTL DEF Spec
-----------------------------------------------------------------------------
(***************************************************************************)
(* The refinement.  A reconciliation is the abstract interruption, an      *)
(* insert the acceptance, and each worker step one abstract step of its    *)
(* job or none.                                                            *)
(***************************************************************************)
Status == [j \in Jobs |-> row[j].status]
Code == [j \in Jobs |-> row[j].code]

\* A step of one job, seen through the refinement mapping.
LEMMA OneJobMapped ==
    ASSUME NEW j \in Jobs, \A k \in Jobs : k # j => row'[k] = row[k]
    PROVE  /\ Status' = [Status EXCEPT ![j] = row'[j].status]
           /\ Code' = [Code EXCEPT ![j] = row'[j].code]
           /\ row'[j].code = row[j].code => Code' = Code
BY DEF Status, Code

\* The service does what the abstract lifecycle allows, and nothing else.
THEOREM LifecycleImplemented == Spec => ImplementsLifecycle
<1> USE JobServiceAssumption
<1>1. Init => Lifecycle!Init
  BY RowFields DEF Init, Lifecycle!Init
<1>2. ASSUME IInv, QueueInv, Next PROVE [Lifecycle!Next]_(Lifecycle!vars)
  <2> USE <1>2 DEF IInv
  <2>0. ASSUME row' = row PROVE UNCHANGED Lifecycle!vars
    BY <2>0 DEF Lifecycle!vars
  <2>1. ASSUME NEW p \in Processes, Start(p) PROVE [Lifecycle!Next]_(Lifecycle!vars)
    <3>1. \A j \in Jobs :
             /\ row[j].status \in {"queued", "processing"} =>
                   row'[j].status = "failed" /\ row'[j].code = "WORKER_INTERRUPTED"
             /\ row[j].status \notin {"queued", "processing"} => row'[j] = row[j]
      BY <2>1, ReconcileEffect, RowFields DEF Unfinished
    <3>2. Lifecycle!Unfinished = {j \in Jobs : row[j].status \in {"queued", "processing"}}
      BY DEF Lifecycle!Unfinished
    <3>3. CASE Lifecycle!Unfinished = {}
      BY <3>1, <3>2, <3>3 DEF Lifecycle!vars
    <3>4. CASE Lifecycle!Unfinished # {}
      <4>1. Lifecycle!Interrupt
        BY <3>1, <3>2, <3>4 DEF Lifecycle!Interrupt
      <4> QED
        BY <4>1 DEF Lifecycle!Next
    <3> QED
      BY <3>3, <3>4
  <2>2. ASSUME NEW p \in Processes, StartFails(p) \/ Crash(p) \/ InsertFails(p)
        PROVE  [Lifecycle!Next]_(Lifecycle!vars)
    BY <2>0, <2>2 DEF StartFails, Crash, InsertFails
  <2>3. ASSUME NEW p \in Processes, NEW j \in Jobs, CountQueued(p, j)
        PROVE  [Lifecycle!Next]_(Lifecycle!vars)
    BY <2>0, <2>3 DEF CountQueued
  <2>4. ASSUME NEW p \in Processes, InsertQueued(p) PROVE [Lifecycle!Next]_(Lifecycle!vars)
    <3> PICK i \in Jobs : i = inserting[p]
      BY <2>4, InsertEffect
    <3>1. /\ row[i] = NoRow /\ row'[i] = QueuedRow
          /\ \A k \in Jobs : k # i => row'[k] = row[k]
      BY <2>4, InsertEffect DEF Freshness, InsertQueued
    <3>2. Cardinality(Queued) < MaxQueued + (Writers - 1)
      <4>1. p \in Inserting
        BY <2>4 DEF Inserting, InsertQueued
      <4>2. Cardinality(Inserting) # 0
        BY <4>1, InsertingFinite, FS_EmptySet
      <4> QED
        BY <4>2, QueuedFinite, InsertingFinite, WritersPositive DEF QueueInv
    <3>3. Lifecycle!Queued = Queued
      BY DEF Lifecycle!Queued, Queued
    <3>4. Lifecycle!Accept(i)
      <4>1. row[i].status = "absent" /\ row'[i].status = "queued" /\ row'[i].code = row[i].code
        BY <3>1, RowFields
      <4>2. Status' = [Status EXCEPT ![i] = "queued"] /\ Code' = Code
        BY <3>1, <4>1, OneJobMapped
      <4>3. Lifecycle!Cardinality(Queued) = Cardinality(Queued)
        BY Zenon DEF Lifecycle!Cardinality, Cardinality
      <4>4. Lifecycle!Cardinality(Lifecycle!Queued) < MaxQueued + (Writers - 1)
        BY <3>2, <3>3, <4>3
      <4>5. Status[i] = "absent"
        BY <4>1 DEF Status
      <4> QED
        BY <4>2, <4>4, <4>5, Zenon DEF Lifecycle!Accept, Status, Code
    <3> QED
      BY <3>4 DEF Lifecycle!Next
  <2>5. ASSUME NEW j \in Jobs, Worker(j) \/ WorkerFault(j)
        PROVE  [Lifecycle!Next]_(Lifecycle!vars)
    <3>1. /\ \A k \in Jobs : k # j => row'[k] = row[k]
          /\ row' \in [Jobs -> Rows] /\ row \in [Jobs -> Rows]
      BY <2>5, WorkerEffect DEF TypeOK
    <3>2. CASE row'[j] = row[j]
      BY <3>1, <3>2 DEF Lifecycle!vars
    <3>3. CASE row[j].status = "queued" /\ row'[j] = ProcessingRow("extracting_assumptions")
      <4>1. Lifecycle!Start(j)
        <5>1. row'[j].status = "processing" /\ row'[j].code = row[j].code
          BY <3>3, RowFields DEF RowShape, Unfinished
        <5>2. Status' = [Status EXCEPT ![j] = "processing"] /\ Code' = Code
          BY <3>1, <5>1, OneJobMapped
        <5> QED
          BY <3>3, <5>2 DEF Lifecycle!Start, Status, Code
      <4> QED
        BY <4>1 DEF Lifecycle!Next
    <3>4. CASE row[j].status = "processing" /\ \E s : row'[j] = ProcessingRow(s)
      BY <3>1, <3>4, RowFields DEF Lifecycle!vars, RowShape, Unfinished
    <3>5. CASE row[j].status = "processing" /\ row'[j] = CompletedRow
      <4>1. Lifecycle!Publish(j)
        <5>1. row'[j].status = "completed" /\ row'[j].code = row[j].code
          BY <3>5, RowFields DEF RowShape, Unfinished
        <5>2. Status' = [Status EXCEPT ![j] = "completed"] /\ Code' = Code
          BY <3>1, <5>1, OneJobMapped
        <5> QED
          BY <3>5, <5>2 DEF Lifecycle!Publish, Status, Code
      <4> QED
        BY <4>1 DEF Lifecycle!Next
    <3>6. CASE /\ row[j].status \in {"queued", "processing"} /\ task[j].pc = "failing"
               /\ row'[j] = FailedRow(task[j].stage, task[j].code)
      <4>1. row[j].status = "processing"
        BY <3>6 DEF WorkerOwnsRow, Holding
      <4>2. task[j].code \in WorkerCodes
        BY <3>6 DEF RowShape, TypeOK, Tasks
      <4>3. Lifecycle!Fail(j)
        <5>1. row'[j].status = "failed" /\ row'[j].code \in WorkerCodes
          BY <3>6, <4>2, RowFields
        <5>2. /\ Status' = [Status EXCEPT ![j] = "failed"]
              /\ Code' = [Code EXCEPT ![j] = row'[j].code]
          BY <3>1, <5>1, OneJobMapped
        <5> QED
          BY <4>1, <5>1, <5>2
             DEF Lifecycle!Fail, Status, Code, Lifecycle!WorkerCodes, WorkerCodes
      <4> QED
        BY <4>3 DEF Lifecycle!Next
    <3> QED
      BY <2>5, <3>2, <3>3, <3>4, <3>5, <3>6, WorkerMoves DEF StartMove, SkipMove, ReportMove,
         RaiseMove, CompleteMove, FailMove, FaultMove
  <2> QED
    BY <2>1, <2>2, <2>3, <2>4, <2>5 DEF Next
<1>3. UNCHANGED vars => UNCHANGED Lifecycle!vars
  BY DEF vars, Lifecycle!vars
<1>4. IInv /\ QueueInv /\ [Next]_vars => [Lifecycle!Next]_(Lifecycle!vars)
  BY <1>2, <1>3
<1> QED
  BY <1>1, <1>4, Invariance, QueueInvariance, PTL DEF Spec, ImplementsLifecycle, Lifecycle!Spec
-----------------------------------------------------------------------------
(***************************************************************************)
(* The job service with its threads is the job service: what is proved of  *)
(* the one holds of the other.  And whoever still awaits a thread holds a  *)
(* slot, which bounds what a waiting retrieval can blame on the others.    *)
(***************************************************************************)
Calls == {"none", "queued", "working", "returned", "abandoned", "cancelled", "over"}

\* A retrieval that is queued or worked on is awaited by a pipeline that runs.
Awaited ==
    /\ retrieval \in [Jobs -> Calls]
    /\ \A j \in Jobs : retrieval[j] \in {"queued", "working"} =>
          task[j].pc = "running" /\ task[j].stage = "retrieving_evidence"

TInv == IInv /\ Awaited
-----------------------------------------------------------------------------
\* Every step of the threaded service is a step of the service or leaves it alone.
LEMMA ThreadedStepIsStep == [ThreadedNext]_allVars => [Next]_vars
<1>1. ASSUME NEW j \in Jobs, ThreadedWorker(j) PROVE Worker(j) \/ UNCHANGED vars
  BY <1>1 DEF ThreadedWorker, Worker, Submit
<1>2. ASSUME NEW j \in Jobs,
             \/ ReportStageFails(j)
             \/ StartIfQueuedFails(j) \/ CompleteFails(j) \/ FailFails(j)
      PROVE  WorkerFault(j)
  BY <1>2 DEF WorkerFault
<1>3. ASSUME NEW p \in Processes, Take(p) PROVE UNCHANGED vars
  BY <1>3 DEF Take
<1>4. ASSUME NEW j \in Jobs, Finish(j) PROVE UNCHANGED vars
  BY <1>4 DEF Finish
<1>5. UNCHANGED allVars => UNCHANGED vars
  BY DEF allVars
<1> QED
  BY <1>1, <1>2, <1>3, <1>4, <1>5, Zenon DEF ThreadedNext, Next

\* The threads neither add to nor take from what the service itself does.
THEOREM ThreadsImplementService == ThreadedSpec => Spec
<1>1. ThreadsInit => Init
  BY DEF ThreadsInit
<1> QED
  BY <1>1, ThreadedStepIsStep, PTL DEF ThreadedSpec, Spec
-----------------------------------------------------------------------------
\* A step that gives retrieval calls no new "queued" or "working" one, and stops the
\* pipeline of none that keeps such a call.
LEMMA AwaitedKept ==
    ASSUME Awaited, retrieval' \in [Jobs -> Calls],
           \A j \in Jobs : retrieval'[j] \in {"queued", "working"} =>
              retrieval[j] \in {"queued", "working"} /\ task'[j] = task[j]
    PROVE  Awaited'
BY DEF Awaited

\* A worker that does not leave the retrieval leaves it awaited.
LEMMA OtherWorker ==
    ASSUME TypeOK, Placement, Awaited, NEW j \in Jobs, UNCHANGED threads,
           \/ StartIfQueued(j) \/ SkipNotQueued(j) \/ StartIfQueuedFails(j)
           \/ CompleteIfProcessing(j) \/ CompleteFails(j)
           \/ FailIfNonterminal(j) \/ FailFails(j)
    PROVE  Awaited'
<1>1. retrieval[j] \notin {"queued", "working"}
  BY DEF Awaited, StartIfQueued, SkipNotQueued, StartIfQueuedFails, MayStart,
         CompleteIfProcessing, CompleteFails, Running, FailIfNonterminal, FailFails
<1>2. \A k \in Jobs : k # j => task'[k] = task[k]
  <2>1. Worker(j) \/ WorkerFault(j)
    BY DEF Worker, WorkerFault
  <2> QED
    BY <2>1, WorkerEffect
<1> QED
  BY <1>1, <1>2, AwaitedKept DEF threads, Awaited

LEMMA AwaitedStep ==
    ASSUME TypeOK, Placement, Freshness, Awaited, ThreadedNext
    PROVE  Awaited'
<1> USE JobServiceAssumption
<1>1. ASSUME NEW p \in Processes, Take(p) PROVE Awaited'
  BY <1>1 DEF Take, Awaited, Calls, vars
<1>2. ASSUME NEW p \in Processes, Crash(p), ThreadsLost(p) PROVE Awaited'
  <2>1. retrieval' = [j \in Jobs |-> IF task[j].at = p THEN "none" ELSE retrieval[j]]
    BY <1>2 DEF ThreadsLost
  <2>2. \A j \in Jobs : task[j].at # p => task'[j] = task[j]
    BY <1>2, CrashEffect
  <2>3. retrieval' \in [Jobs -> Calls]
    BY <2>1 DEF Awaited, Calls
  <2>4. \A j \in Jobs : retrieval'[j] \in {"queued", "working"} =>
           retrieval[j] \in {"queued", "working"} /\ task'[j] = task[j]
    BY <2>1, <2>2
  <2> QED
    BY <2>3, <2>4, AwaitedKept
<1>3. ASSUME NEW p \in Processes, UNCHANGED threads,
             \/ Start(p) \/ StartFails(p) \/ InsertFails(p)
             \/ \E j \in Jobs : CountQueued(p, j)
      PROVE  Awaited'
  <2>1. task' = task
    BY <1>3 DEF Start, StartFails, InsertFails, CountQueued
  <2> QED
    BY <1>3, <2>1, AwaitedKept DEF threads, Awaited
<1>4. ASSUME NEW p \in Processes, UNCHANGED threads, InsertQueued(p) PROVE Awaited'
  <2>1. inserting[p] \in Jobs /\ \A k \in Jobs : k # inserting[p] => task'[k] = task[k]
    BY <1>4, InsertEffect
  <2>2. task[inserting[p]].pc # "running"
    <3>1. row[inserting[p]].status = "absent"
      BY <1>4, <2>1, RowFields DEF InsertQueued, Freshness
    <3> QED
      BY <2>1, <3>1 DEF Freshness
  <2> QED
    BY <1>4, <2>1, <2>2, AwaitedKept DEF threads, Awaited
<1>5. ASSUME NEW j \in Jobs, Submit(j) PROVE Awaited'
  BY <1>5 DEF Submit, Running, Awaited, Calls, vars
<1>6. ASSUME NEW j \in Jobs, Finish(j) PROVE Awaited'
  BY <1>6 DEF Finish, Awaited, Calls, vars
<1>7. ASSUME NEW j \in Jobs, ReportStage(j) \/ ReportStageFails(j), Received(j)
      PROVE  Awaited'
  <2>1. \A k \in Jobs : k # j => task'[k] = task[k]
    BY <1>7, WorkerEffect DEF Worker, WorkerFault
  <2>2. retrieval[j] \notin {"queued", "working"}
    BY <1>7 DEF Received, Awaited
  <2>3. retrieval' = [retrieval EXCEPT ![j] = IF @ = "returned" THEN "over" ELSE @]
    BY <1>7 DEF Received
  <2> QED
    BY <2>1, <2>2, <2>3, AwaitedKept DEF Awaited, Calls
<1>8. ASSUME NEW j \in Jobs, RaiseError(j), Interrupted(j) PROVE Awaited'
  <2>1. \A k \in Jobs : k # j => task'[k] = task[k]
    BY <1>8, WorkerEffect DEF Worker
  <2>2. retrieval' = [retrieval EXCEPT ![j] = Cancelled(@)]
    BY <1>8 DEF Interrupted
  <2>3. Cancelled(retrieval[j]) \in Calls \ {"queued", "working"}
    BY DEF Cancelled, Awaited, Calls
  <2> QED
    BY <2>1, <2>2, <2>3, AwaitedKept DEF Awaited, Calls
<1> QED
  BY <1>1, <1>2, <1>3, <1>4, <1>5, <1>6, <1>7, <1>8, OtherWorker
     DEF ThreadedNext, ThreadedWorker

LEMMA ThreadedInvariance == ThreadedSpec => []TInv
<1>1. ThreadsInit => TInv
  BY InitIInv DEF ThreadsInit, TInv, Awaited, Calls
<1>2. TInv /\ [ThreadedNext]_allVars => TInv'
  <2>1. TInv /\ [ThreadedNext]_allVars => IInv'
    BY ThreadedStepIsStep, IInvStep DEF TInv
  <2>2. ASSUME TInv, ThreadedNext PROVE Awaited'
    BY <2>2, AwaitedStep DEF TInv, IInv
  <2>3. TInv /\ UNCHANGED allVars => Awaited'
    BY DEF TInv, Awaited, allVars, threads, vars
  <2> QED
    BY <2>1, <2>2, <2>3 DEF TInv
<1> QED
  BY <1>1, <1>2, PTL DEF ThreadedSpec
-----------------------------------------------------------------------------
\* Whoever awaits a thread holds a slot, so at most MaxConcurrent do.
LEMMA AwaitingHoldSlots ==
    ASSUME TypeOK, SlotsConserved, Awaited, NEW p \in Processes
    PROVE  /\ IsFiniteSet(Of(p, {"queued", "working"}))
           /\ Cardinality(Of(p, {"queued", "working"})) \in 0 .. MaxConcurrent
<1>1. Of(p, {"queued", "working"}) \in SUBSET Holders(p)
  BY DEF Of, Holders, Holding, Awaited
<1>2. IsFiniteSet(Holders(p)) /\ Cardinality(Holders(p)) <= MaxConcurrent
  BY HoldersFinite, JobServiceAssumption DEF TypeOK, SlotsConserved
<1>3. /\ IsFiniteSet(Of(p, {"queued", "working"}))
      /\ Cardinality(Of(p, {"queued", "working"})) <= Cardinality(Holders(p))
  BY <1>1, <1>2, FS_Subset
<1>4. Cardinality(Of(p, {"queued", "working"})) \in Nat
  BY <1>3, FS_CardinalityType
<1> QED
  BY <1>2, <1>3, <1>4, HoldersFinite, JobServiceAssumption

\* A retrieval waits behind retrievals that nobody awaits any more, and behind no
\* others than the slots allow, for every number of slots and of threads.
THEOREM OnlyAbandonedDelay == ThreadedSpec => []WaitsForAbandonedOnly
<1>1. ASSUME TInv PROVE WaitsForAbandonedOnly
  <2> SUFFICES ASSUME NEW p \in Processes, Of(p, {"queued"}) # {},
                      Cardinality(Occupied(p)) = Workers
               PROVE  Cardinality(Of(p, {"abandoned"})) > Workers - MaxConcurrent
    BY DEF WaitsForAbandonedOnly
  <2> DEFINE A == Of(p, {"abandoned"})
             W == Of(p, {"working"})
             Q == Of(p, {"queued", "working"})
  <2>1. IsFiniteSet(Q) /\ Cardinality(Q) \in 0 .. MaxConcurrent
    BY <1>1, AwaitingHoldSlots DEF TInv, IInv
  <2>2. PICK j \in Jobs : task[j].at = p /\ retrieval[j] = "queued"
    BY DEF Of
  <2>3. j \in Q /\ j \notin W /\ W \in SUBSET Q
    BY <2>2 DEF Of
  <2>4. IsFiniteSet(W) /\ Cardinality(W) <= Cardinality(Q) /\ Cardinality(W) # Cardinality(Q)
    BY <2>1, <2>3, FS_Subset
  <2>5. Cardinality(W) \in Nat
    BY <2>4, FS_CardinalityType
  <2>6. Cardinality(W) < MaxConcurrent
    BY <2>1, <2>4, <2>5, JobServiceAssumption
  <2>7. A \in SUBSET Jobs
    BY DEF Of
  <2>8. IsFiniteSet(A)
    BY <2>7, FS_Subset, JobServiceAssumption
  <2>9. Cardinality(A) \in Nat
    BY <2>8, FS_CardinalityType
  <2>10. Occupied(p) = A \cup W /\ A \cap W = {}
    BY DEF Occupied, Of
  <2>11. Cardinality(Occupied(p)) = Cardinality(A) + Cardinality(W) - Cardinality({})
    BY <2>4, <2>8, <2>10, FS_Union, Zenon
  <2>12. Cardinality({}) = 0
    BY FS_EmptySet
  <2> QED
    BY <2>5, <2>6, <2>9, <2>11, <2>12, WorkersAssumption, JobServiceAssumption
<1> QED
  BY <1>1, ThreadedInvariance, PTL
-----------------------------------------------------------------------------
\* What the threads must not disturb: types, slots, and where each analysis ends.
THEOREM ThreadsDisturbNothing ==
    ThreadedSpec => [](TypeOK /\ SlotsConserved /\ EndedIsTerminal /\ UnfinishedHasWorker)
<1>1. IInv => TypeOK /\ SlotsConserved /\ EndedIsTerminal /\ UnfinishedHasWorker
  BY DEF IInv
<1> QED
  BY <1>1, ThreadsImplementService, Invariance, PTL
=============================================================================
