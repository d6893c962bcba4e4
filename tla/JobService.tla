------------------------------ MODULE JobService ------------------------------
(***************************************************************************)
(* The persisted job service: the route that accepts an analysis, the      *)
(* AnalysisRepository transactions, the worker AnalysisJobService._run and *)
(* the start-up reconciliation in the application lifespan.                *)
(*                                                                         *)
(* The rows of the database survive a process; its tasks and its semaphore *)
(* do not.  Route handlers and repository calls are synchronous, so inside *)
(* one process they exclude each other; two processes that share the       *)
(* database (a restart that overlaps the process it replaces) do not.      *)
(***************************************************************************)
EXTENDS Integers, FiniteSets

CONSTANTS
    Jobs,            \* the ids uuid4 may return
    Processes,       \* the API processes that share the database
    None,            \* no job, no process
    MaxConcurrent,   \* Settings.max_concurrent_analyses
    MaxQueued,       \* Settings.max_queued_analyses
    Dialect,         \* the database behind the repository
    MaxCrashes,      \* bound: how many times a process ends
    MaxFaults        \* bound: how many database operations fail

ASSUME JobServiceAssumption ==
    /\ IsFiniteSet(Jobs)
    /\ IsFiniteSet(Processes) /\ Processes # {}
    /\ None \notin Jobs /\ None \notin Processes
    /\ MaxConcurrent \in Nat \ {0}
    /\ MaxQueued \in Nat \ {0}
    /\ Dialect \in {"sqlite", "postgresql"}
    /\ MaxCrashes \in Nat
    /\ MaxFaults \in Nat

VARIABLES
    row,        \* the durable record of each id
    proc,       \* what each process can do
    inserting,  \* the id whose create_queued transaction is open in a process
    task,       \* the background task of each id, in the memory of one process
    slots,      \* the value of each process's semaphore
    crashes,
    faults

vars == <<row, proc, inserting, task, slots, crashes, faults>>

Stages == {"queued", "extracting_assumptions", "retrieving_evidence",
           "calculating_financials", "reviewing_evidence", "building_report"}
StageOrder == {<<"extracting_assumptions", "retrieving_evidence">>,
               <<"retrieving_evidence", "calculating_financials">>,
               <<"calculating_financials", "reviewing_evidence">>,
               <<"reviewing_evidence", "building_report">>}

\* The pipeline does not await anything in these stages.
SyncStages == {"calculating_financials", "building_report"}

Statuses == {"absent", "queued", "processing", "completed", "failed"}
WorkerCodes == {"PIPELINE_ERROR", "ANALYSIS_TIMEOUT", "ANALYSIS_FAILED"}
Codes == WorkerCodes \cup {"none", "WORKER_INTERRUPTED"}

Rows == [status : Statuses, stage : Stages \cup {"none"}, code : Codes]
NoRow == [status |-> "absent", stage |-> "none", code |-> "none"]
QueuedRow == [status |-> "queued", stage |-> "queued", code |-> "none"]
ProcessingRow(s) == [status |-> "processing", stage |-> s, code |-> "none"]
CompletedRow == [status |-> "completed", stage |-> "none", code |-> "none"]
FailedRow(s, c) == [status |-> "failed", stage |-> s, code |-> c]

\* A task waits for the semaphore, runs the pipeline, handles an exception
\* ("failing") and ends; "stage" is the local variable of _run.
Tasks == [pc : {"none", "waiting", "running", "failing", "ended"},
          at : Processes \cup {None},
          stage : Stages,
          code : WorkerCodes \cup {"none"}]
NoTask == [pc |-> "none", at |-> None, stage |-> "queued", code |-> "none"]
WaitingTask(p) == [pc |-> "waiting", at |-> p, stage |-> "queued", code |-> "none"]

Queued == {j \in Jobs : row[j].status = "queued"}
Unfinished(j) == row[j].status \in {"queued", "processing"}
Terminal(j) == row[j].status \in {"completed", "failed"}

Inserting == {p \in Processes : inserting[p] # None}
Holding(t) == t.pc \in {"running", "failing"}
Holders(p) == {j \in Jobs : task[j].at = p /\ Holding(task[j])}

\* The process serves requests on stored analyses; "ready" also accepts new ones.
Serving(p) == proc[p] \in {"ready", "no_evidence"}

\* BEGIN IMMEDIATE holds SQLite's only write lock until the commit.
CanWrite(p) == Dialect = "sqlite" => Inserting \subseteq {p}

\* The event loop of p is not inside a synchronous section of another handler or task.
LoopFree(p, j) ==
    /\ inserting[p] = None
    /\ \A k \in Jobs \ {j} :
          task[k].at = p /\ task[k].pc = "running" => task[k].stage \notin SyncStages

Fault == faults < MaxFaults /\ faults' = faults + 1
-----------------------------------------------------------------------------
Init ==
    /\ row = [j \in Jobs |-> NoRow]
    /\ proc = [p \in Processes |-> "down"]
    /\ inserting = [p \in Processes |-> None]
    /\ task = [j \in Jobs |-> NoTask]
    /\ slots = [p \in Processes |-> MaxConcurrent]
    /\ crashes = 0
    /\ faults = 0

(***************************************************************************)
(* The lifespan: a fresh semaphore, the reconciliation of every unfinished *)
(* row, and the readiness of the evidence artifacts.  A database error     *)
(* leaves the process up but not ready, for as long as it lives.           *)
(***************************************************************************)
\* Slip: only rows that a worker had started are reconciled.
ReconciledProcessing(r) ==
    IF r.status = "processing" THEN FailedRow(r.stage, "WORKER_INTERRUPTED") ELSE r

Reconciled(r) ==
    IF r.status \in {"queued", "processing"}
    THEN FailedRow(r.stage, "WORKER_INTERRUPTED")
    ELSE r

Start(p) ==
    /\ proc[p] = "down"
    /\ CanWrite(p)
    /\ row' = [j \in Jobs |-> Reconciled(row[j])]
    /\ \E state \in {"ready", "no_evidence"} : proc' = [proc EXCEPT ![p] = state]
    /\ UNCHANGED <<inserting, task, slots, crashes, faults>>

StartFails(p) ==
    /\ proc[p] = "down"
    /\ Fault
    /\ proc' = [proc EXCEPT ![p] = "no_database"]
    /\ UNCHANGED <<row, inserting, task, slots, crashes>>

\* The process ends, killed or shut down: its tasks and open transaction are gone.
Crash(p) ==
    /\ proc[p] # "down"
    /\ crashes < MaxCrashes
    /\ crashes' = crashes + 1
    /\ proc' = [proc EXCEPT ![p] = "down"]
    /\ inserting' = [inserting EXCEPT ![p] = None]
    /\ task' = [j \in Jobs |-> IF task[j].at = p THEN NoTask ELSE task[j]]
    /\ slots' = [slots EXCEPT ![p] = MaxConcurrent]
    /\ UNCHANGED <<row, faults>>
-----------------------------------------------------------------------------
(***************************************************************************)
(* create_analysis.  The count and the insert are two statements of one    *)
(* transaction; a full queue raises CapacityExceededError and creates no   *)
(* row (no step here).  The task is scheduled after the commit.            *)
(***************************************************************************)
\* Slip: off by one in the capacity check.
CountQueuedAtMost(p, j) ==
    /\ proc[p] = "ready"
    /\ LoopFree(p, None)
    /\ CanWrite(p)
    /\ row[j] = NoRow /\ \A q \in Processes : inserting[q] # j
    /\ Cardinality(Queued) <= MaxQueued
    /\ inserting' = [inserting EXCEPT ![p] = j]
    /\ UNCHANGED <<row, proc, task, slots, crashes, faults>>

CountQueued(p, j) ==
    /\ proc[p] = "ready"
    /\ LoopFree(p, None)
    /\ CanWrite(p)
    /\ row[j] = NoRow /\ \A q \in Processes : inserting[q] # j
    /\ Cardinality(Queued) < MaxQueued
    /\ inserting' = [inserting EXCEPT ![p] = j]
    /\ UNCHANGED <<row, proc, task, slots, crashes, faults>>

\* Slip: the row is committed and no task is scheduled.
InsertUnscheduled(p) ==
    /\ inserting[p] # None
    /\ row' = [row EXCEPT ![inserting[p]] = QueuedRow]
    /\ inserting' = [inserting EXCEPT ![p] = None]
    /\ UNCHANGED <<proc, task, slots, crashes, faults>>

InsertQueued(p) ==
    /\ inserting[p] # None
    /\ row' = [row EXCEPT ![inserting[p]] = QueuedRow]
    /\ task' = [task EXCEPT ![inserting[p]] = WaitingTask(p)]
    /\ inserting' = [inserting EXCEPT ![p] = None]
    /\ UNCHANGED <<proc, slots, crashes, faults>>

InsertFails(p) ==
    /\ inserting[p] # None
    /\ Fault
    /\ inserting' = [inserting EXCEPT ![p] = None]
    /\ UNCHANGED <<row, proc, task, slots, crashes>>
-----------------------------------------------------------------------------
(***************************************************************************)
(* _run: take a slot, then compare-and-set the row from queued to          *)
(* processing.  A row that is no longer queued ends the task and gives the *)
(* slot back.  start_if_queued is called outside the try, so an error in   *)
(* it, before or after its commit, ends the task without touching the row. *)
(***************************************************************************)
MayStart(j) ==
    /\ task[j].pc = "waiting"
    /\ slots[task[j].at] > 0
    /\ LoopFree(task[j].at, j)

\* Slip: the row is set to processing without comparing its status.
StartUnconditionally(j) ==
    /\ MayStart(j)
    /\ CanWrite(task[j].at)
    /\ row' = [row EXCEPT ![j] = ProcessingRow("extracting_assumptions")]
    /\ task' = [task EXCEPT ![j] = [@ EXCEPT !.pc = "running",
                                        !.stage = "extracting_assumptions"]]
    /\ slots' = [slots EXCEPT ![task[j].at] = @ - 1]
    /\ UNCHANGED <<proc, inserting, crashes, faults>>

StartIfQueued(j) ==
    /\ MayStart(j)
    /\ CanWrite(task[j].at)
    /\ row[j].status = "queued"
    /\ row' = [row EXCEPT ![j] = ProcessingRow("extracting_assumptions")]
    /\ task' = [task EXCEPT ![j] = [@ EXCEPT !.pc = "running",
                                        !.stage = "extracting_assumptions"]]
    /\ slots' = [slots EXCEPT ![task[j].at] = @ - 1]
    /\ UNCHANGED <<proc, inserting, crashes, faults>>

SkipNotQueued(j) ==
    /\ MayStart(j)
    /\ CanWrite(task[j].at)
    /\ row[j].status # "queued"
    /\ task' = [task EXCEPT ![j] = [@ EXCEPT !.pc = "ended"]]
    /\ UNCHANGED <<row, proc, inserting, slots, crashes, faults>>

StartIfQueuedFails(j) ==
    /\ MayStart(j)
    /\ Fault
    /\ \/ UNCHANGED row
       \/ /\ CanWrite(task[j].at)
          /\ row[j].status = "queued"
          /\ row' = [row EXCEPT ![j] = ProcessingRow("extracting_assumptions")]
    /\ task' = [task EXCEPT ![j] = [@ EXCEPT !.pc = "ended"]]
    /\ UNCHANGED <<proc, inserting, slots, crashes>>
-----------------------------------------------------------------------------
Running(j) ==
    /\ task[j].pc = "running"
    /\ LoopFree(task[j].at, j)

\* Slip: the row moves to the next stage and the local variable does not ("nonlocal" forgotten).
ReportStageInRowOnly(j) ==
    /\ Running(j)
    /\ CanWrite(task[j].at)
    /\ \E s \in Stages :
          /\ <<task[j].stage, s>> \in StageOrder
          /\ row' = [row EXCEPT ![j] = IF @.status = "processing" THEN ProcessingRow(s) ELSE @]
    /\ UNCHANGED <<proc, inserting, task, slots, crashes, faults>>

\* report_stage sets the local stage, then the row's, if it is still processing.
ReportStage(j) ==
    /\ Running(j)
    /\ CanWrite(task[j].at)
    /\ \E s \in Stages :
          /\ <<task[j].stage, s>> \in StageOrder
          /\ task' = [task EXCEPT ![j] = [@ EXCEPT !.stage = s]]
          /\ row' = [row EXCEPT ![j] = IF @.status = "processing" THEN ProcessingRow(s) ELSE @]
    /\ UNCHANGED <<proc, inserting, slots, crashes, faults>>

\* The database refuses the new stage: the local stage has moved, the row's has not.
ReportStageFails(j) ==
    /\ Running(j)
    /\ Fault
    /\ \E s \in Stages :
          /\ <<task[j].stage, s>> \in StageOrder
          /\ task' = [task EXCEPT ![j] = [@ EXCEPT !.stage = s, !.pc = "failing",
                                                !.code = "ANALYSIS_FAILED"]]
    /\ UNCHANGED <<row, proc, inserting, slots, crashes>>

\* Slip: the exception is of a kind the worker does not catch; only the slot is released.
RaiseUncaught(j) ==
    /\ Running(j)
    /\ task' = [task EXCEPT ![j] = [@ EXCEPT !.pc = "ended"]]
    /\ slots' = [slots EXCEPT ![task[j].at] = @ + 1]
    /\ UNCHANGED <<row, proc, inserting, crashes, faults>>

\* A PipelineError, any other exception, or the analysis timeout, which can only
\* interrupt a stage that awaits.
RaiseError(j) ==
    /\ Running(j)
    /\ \E c \in WorkerCodes :
          /\ c = "ANALYSIS_TIMEOUT" => task[j].stage \notin SyncStages
          /\ task' = [task EXCEPT ![j] = [@ EXCEPT !.pc = "failing", !.code = c]]
    /\ UNCHANGED <<row, proc, inserting, slots, crashes, faults>>

\* Slip: the report is stored whatever the status of the row.
CompleteUnconditionally(j) ==
    /\ Running(j)
    /\ CanWrite(task[j].at)
    /\ task[j].stage = "building_report"
    /\ row' = [row EXCEPT ![j] = CompletedRow]
    /\ task' = [task EXCEPT ![j] = [@ EXCEPT !.pc = "ended"]]
    /\ slots' = [slots EXCEPT ![task[j].at] = @ + 1]
    /\ UNCHANGED <<proc, inserting, crashes, faults>>

CompleteIfProcessing(j) ==
    /\ Running(j)
    /\ CanWrite(task[j].at)
    /\ task[j].stage = "building_report"
    /\ row' = [row EXCEPT ![j] = IF @.status = "processing" THEN CompletedRow ELSE @]
    /\ task' = [task EXCEPT ![j] = [@ EXCEPT !.pc = "ended"]]
    /\ slots' = [slots EXCEPT ![task[j].at] = @ + 1]
    /\ UNCHANGED <<proc, inserting, crashes, faults>>

CompleteFails(j) ==
    /\ Running(j)
    /\ Fault
    /\ task[j].stage = "building_report"
    /\ task' = [task EXCEPT ![j] = [@ EXCEPT !.pc = "failing",
                                        !.code = "ANALYSIS_FAILED"]]
    /\ UNCHANGED <<row, proc, inserting, slots, crashes>>

FailIfNonterminal(j) ==
    /\ task[j].pc = "failing"
    /\ LoopFree(task[j].at, j)
    /\ CanWrite(task[j].at)
    /\ row' = [row EXCEPT ![j] = IF @.status \in {"queued", "processing"}
                                 THEN FailedRow(task[j].stage, task[j].code)
                                 ELSE @]
    /\ task' = [task EXCEPT ![j] = [@ EXCEPT !.pc = "ended"]]
    /\ slots' = [slots EXCEPT ![task[j].at] = @ + 1]
    /\ UNCHANGED <<proc, inserting, crashes, faults>>

\* Slip: an error inside the exception handler keeps the slot.
FailFailsKeepingSlot(j) ==
    /\ task[j].pc = "failing"
    /\ LoopFree(task[j].at, j)
    /\ Fault
    /\ task' = [task EXCEPT ![j] = [@ EXCEPT !.pc = "ended"]]
    /\ UNCHANGED <<row, proc, inserting, slots, crashes>>

\* An error inside the exception handler escapes: only the slot is given back.
FailFails(j) ==
    /\ task[j].pc = "failing"
    /\ LoopFree(task[j].at, j)
    /\ Fault
    /\ task' = [task EXCEPT ![j] = [@ EXCEPT !.pc = "ended"]]
    /\ slots' = [slots EXCEPT ![task[j].at] = @ + 1]
    /\ UNCHANGED <<row, proc, inserting, crashes>>
-----------------------------------------------------------------------------
Worker(j) ==
    \/ StartIfQueued(j) \/ SkipNotQueued(j) \/ ReportStage(j)
    \/ RaiseError(j) \/ CompleteIfProcessing(j) \/ FailIfNonterminal(j)

WorkerFault(j) ==
    \/ StartIfQueuedFails(j) \/ ReportStageFails(j)
    \/ CompleteFails(j) \/ FailFails(j)

Next ==
    \/ \E p \in Processes :
          \/ Start(p) \/ StartFails(p) \/ Crash(p)
          \/ \E j \in Jobs : CountQueued(p, j)
          \/ InsertQueued(p) \/ InsertFails(p)
    \/ \E j \in Jobs : Worker(j) \/ WorkerFault(j)

Spec == Init /\ [][Next]_vars

\* The event loop keeps scheduling its handlers and tasks, and the analysis timeout
\* ends a pipeline that does not return.  Nothing restarts a process by itself.
Fairness ==
    /\ \A p \in Processes : WF_vars(InsertQueued(p))
    /\ \A j \in Jobs : WF_vars(Worker(j))

FairSpec == Spec /\ Fairness
-----------------------------------------------------------------------------
(***************************************************************************)
(* Properties.                                                             *)
(***************************************************************************)

\* The values the state can take.
TypeOK ==
    /\ row \in [Jobs -> Rows]
    /\ proc \in [Processes -> {"down", "no_database", "no_evidence", "ready"}]
    /\ inserting \in [Processes -> Jobs \cup {None}]
    /\ task \in [Jobs -> Tasks]
    /\ slots \in [Processes -> 0 .. MaxConcurrent]
    /\ crashes \in 0 .. MaxCrashes
    /\ faults \in 0 .. MaxFaults

\* How many create_queued transactions may be past their count at the same time:
\* BEGIN IMMEDIATE admits one, an ordinary transaction one per process.
Writers == IF Dialect = "sqlite" THEN 1 ELSE Cardinality(Processes)

\* The queue never holds more than max_queued analyses, except for what transactions
\* that are not serialized can add after counting (create_queued).
QueueBound == Cardinality(Queued) <= MaxQueued + (Writers - 1)

\* Whatever way a worker ends (report, error, timeout, skipped start, failed write),
\* its slot returns to the semaphore exactly once (_run's async with).
SlotsConserved ==
    \A p \in Processes : slots[p] + Cardinality(Holders(p)) = MaxConcurrent

\* While no database operation fails, a worker that has ended has left its analysis
\* terminal (the safety boundary of _run).
EndedIsTerminal ==
    faults = 0 => \A j \in Jobs : task[j].pc = "ended" => Terminal(j)

\* While no database operation fails and every process serves, each unfinished
\* analysis has a task that still works on it: no poll waits for nobody.
UnfinishedHasWorker ==
    (faults = 0 /\ \A p \in Processes : Serving(p)) =>
        \A j \in Jobs : Unfinished(j) => task[j].pc \in {"waiting", "running", "failing"}

\* A worker that executes owns its row, in the stage it last reported, unless another
\* process has reconciled the row in the meantime; then it is failed for good.
WorkerOwnsRow ==
    \A j \in Jobs : Holding(task[j]) =>
        \/ row[j].status = "processing" /\ (faults = 0 => row[j].stage = task[j].stage)
        \/ /\ row[j].status = "failed" /\ row[j].code = "WORKER_INTERRUPTED"
           /\ Cardinality(Processes) > 1

\* A terminal row never changes again: neither a late worker nor a second
\* reconciliation overwrites a report, an error code or the stage of the failure.
TerminalRowsImmutable ==
    [][\A j \in Jobs : Terminal(j) => row'[j] = row[j]]_vars

\* A task that nothing holds up: the event loop is free, the write lock is not another's,
\* and the slot it needs is there.
AtWork(j) == task[j].pc \in {"waiting", "running", "failing"}
CanMove(j) ==
    /\ AtWork(j)
    /\ LoopFree(task[j].at, j)
    /\ CanWrite(task[j].at)
    /\ task[j].pc = "waiting" => slots[task[j].at] > 0

\* The semaphore, the event loop and the write lock never wait for each other in a circle:
\* whatever an analysis waits for, a task of its process can move, or a create_queued
\* transaction that is about to commit.
NoDeadlock ==
    /\ TypeOK
    /\ Inserting = {} =>
          \A j \in Jobs : AtWork(j) =>
              \E k \in Jobs : task[k].at = task[j].at /\ CanMove(k)

\* The service implements the abstract lifecycle of an analysis.
Lifecycle == INSTANCE AnalysisLifecycle WITH
    QueueLimit <- MaxQueued + (Writers - 1),
    status <- [j \in Jobs |-> row[j].status],
    code <- [j \in Jobs |-> row[j].code]

ImplementsLifecycle == Lifecycle!Spec

\* If the processes keep serving, or keep coming back after they end, and no database
\* operation fails, every accepted analysis becomes terminal: none is lost by a crash,
\* stuck in the queue, or held up by a provider or a thread that never returns.
EventuallyTerminal ==
    ([](faults = 0) /\ \A p \in Processes : []<>Serving(p)) =>
        \A j \in Jobs : Unfinished(j) ~> Terminal(j)

\* The docstring of _run: it turns every unexpected failure into a terminal public state.
EveryFailureIsTerminal ==
    \A j \in Jobs : task[j].pc = "ended" => Terminal(j)
=============================================================================
