--------------------------- MODULE RetrievalThreads ---------------------------
(***************************************************************************)
(* The job service with the threads its retrievals run in.  The pipeline   *)
(* awaits asyncio.to_thread: the call becomes a work item of the event     *)
(* loop's default executor, whose threads take the items in order.  When   *)
(* the analysis timeout strikes, an item that no thread has taken is       *)
(* cancelled, but a thread that runs cannot be stopped: it goes on without *)
(* anybody to receive its result, while the slot of its analysis is        *)
(* already free for the next one.                                          *)
(***************************************************************************)
EXTENDS JobService, Sequences

CONSTANT Workers  \* the threads of a process's default executor

ASSUME WorkersAssumption == Workers \in Nat \ {0}

VARIABLES
    retrieval,  \* what the call of to_thread of each analysis has come to
    backlog     \* the work items of each process that no thread has taken, in order

threads == <<retrieval, backlog>>
allVars == <<vars, threads>>

Of(p, states) == {j \in Jobs : task[j].at = p /\ retrieval[j] \in states}
Occupied(p) == Of(p, {"working", "abandoned"})

ThreadsInit ==
    /\ Init
    /\ retrieval = [j \in Jobs |-> "none"]
    /\ backlog = [p \in Processes |-> <<>>]
-----------------------------------------------------------------------------
\* The queries are built; the retrieval is handed to the executor.
Submit(j) ==
    /\ Running(j)
    /\ task[j].stage = "retrieving_evidence"
    /\ retrieval[j] = "none"
    /\ retrieval' = [retrieval EXCEPT ![j] = "queued"]
    /\ backlog' = [backlog EXCEPT ![task[j].at] = Append(@, j)]
    /\ UNCHANGED vars

\* A free thread takes the next item; a cancelled one is dropped.
Take(p) ==
    /\ backlog[p] # <<>>
    /\ Cardinality(Occupied(p)) < Workers
    /\ LET j == Head(backlog[p])
       IN  retrieval' = [retrieval EXCEPT ![j] = IF @ = "queued" THEN "working" ELSE "over"]
    /\ backlog' = [backlog EXCEPT ![p] = Tail(@)]
    /\ UNCHANGED vars

\* The retrieval returns or raises; nobody receives it if it was abandoned.
Finish(j) ==
    /\ retrieval[j] \in {"working", "abandoned"}
    /\ retrieval' = [retrieval EXCEPT ![j] = IF @ = "working" THEN "returned" ELSE "over"]
    /\ UNCHANGED <<vars, backlog>>

\* The stage after the retrieval begins when its result is there.
Received(j) ==
    /\ task[j].stage = "retrieving_evidence" => retrieval[j] = "returned"
    /\ retrieval' = [retrieval EXCEPT ![j] = IF @ = "returned" THEN "over" ELSE @]
    /\ UNCHANGED backlog

\* Slip: the timeout leaves the work item where it is.
NotCancelled(r) == IF r = "working" THEN "abandoned" ELSE r

\* What the cancellation of the await makes of a work item.
Cancelled(r) ==
    CASE r = "queued" -> "cancelled"
      [] r = "working" -> "abandoned"
      [] r = "returned" -> "over"
      [] OTHER -> r

\* While the pipeline awaits the thread, only the timeout raises in it.
Interrupted(j) ==
    /\ retrieval[j] \in {"queued", "working"} => task'[j].code = "ANALYSIS_TIMEOUT"
    /\ retrieval' = [retrieval EXCEPT ![j] = Cancelled(@)]
    /\ UNCHANGED backlog

\* The threads end with their process.
ThreadsLost(p) ==
    /\ retrieval' = [j \in Jobs |-> IF task[j].at = p THEN "none" ELSE retrieval[j]]
    /\ backlog' = [backlog EXCEPT ![p] = <<>>]
-----------------------------------------------------------------------------
ThreadedWorker(j) ==
    \/ Submit(j)
    \/ ReportStage(j) /\ Received(j)
    \/ RaiseError(j) /\ Interrupted(j)
    \/ (StartIfQueued(j) \/ SkipNotQueued(j)) /\ UNCHANGED threads
    \/ (CompleteIfProcessing(j) \/ FailIfNonterminal(j)) /\ UNCHANGED threads

ThreadedNext ==
    \/ \E p \in Processes :
          \/ Take(p)
          \/ Crash(p) /\ ThreadsLost(p)
          \/ (Start(p) \/ StartFails(p)) /\ UNCHANGED threads
          \/ (\E j \in Jobs : CountQueued(p, j)) /\ UNCHANGED threads
          \/ (InsertQueued(p) \/ InsertFails(p)) /\ UNCHANGED threads
    \/ \E j \in Jobs :
          \/ ThreadedWorker(j)
          \/ Finish(j)
          \/ ReportStageFails(j) /\ Received(j)
          \/ (StartIfQueuedFails(j) \/ CompleteFails(j) \/ FailFails(j)) /\ UNCHANGED threads

ThreadedSpec == ThreadsInit /\ [][ThreadedNext]_allVars

\* A handler does not stop in the middle, tasks keep running, and the timeout ends an
\* analysis that waits.  Nothing says that a thread ever finishes.
ThreadedFairSpec ==
    /\ ThreadedSpec
    /\ \A p \in Processes : WF_allVars(InsertQueued(p) /\ UNCHANGED threads)
    /\ \A j \in Jobs : WF_allVars(ThreadedWorker(j))
-----------------------------------------------------------------------------
\* A retrieval is kept waiting by abandoned ones only: when every thread is busy and an
\* item waits, more than Workers - MaxConcurrent threads work for analyses whose timeout
\* has struck, because whoever still awaits a thread holds a slot (asyncio.to_thread).
WaitsForAbandonedOnly ==
    \A p \in Processes :
        Of(p, {"queued"}) # {} /\ Cardinality(Occupied(p)) = Workers =>
            Cardinality(Of(p, {"abandoned"})) > Workers - MaxConcurrent
=============================================================================
