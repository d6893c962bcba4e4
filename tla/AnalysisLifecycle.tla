-------------------------- MODULE AnalysisLifecycle --------------------------
(***************************************************************************)
(* What the service promises about an analysis, without processes, slots   *)
(* or transactions: an id is accepted into a bounded queue, is started at  *)
(* most once, and ends exactly once, either with a report or with a public *)
(* error code.  JobService is shown to implement this specification.       *)
(***************************************************************************)
EXTENDS Integers, FiniteSets

CONSTANTS
    Jobs,          \* the ids of the analyses
    QueueLimit     \* how many of them may be queued at the same time

VARIABLES
    status,        \* the public status of each analysis, "absent" before it exists
    code           \* its public error code, "none" while it has not failed

vars == <<status, code>>

Statuses == {"absent", "queued", "processing", "completed", "failed"}
WorkerCodes == {"PIPELINE_ERROR", "ANALYSIS_TIMEOUT", "ANALYSIS_FAILED"}
Codes == WorkerCodes \cup {"none", "WORKER_INTERRUPTED"}

Queued == {j \in Jobs : status[j] = "queued"}
Unfinished == {j \in Jobs : status[j] \in {"queued", "processing"}}

Init ==
    /\ status = [j \in Jobs |-> "absent"]
    /\ code = [j \in Jobs |-> "none"]

Accept(j) ==
    /\ status[j] = "absent"
    /\ Cardinality(Queued) < QueueLimit
    /\ status' = [status EXCEPT ![j] = "queued"]
    /\ UNCHANGED code

Start(j) ==
    /\ status[j] = "queued"
    /\ status' = [status EXCEPT ![j] = "processing"]
    /\ UNCHANGED code

Publish(j) ==
    /\ status[j] = "processing"
    /\ status' = [status EXCEPT ![j] = "completed"]
    /\ UNCHANGED code

Fail(j) ==
    /\ status[j] = "processing"
    /\ status' = [status EXCEPT ![j] = "failed"]
    /\ \E c \in WorkerCodes : code' = [code EXCEPT ![j] = c]

\* A restart ends every unfinished analysis in one step.
Interrupt ==
    /\ Unfinished # {}
    /\ status' = [j \in Jobs |-> IF j \in Unfinished THEN "failed" ELSE status[j]]
    /\ code' = [j \in Jobs |-> IF j \in Unfinished THEN "WORKER_INTERRUPTED" ELSE code[j]]

Next ==
    \/ \E j \in Jobs : Accept(j) \/ Start(j) \/ Publish(j) \/ Fail(j)
    \/ Interrupt

Spec == Init /\ [][Next]_vars
=============================================================================
