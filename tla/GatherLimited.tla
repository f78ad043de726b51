---------------------------- MODULE GatherLimited ----------------------------
(***************************************************************************)
(* gather_limited: the caller awaits asyncio.gather over one task per      *)
(* operation, and each task runs its operation inside a semaphore.  The    *)
(* first exception ends the wait of the caller but none of the tasks; only *)
(* a caller that is cancelled while it waits cancels them.                 *)
(***************************************************************************)
EXTENDS Integers, FiniteSets

CONSTANTS
    MaxJobs,  \* bound on the operations of one call
    Limit     \* the limit parameter

ASSUME GatherAssumption == MaxJobs \in Nat /\ Limit \in Int

VARIABLES
    task,  \* task[j]: where the task of the j-th operation is
    outer  \* where the caller is

vars == <<task, outer>>

Job == 1 .. MaxJobs

\* The permits of the semaphore.
Slots == IF Limit < 1 THEN 1 ELSE Limit

Unfinished == {"queued", "running"}

\* Mutant: an operation that raises keeps its permit.
RunningOrFailed == {j \in Job : task[j] \in {"running", "failed"}}

Running == {j \in Job : task[j] = "running"}

Failed == {j \in Job : task[j] = "failed"}

AllOk == \A j \in Job : task[j] \in {"none", "ok"}

-----------------------------------------------------------------------------
\* The call: one task for each of n operations, all waiting for a permit.
Gather(n) ==
    /\ outer = "idle"
    /\ outer' = "waiting"
    /\ task' = [j \in Job |-> IF j <= n THEN "queued" ELSE "none"]

\* Mutant: one permit too many.
BeginOneMore(j) ==
    /\ task[j] = "queued"
    /\ Cardinality(Running) <= Slots
    /\ \A i \in 1 .. j - 1 : task[i] # "queued"
    /\ task' = [task EXCEPT ![j] = "running"]
    /\ UNCHANGED outer

\* The semaphore serves its waiters in the order they came.
Begin(j) ==
    /\ task[j] = "queued"
    /\ Cardinality(Running) < Slots
    /\ \A i \in 1 .. j - 1 : task[i] # "queued"
    /\ task' = [task EXCEPT ![j] = "running"]
    /\ UNCHANGED outer

\* The operation returns or raises; either way its permit is free again.
End(j) ==
    /\ task[j] = "running"
    /\ \E e \in {"ok", "failed"} : task' = [task EXCEPT ![j] = e]
    /\ UNCHANGED outer

\* Mutant: gather(..., return_exceptions=True), with no look at the results.
ReturnWhateverEnded ==
    /\ outer = "waiting"
    /\ \A j \in Job : task[j] \notin Unfinished
    /\ outer' = "returned"
    /\ UNCHANGED task

\* The caller gets the list of all results ...
Return ==
    /\ outer = "waiting"
    /\ AllOk
    /\ outer' = "returned"
    /\ UNCHANGED task

\* ... or the first exception, whatever the other tasks are doing.
Raise ==
    /\ outer = "waiting"
    /\ Failed # {}
    /\ outer' = "raised"
    /\ UNCHANGED task

\* The caller is cancelled.  While gather is pending it passes that on to the
\* tasks; once an operation has raised there is nothing to pass it to.
Cancel ==
    /\ outer = "waiting"
    /\ outer' = "cancelled"
    /\ task' = [j \in Job |-> IF Failed = {} /\ task[j] \in Unfinished
                              THEN "cancelled" ELSE task[j]]

\* Everything has ended: the only way the system may stop.
Done ==
    /\ outer \notin {"idle", "waiting"}
    /\ \A j \in Job : task[j] \notin Unfinished
    /\ UNCHANGED vars

-----------------------------------------------------------------------------
Init ==
    /\ task = [j \in Job |-> "none"]
    /\ outer = "idle"

Next ==
    \/ \E n \in 0 .. MaxJobs : Gather(n)
    \/ \E j \in Job : Begin(j) \/ End(j)
    \/ Return
    \/ Raise
    \/ Cancel
    \/ Done

Spec == Init /\ [][Next]_vars

\* The event loop runs what is ready, and every operation ends: it is made of
\* calls that have timeouts.
Fairness ==
    /\ \A j \in Job : WF_vars(Begin(j)) /\ WF_vars(End(j))
    /\ WF_vars(Return)
    /\ WF_vars(Raise)

FairSpec == Spec /\ Fairness

-----------------------------------------------------------------------------
\* Every variable has its type.
TypeOK ==
    /\ task \in [Job -> {"none", "queued", "running", "ok", "failed", "cancelled"}]
    /\ outer \in {"idle", "waiting", "returned", "raised", "cancelled"}

\* The bound of the docstring: never more operations at once than permits,
\* also while the tasks of a call that has raised still run.
WithinLimit == Cardinality(Running) <= Slots

\* No result is missing from a list the caller gets, and no operation of a
\* caller that was cancelled before anything failed is left behind.
NothingLeftBehind ==
    /\ outer = "returned" => AllOk
    /\ outer = "cancelled" /\ Failed = {} =>
         \A j \in Job : task[j] \notin Unfinished

\* The caller never waits for ever, and every task ends, also the ones whose
\* caller has gone: no permit is lost on the way.
EverythingEnds ==
    /\ outer = "waiting" ~> outer # "waiting"
    /\ \A j \in Job : task[j] = "queued" ~> task[j] \notin Unfinished
=============================================================================
