------------------------ MODULE MemoryIngestionQueue ------------------------
(***************************************************************************)
(* memoryIngestionQueue.ts: background jobs that run one after another on  *)
(* a chain of promises, and flush(), which waits for the jobs enqueued     *)
(* before it was called.                                                   *)
(*                                                                         *)
(* LocalAgentSession takes these actions one by one: there a flusher is a  *)
(* call of clearMemory().  Nothing in the app asks a flush to throw (the   *)
(* option throwOnError), so lastFailure is left out.                       *)
(***************************************************************************)
EXTENDS Naturals, Sequences, FiniteSets

CONSTANTS
    Jobs,     \* identities of the enqueue() calls
    NoJob,    \* the resolved promise the queue starts with, not one of Jobs
    Flushers  \* identities of the flush() calls

VARIABLES
    line,     \* the chain behind `tail`: jobs not settled, oldest first
    running,  \* whether run() of the oldest job is in progress
    enqueued, \* jobs ever enqueued
    stats,    \* pendingJobs, completedJobs and failedJobs
    flush,    \* where each flush() stands
    drain,    \* the promise each flush() awaits, named by its job
    ahead     \* history: the jobs in the queue when each flush() was called

queueVars == <<line, running, enqueued, stats>>
flushVars == <<flush, drain, ahead>>

Init ==
    /\ line = <<>>
    /\ running = FALSE
    /\ enqueued = {}
    /\ stats = [pending |-> 0, completed |-> 0, failed |-> 0]
    /\ flush = [f \in Flushers |-> "idle"]
    /\ drain = [f \in Flushers |-> NoJob]
    /\ ahead = [f \in Flushers |-> {}]

Waiting(j) == \E i \in DOMAIN line : line[i] = j

\* enqueue: the job is chained to the tail and becomes the tail.
Enqueue(j) ==
    /\ j \notin enqueued
    /\ line' = Append(line, j)
    /\ enqueued' = enqueued \cup {j}
    /\ stats' = [stats EXCEPT !.pending = @ + 1]
    /\ UNCHANGED running

\* The predecessor has settled: `await run()` begins.
Start ==
    /\ line # <<>>
    /\ ~running
    /\ running' = TRUE
    /\ UNCHANGED <<line, enqueued, stats>>

Count(ok) ==
    LET left == IF stats.pending = 0 THEN 0 ELSE stats.pending - 1
    IN stats' = IF ok THEN [stats EXCEPT !.completed = @ + 1, !.pending = left]
                      ELSE [stats EXCEPT !.failed = @ + 1, !.pending = left]

\* Mutant: no catch around run(); a failure leaves the chain stuck.
StuckOnFailure(ok) ==
    /\ running
    /\ stats.failed = 0
    /\ running' = ~ok
    /\ line' = IF ok THEN Tail(line) ELSE line
    /\ Count(ok)
    /\ UNCHANGED enqueued

\* run() returned or threw; either way the next job may start.
Settle(ok) ==
    /\ running
    /\ running' = FALSE
    /\ line' = Tail(line)
    /\ Count(ok)
    /\ UNCHANGED enqueued

\* Mutant: flush() waits for the job in progress only.
InProgress == IF line = <<>> THEN NoJob ELSE Head(line)

\* currentDrain at the time of the call.
CurrentDrain == IF line = <<>> THEN NoJob ELSE line[Len(line)]

BeginFlush(f) ==
    /\ flush[f] = "idle"
    /\ flush' = [flush EXCEPT ![f] = "waiting"]
    /\ drain' = [drain EXCEPT ![f] = CurrentDrain]
    /\ ahead' = [ahead EXCEPT ![f] = {line[i] : i \in DOMAIN line}]

\* The awaited promise has settled.
EndFlush(f) ==
    /\ flush[f] = "waiting"
    /\ ~Waiting(drain[f])
    /\ flush' = [flush EXCEPT ![f] = "returned"]
    /\ UNCHANGED <<drain, ahead>>

-----------------------------------------------------------------------------
(* Properties.                                                             *)

TypeOK ==
    /\ line \in Seq(Jobs)
    /\ running \in BOOLEAN
    /\ enqueued \subseteq Jobs
    /\ stats \in [pending : Nat, completed : Nat, failed : Nat]
    /\ flush \in [Flushers -> {"idle", "waiting", "returned"}]
    /\ drain \in [Flushers -> Jobs \cup {NoJob}]
    /\ ahead \in [Flushers -> SUBSET Jobs]

\* The counters the app shows ("memory syncing..." while pending > 0) agree
\* with the chain of promises, whether jobs succeed or fail.
StatsAgree ==
    /\ stats.pending = Len(line)
    /\ stats.completed + stats.failed + stats.pending = Cardinality(enqueued)

\* A flush that ended left none of the jobs that were in the queue when it
\* was called unsettled.
FlushDrains ==
    \A f \in Flushers :
        flush[f] = "returned" => \A j \in ahead[f] : ~Waiting(j)
=============================================================================
