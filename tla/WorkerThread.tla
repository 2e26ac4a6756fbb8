---------------------------- MODULE WorkerThread ----------------------------
(* android::base::WorkerThread (base/.../threads/WorkerThread.h): any number  *)
(* of threads hand commands to one worker thread, which takes the whole queue *)
(* under mLock and processes it without the lock, until a command tells it to *)
(* stop.  Each command carries a promise; "ready" are the promises kept.      *)
EXTENDS Integers, Sequences, FiniteSets

CONSTANTS
    Work,           \* commands whose processing returns Continue
    Halt,           \* commands whose processing returns Stop
    Sync,           \* the empty commands of waitQueuedItems
    Starter,        \* threads that call start()
    StartMayFail    \* whether Thread::start can fail

ASSUME CommandAssumption == Work \intersect Halt = {} /\ (Work \union Halt) \intersect Sync = {}
ASSUME StartAssumption == StartMayFail \in BOOLEAN

Command == Work \union Halt \union Sync
Free == "free"

VARIABLES
    mStarted, mFinished,
    mQueue,         \* the commands enqueued since the worker last took them
    mLock,          \* Free, or the thread that holds the lock across steps
    mCv,            \* the worker waits on the condition variable
    todo,           \* the worker's batch
    next,           \* index in todo of the command to handle next
    shouldStop,
    worker,         \* the worker thread: "none" "idle" "batch" "drain" "exited"
    starting,       \* starting[s]: where thread s is in start()
    called,         \* commands whose enqueue has been called
    accepted,       \* the commands put in the queue, in order
    processed,      \* the commands given to mProcessor, in order
    ready

queueVars == <<mQueue, mCv, accepted, called>>
workerVars == <<todo, next, shouldStop, worker, processed>>
threadVars == <<mStarted, mFinished, mLock, starting, ready, queueVars, workerVars>>

WorkerInit ==
    /\ mStarted = FALSE /\ mFinished = FALSE
    /\ mQueue = <<>> /\ mLock = Free /\ mCv = FALSE
    /\ todo = <<>> /\ next = 1 /\ shouldStop = FALSE /\ worker = "none"
    /\ starting = [s \in Starter |-> "no"]
    /\ called = {} /\ accepted = <<>> /\ processed = <<>> /\ ready = {}

Elements(s) == {s[i] : i \in DOMAIN s}

-----------------------------------------------------------------------------
(* start()                                                                    *)

StartClaims(s) ==
    /\ starting[s] = "no"
    /\ starting' = [starting EXCEPT ![s] = IF mStarted THEN "returned" ELSE "claimed"]
    /\ mStarted' = TRUE
    /\ UNCHANGED <<mFinished, mLock, ready, queueVars, workerVars>>

\* Thread::start creates the worker; start() has yet to return.
StartCreates(s) ==
    /\ starting[s] = "claimed"
    /\ starting' = [starting EXCEPT ![s] = "created"]
    /\ worker' = "idle"
    /\ UNCHANGED <<mStarted, mFinished, mLock, ready, queueVars, todo, next, shouldStop, processed>>

StartReturns(s) ==
    /\ starting[s] = "created"
    /\ starting' = [starting EXCEPT ![s] = "returned"]
    /\ UNCHANGED <<mStarted, mFinished, mLock, ready, queueVars, workerVars>>

\* Thread::start fails: start() takes mLock and calls setFinishedAndDrainTasks,
\* which asks for mLock again.  The lock is not recursive: the thread stays
\* there with the lock held, and no step of it follows.
StartFails(s) ==
    /\ StartMayFail
    /\ starting[s] = "claimed"
    /\ mLock = Free
    /\ mLock' = s
    /\ starting' = [starting EXCEPT ![s] = "failed"]
    /\ UNCHANGED <<mStarted, mFinished, ready, queueVars, workerVars>>

-----------------------------------------------------------------------------
(* enqueueImpl()                                                              *)

\* A thread calls enqueue, or waitQueuedItems, and will ask for mLock.
CallEnqueue(c) ==
    /\ c \notin called
    /\ called' = called \union {c}
    /\ UNCHANGED <<mStarted, mFinished, mLock, starting, ready, mQueue, mCv, accepted, workerVars>>

Enqueue(c) ==
    /\ c \in called \ (ready \union Elements(accepted))
    /\ mLock = Free
    /\ IF ~mStarted \/ mFinished
       THEN /\ ready' = ready \union {c}
            /\ UNCHANGED <<mQueue, mCv, accepted>>
       ELSE /\ mQueue' = Append(mQueue, c)
            /\ accepted' = Append(accepted, c)
            /\ mCv' = FALSE
            /\ UNCHANGED ready
    /\ UNCHANGED <<mStarted, mFinished, mLock, starting, called, workerVars>>

-----------------------------------------------------------------------------
(* worker()                                                                   *)

Waits ==
    /\ worker = "idle" /\ ~mCv
    /\ mLock = Free
    /\ mQueue = <<>>
    /\ mCv' = TRUE
    /\ UNCHANGED <<mStarted, mFinished, mLock, starting, ready, mQueue, accepted, called, workerVars>>

WorkerWakesUp ==
    /\ mCv
    /\ mCv' = FALSE
    /\ UNCHANGED <<mStarted, mFinished, mLock, starting, ready, mQueue, accepted, called, workerVars>>

\* Mutant: the promises are kept when the worker takes the commands.
TakeBatchAnswers ==
    /\ worker = "idle" /\ ~mCv
    /\ mLock = Free
    /\ mQueue # <<>>
    /\ todo' = mQueue
    /\ mQueue' = <<>>
    /\ next' = 1
    /\ shouldStop' = FALSE
    /\ worker' = "batch"
    /\ ready' = ready \union Elements(mQueue)
    /\ UNCHANGED <<mStarted, mFinished, mLock, starting, mCv, accepted, called, processed>>

TakeBatch ==
    /\ worker = "idle" /\ ~mCv
    /\ mLock = Free
    /\ mQueue # <<>>
    /\ todo' = mQueue
    /\ mQueue' = <<>>
    /\ next' = 1
    /\ shouldStop' = FALSE
    /\ worker' = "batch"
    /\ UNCHANGED <<mStarted, mFinished, mLock, starting, ready, mCv, accepted, called, processed>>

\* Mutant: a command is processed although an earlier one of its batch said stop.
HandleAll ==
    /\ worker = "batch" /\ next <= Len(todo)
    /\ LET c == todo[next] IN
       /\ IF c \notin Sync
          THEN processed' = Append(processed, c) /\ shouldStop' = (c \in Halt)
          ELSE UNCHANGED <<processed, shouldStop>>
       /\ ready' = ready \union {c}
    /\ next' = next + 1
    /\ UNCHANGED <<mStarted, mFinished, mLock, starting, queueVars, todo, worker>>

\* One turn of the loop over the batch: process the command, keep its promise.
Handle ==
    /\ worker = "batch" /\ next <= Len(todo)
    /\ LET c == todo[next] IN
       /\ IF ~shouldStop /\ c \notin Sync
          THEN processed' = Append(processed, c) /\ shouldStop' = (c \in Halt)
          ELSE UNCHANGED <<processed, shouldStop>>
       /\ ready' = ready \union {c}
    /\ next' = next + 1
    /\ UNCHANGED <<mStarted, mFinished, mLock, starting, queueVars, todo, worker>>

EndBatch ==
    /\ worker = "batch" /\ next > Len(todo)
    /\ worker' = IF shouldStop THEN "drain" ELSE "idle"
    /\ todo' = IF shouldStop THEN todo ELSE <<>>
    /\ next' = IF shouldStop THEN next ELSE 1
    /\ UNCHANGED <<mStarted, mFinished, mLock, starting, ready, queueVars, shouldStop, processed>>

\* Mutant: the commands enqueued during the last batch are forgotten.
ExitWithoutDraining ==
    /\ worker = "drain"
    /\ mLock = Free
    /\ mFinished' = TRUE
    /\ worker' = "exited"
    /\ UNCHANGED <<mStarted, mLock, starting, ready, queueVars, todo, next, shouldStop, processed>>

\* setFinishedAndDrainTasks: what was enqueued meanwhile is answered, not done.
Exit ==
    /\ worker = "drain"
    /\ mLock = Free
    /\ mFinished' = TRUE
    /\ ready' = ready \union Elements(mQueue)
    /\ worker' = "exited"
    /\ UNCHANGED <<mStarted, mLock, starting, queueVars, todo, next, shouldStop, processed>>

-----------------------------------------------------------------------------
Start(s) == StartClaims(s) \/ StartCreates(s) \/ StartReturns(s)
Worker == Waits \/ TakeBatch \/ Handle \/ EndBatch \/ Exit

StartFailed == \E s \in Starter : starting[s] = "failed"

\* Every command has been enqueued and answered and every thread is done, or a
\* failed start() keeps the lock.
Quiescent ==
    /\ \/ /\ called = Command /\ ready = Command
          /\ worker = "exited" \/ mCv
          /\ \A s \in Starter : starting[s] = "returned"
       \/ StartFailed
    /\ UNCHANGED threadVars

WorkerNext ==
    \/ \E s \in Starter : Start(s) \/ StartFails(s)
    \/ \E c \in Command : CallEnqueue(c) \/ Enqueue(c)
    \/ Worker \/ WorkerWakesUp
    \/ Quiescent

\* Threads inside start() and enqueue() go on, the processing function returns.
WorkerFairness ==
    /\ \A s \in Starter : WF_threadVars(Start(s) /\ starting[s] # "no")
    /\ \A c \in Command : WF_threadVars(Enqueue(c))
    /\ WF_threadVars(Worker)

WorkerSafeSpec == WorkerInit /\ [][WorkerNext]_threadVars
WorkerSpec == WorkerSafeSpec /\ WorkerFairness

-----------------------------------------------------------------------------
(* Properties.                                                                *)

\* Position of a command in the order of acceptance.
Accepted(c) == CHOOSE i \in DOMAIN accepted : accepted[i] = c

\* Whatever the batches, the items are processed one by one in the order they were
\* accepted, none is skipped, and none comes after the one that says stop
\* (WorkerThread.h:150).
ProcessedInOrder ==
    /\ \A k \in DOMAIN processed : processed[k] \in Elements(accepted) \ Sync
    /\ \A j, k \in DOMAIN processed :
           j < k => Accepted(processed[j]) < Accepted(processed[k]) /\ processed[j] \notin Halt
    /\ \A k \in DOMAIN processed, i \in DOMAIN accepted :
           i < Accepted(processed[k]) => accepted[i] \in Elements(processed) \union Sync

\* When waitQueuedItems returns, every command accepted before its own has been
\* answered, and each of them that is an item has been processed, but for those
\* behind an item that told the worker to stop (WorkerThread.h:97).
SyncWaitsForEarlier ==
    \A s \in Sync \intersect ready, i \in DOMAIN accepted :
        s \in Elements(accepted) /\ i < Accepted(s) =>
            /\ accepted[i] \in ready
            /\ \/ accepted[i] \in Elements(processed) \union Sync
               \/ \E h \in Halt \intersect Elements(processed) : Accepted(h) < i

\* Every enqueue's future becomes ready, in every interleaving with the start
\* of the worker, with the batch that stops it and with its exit, unless the
\* system refuses the thread.
FuturesReadyOnceStarted ==
    \A c \in Command : c \in called ~> c \in ready \/ StartFailed

=============================================================================
