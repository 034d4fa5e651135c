------------------------------- MODULE UvPool -------------------------------
(***************************************************************************)
(* libuv as the process library uses it: uv_queue_work / uv_fs_* requests  *)
(* handed to a fixed pool of worker threads, uv_cancel, and the default    *)
(* loop whose completion callbacks run only inside uv_run.  libuv is not   *)
(* part of the repository: this module is written from the calls the       *)
(* repository makes and is shared by every module whose component submits  *)
(* work.                                                                   *)
(*                                                                         *)
(* A work item is                                                          *)
(*   "null"      no request object exists (the unique_ptr is null)         *)
(*   "queued"    submitted, no worker has taken it                         *)
(*   "running"   its work callback runs on a pool thread                   *)
(*   "returned"  the work callback returned, or the request was cancelled; *)
(*               the after-work callback has not run                       *)
(*   "done"      the after-work callback ran on the loop thread            *)
(***************************************************************************)
EXTENDS Naturals, SequencesExt, FiniteSets

CONSTANT PoolSize        \* threads in libuv's pool (UV_THREADPOOL_SIZE)

ASSUME PoolSizeAssumption == PoolSize \in Nat \ {0}

VARIABLES
    work,                \* item -> its state
    queue,               \* the pool's FIFO of queued items
    stop_flag            \* set by uv_stop, consumed by the next uv_run

poolVars == <<work, queue, stop_flag>>

WorkStates == {"null", "queued", "running", "returned", "done"}

-----------------------------------------------------------------------------

Busy == {i \in DOMAIN work : work[i] = "running"}

\* The loop is alive while a request is active.
Active == {i \in DOMAIN work : work[i] \in {"queued", "running", "returned"}}

\* uv_queue_work: the request joins the tail of the pool's queue.
uv_queue_work(i) ==
    /\ work' = [work EXCEPT ![i] = "queued"]
    /\ queue' = Append(queue, i)
    /\ UNCHANGED stop_flag

\* An idle worker takes the oldest request.
WorkerTakes(i) ==
    /\ queue # << >>
    /\ i = Head(queue)
    /\ work[i] = "queued"
    /\ Cardinality(Busy) < PoolSize
    /\ work' = [work EXCEPT ![i] = "running"]
    /\ queue' = Tail(queue)
    /\ UNCHANGED stop_flag

\* The work callback of i returns; its completion is posted to the loop.
WorkerReturns(i) ==
    /\ work[i] = "running"
    /\ work' = [work EXCEPT ![i] = "returned"]
    /\ UNCHANGED <<queue, stop_flag>>

\* uv_cancel of a request no worker has taken: it leaves the queue and its
\* completion is posted.  A request in any other state is not affected
\* (UV_EBUSY), which callers see as UNCHANGED.
uv_cancel(i) ==
    /\ work[i] = "queued"
    /\ work' = [work EXCEPT ![i] = "returned"]
    /\ \E k \in DOMAIN queue : /\ queue[k] = i
                               /\ queue' = RemoveAt(queue, k)
    /\ UNCHANGED stop_flag

\* What one uv_run(UV_RUN_NOWAIT) makes of the items: it runs the after-work
\* callback of every returned one, unless uv_stop was called before it.
Driven ==
    [i \in DOMAIN work |->
        IF work[i] = "returned" /\ ~stop_flag THEN "done" ELSE work[i]]

uv_run_nowait ==
    /\ work' = Driven
    /\ stop_flag' = FALSE
    /\ UNCHANGED queue

\* uv_run(UV_RUN_ONCE) blocks while requests are active and none completed.
uv_run_once ==
    /\ \/ stop_flag
       \/ Active = {}
       \/ \E i \in DOMAIN work : work[i] = "returned"
    /\ uv_run_nowait

uv_stop ==
    /\ stop_flag' = TRUE
    /\ UNCHANGED <<work, queue>>

\* The items a caller's request object pointer can own.
PoolInit(items) ==
    /\ work = [i \in items |-> "null"]
    /\ queue = << >>
    /\ stop_flag = FALSE

=============================================================================
