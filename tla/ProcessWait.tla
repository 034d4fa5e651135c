----------------------------- MODULE ProcessWait -----------------------------
(***************************************************************************)
(* The life of mpp::process handles: the children behind them, the cached  *)
(* exit code, the asynchronous wait on libuv's pool, every waiting call of *)
(* the script API (wait, try_wait, wait_poll, wait_with, has_exited) and   *)
(* of the C++ API (wait_timeout_ms), the event-loop calls of process.async *)
(* and the destructor that joins work still in flight.                     *)
(*                                                                         *)
(* One OS thread runs every caller: the main program and its fibers.       *)
(* `cur' is the caller that holds that thread; it is NoOne when the holder *)
(* yielded or returned to the script, and then any caller may go on.  Pool *)
(* threads and children run beside it.                                     *)
(*                                                                         *)
(* Definitions named after an operation with a suffix (begin_wait_...) are *)
(* that operation with one plausible mistake; the runs show that the       *)
(* properties notice them.  No action uses them.                           *)
(***************************************************************************)
EXTENDS UvPool, Integers

CONSTANTS
    Procs,               \* process handles, each with the child it spawned
    Daemons,             \* children that never exit by themselves
    Callers,             \* the main program and the fibers
    Fibers,              \* those that run in a fiber and can yield
    Ops,                 \* the API calls the script makes
    Faults,              \* what the environment may do to the library
    Statuses, Signals,   \* exit statuses and fatal signals of children
    NoProc, NoOne, NoCode

AllOps == {"wait", "try_wait", "wait_poll", "wait_with", "has_exited",
           "wait_timeout_ms", "communicate", "begin_communicate", "poll",
           "poll_once", "stop", "destroy"}

\* "external_reap": something else in the program collects the child (a
\* SIGCHLD handler, SIGCHLD set to SIG_IGN).  "pid_reuse": the PID of a child
\* that was reaped goes to another child of the program.  "submit_fail":
\* uv_queue_work refuses a request.  "throw": the on_wait callback of
\* wait_with throws.
AllFaults == {"external_reap", "pid_reuse", "submit_fail", "throw"}

ASSUME ProcessAssumption ==
    /\ Fibers \subseteq Callers
    /\ Daemons \subseteq Procs
    /\ Ops \subseteq AllOps
    /\ Faults \subseteq AllFaults
    /\ Statuses \subseteq 0..255
    /\ Signals \subseteq 1..64
    /\ NoProc \notin Procs
    /\ NoOne \notin Callers
    /\ NoCode \notin Int

VARIABLES
    child,               \* "running", "zombie" or "reaped"
    fate,                \* how the child ended, as waitid reports it
    taker,               \* the other child that has the PID now, if any
    taker_fate,          \* how it ended, while it is a zombie
    taker_codes,         \* the codes of all that had the PID after the child
    handle,              \* "live", "closing" (in ~member_holder), "destroyed"
    exit_code,           \* _exit_code, NoCode for nullopt
    observed_exited,     \* _observed_exited
    work_code,           \* _wait_work->exit_code
    pc, op, on, limit,   \* where each caller is, in which call, on what
    ret,                 \* what its last call returned
    cur                  \* who holds the OS thread

pidVars    == <<taker, taker_fate, taker_codes>>
childVars  == <<child, fate, pidVars>>
holderVars == <<exit_code, observed_exited>>
callVars   == <<pc, op, on, limit, ret, cur>>
vars == <<poolVars, childVars, handle, holderVars, work_code, callVars>>

Kinds == {"wait", "out", "err"}
Items == Procs \X Kinds
WaitWork(p) == <<p, "wait">>

Endings == [code : {"CLD_EXITED"}, status : Statuses]
             \cup [code : {"CLD_KILLED", "CLD_DUMPED"}, status : Signals]
NoEnding == [code |-> "none", status |-> 0]

PCs == {"idle", "poll", "collect", "timed", "timed_reap", "poll_once",
        "join_wait", "join_out", "join_err",
        "comm_poll", "comm_out", "comm_err"}       \* Communicate only

Returned(is, code) == [is |-> is, code |-> code]
Nothing == Returned("nothing", 0)

-----------------------------------------------------------------------------
(* The children and the operating system.                                  *)

\* The exit-code convention of the API for a child that ended as e: the
\* child's own status, or 128 + the signal that killed it.
ConventionalCode(e) ==
    CASE e.code = "CLD_EXITED" -> e.status
      [] e.code \in {"CLD_KILLED", "CLD_DUMPED"} -> 128 + e.status
      [] OTHER -> -1

\* A child ends by itself or by a signal; it stays a zombie until reaped.
ChildExits(p) ==
    /\ child[p] = "running"
    /\ p \notin Daemons
    /\ \E e \in Endings : fate' = [fate EXCEPT ![p] = e]
    /\ child' = [child EXCEPT ![p] = "zombie"]
    /\ UNCHANGED <<pidVars, poolVars, handle, holderVars, work_code, callVars>>

\* A SIGCHLD handler of the host program, or SIG_IGN, takes the status away.
ExternalReap(p) ==
    /\ "external_reap" \in Faults
    /\ child[p] = "zombie"
    /\ child' = [child EXCEPT ![p] = "reaped"]
    /\ UNCHANGED <<fate, pidVars, poolVars, handle, holderVars, work_code, callVars>>

\* Between two calls the program starts another child, and the system gives
\* it a PID that is free.  That child ends and is reaped by its own handle,
\* which this module does not model further.
TakesPid(p) ==
    /\ "pid_reuse" \in Faults /\ cur = NoOne
    /\ child[p] = "reaped" /\ taker[p] \in {"none", "gone"}
    /\ taker' = [taker EXCEPT ![p] = "running"]
    /\ UNCHANGED <<child, fate, taker_fate, taker_codes>>
    /\ UNCHANGED <<poolVars, handle, holderVars, work_code, callVars>>

TakerExits(p) ==
    /\ taker[p] = "running"
    /\ taker' = [taker EXCEPT ![p] = "zombie"]
    /\ \E e \in Endings :
          /\ taker_fate' = [taker_fate EXCEPT ![p] = e]
          /\ taker_codes' = [taker_codes EXCEPT ![p] = @ \cup {ConventionalCode(e)}]
    /\ UNCHANGED <<child, fate>>
    /\ UNCHANGED <<poolVars, handle, holderVars, work_code, callVars>>

\* waitid(P_PID) speaks of whatever child of the program has the PID.
Running(p) == "running" \in {child[p], taker[p]}
Zombie(p) == "zombie" \in {child[p], taker[p]}

Reap(p) ==
    /\ child' = [child EXCEPT ![p] = IF @ = "zombie" THEN "reaped" ELSE @]
    /\ taker' = [taker EXCEPT ![p] = IF @ = "zombie" THEN "gone" ELSE @]
    /\ taker_fate' = [taker_fate EXCEPT ![p] = NoEnding]
    /\ UNCHANGED <<fate, taker_codes>>

TakerReaped(p) ==
    /\ taker[p] = "zombie"
    /\ Reap(p)
    /\ UNCHANGED <<poolVars, handle, holderVars, work_code, callVars>>

\* The exit code made of a siginfo_t.
status_of_NoSignalBit(si) == si.status

status_of(si) ==
    IF si.code = "CLD_EXITED" THEN si.status ELSE 128 + si.status

reported_status(p) ==
    status_of(IF child[p] = "zombie" THEN fate[p] ELSE taker_fate[p])

\* poll_process_status: waitid(WEXITED | WNOHANG | WNOWAIT) never reaps.
\* process_exited is true of a zombie, and when no child of the program has
\* the PID (ECHILD).
process_exited_NoEventIsExit(p) == TRUE

process_exited(p) == ~Running(p)

\* wait_for: blocks until waitid(WEXITED) has something to say, reaps what it
\* speaks of and decodes its status; 0 when there is no such child (ECHILD).
wait_for_result_NoEchildCase(p) ==
    IF Zombie(p) THEN reported_status(p) ELSE -1

wait_for_result(p) ==
    IF Zombie(p) THEN reported_status(p) ELSE 0

wait_for(p) == ~Running(p) /\ Reap(p)

-----------------------------------------------------------------------------
(* The pool threads.                                                       *)

Take(i) ==
    /\ WorkerTakes(i)
    /\ UNCHANGED <<childVars, handle, holderVars, work_code, callVars>>

\* wait_work_cb: the blocking wait_for of one process on a pool thread.
wait_work_cb(p) ==
    /\ WorkerReturns(WaitWork(p))
    /\ wait_for(p)
    /\ work_code' = [work_code EXCEPT ![p] = wait_for_result(p)]
    /\ UNCHANGED <<handle, holderVars, callVars>>

-----------------------------------------------------------------------------
(* mpp::process.                                                           *)

HasWork(p) == work[WaitWork(p)] # "null"

\* begin_wait: idempotent; a refused submission leaves no work behind.
begin_wait_IgnoresCode(p) ==
    \/ HasWork(p) /\ UNCHANGED poolVars
    \/ ~HasWork(p) /\ uv_queue_work(WaitWork(p))

begin_wait(p) ==
    \/ /\ exit_code[p] # NoCode \/ HasWork(p)
       /\ UNCHANGED poolVars
    \/ /\ exit_code[p] = NoCode /\ ~HasWork(p)
       /\ \/ uv_queue_work(WaitWork(p))
          \/ "submit_fail" \in Faults /\ UNCHANGED poolVars

\* The finished work hands its code over and is released.
take_result_DropsCode(p) ==
    /\ observed_exited' = [observed_exited EXCEPT ![p] = TRUE]
    /\ work' = [Driven EXCEPT ![WaitWork(p)] = "null"]
    /\ UNCHANGED exit_code

take_result(p) ==
    /\ exit_code' = [exit_code EXCEPT ![p] = work_code[p]]
    /\ observed_exited' = [observed_exited EXCEPT ![p] = TRUE]
    /\ work' = [Driven EXCEPT ![WaitWork(p)] = "null"]

\* uv_run(NOWAIT), then take the result if the after-work callback ran.
\* `ready' tells whether it had.
drive_wait_NoUvRun(p, ready) ==
    /\ ready = (work[WaitWork(p)] = "done")
    /\ IF ready THEN take_result(p) ELSE UNCHANGED <<work, holderVars>>
    /\ UNCHANGED <<queue, stop_flag>>

drive_wait(p, ready) ==
    /\ ready = (Driven[WaitWork(p)] = "done")
    /\ IF ready THEN take_result(p)
                ELSE work' = Driven /\ UNCHANGED holderVars
    /\ stop_flag' = FALSE
    /\ UNCHANGED queue

\* poll_wait; has_exited has the same body.
poll_wait(p, r) ==
    \/ /\ exit_code[p] # NoCode \/ observed_exited[p]
       /\ r = TRUE
       /\ UNCHANGED <<holderVars, poolVars>>
    \/ /\ exit_code[p] = NoCode /\ ~observed_exited[p] /\ ~HasWork(p)
       /\ r = process_exited(p)
       /\ observed_exited' = [observed_exited EXCEPT ![p] = r]
       /\ UNCHANGED <<exit_code, poolVars>>
    \/ /\ exit_code[p] = NoCode /\ ~observed_exited[p] /\ HasWork(p)
       /\ drive_wait(p, r)

-----------------------------------------------------------------------------
(* Calls: entry, scheduling, return.                                       *)

Limits == {"finite", "none"}     \* a timeout >= 0, or a negative one

Enter(c, p, o, l, where) ==
    /\ cur = NoOne /\ pc[c] = "idle"
    /\ o \in Ops
    /\ pc' = [pc EXCEPT ![c] = where]
    /\ op' = [op EXCEPT ![c] = o]
    /\ on' = [on EXCEPT ![c] = p]
    /\ limit' = [limit EXCEPT ![c] = l]
    /\ ret' = [ret EXCEPT ![c] = Nothing]
    /\ cur' = c

Return(c, is, code) ==
    /\ pc' = [pc EXCEPT ![c] = "idle"]
    /\ op' = [op EXCEPT ![c] = "none"]
    /\ limit' = [limit EXCEPT ![c] = "none"]
    /\ ret' = [ret EXCEPT ![c] = Returned(is, code)]
    /\ cur' = NoOne
    /\ UNCHANGED on

Goto(c, where) ==
    /\ pc' = [pc EXCEPT ![c] = where]
    /\ cur' = c
    /\ UNCHANGED <<op, on, limit, ret>>

\* The call goes on later; meanwhile `holder' has the OS thread.
Pause(holder) ==
    /\ cur' = holder
    /\ UNCHANGED <<pc, op, on, limit, ret>>

\* A caller that yielded goes on once the thread is free.
MayRun(c) == cur \in {c, NoOne}

\* cs_runtime_yield: a fiber yields, anyone else sleeps on the OS thread.
cs_runtime_yield(c) == Pause(IF c \in Fibers THEN NoOne ELSE c)

-----------------------------------------------------------------------------
(* The waiting calls.                                                      *)

\* wait: in a fiber begin_wait() and poll; elsewhere straight to collect_wait.
wait_FiberCollects(c, p) ==
    /\ handle[p] = "live"
    /\ Enter(c, p, "wait", "none", "collect")
    /\ begin_wait(p)
    /\ UNCHANGED <<childVars, handle, holderVars, work_code>>

wait(c, p) ==
    /\ handle[p] = "live"
    /\ \/ /\ c \in Fibers
          /\ Enter(c, p, "wait", "none", "poll")
          /\ begin_wait(p)
       \/ /\ c \notin Fibers
          /\ Enter(c, p, "wait", "none", "collect")
          /\ UNCHANGED poolVars
    /\ UNCHANGED <<childVars, handle, holderVars, work_code>>

try_wait(c, p) ==
    /\ handle[p] = "live"
    /\ Enter(c, p, "try_wait", "none", "poll")
    /\ UNCHANGED <<poolVars, childVars, handle, holderVars, work_code>>

has_exited(c, p) ==
    /\ handle[p] = "live"
    /\ Enter(c, p, "has_exited", "none", "poll")
    /\ UNCHANGED <<poolVars, childVars, handle, holderVars, work_code>>

wait_poll(c, p) ==
    /\ handle[p] = "live"
    /\ \E l \in Limits : Enter(c, p, "wait_poll", l, "poll")
    /\ begin_wait(p)
    /\ UNCHANGED <<childVars, handle, holderVars, work_code>>

wait_with(c, p) ==
    /\ handle[p] = "live"
    /\ \E l \in Limits : Enter(c, p, "wait_with", l, "poll")
    /\ begin_wait(p)
    /\ UNCHANGED <<childVars, handle, holderVars, work_code>>

\* What a call does when poll_wait() said no.  The clock is not modelled: a
\* finite deadline may have passed at any miss.
on_miss(c) ==
    \/ /\ op[c] = "wait"
       /\ Pause(NoOne)                           \* cs::fiber::yield
    \/ /\ op[c] = "try_wait"
       /\ Return(c, "null", 0)
    \/ /\ op[c] = "has_exited"
       /\ Return(c, "false", 0)
    \/ /\ op[c] \in {"wait_poll", "wait_with"}
       /\ limit[c] = "finite"
       /\ Return(c, "null", 0)                   \* deadline passed
    \/ /\ op[c] = "wait_poll"
       /\ cs_runtime_yield(c)
    \/ /\ op[c] = "wait_with"                    \* on_wait runs other code
       /\ \/ Pause(NoOne)
          \/ "throw" \in Faults /\ Return(c, "throw", 0)

on_hit(c) ==
    IF op[c] = "has_exited" THEN Return(c, "true", 0) ELSE Goto(c, "collect")

\* One round of the polling loop a call is in.
Poll(c) ==
    /\ pc[c] = "poll" /\ MayRun(c)
    /\ \E r \in BOOLEAN : /\ poll_wait(on[c], r)
                           /\ IF r THEN on_hit(c) ELSE on_miss(c)
    /\ UNCHANGED <<childVars, handle, work_code>>

\* collect_wait: the cached code; else the work's, driving the loop without
\* giving up the OS thread; else a synchronous wait_for.
collect_cached(c) ==
    /\ exit_code[on[c]] # NoCode
    /\ Return(c, "code", exit_code[on[c]])
    /\ UNCHANGED <<poolVars, childVars, holderVars>>

collect_work(c) ==
    /\ exit_code[on[c]] = NoCode /\ HasWork(on[c])
    /\ \E ready \in BOOLEAN :
          /\ drive_wait(on[c], ready)
          /\ IF ready THEN Return(c, "code", work_code[on[c]]) ELSE Pause(c)
    /\ UNCHANGED childVars

collect_sync_IgnoresWork(c) ==
    /\ exit_code[on[c]] = NoCode
    /\ wait_for(on[c])
    /\ exit_code' = [exit_code EXCEPT ![on[c]] = wait_for_result(on[c])]
    /\ Return(c, "code", wait_for_result(on[c]))
    /\ UNCHANGED <<poolVars, observed_exited>>

collect_sync_IgnoresCache(c) ==
    /\ ~HasWork(on[c])
    /\ wait_for(on[c])
    /\ exit_code' = [exit_code EXCEPT ![on[c]] = wait_for_result(on[c])]
    /\ Return(c, "code", wait_for_result(on[c]))
    /\ UNCHANGED <<poolVars, observed_exited>>

collect_sync(c) ==
    /\ exit_code[on[c]] = NoCode /\ ~HasWork(on[c])
    /\ wait_for(on[c])
    /\ exit_code' = [exit_code EXCEPT ![on[c]] = wait_for_result(on[c])]
    /\ Return(c, "code", wait_for_result(on[c]))
    /\ UNCHANGED <<poolVars, observed_exited>>

collect_wait(c) ==
    /\ pc[c] = "collect" /\ MayRun(c)
    /\ collect_cached(c) \/ collect_work(c) \/ collect_sync(c)
    /\ UNCHANGED <<handle, work_code>>

-----------------------------------------------------------------------------
(* wait_timeout_ms: the C++ call that polls the OS itself.  It holds the   *)
(* OS thread throughout and does not look at _wait_work.                   *)

wait_timeout_ms(c, p) ==
    /\ handle[p] = "live"
    /\ \E l \in Limits : Enter(c, p, "wait_timeout_ms", l, "timed")
    /\ UNCHANGED <<poolVars, childVars, handle, holderVars, work_code>>

StoreAndReturn(c, code) ==
    /\ exit_code' = [exit_code EXCEPT ![on[c]] = code]
    /\ Return(c, "code", code)
    /\ UNCHANGED <<poolVars, handle, observed_exited, work_code>>

timed_cached(c) ==
    /\ exit_code[on[c]] # NoCode
    /\ Return(c, "code", exit_code[on[c]])
    /\ UNCHANGED <<poolVars, childVars, handle, holderVars, work_code>>

\* A negative timeout blocks in wait_for.
timed_forever(c) ==
    /\ limit[c] = "none"
    /\ wait_for(on[c])
    /\ StoreAndReturn(c, wait_for_result(on[c]))

\* poll_process_status has a status: keep it, reap next.
timed_seen(c) ==
    /\ limit[c] = "finite" /\ Zombie(on[c])
    /\ pc' = [pc EXCEPT ![c] = "timed_reap"]
    /\ ret' = [ret EXCEPT ![c] = Returned("pending", reported_status(on[c]))]
    /\ cur' = c
    /\ UNCHANGED <<poolVars, childVars, handle, holderVars, work_code,
                   op, on, limit>>

\* ECHILD: whoever reaped the child, the code is taken to be 0.
timed_gone(c) ==
    /\ limit[c] = "finite" /\ ~Running(on[c]) /\ ~Zombie(on[c])
    /\ StoreAndReturn(c, 0)
    /\ UNCHANGED childVars

timed_out(c) ==
    /\ limit[c] = "finite" /\ Running(on[c])
    /\ Return(c, "null", 0)
    /\ UNCHANGED <<poolVars, childVars, handle, holderVars, work_code>>

timed_poll(c) ==
    /\ pc[c] = "timed" /\ MayRun(c)
    /\ \/ timed_cached(c)
       \/ /\ exit_code[on[c]] = NoCode
          /\ timed_forever(c) \/ timed_seen(c) \/ timed_gone(c) \/ timed_out(c)

\* waitid(WEXITED | WNOHANG) after the WNOWAIT look; its failure is ignored.
timed_reap(c) ==
    /\ pc[c] = "timed_reap" /\ MayRun(c)
    /\ Reap(on[c])
    /\ StoreAndReturn(c, ret[c].code)

-----------------------------------------------------------------------------
(* process.async: the event loop in the script's hands.                    *)

async_poll ==
    /\ "poll" \in Ops /\ cur = NoOne
    /\ uv_run_nowait
    /\ UNCHANGED <<childVars, handle, holderVars, work_code, callVars>>

async_stop ==
    /\ "stop" \in Ops /\ cur = NoOne
    /\ uv_stop
    /\ UNCHANGED <<childVars, handle, holderVars, work_code, callVars>>

async_poll_once(c) ==
    /\ Enter(c, NoProc, "poll_once", "none", "poll_once")
    /\ UNCHANGED <<poolVars, childVars, handle, holderVars, work_code>>

poll_once(c) ==
    /\ pc[c] = "poll_once" /\ MayRun(c)
    /\ uv_run_once
    /\ Return(c, "nothing", 0)
    /\ UNCHANGED <<childVars, handle, holderVars, work_code>>

-----------------------------------------------------------------------------
(* ~member_holder: join the wait, stdout and stderr work, then close.      *)

\* The last shared_ptr to the process is dropped: no call on p is under way.
destroy(c, p) ==
    /\ handle[p] = "live"
    /\ \A d \in Callers : pc[d] # "idle" => on[d] # p
    /\ Enter(c, p, "destroy", "none", "join_wait")
    /\ handle' = [handle EXCEPT ![p] = "closing"]
    /\ UNCHANGED <<poolVars, childVars, holderVars, work_code>>

JoinAt == [wait |-> "join_wait", out |-> "join_out", err |-> "join_err"]

\* After the last join close_process() closes the pipe ends.
joined(c, k) ==
    \/ k = "wait" /\ Goto(c, "join_out") /\ UNCHANGED handle
    \/ k = "out"  /\ Goto(c, "join_err") /\ UNCHANGED handle
    \/ /\ k = "err"
       /\ Return(c, "nothing", 0)
       /\ handle' = [handle EXCEPT ![on[c]] = "destroyed"]

\* await_work: nothing to join; cancel what no worker took; drive the loop
\* until the after-work callback ran; release the work.
await_work_NoSpin(c, k) ==
    /\ pc[c] = JoinAt[k] /\ MayRun(c)
    /\ joined(c, k)
    /\ UNCHANGED <<poolVars, childVars, holderVars, work_code>>

await_work(c, k) ==
    /\ pc[c] = JoinAt[k] /\ MayRun(c)
    /\ LET i == <<on[c], k>> IN
       \/ /\ work[i] = "null"
          /\ joined(c, k)
          /\ UNCHANGED poolVars
       \/ /\ uv_cancel(i)
          /\ Pause(c) /\ UNCHANGED handle
       \/ /\ work[i] \in {"running", "returned"}
          /\ uv_run_nowait
          /\ Pause(c) /\ UNCHANGED handle
       \/ /\ work[i] = "done"
          /\ work' = [work EXCEPT ![i] = "null"]
          /\ joined(c, k)
          /\ UNCHANGED <<queue, stop_flag>>
    /\ UNCHANGED <<childVars, holderVars, work_code>>

-----------------------------------------------------------------------------

Init ==
    /\ PoolInit(Items)
    /\ child = [p \in Procs |-> "running"]
    /\ fate = [p \in Procs |-> NoEnding]
    /\ taker = [p \in Procs |-> "none"]
    /\ taker_fate = [p \in Procs |-> NoEnding]
    /\ taker_codes = [p \in Procs |-> {}]
    /\ handle = [p \in Procs |-> "live"]
    /\ exit_code = [p \in Procs |-> NoCode]
    /\ observed_exited = [p \in Procs |-> FALSE]
    /\ work_code = [p \in Procs |-> 0]
    /\ pc = [c \in Callers |-> "idle"]
    /\ op = [c \in Callers |-> "none"]
    /\ on = [c \in Callers |-> NoProc]
    /\ limit = [c \in Callers |-> "none"]
    /\ ret = [c \in Callers |-> Nothing]
    /\ cur = NoOne

\* The script starts a call.
Call(c, p) ==
    \/ wait(c, p) \/ try_wait(c, p) \/ has_exited(c, p)
    \/ wait_poll(c, p) \/ wait_with(c, p)
    \/ wait_timeout_ms(c, p) \/ destroy(c, p)

\* A call under way takes its next step.
Step(c) ==
    \/ Poll(c) \/ collect_wait(c) \/ timed_poll(c) \/ timed_reap(c)
    \/ poll_once(c)
    \/ \E k \in Kinds : await_work(c, k)

Next ==
    \/ \E p \in Procs : ChildExits(p) \/ ExternalReap(p) \/ wait_work_cb(p)
    \/ \E p \in Procs : TakesPid(p) \/ TakerExits(p) \/ TakerReaped(p)
    \/ \E i \in Items : Take(i)
    \/ \E c \in Callers, p \in Procs : Call(c, p)
    \/ \E c \in Callers : Step(c) \/ async_poll_once(c)
    \/ async_poll \/ async_stop

Spec == Init /\ [][Next]_vars

\* Children that are not daemons exit; a pool thread that can run runs; the
\* script keeps resuming its fibers, so a call that can take a step again
\* and again takes one.  Nothing makes the script start another call.
Fairness ==
    /\ \A p \in Procs : WF_vars(ChildExits(p)) /\ WF_vars(wait_work_cb(p))
    /\ \A i \in Items : WF_vars(Take(i))
    /\ \A c \in Callers : SF_vars(Step(c))

FairSpec == Spec /\ Fairness

-----------------------------------------------------------------------------
(* Properties.                                                             *)

Codes == Statuses \cup {128 + s : s \in Signals} \cup {0}

Answers == {"nothing", "null", "true", "false", "throw", "code", "pending"}

PoolTypeOK ==
    /\ work \in [Items -> WorkStates]
    /\ queue \in Seq(Items)
    /\ stop_flag \in BOOLEAN

ChildTypeOK ==
    /\ child \in [Procs -> {"running", "zombie", "reaped"}]
    /\ fate \in [Procs -> Endings \cup {NoEnding}]
    /\ taker \in [Procs -> {"none", "running", "zombie", "gone"}]
    /\ taker_fate \in [Procs -> Endings \cup {NoEnding}]
    /\ taker_codes \in [Procs -> SUBSET Codes]

HolderTypeOK ==
    /\ handle \in [Procs -> {"live", "closing", "destroyed"}]
    /\ exit_code \in [Procs -> Codes \cup {NoCode}]
    /\ observed_exited \in [Procs -> BOOLEAN]
    /\ work_code \in [Procs -> Codes]

CallTypeOK ==
    /\ pc \in [Callers -> PCs]
    /\ op \in [Callers -> AllOps \cup {"none"}]
    /\ on \in [Callers -> Procs \cup {NoProc}]
    /\ limit \in [Callers -> Limits]
    /\ ret \in [Callers -> [is : Answers, code : Codes]]
    /\ cur \in Callers \cup {NoOne}

\* Every variable has its type: in particular exit codes stay within those the
\* statuses and signals of children can make, and a call knows its process.
TypeOK == PoolTypeOK /\ ChildTypeOK /\ HolderTypeOK /\ CallTypeOK

\* Every code the library caches in _exit_code, and every code a waiting
\* call returns, is the conventional code of how that very child ended,
\* whichever of the pool thread, collect_wait()'s fallback or another
\* caller reaped it and however their steps interleaved.
ExitCodeFaithful ==
    /\ \A p \in Procs :
          exit_code[p] # NoCode => exit_code[p] = ConventionalCode(fate[p])
    /\ \A c \in Callers :
          ret[c].is = "code" => ret[c].code = ConventionalCode(fate[on[c]])

\* When someone else may reap the child, the library caches and answers the
\* true code or 0 or, once the freed PID went to another child of the program,
\* the code of that child, which a wait then takes for its own; never one of
\* another origin.
RightOrZero(p, code) ==
    code \in {0, ConventionalCode(fate[p])} \cup taker_codes[p]

ExitCodeRightOrZero ==
    /\ \A p \in Procs : exit_code[p] # NoCode => RightOrZero(p, exit_code[p])
    /\ \A c \in Callers : ret[c].is = "code" => RightOrZero(on[c], ret[c].code)

\* The blocking waitid in wait_for, on a pool thread or on the OS thread, is
\* never outstanding for a child that was reaped: its PID may already name
\* another child of the program.
NeverWaitsForReapedPid ==
    \A p \in Procs :
        child[p] = "reaped" =>
            /\ work[WaitWork(p)] \notin {"queued", "running"}
            /\ \A c \in Callers :
                  (pc[c] = "collect" /\ on[c] = p /\ ~HasWork(p))
                      => exit_code[p] # NoCode

\* has_exited() and poll_wait() never call a child exited while it runs: the
\* cached observation, the cached code and a "true" that was returned all
\* outlive the moment they were made.
ExitedOnlyIfGone ==
    /\ \A p \in Procs :
          observed_exited[p] \/ exit_code[p] # NoCode => child[p] # "running"
    /\ \A c \in Callers : ret[c].is = "true" => child[on[c]] # "running"

\* While its handle is live, a reaped child's status is never lost: it is in
\* _exit_code or in work whose completion is on its way.
StatusNeverLost ==
    \A p \in Procs :
        (handle[p] = "live" /\ child[p] = "reaped") =>
            \/ exit_code[p] # NoCode
            \/ work[WaitWork(p)] \in {"returned", "done"}

\* Work refers to the process_info and the streams inside member_holder: once
\* the destructor is through, no work of that process is left anywhere, and
\* each kind is joined before the next.
WorkJoinedBeforeFree ==
    /\ \A p \in Procs, k \in Kinds :
          handle[p] = "destroyed" => work[<<p, k>>] = "null"
    /\ \A c \in Callers :
          /\ pc[c] \in {"join_out", "join_err"} => ~HasWork(on[c])
          /\ pc[c] = "join_err" => work[<<on[c], "out">>] = "null"

\* The code of a process, once cached, never changes.
CodeNeverChanges ==
    [][\A p \in Procs : exit_code[p] # NoCode => exit_code'[p] = exit_code[p]]_vars

\* A fiber that waits with wait(), try_wait(), wait_poll() or wait_with()
\* enters collect_wait(), which does not yield, only when the child it waits
\* for is gone.
FibersCollectOnlyTheGone ==
    \A c \in Fibers : pc[c] = "collect" => child[on[c]] # "running"

-----------------------------------------------------------------------------
(* The abstract specification and the mapping of the state onto it.        *)

Ended == [p \in Procs |->
            IF child[p] = "running" THEN NoCode ELSE ConventionalCode(fate[p])]

Known == [p \in Procs |-> observed_exited[p] \/ exit_code[p] # NoCode]

Open == [p \in Procs |-> handle[p] = "live"]

Promise == INSTANCE ExitPromise WITH
    ExitCodes <- Codes, ended <- Ended, known <- Known, open <- Open

\* Seen from its callers a process handle is a one-shot promise: each step of
\* the pool threads, the event loop and the polling loops is a step of
\* ExitPromise or changes nothing there, so that no caller is told that a
\* child runs after any caller has been told that it ended.
KeepsPromise == Promise!PromiseSafe

\* When every child that is waited for can get a pool thread, a wait on a
\* child that ended is answered, and so is a destructor.
AnswersWaits == Promise!Answered

=============================================================================
